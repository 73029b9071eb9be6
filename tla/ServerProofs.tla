---------------------------- MODULE ServerProofs ----------------------------
(***************************************************************************)
(* Proofs about the handlers and the start of the web server: FaucetClaims, *)
(* for any number of claims, any window and any number of restarts and lost *)
(* INSERTs, and Migrations, for any servers, migrations and failures.       *)
(***************************************************************************)
EXTENDS FaucetClaims, Migrations, IndexLemmas, FiniteSetTheorems

-----------------------------------------------------------------------------
(* FaucetClaims *)

Sending(c) == step[c] \in {"inserting", "inserted"}

\* The types, and a transaction that is being submitted has its nonce.
FaucetTyped == FaucetTypeOK /\ \A c \in Claims : Sending(c) => nonce[c] \in Nat

LEMMA FaucetInitTyped == FaucetInit => FaucetTyped
<1> SUFFICES ASSUME FaucetInit PROVE FaucetTyped
  OBVIOUS
<1> USE DEF FaucetInit
<1>1. step \in [Claims -> Steps] /\ \A c \in Claims : ~Sending(c)
  BY DEF Steps, Sending
<1>2. answer \in [Claims -> Nat \union {None}] /\ nonce \in [Claims -> Nat \union {None}]
  OBVIOUS
<1>3. /\ lastFaucetNonce \in Nat \union {None} /\ accountNonce \in Nat /\ stateNonce \in Nat
      /\ raced \in BOOLEAN /\ webRestarts \in Nat /\ to \in [Claims -> Addresses]
  OBVIOUS
<1>4. /\ pending \subseteq Transactions /\ confirmed \subseteq Transactions
      /\ knownHashes \subseteq Transactions /\ granted \subseteq Claims /\ lost \subseteq Nat
  OBVIOUS
<1> QED
  BY <1>1, <1>2, <1>3, <1>4 DEF FaucetTyped, FaucetTypeOK

LEMMA ExpectedType ==
  ASSUME FaucetTypeOK, NEW c \in Claims
  PROVE  /\ Expected(c) \in Nat /\ NextNonce(c) \in Nat
         /\ Expected(c) = stateNonce \/ Expected(c) = answer[c]
         /\ NextNonce(c) = Expected(c) \/ NextNonce(c) = lastFaucetNonce + 1
         /\ NextNonce(c) > lastFaucetNonce
BY DEF FaucetTypeOK, Expected, NextNonce, None

(* What Submit leaves, whichever way it ends. *)
LEMMA SubmitCases ==
  ASSUME FaucetTyped, NEW c \in Claims, Submit(c)
  PROVE  /\ stateNonce' = Expected(c) /\ answer' = [answer EXCEPT ![c] = None]
         /\ UNCHANGED <<pending, confirmed, accountNonce, to, granted, lost, webRestarts>>
         /\ UNCHANGED lastFaucetNonce
         /\ step[c] = "submitting"
         /\ \/ /\ step' = [step EXCEPT ![c] = "inserting"]
               /\ nonce' = [nonce EXCEPT ![c] = NextNonce(c)]
               /\ knownHashes' = knownHashes \union {[to |-> to[c], nonce |-> NextNonce(c)]}
               /\ raced' = (raced \/ \E d \in Claims : Sending(d))
            \/ step' = [step EXCEPT ![c] = "refused"] /\ UNCHANGED <<knownHashes, nonce, raced>>
BY DEF Submit, Accept, Reject, Goto, At, rows, Sending

LEMMA FaucetNextTyped == FaucetTyped /\ [FaucetNext]_faucetVars => FaucetTyped'
<1> SUFFICES ASSUME FaucetTyped, [FaucetNext]_faucetVars PROVE FaucetTyped'
  OBVIOUS
<1> USE DEF FaucetTypeOK
<1>1. CASE UNCHANGED faucetVars
  BY <1>1 DEF FaucetTyped, Sending, faucetVars, rows, process, request, faucetHistory
<1>2. ASSUME NEW c \in Claims, RefreshAccount(c) PROVE FaucetTyped'
  BY <1>2
  DEF FaucetTyped, Sending, RefreshAccount, At, Goto, Steps, None, rows, process, faucetHistory
<1>3. ASSUME NEW c \in Claims, Submit(c) PROVE FaucetTyped'
  <2>1. Expected(c) \in Nat /\ NextNonce(c) \in Nat
    BY ExpectedType DEF FaucetTyped
  <2>2. [to |-> to[c], nonce |-> NextNonce(c)] \in Transactions
    BY <2>1 DEF Transactions, FaucetTyped
  <2>3. step' \in [Claims -> Steps] /\ nonce' \in [Claims -> Nat \union {None}]
    BY <1>3, <2>1, SubmitCases DEF FaucetTyped, Steps
  <2>4. /\ knownHashes' \subseteq Transactions /\ raced' \in BOOLEAN
        /\ answer' \in [Claims -> Nat \union {None}] /\ stateNonce' \in Nat
    BY <1>3, <2>1, <2>2, SubmitCases DEF FaucetTyped
  <2>5. FaucetTypeOK'
    BY <1>3, <2>3, <2>4, SubmitCases DEF FaucetTyped
  <2>6. ASSUME NEW d \in Claims, Sending(d)' PROVE nonce'[d] \in Nat
    BY <1>3, <2>1, <2>6, SubmitCases DEF FaucetTyped, Sending, Steps
  <2> QED
    BY <2>5, <2>6 DEF FaucetTyped
<1>4. ASSUME NEW c \in Claims, InsertTransaction(c) PROVE FaucetTyped'
  <2>1. Transaction(c) \in Transactions
    BY <1>4 DEF Transaction, Transactions, FaucetTyped, Sending, InsertTransaction, At
  <2> QED
    BY <1>4, <2>1
    DEF FaucetTyped, Sending, InsertTransaction, At, Goto, Steps, process, faucetHistory
<1>5. ASSUME NEW c \in Claims, InsertFails(c) PROVE FaucetTyped'
  BY <1>5 DEF FaucetTyped, Sending, InsertFails, At, Goto, Steps, process, rows
<1>6. ASSUME NEW c \in Claims, Grant(c) PROVE FaucetTyped'
  BY <1>6 DEF FaucetTyped, Sending, Grant, At, Goto, Steps, rows
<1>7. ASSUME NEW tx \in pending, Mine(tx) PROVE FaucetTyped'
  <2>1. tx \in Transactions /\ accountNonce + 1 \in Nat
    BY DEF FaucetTyped
  <2> QED
    BY <1>7, <2>1 DEF FaucetTyped, Sending, Mine, process, request, faucetHistory
<1>8. CASE RestartWeb
  <2>1. /\ step' \in [Claims -> Steps] /\ answer' \in [Claims -> Nat \union {None}]
        /\ \A c \in Claims : ~Sending(c)'
    BY <1>8 DEF FaucetTyped, Sending, RestartWeb, Steps
  <2>2. /\ knownHashes' \subseteq Transactions /\ granted' \subseteq Claims
        /\ webRestarts' \in Nat /\ lastFaucetNonce' \in Nat \union {None} /\ stateNonce' \in Nat
    BY <1>8 DEF FaucetTyped, RestartWeb, None
  <2>3. raced' \in BOOLEAN
    BY <1>8, Zenon DEF RestartWeb
  <2> QED
    BY <1>8, <2>1, <2>2, <2>3 DEF FaucetTyped, RestartWeb, rows
<1> QED
  BY <1>1, <1>2, <1>3, <1>4, <1>5, <1>6, <1>7, <1>8 DEF FaucetNext, Claim

(* The variables of FaucetClaims have their types in every state. *)
THEOREM FaucetType == FaucetSpec => []FaucetTypeOK
<1>1. FaucetTyped => FaucetTypeOK
  BY DEF FaucetTyped
<1> QED
  BY <1>1, FaucetInitTyped, FaucetNextTyped, PTL DEF FaucetSpec

-----------------------------------------------------------------------------
\* A transaction of this nonce exists or existed, or its INSERT failed.
Taken(n) == n < accountNonce \/ n \in lost \/ \E tx \in pending : tx.nonce = n

\* No nonce of the faucet below n is left out.
TakenBelow(n) == \A m \in Nat : m < n => Taken(m)

\* What a process knows of the account's nonce was the account's nonce once.
AnswerInv == stateNonce <= accountNonce /\ \A c \in Claims : answer[c] <= accountNonce

\* Nothing is left out below the tracker, below a transaction that is being
\* submitted, or below a pending one; confirmed ones have spent their nonce.
TrackerInv == TakenBelow(lastFaucetNonce + 1)
SendingOk(c) ==
  /\ Sending(c) => TakenBelow(nonce[c])
  /\ step[c] = "inserted" => Taken(nonce[c])
SendingInv == \A c \in Claims : SendingOk(c)
PendingInv == \A tx \in pending : TakenBelow(tx.nonce)
ConfirmedInv == \A tx \in confirmed : tx.nonce < accountNonce

GapInv ==
  FaucetTyped /\ AnswerInv /\ TrackerInv /\ SendingInv /\ PendingInv /\ ConfirmedInv

(* A nonce that is taken stays taken if no row vanishes but by being mined. *)
LEMMA StaysTaken ==
  ASSUME FaucetTypeOK, accountNonce' \in Nat, accountNonce <= accountNonce', lost \subseteq lost',
         \A tx \in pending : tx \in pending' \/ tx.nonce < accountNonce'
  PROVE  /\ \A n \in Nat : Taken(n) => Taken(n)'
         /\ \A n \in Int : TakenBelow(n) => TakenBelow(n)'
<1>1. ASSUME NEW n \in Nat, Taken(n) PROVE Taken(n)'
  BY <1>1 DEF Taken, FaucetTypeOK
<1> QED
  BY <1>1 DEF TakenBelow

(* A claim that does not move keeps what SendingInv says of it. *)
LEMMA SendingStays ==
  ASSUME FaucetTyped, NEW d \in Claims, SendingOk(d), nonce'[d] = nonce[d],
         \/ step'[d] = step[d]
         \/ ~Sending(d)',
         \A n \in Nat : Taken(n) => Taken(n)',
         \A n \in Int : TakenBelow(n) => TakenBelow(n)'
  PROVE  SendingOk(d)'
<1> DEFINE n == nonce[d]
<1>1. n' = n
  OBVIOUS
<1>2. Sending(d)' => Sending(d) /\ n \in Nat /\ TakenBelow(n)
  BY DEF SendingOk, Sending, FaucetTyped
<1>3. step'[d] = "inserted" => Sending(d)' /\ Taken(n)
  BY DEF SendingOk, Sending
<1> HIDE DEF n
<1>4. /\ n \in Nat /\ TakenBelow(n) => TakenBelow(n)'
      /\ n \in Nat /\ Taken(n) => Taken(n)'
  BY <1>1 DEF TakenBelow, Taken
<1>5. /\ Sending(d)' => TakenBelow(n)'
      /\ step'[d] = "inserted" => Taken(n)'
  BY <1>2, <1>3, <1>4
<1> QED
  BY <1>5 DEF SendingOk, n

LEMMA GapInit == FaucetInit => GapInv
<1> SUFFICES ASSUME FaucetInit PROVE GapInv
  OBVIOUS
<1>1. FaucetTyped
  BY FaucetInitTyped
<1>2. TrackerInv
  BY DEF FaucetInit, TrackerInv, TakenBelow, None
<1> QED
  BY <1>1, <1>2 DEF FaucetInit, GapInv, AnswerInv, SendingInv, SendingOk, Sending, PendingInv,
    ConfirmedInv, None

LEMMA GapNext == GapInv /\ [FaucetNext]_faucetVars => GapInv'
<1> SUFFICES ASSUME GapInv, [FaucetNext]_faucetVars PROVE GapInv'
  OBVIOUS
<1>0. FaucetTyped' /\ FaucetTyped /\ FaucetTypeOK /\ FaucetTypeOK'
  BY FaucetNextTyped DEF GapInv, FaucetTyped
<1>1. CASE UNCHANGED faucetVars
  BY <1>0, <1>1 DEF GapInv, AnswerInv, TrackerInv, SendingInv, SendingOk, Sending, PendingInv,
    ConfirmedInv, TakenBelow, Taken, faucetVars, rows, process, request, faucetHistory
<1>2. ASSUME NEW c \in Claims, RefreshAccount(c) PROVE GapInv'
  <2>1. UNCHANGED <<pending, confirmed, accountNonce, lost, lastFaucetNonce, stateNonce, nonce>>
    BY <1>2 DEF RefreshAccount, rows, process, faucetHistory
  <2>2. AnswerInv'
    BY <1>0, <1>2, <2>1 DEF GapInv, AnswerInv, RefreshAccount, None, FaucetTypeOK
  <2>3. TrackerInv' /\ PendingInv' /\ ConfirmedInv'
    BY <2>1 DEF GapInv, TrackerInv, PendingInv, ConfirmedInv, TakenBelow, Taken
  <2>4. SendingInv'
    BY <1>0, <1>2, <2>1
    DEF GapInv, SendingInv, SendingOk, Sending, TakenBelow, Taken, RefreshAccount, Goto, At,
        FaucetTypeOK
  <2> QED
    BY <1>0, <2>2, <2>3, <2>4 DEF GapInv
<1>3. ASSUME NEW c \in Claims, Submit(c) PROVE GapInv'
  <2>1. UNCHANGED <<pending, confirmed, accountNonce, lost, lastFaucetNonce>>
    BY <1>0, <1>3, SubmitCases
  <2>2. Expected(c) \in Nat /\ Expected(c) <= accountNonce
    BY <1>0, ExpectedType DEF GapInv, AnswerInv
  <2>3. AnswerInv'
    BY <1>0, <1>3, <2>2, SubmitCases DEF GapInv, AnswerInv, None, FaucetTypeOK
  <2>4. TrackerInv' /\ PendingInv' /\ ConfirmedInv'
    BY <2>1 DEF GapInv, TrackerInv, PendingInv, ConfirmedInv, TakenBelow, Taken
  <2>5. TakenBelow(NextNonce(c))
    <3>1. NextNonce(c) = Expected(c) \/ NextNonce(c) = lastFaucetNonce + 1
      BY <1>0, ExpectedType
    <3>2. TakenBelow(Expected(c))
      BY <1>0, <2>2 DEF TakenBelow, Taken, FaucetTypeOK
    <3> QED
      BY <3>1, <3>2 DEF GapInv, TrackerInv
  <2>6. SendingInv'
    <3> SUFFICES ASSUME NEW d \in Claims
                 PROVE  SendingOk(d)'
      BY DEF SendingInv
    <3>1. CASE d = c
      BY <1>0, <1>3, <2>1, <2>5, <3>1, SubmitCases
      DEF SendingOk, Sending, TakenBelow, Taken, FaucetTypeOK
    <3>2. CASE d # c
      BY <1>0, <1>3, <2>1, <3>2, SubmitCases, SendingStays
      DEF GapInv, SendingInv, TakenBelow, Taken, FaucetTypeOK
    <3> QED
      BY <3>1, <3>2
  <2> QED
    BY <1>0, <2>3, <2>4, <2>6 DEF GapInv
<1>4. ASSUME NEW c \in Claims, InsertTransaction(c) PROVE GapInv'
  <2>1. /\ UNCHANGED <<confirmed, accountNonce, lost, lastFaucetNonce, stateNonce, answer, nonce>>
        /\ step[c] = "inserting" /\ step' = [step EXCEPT ![c] = "inserted"]
        /\ pending' = pending \union ({Transaction(c)} \ confirmed)
    BY <1>4 DEF InsertTransaction, At, Goto, process, faucetHistory
  <2>2. /\ \A n \in Nat : Taken(n) => Taken(n)'
        /\ \A n \in Int : TakenBelow(n) => TakenBelow(n)'
    BY <1>0, <2>1, StaysTaken DEF FaucetTypeOK
  <2>3. nonce[c] \in Nat /\ Transaction(c).nonce = nonce[c] /\ TakenBelow(nonce[c])'
    BY <1>0, <2>1, <2>2 DEF FaucetTyped, Sending, GapInv, SendingInv, SendingOk, Transaction
  <2>4. Taken(nonce[c])'
    <3>1. CASE Transaction(c) \in confirmed
      BY <2>1, <2>3, <3>1 DEF GapInv, ConfirmedInv, Taken
    <3>2. CASE Transaction(c) \notin confirmed
      BY <2>1, <2>3, <3>2 DEF Taken
    <3> QED
      BY <3>1, <3>2
  <2>5. AnswerInv' /\ ConfirmedInv'
    BY <2>1 DEF GapInv, AnswerInv, ConfirmedInv
  <2>6. TrackerInv'
    BY <1>0, <2>1, <2>2 DEF GapInv, TrackerInv, FaucetTypeOK, None
  <2>7. PendingInv'
    <3> SUFFICES ASSUME NEW tx \in pending' PROVE TakenBelow(tx.nonce)'
      BY DEF PendingInv
    <3>1. CASE tx \in pending
      BY <1>0, <2>2, <3>1 DEF GapInv, PendingInv, FaucetTypeOK, Transactions
    <3>2. CASE tx = Transaction(c)
      BY <2>3, <3>2, <2>1
    <3> QED
      BY <2>1, <3>1, <3>2
  <2>8. SendingInv'
    <3> SUFFICES ASSUME NEW d \in Claims
                 PROVE  SendingOk(d)'
      BY DEF SendingInv
    <3>1. CASE d = c
      BY <2>1, <2>3, <2>4, <3>1 DEF SendingOk
    <3>2. CASE d # c
      BY <1>0, <2>1, <2>2, <3>2, SendingStays DEF GapInv, SendingInv, FaucetTypeOK
    <3> QED
      BY <3>1, <3>2
  <2> QED
    BY <1>0, <2>5, <2>6, <2>7, <2>8 DEF GapInv
<1>5. ASSUME NEW c \in Claims, InsertFails(c) PROVE GapInv'
  <2>1. /\ UNCHANGED <<pending, confirmed, accountNonce, lastFaucetNonce>>
        /\ UNCHANGED <<stateNonce, answer, nonce>>
        /\ step[c] = "inserting" /\ step' = [step EXCEPT ![c] = "inserted"]
        /\ lost' = lost \union {nonce[c]}
    BY <1>5 DEF InsertFails, At, Goto, process, rows
  <2>2. /\ \A n \in Nat : Taken(n) => Taken(n)'
        /\ \A n \in Int : TakenBelow(n) => TakenBelow(n)'
    BY <1>0, <2>1, StaysTaken DEF FaucetTypeOK
  <2>3. nonce[c] \in Nat /\ TakenBelow(nonce[c])' /\ Taken(nonce[c])'
    BY <1>0, <2>1, <2>2 DEF FaucetTyped, Sending, GapInv, SendingInv, SendingOk, Taken
  <2>4. AnswerInv' /\ ConfirmedInv'
    BY <2>1 DEF GapInv, AnswerInv, ConfirmedInv
  <2>5. TrackerInv' /\ PendingInv'
    BY <1>0, <2>1, <2>2 DEF GapInv, TrackerInv, PendingInv, FaucetTypeOK, Transactions, None
  <2>6. SendingInv'
    <3> SUFFICES ASSUME NEW d \in Claims PROVE SendingOk(d)'
      BY DEF SendingInv
    <3>1. CASE d = c
      BY <2>1, <2>3, <3>1 DEF SendingOk
    <3>2. CASE d # c
      BY <1>0, <2>1, <2>2, <3>2, SendingStays DEF GapInv, SendingInv, FaucetTypeOK
    <3> QED
      BY <3>1, <3>2
  <2> QED
    BY <1>0, <2>4, <2>5, <2>6 DEF GapInv
<1>6. ASSUME NEW c \in Claims, Grant(c) PROVE GapInv'
  <2>1. /\ UNCHANGED <<pending, confirmed, accountNonce, lost, stateNonce, answer, nonce>>
        /\ step[c] = "inserted" /\ step' = [step EXCEPT ![c] = "done"]
        /\ lastFaucetNonce' = nonce[c]
    BY <1>6 DEF Grant, At, Goto, rows
  <2>2. /\ \A n \in Nat : Taken(n) => Taken(n)'
        /\ \A n \in Int : TakenBelow(n) => TakenBelow(n)'
    BY <2>1 DEF TakenBelow, Taken
  <2>3. nonce[c] \in Nat /\ TakenBelow(nonce[c]) /\ Taken(nonce[c])
    BY <1>0, <2>1 DEF FaucetTyped, Sending, GapInv, SendingInv, SendingOk
  <2>4. AnswerInv' /\ ConfirmedInv' /\ PendingInv'
    BY <2>1 DEF GapInv, AnswerInv, ConfirmedInv, PendingInv, TakenBelow, Taken
  <2>5. TrackerInv'
    BY <2>1, <2>3 DEF TrackerInv, TakenBelow, Taken
  <2>6. SendingInv'
    BY <1>0, <2>1, <2>2, SendingStays DEF GapInv, SendingInv, FaucetTypeOK, Sending
  <2> QED
    BY <1>0, <2>4, <2>5, <2>6 DEF GapInv
<1>7. ASSUME NEW tx \in pending, Mine(tx) PROVE GapInv'
  <2>1. /\ UNCHANGED <<lastFaucetNonce, stateNonce, answer, nonce, step, lost>>
        /\ tx.nonce = accountNonce /\ accountNonce' = accountNonce + 1
        /\ pending' = pending \ {tx} /\ confirmed' = confirmed \union {tx}
        /\ accountNonce \in Nat
    BY <1>0, <1>7 DEF Mine, process, request, faucetHistory, FaucetTypeOK
  <2>2. /\ \A n \in Nat : Taken(n) => Taken(n)'
        /\ \A n \in Int : TakenBelow(n) => TakenBelow(n)'
    BY <1>0, <2>1, StaysTaken
  <2>3. AnswerInv' /\ ConfirmedInv'
    BY <1>0, <2>1
    DEF GapInv, AnswerInv, ConfirmedInv, FaucetTypeOK, Transactions, None
  <2>4. TrackerInv' /\ PendingInv'
    BY <1>0, <2>1, <2>2 DEF GapInv, TrackerInv, PendingInv, FaucetTypeOK, Transactions, None
  <2>5. SendingInv'
    BY <1>0, <2>1, <2>2, SendingStays DEF GapInv, SendingInv
  <2> QED
    BY <1>0, <2>3, <2>4, <2>5 DEF GapInv
<1>8. CASE RestartWeb
  <2>1. /\ UNCHANGED <<pending, confirmed, accountNonce, lost>>
        /\ lastFaucetNonce' = None /\ stateNonce' = accountNonce
        /\ \A c \in Claims : answer'[c] = None /\ step'[c] \in {"new", "done", "refused"}
    BY <1>0, <1>8 DEF RestartWeb, rows, FaucetTypeOK
  <2>2. AnswerInv' /\ ConfirmedInv' /\ PendingInv'
    BY <1>0, <2>1
    DEF GapInv, AnswerInv, ConfirmedInv, PendingInv, TakenBelow, Taken, FaucetTypeOK, None
  <2>3. TrackerInv' /\ SendingInv'
    BY <2>1 DEF TrackerInv, SendingInv, SendingOk, Sending, TakenBelow, None
  <2> QED
    BY <1>0, <2>2, <2>3 DEF GapInv
<1> QED
  BY <1>1, <1>2, <1>3, <1>4, <1>5, <1>6, <1>7, <1>8 DEF FaucetNext, Claim

(* No nonce of the faucet is left out below a pending one, unless its INSERT *)
(* failed: neither stale answers to refreshAccount, nor claims that race,    *)
(* nor refused claims, nor a restart that empties the tracker stall the      *)
(* claims after them.                                                        *)
THEOREM NothingLeftOut == FaucetSpec => []NoGap
<1>1. GapInv => NoGap
  BY DEF GapInv, FaucetTyped, FaucetTypeOK, PendingInv, TakenBelow, Taken, NoGap, Transactions
<1> QED
  BY <1>1, GapInit, GapNext, PTL DEF FaucetSpec

-----------------------------------------------------------------------------
\* While no claim has chosen its nonce during the INSERT of another: one claim at
\* most is being submitted, above the tracker, and the accepted ones are at or
\* below the tracker, each with a nonce of its own.
OneSending ==
  \A c, d \in Claims : Sending(c) /\ Sending(d) => c = d
AboveTracker == \A c \in Claims : Sending(c) => nonce[c] > lastFaucetNonce
GrantedBelow ==
  \A c \in granted : step[c] = "done" /\ nonce[c] \in Nat /\ nonce[c] <= lastFaucetNonce
SerialInv ==
  FaucetTyped /\ (~raced => OneSending /\ AboveTracker /\ GrantedBelow /\ SequentialNonces)

LEMMA SerialNext == SerialInv /\ [FaucetNext]_faucetVars => SerialInv'
<1> SUFFICES ASSUME SerialInv, [FaucetNext]_faucetVars, ~raced'
             PROVE  OneSending' /\ AboveTracker' /\ GrantedBelow' /\ SequentialNonces'
  BY FaucetNextTyped DEF SerialInv
<1> DEFINE Goal == OneSending' /\ AboveTracker' /\ GrantedBelow' /\ SequentialNonces'
<1>0. FaucetTyped' /\ FaucetTyped /\ FaucetTypeOK /\ FaucetTypeOK'
  BY FaucetNextTyped DEF SerialInv, FaucetTyped
<1>1. CASE UNCHANGED faucetVars
  BY <1>1 DEF SerialInv, OneSending, AboveTracker, GrantedBelow, SequentialNonces, Sending,
    faucetVars, rows, process, request, faucetHistory
<1>2. ASSUME NEW c \in Claims, RefreshAccount(c) PROVE Goal
  <2>1. /\ UNCHANGED <<lastFaucetNonce, nonce, granted, raced>>
        /\ step[c] = "new" /\ step' = [step EXCEPT ![c] = "submitting"]
    BY <1>2 DEF RefreshAccount, At, Goto, process, faucetHistory
  <2> QED
    BY <1>0, <2>1 DEF SerialInv, OneSending, AboveTracker, GrantedBelow, SequentialNonces,
      Sending, FaucetTypeOK
<1>3. ASSUME NEW c \in Claims, Submit(c) PROVE Goal
  <2>1. UNCHANGED <<lastFaucetNonce, granted>> /\ step[c] = "submitting"
    BY <1>0, <1>3, SubmitCases
  <2>2. CASE step' = [step EXCEPT ![c] = "refused"] /\ UNCHANGED <<nonce, raced>>
    BY <1>0, <2>1, <2>2 DEF SerialInv, OneSending, AboveTracker, GrantedBelow,
      SequentialNonces, Sending, FaucetTypeOK
  <2>3. CASE /\ step' = [step EXCEPT ![c] = "inserting"]
             /\ nonce' = [nonce EXCEPT ![c] = NextNonce(c)]
             /\ raced' = (raced \/ \E d \in Claims : Sending(d))
    <3>1. ~raced /\ \A d \in Claims : ~Sending(d)
      BY <2>3
    <3>2. NextNonce(c) \in Nat /\ NextNonce(c) > lastFaucetNonce
      BY <1>0, ExpectedType
    <3>3. c \notin granted
      BY <2>1, <3>1 DEF SerialInv, GrantedBelow
    <3>4. OneSending' /\ AboveTracker'
      BY <1>0, <2>1, <2>3, <3>1, <3>2 DEF OneSending, AboveTracker, Sending, FaucetTypeOK
    <3>5. \A d \in granted : d \in Claims /\ step'[d] = step[d] /\ nonce'[d] = nonce[d]
      BY <1>0, <2>3, <3>3 DEF FaucetTypeOK
    <3>6. GrantedBelow' /\ SequentialNonces'
      BY <2>1, <3>1, <3>5 DEF SerialInv, GrantedBelow, SequentialNonces
    <3> QED
      BY <3>4, <3>6
  <2> QED
    BY <1>0, <1>3, <2>2, <2>3, SubmitCases
<1>4. ASSUME NEW c \in Claims, InsertTransaction(c) \/ InsertFails(c) PROVE Goal
  <2>1. /\ UNCHANGED <<lastFaucetNonce, nonce, granted, raced>>
        /\ step[c] = "inserting" /\ step' = [step EXCEPT ![c] = "inserted"]
    BY <1>4 DEF InsertTransaction, InsertFails, At, Goto, process, faucetHistory
  <2> QED
    BY <1>0, <2>1 DEF SerialInv, OneSending, AboveTracker, GrantedBelow, SequentialNonces,
      Sending, FaucetTypeOK
<1>5. ASSUME NEW c \in Claims, Grant(c) PROVE Goal
  <2>1. /\ UNCHANGED <<nonce, raced>> /\ granted' = granted \union {c}
        /\ step[c] = "inserted" /\ step' = [step EXCEPT ![c] = "done"]
        /\ lastFaucetNonce' = nonce[c]
    BY <1>5 DEF Grant, At, Goto
  <2>2. /\ nonce[c] \in Nat /\ nonce[c] > lastFaucetNonce
        /\ \A d \in Claims : Sending(d) => d = c
    BY <1>0, <2>1 DEF SerialInv, OneSending, AboveTracker, Sending, FaucetTyped
  <2>3. \A d \in granted : d # c /\ nonce[d] \in Nat /\ nonce[d] < nonce[c]
    BY <1>0, <2>1, <2>2 DEF SerialInv, GrantedBelow, FaucetTypeOK, None
  <2>4. OneSending' /\ AboveTracker'
    BY <1>0, <2>1, <2>2 DEF OneSending, AboveTracker, Sending, FaucetTypeOK
  <2>5. GrantedBelow'
    BY <1>0, <2>1, <2>2, <2>3 DEF SerialInv, GrantedBelow, FaucetTypeOK
  <2>6. SequentialNonces'
    BY <2>1, <2>2, <2>3 DEF SerialInv, SequentialNonces
  <2> QED
    BY <2>4, <2>5, <2>6
<1>6. ASSUME NEW tx \in pending, Mine(tx) PROVE Goal
  BY <1>6 DEF SerialInv, OneSending, AboveTracker, GrantedBelow, SequentialNonces, Sending,
    Mine, process, request, faucetHistory
<1>7. CASE RestartWeb
  <2>1. granted' = {} /\ \A c \in Claims : ~Sending(c)'
    BY <1>0, <1>7 DEF RestartWeb, Sending, FaucetTypeOK
  <2> QED
    BY <2>1 DEF OneSending, AboveTracker, GrantedBelow, SequentialNonces
<1> QED
  BY <1>1, <1>2, <1>3, <1>4, <1>5, <1>6, <1>7 DEF FaucetNext, Claim

(* Claims accepted by one run of the process have different nonces unless    *)
(* some claim chose its nonce during the INSERT of another: stale answers,   *)
(* blocks mined meanwhile and failed queries do no harm to serial INSERTs.   *)
THEOREM SerialClaimsDiffer == FaucetSpec => []SequentialNonces
<1>1. FaucetInit => SerialInv
  BY FaucetInitTyped DEF FaucetInit, SerialInv, OneSending, AboveTracker, GrantedBelow,
    SequentialNonces, Sending
<1>2. SerialInv => SequentialNonces
  BY DEF SerialInv, SequentialNonces
<1> QED
  BY <1>1, <1>2, SerialNext, PTL DEF FaucetSpec

-----------------------------------------------------------------------------
(* Migrations *)

LEMMA MigrationInitTyped == MigrationInit => MigrationTypeOK
<1> SUFFICES ASSUME MigrationInit PROVE MigrationTypeOK
  OBVIOUS
<1> USE DEF MigrationInit
<1>1. boot \in [Server -> Waits \union {"down", "serving"}] /\ holder \in Server \union {Nobody}
  OBVIOUS
<1>2. gotLock \subseteq Server /\ applied \in [Server -> SUBSET Migration]
  OBVIOUS
<1>3. executed \subseteq Migration /\ recorded \subseteq Migration
  OBVIOUS
<1>4. faults \in 0 .. MaxFaults /\ deaths \in 0 .. MaxDeaths
  BY MigrationAssumption
<1>5. interrupted \in BOOLEAN /\ refused \in BOOLEAN
  OBVIOUS
<1> QED
  BY <1>1, <1>2, <1>3, <1>4, <1>5 DEF MigrationTypeOK

(* The migration that a server executes or records is one that it has not applied. *)
LEMMA NextIsOpen ==
  ASSUME MigrationTypeOK, NEW s \in Server, Migration # applied[s]
  PROVE  /\ Min(Migration \ applied[s]) \in Migration \ applied[s]
         /\ \A k \in Migration \ applied[s] : Min(Migration \ applied[s]) <= k
<1>1. Migration \subseteq Nat
  BY MigrationAssumption DEF Migration
<1>2. applied[s] \subseteq Migration
  BY DEF MigrationTypeOK
<1>3. Migration \ applied[s] # {} /\ Migration \ applied[s] \subseteq Nat
  BY <1>1, <1>2
<1> QED
  BY <1>3, MinIndex

(* The types of what Halt, Unlock and Die change alike. *)
LEMMA EndTyped ==
  ASSUME MigrationTypeOK, NEW s \in Server, NEW q \in Waits \union {"down", "serving"},
         Disconnect(s), Await(s, q),
         gotLock' = gotLock \ {s}, applied' = [applied EXCEPT ![s] = {}]
  PROVE  /\ boot' \in [Server -> Waits \union {"down", "serving"}]
         /\ holder' \in Server \union {Nobody} /\ gotLock' \subseteq Server
         /\ applied' \in [Server -> SUBSET Migration]
<1>1. boot' \in [Server -> Waits \union {"down", "serving"}]
  BY DEF MigrationTypeOK, Await
<1>2. holder' \in Server \union {Nobody}
  BY DEF MigrationTypeOK, Disconnect
<1>3. gotLock' \subseteq Server
  BY DEF MigrationTypeOK
<1>4. applied' \in [Server -> SUBSET Migration]
  BY DEF MigrationTypeOK
<1> QED
  BY <1>1, <1>2, <1>3, <1>4

\* The types, and a server records a migration that it had not applied.
Recording == \A s \in Server : On(s, "record") => Migration # applied[s]
MigrationTyped == MigrationTypeOK /\ Recording

LEMMA MigrationNextTyped == MigrationTyped /\ [MigrationNext]_migrationVars => MigrationTypeOK'
<1> SUFFICES ASSUME MigrationTypeOK, Recording, [MigrationNext]_migrationVars
             PROVE  MigrationTypeOK'
  BY DEF MigrationTyped
<1>1. CASE UNCHANGED migrationVars
  BY <1>1 DEF migrationVars, server, tables, history, MigrationTypeOK
<1>2. ASSUME NEW s \in Server, Boot(s) \/ Lock(s) \/ AllRun(s) PROVE MigrationTypeOK'
  BY <1>2 DEF Boot, Lock, AllRun, server, tables, history, MigrationTypeOK, Waits, Await
<1>3. ASSUME NEW s \in Server, Lookup(s) PROVE MigrationTypeOK'
  BY <1>3 DEF Lookup, tables, history, MigrationTypeOK, Waits, Await
<1>4. ASSUME NEW s \in Server, Unlock(s) PROVE MigrationTypeOK'
  BY <1>4, EndTyped DEF Unlock, tables, history, MigrationTypeOK
<1>5. ASSUME NEW s \in Server, Migrate(s) PROVE MigrationTypeOK'
  <2> DEFINE m == Min(Migration \ applied[s])
  <2>1. m \in Migration
    BY <1>5, NextIsOpen DEF Migrate
  <2> HIDE DEF m
  <2>2. CASE m \in Once \cap executed
    <3>1. /\ Halt(s) /\ refused' = TRUE
          /\ UNCHANGED <<executed, recorded, faults, deaths, interrupted>>
      BY <1>5, <2>2 DEF Migrate, m
    <3> QED
      BY <3>1, EndTyped DEF Halt, MigrationTypeOK
  <2>3. CASE m \notin Once \cap executed
    <3>1. /\ executed' = executed \union {m} /\ Await(s, "record")
          /\ UNCHANGED <<server, refused, recorded, faults, deaths, interrupted>>
      BY <1>5, <2>3 DEF Migrate, m
    <3> QED
      BY <2>1, <3>1 DEF server, MigrationTypeOK, Waits, Await
  <2> QED
    BY <2>2, <2>3
<1>6. ASSUME NEW s \in Server, Record(s) PROVE MigrationTypeOK'
  BY <1>6, NextIsOpen DEF Recording, Record, On, history, MigrationTypeOK, Waits, Await
<1>7. ASSUME NEW s \in Server, LockFails(s) PROVE MigrationTypeOK'
  <2>1. faults' \in 0 .. MaxFaults
    BY <1>7, MigrationAssumption DEF LockFails, Fault, MigrationTypeOK
  <2> QED
    BY <1>7, <2>1 DEF LockFails, Fault, server, tables, MigrationTypeOK, Waits, Await
<1>8. ASSUME NEW s \in Server, LookupFails(s) PROVE MigrationTypeOK'
  <2>1. faults' \in 0 .. MaxFaults
    BY <1>8, MigrationAssumption DEF LookupFails, Fault, MigrationTypeOK
  <2>2. holder' \in Server \union {Nobody}
    BY <1>8 DEF LookupFails, Disconnect, MigrationTypeOK
  <2> QED
    BY <1>8, <2>1, <2>2 DEF LookupFails, Fault, tables, MigrationTypeOK, Waits, Await
<1>9. ASSUME NEW s \in Server, MigrationFails(s) \/ RecordFails(s) \/ UnlockFails(s)
      PROVE  MigrationTypeOK'
  <2>1. Fault /\ Halt(s) /\ interrupted' \in BOOLEAN
    BY <1>9 DEF MigrationFails, RecordFails, UnlockFails, MigrationTypeOK
  <2>2. faults' \in 0 .. MaxFaults
    BY <2>1, MigrationAssumption DEF Fault, MigrationTypeOK
  <2> QED
    BY <2>1, <2>2, EndTyped DEF Halt, Fault, tables, MigrationTypeOK
<1>10. ASSUME NEW s \in Server, Die(s) PROVE MigrationTypeOK'
  <2>1. deaths' \in 0 .. MaxDeaths
    BY <1>10, MigrationAssumption DEF Die, MigrationTypeOK
  <2>2. interrupted' \in BOOLEAN
    BY <1>10, Zenon DEF Die
  <2>3. /\ Disconnect(s) /\ Await(s, "down") /\ UNCHANGED <<tables, faults, refused>>
        /\ gotLock' = gotLock \ {s} /\ applied' = [applied EXCEPT ![s] = {}]
    BY <1>10, Zenon DEF Die
  <2> QED
    BY <2>1, <2>2, <2>3, EndTyped DEF tables, MigrationTypeOK
<1> QED
  BY <1>1, <1>2, <1>3, <1>4, <1>5, <1>6, <1>7, <1>8, <1>9, <1>10
  DEF MigrationNext, MigrationStep, QueryFails

LEMMA RecordingStays == MigrationTyped /\ [MigrationNext]_migrationVars => Recording'
<1> SUFFICES ASSUME MigrationTypeOK, Recording, [MigrationNext]_migrationVars,
                    NEW r \in Server, On(r, "record")'
             PROVE  Migration # applied'[r]
  BY DEF MigrationTyped, Recording, Migration
<1>1. CASE On(r, "record") /\ applied'[r] = applied[r]
  BY <1>1 DEF Recording
<1>2. CASE Migrate(r) /\ applied' = applied
  BY <1>2 DEF Migrate
<1>3. ~On(r, "record") => Migrate(r)
  BY DEF MigrationNext, MigrationStep, QueryFails, migrationVars, Boot, Lock, Lookup, Migrate,
         Record, AllRun, Unlock, LockFails, LookupFails, MigrationFails, RecordFails, UnlockFails,
         Halt, Die, On, Await, MigrationTypeOK
<1>4. Migrate(r) => applied' = applied
  BY DEF Migrate, Halt, On, Await, MigrationTypeOK, server
<1>5. On(r, "record") => applied'[r] = applied[r]
  BY DEF MigrationNext, MigrationStep, QueryFails, migrationVars, server, Boot, Lock, Lookup,
         Migrate, Record, AllRun, Unlock, LockFails, LookupFails, MigrationFails, RecordFails,
         UnlockFails, Halt, Die, On, Await, MigrationTypeOK
<1> QED
  BY <1>1, <1>2, <1>3, <1>4, <1>5

(* The variables of Migrations have their types in every state. *)
THEOREM MigrationType == MigrationSpec => []MigrationTypeOK
<1>1. MigrationInit => MigrationTyped
  BY MigrationInitTyped DEF MigrationTyped, Recording, MigrationInit, On
<1>2. MigrationTyped /\ [MigrationNext]_migrationVars => MigrationTyped'
  BY MigrationNextTyped, RecordingStays DEF MigrationTyped
<1>3. MigrationTyped => MigrationTypeOK
  BY DEF MigrationTyped
<1> QED
  BY <1>1, <1>2, <1>3, PTL DEF MigrationSpec

-----------------------------------------------------------------------------
(* Records have no gap: what a server has applied is a first part of the     *)
(* records, which are a first part of the migrations, and what it is about   *)
(* to record the database has.                                               *)
Next(s) == Min(Migration \ applied[s])
Prefix(s) == \E j \in 0 .. Files : applied[s] = 1 .. j
Order ==
  /\ recorded \subseteq executed
  /\ \E k \in 0 .. Files : recorded = 1 .. k
  /\ \A s \in Server : Prefix(s) /\ applied[s] \subseteq recorded
  /\ \A s \in Server : On(s, "record") => Next(s) \in executed

LEMMA NextOfPrefix ==
  ASSUME MigrationTypeOK, NEW s \in Server, NEW j \in 0 .. Files, applied[s] = 1 .. j,
         Migration # applied[s]
  PROVE  j + 1 \in 1 .. Files /\ Next(s) = j + 1
<1>1. j + 1 \in Migration \ applied[s]
  BY MigrationAssumption DEF Migration
<1>2. Next(s) \in Migration \ applied[s] /\ Next(s) <= j + 1
  BY <1>1, NextIsOpen DEF Next
<1> QED
  BY <1>1, <1>2, MigrationAssumption DEF Migration

\* Every step but Record.
LEMMA OrderKept ==
  ASSUME MigrationTypeOK, Order, recorded' = recorded, executed \subseteq executed',
         \A r \in Server : applied'[r] = applied[r] \/ applied'[r] = {} \/ applied'[r] = recorded,
         \A r \in Server : On(r, "record")' =>
           applied'[r] = applied[r] /\ (On(r, "record") \/ Next(r) \in executed')
  PROVE  Order'
<1>1. ASSUME NEW r \in Server PROVE Prefix(r)' /\ applied'[r] \subseteq recorded'
  <2>1. 0 \in 0 .. Files /\ 1 .. 0 = {}
    BY MigrationAssumption
  <2> QED
    BY <2>1 DEF Order, Prefix
<1>2. ASSUME NEW r \in Server, On(r, "record")' PROVE Next(r)' \in executed'
  <2>1. Next(r)' = Next(r)
    <3>1. applied'[r] = applied[r]
      BY <1>2 DEF On
    <3> QED
      BY <3>1 DEF Next, Migration
  <2> QED
    BY <1>2, <2>1 DEF Order, On
<1> QED
  BY <1>1, <1>2 DEF Order

LEMMA OrderNext == MigrationTyped /\ Order /\ [MigrationNext]_migrationVars => Order'
<1> SUFFICES ASSUME MigrationTypeOK, Recording, Order, [MigrationNext]_migrationVars PROVE Order'
  BY DEF MigrationTyped
<1>1. ASSUME NEW s \in Server, Record(s) PROVE Order'
  <2>1. PICK j \in 0 .. Files : applied[s] = 1 .. j
    BY DEF Order, Prefix
  <2>2. PICK k \in 0 .. Files : recorded = 1 .. k
    BY DEF Order
  <2>3. j + 1 \in 1 .. Files /\ Next(s) = j + 1 /\ j + 1 \in executed
    BY <1>1, <2>1, NextOfPrefix DEF Record, Recording, Order
  <2>4. /\ recorded' = recorded \union {j + 1} /\ executed' = executed
        /\ applied' = [applied EXCEPT ![s] = 1 .. j + 1]
        /\ \A r \in Server : On(r, "record")' => r # s /\ On(r, "record")
    <3>1. (1 .. j) \union {j + 1} = 1 .. j + 1
      BY <2>1
    <3> QED
      BY <1>1, <2>1, <2>3, <3>1 DEF Record, Next, On, Await, MigrationTypeOK
  <2>5. j <= k
    BY <2>1, <2>2 DEF Order
  <2>6. \E i \in 0 .. Files : recorded' = 1 .. i
    <3>1. CASE j = k
      <4>1. (1 .. k) \union {k + 1} = 1 .. k + 1
        BY <2>2
      <4> QED
        BY <2>2, <2>3, <2>4, <3>1, <4>1
    <3>2. CASE j + 1 <= k
      BY <2>1, <2>2, <2>4, <3>2
    <3> QED
      BY <2>1, <2>2, <2>5, <3>1, <3>2
  <2>7. ASSUME NEW r \in Server PROVE Prefix(r)' /\ applied'[r] \subseteq recorded'
    <3>1. CASE r = s
      <4>1. applied'[s] = 1 .. j + 1
        BY <2>4 DEF MigrationTypeOK
      <4>2. 1 .. j + 1 \subseteq recorded'
        BY <2>1, <2>2, <2>4, <2>5
      <4> QED
        BY <2>3, <3>1, <4>1, <4>2 DEF Prefix
    <3>2. CASE r # s
      BY <2>4, <3>2 DEF Order, Prefix, MigrationTypeOK
    <3> QED
      BY <3>1, <3>2
  <2>8. ASSUME NEW r \in Server, On(r, "record")' PROVE Next(r)' \in executed'
    BY <2>4, <2>8 DEF Order, Next, Migration, MigrationTypeOK
  <2> QED
    BY <2>3, <2>4, <2>6, <2>7, <2>8 DEF Order
<1>2. ASSUME ~ \E s \in Server : Record(s) PROVE Order'
  <2>1. recorded' = recorded /\ executed \subseteq executed'
    BY <1>2 DEF MigrationNext, MigrationStep, QueryFails, migrationVars, server, tables, Boot, Lock,
       Lookup, Migrate, AllRun, Unlock, LockFails, LookupFails, MigrationFails, RecordFails,
       UnlockFails, Fault, Die
  <2>2. ASSUME NEW r \in Server
        PROVE  applied'[r] = applied[r] \/ applied'[r] = {} \/ applied'[r] = recorded
    BY <1>2 DEF MigrationNext, MigrationStep, QueryFails, migrationVars, server, Boot, Lock, Lookup,
       Migrate, AllRun, Unlock, LockFails, LookupFails, MigrationFails, RecordFails, UnlockFails,
       Halt, Die, MigrationTypeOK
  <2>3. ASSUME NEW r \in Server, On(r, "record")'
        PROVE  applied'[r] = applied[r] /\ (On(r, "record") \/ Next(r) \in executed')
    <3>1. applied'[r] = applied[r]
      BY <1>2, <2>3 DEF MigrationNext, MigrationStep, QueryFails, migrationVars, server, Boot, Lock,
         Lookup, Migrate, AllRun, Unlock, LockFails, LookupFails, MigrationFails, RecordFails,
         UnlockFails, Halt, Die, On, Await, MigrationTypeOK
    <3>2. On(r, "record") \/ Migrate(r)
      BY <1>2, <2>3 DEF MigrationNext, MigrationStep, QueryFails, migrationVars, Boot, Lock, Lookup,
         Migrate, AllRun, Unlock, LockFails, LookupFails, MigrationFails, RecordFails, UnlockFails,
         Halt, Die, On, Await, MigrationTypeOK
    <3>3. Migrate(r) => Next(r) \in executed'
      BY <2>3 DEF Migrate, Halt, Next, On, Await, MigrationTypeOK
    <3> QED
      BY <3>1, <3>2, <3>3
  <2> QED
    BY <2>1, <2>2, <2>3, OrderKept
<1> QED
  BY <1>1, <1>2

(* Records have no gap and the database has what they say, for any number of *)
(* servers, with the lock or without it, and through any failures.           *)
THEOREM RecordsHaveNoGap == MigrationSpec => []RecordedInOrder
<1>1. MigrationInit => MigrationTyped /\ Order
  <2> SUFFICES ASSUME MigrationInit PROVE MigrationTyped /\ Order
    OBVIOUS
  <2>1. MigrationTyped
    BY MigrationInitTyped DEF MigrationTyped, Recording, MigrationInit, On
  <2>2. 0 \in 0 .. Files /\ 1 .. 0 = {}
    BY MigrationAssumption
  <2> QED
    BY <2>1, <2>2 DEF Order, Prefix, MigrationInit, On
<1>2. MigrationTyped /\ Order /\ [MigrationNext]_migrationVars => (MigrationTyped /\ Order)'
  BY MigrationNextTyped, RecordingStays, OrderNext DEF MigrationTyped
<1>3. Order => RecordedInOrder
  <2> SUFFICES ASSUME Order PROVE RecordedInOrder
    OBVIOUS
  <2>1. PICK k \in 0 .. Files : recorded = 1 .. k
    BY DEF Order
  <2>2. Cardinality(recorded) = k
    BY <2>1, FS_Interval
  <2> QED
    BY <2>1, <2>2 DEF Order, RecordedInOrder
<1> QED
  BY <1>1, <1>2, <1>3, PTL DEF MigrationSpec

-----------------------------------------------------------------------------
(* Until something fails where it matters, a server past the query of the    *)
(* lock has it, so there is one at most; the look-up under the lock is exact *)
(* until the end, and only the migration in hand is executed and not yet     *)
(* recorded.                                                                 *)
Working(s) == boot[s] \in {"lookup", "migration", "record", "unlock"}
Holding == \A s \in Server : Working(s) => holder = s
Exact(s) ==
  /\ On(s, "migration") => applied[s] = recorded
  /\ On(s, "record") => applied[s] = recorded /\ executed = recorded \union {Next(s)}
Recorded == (\A s \in Server : ~On(s, "record")) => executed = recorded
Undisturbed == ~refused /\ Holding /\ (\A s \in Server : Exact(s)) /\ Recorded
LockInv == ~interrupted => Undisturbed

LEMMA WorksAlone ==
  ASSUME Holding, NEW s \in Server, Working(s), NEW r \in Server, r # s
  PROVE  ~Working(r)
BY DEF Holding

\* Only the lock guards against a second runner: a step of s leaves alone what
\* Exact says of every other server.
LEMMA UndisturbedNext ==
  ASSUME MigrationTyped, Undisturbed, NEW s \in Server, ~interrupted',
         Boot(s) \/ MigrationStep(s) \/ QueryFails(s) \/ Die(s)
  PROVE  Undisturbed'
<1> USE DEF On, Await
<1>0. MigrationTypeOK
  BY DEF MigrationTyped
<1>1. CASE Boot(s)
  BY <1>0, <1>1
  DEF Boot, Undisturbed, Holding, Working, Exact, Recorded, Next, Migration, server, tables,
      history, MigrationTypeOK
<1>2. CASE Lock(s)
  <2>1. \A r \in Server : ~Working(r)
    BY <1>2, MigrationAssumption DEF Lock, Undisturbed, Holding
  <2> QED
    BY <1>0, <1>2, <2>1
    DEF Lock, Undisturbed, Holding, Working, Exact, Recorded, tables, history, MigrationTypeOK
<1>3. CASE Lookup(s)
  <2>1. \A r \in Server \ {s} : ~Working(r)
    BY <1>3, WorksAlone DEF Lookup, Undisturbed, Working
  <2> QED
    BY <1>0, <1>3, <2>1
    DEF Lookup, Undisturbed, Holding, Working, Exact, Recorded, tables, history, MigrationTypeOK
<1>4. CASE Migrate(s)
  <2>1. \A r \in Server \ {s} : ~Working(r)
    BY <1>4, WorksAlone DEF Migrate, Undisturbed, Working
  <2>2. applied[s] = recorded /\ executed = recorded
    BY <1>4, <2>1 DEF Migrate, Undisturbed, Exact, Recorded, Working
  <2>3. Next(s) \notin executed
    BY <1>0, <1>4, <2>2, NextIsOpen DEF Migrate, Next
  <2>4. /\ executed' = executed \union {Next(s)} /\ boot' = [boot EXCEPT ![s] = "record"]
        /\ UNCHANGED <<holder, applied, recorded, refused>>
    BY <1>4, <2>3 DEF Migrate, Next, server
  <2>5. Next(s)' = Next(s)
    BY <2>4 DEF Next, Migration
  <2> QED
    BY <1>0, <1>4, <2>1, <2>2, <2>4, <2>5
    DEF Undisturbed, Holding, Working, Exact, Recorded, Migrate, MigrationTypeOK
<1>5. CASE Record(s)
  <2>1. \A r \in Server \ {s} : ~Working(r)
    BY <1>5, WorksAlone DEF Record, Undisturbed, Working
  <2>2. applied[s] = recorded /\ executed = recorded \union {Next(s)}
    BY <1>5 DEF Record, Undisturbed, Exact
  <2>3. /\ recorded' = executed' /\ applied'[s] = recorded'
        /\ boot' = [boot EXCEPT ![s] = "migration"] /\ UNCHANGED <<holder, refused>>
    BY <1>0, <1>5, <2>2 DEF Record, Next, history, MigrationTypeOK
  <2>4. Holding'
    BY <1>0, <1>5, <2>3 DEF Record, Undisturbed, Holding, Working, MigrationTypeOK
  <2>5. ASSUME NEW r \in Server PROVE Exact(r)'
    <3>1. CASE r = s
      BY <1>0, <2>3, <3>1 DEF Exact, MigrationTypeOK
    <3>2. CASE r # s
      BY <1>0, <2>1, <2>3, <3>2 DEF Exact, Working, MigrationTypeOK
    <3> QED
      BY <3>1, <3>2
  <2> QED
    BY <2>3, <2>4, <2>5 DEF Undisturbed, Recorded
<1>6. CASE AllRun(s)
  <2>1. \A r \in Server \ {s} : ~Working(r)
    BY <1>6, WorksAlone DEF AllRun, Undisturbed, Working
  <2> QED
    BY <1>0, <1>6, <2>1
    DEF AllRun, Undisturbed, Holding, Working, Exact, Recorded, server, tables, history,
        MigrationTypeOK
<1>7. CASE Unlock(s)
  <2>1. \A r \in Server \ {s} : ~Working(r)
    BY <1>7, WorksAlone DEF Unlock, Undisturbed, Working
  <2> QED
    BY <1>0, <1>7, <2>1
    DEF Unlock, Undisturbed, Holding, Working, Exact, Recorded, tables, history, MigrationTypeOK
<1>8. CASE QueryFails(s)
  <2>1. CASE MigrationFails(s) \/ UnlockFails(s)
    <3>1. \A r \in Server \ {s} : ~Working(r)
      BY <2>1, WorksAlone DEF MigrationFails, UnlockFails, Undisturbed, Working
    <3> QED
      BY <1>0, <2>1, <3>1
      DEF MigrationFails, UnlockFails, Halt, Fault, Undisturbed, Holding, Working, Exact, Recorded,
          tables, MigrationTypeOK
  <2> QED
    BY <1>8, <2>1 DEF QueryFails, LockFails, LookupFails, RecordFails
<1>9. CASE Die(s)
  <2>1. /\ ~On(s, "record") /\ boot' = [boot EXCEPT ![s] = "down"] /\ Disconnect(s)
        /\ applied' = [applied EXCEPT ![s] = {}] /\ UNCHANGED <<executed, recorded, refused>>
    BY <1>9 DEF Die, tables
  <2>2. Holding'
    BY <1>0, <2>1 DEF Disconnect, Undisturbed, Holding, Working, MigrationTypeOK
  <2>3. ASSUME NEW r \in Server PROVE Exact(r)'
    BY <1>0, <2>1 DEF Undisturbed, Exact, Next, Migration, MigrationTypeOK
  <2>4. Recorded'
    BY <1>0, <2>1 DEF Undisturbed, Recorded, MigrationTypeOK
  <2> QED
    BY <2>1, <2>2, <2>3, <2>4 DEF Undisturbed
<1> QED
  BY <1>1, <1>2, <1>3, <1>4, <1>5, <1>6, <1>7, <1>8, <1>9 DEF MigrationStep

LEMMA LockInvNext == MigrationTyped /\ LockInv /\ [MigrationNext]_migrationVars => LockInv'
<1> SUFFICES ASSUME MigrationTyped, LockInv, [MigrationNext]_migrationVars, ~interrupted'
             PROVE  Undisturbed'
  BY DEF LockInv
<1>1. CASE UNCHANGED migrationVars
  BY <1>1
  DEF LockInv, Undisturbed, Holding, Working, Exact, Recorded, Next, On, Migration, migrationVars,
      server, tables, history
<1>2. ASSUME NEW s \in Server, Boot(s) \/ MigrationStep(s) \/ QueryFails(s) \/ Die(s)
      PROVE  Undisturbed'
  <2>1. ~interrupted
    BY <1>2
    DEF Boot, MigrationStep, Lock, Lookup, Migrate, Record, AllRun, Unlock, QueryFails, LockFails,
        LookupFails, MigrationFails, RecordFails, UnlockFails, Die, history
  <2> QED
    BY <1>2, <2>1, UndisturbedNext DEF LockInv
<1> QED
  BY <1>1, <1>2 DEF MigrationNext

(* A migration is executed again that cannot be only after a process or a    *)
(* query failed between it and its record, or the lock or the look-up failed,*)
(* for any number of servers, migrations, failures and deaths.               *)
THEOREM RefusalsNeedInterruption == MigrationSpec => []RefusedOnlyIfInterrupted
<1>1. MigrationInit => MigrationTyped /\ LockInv
  <2> SUFFICES ASSUME MigrationInit PROVE MigrationTyped /\ LockInv
    OBVIOUS
  <2>1. MigrationTyped
    BY MigrationInitTyped DEF MigrationTyped, Recording, MigrationInit, On
  <2>2. Undisturbed
    BY DEF Undisturbed, Holding, Working, Exact, Recorded, MigrationInit, On
  <2> QED
    BY <2>1, <2>2 DEF LockInv
<1>2. MigrationTyped /\ LockInv /\ [MigrationNext]_migrationVars => (MigrationTyped /\ LockInv)'
  BY MigrationNextTyped, RecordingStays, LockInvNext DEF MigrationTyped
<1>3. LockInv => RefusedOnlyIfInterrupted
  BY DEF LockInv, Undisturbed, RefusedOnlyIfInterrupted
<1> QED
  BY <1>1, <1>2, <1>3, PTL DEF MigrationSpec
=============================================================================
