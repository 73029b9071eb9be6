---------------------------- MODULE FaucetClaims ----------------------------
(***************************************************************************)
(* Claims from the faucet.  The handlers of several HTTP requests interleave *)
(* at their awaits; each picks a nonce for the faucet's account and submits  *)
(* a signed transaction to the web process's pool, while the worker mines    *)
(* the rows of the table and the web process may restart.  A claim refused   *)
(* by the cooldown is a request that never starts; the legacy wallets, which *)
(* no nonce depends on, are left out.  The faucet has money for every claim. *)
(***************************************************************************)
EXTENDS Integers, FiniteSets

CONSTANTS
  Claims,        \* HTTP requests past the cooldown check
  Addresses,     \* claimers
  Window,        \* nonces a transaction may be ahead of the account (10 in the code)
  MaxRestarts,   \* bound: restarts of the web process
  MaxLost        \* bound: INSERTs of transactions that fail

ASSUME FaucetAssumption == Window \in Nat /\ MaxRestarts \in Nat /\ MaxLost \in Nat

\* The signature is deterministic: the hash is a function of these two fields.
Transactions == [to : Addresses, nonce : Nat]
None == -1

VARIABLES
  pending, confirmed,  \* rows of transactions
  accountNonce,     \* the faucet's row of account_state
  stateNonce,       \* the faucet's nonce in the web process's StateManager
  lastFaucetNonce, knownHashes,
  step,             \* of each request: the await it is at
  to, answer, nonce,   \* locals of the requests
  granted,          \* claims accepted since the web process started
  raced,            \* history: a claim chose its nonce during the INSERT of another
  lost, webRestarts \* history: nonces whose INSERT failed, restarts

rows == <<pending, confirmed>>
process == <<stateNonce, lastFaucetNonce, knownHashes>>
request == <<step, to, answer, nonce>>
faucetHistory == <<granted, raced, lost, webRestarts>>
faucetVars == <<rows, accountNonce, process, request, faucetHistory>>

FaucetInit ==
  /\ pending = {} /\ confirmed = {} /\ accountNonce = 0
  /\ stateNonce = 0 /\ lastFaucetNonce = None /\ knownHashes = {}
  /\ step = [c \in Claims |-> "new"] /\ to \in [Claims -> Addresses]
  /\ answer = [c \in Claims |-> None] /\ nonce = [c \in Claims |-> None]
  /\ granted = {} /\ raced = FALSE /\ lost = {} /\ webRestarts = 0

At(c, s) == step[c] = s
Goto(c, s) == step' = [step EXCEPT ![c] = s]
Transaction(c) == [to |-> to[c], nonce |-> nonce[c]]

-----------------------------------------------------------------------------
\* The query of refreshAccount; one that fails leaves the memory as it is.
RefreshAccount(c) ==
  /\ At(c, "new") /\ Goto(c, "submitting")
  /\ answer' \in {[answer EXCEPT ![c] = n] : n \in {accountNonce, None}}
  /\ UNCHANGED <<rows, accountNonce, process, to, nonce, faucetHistory>>

\* validateTransaction: replay, then the window above the account's nonce.
ValidTransaction(tx, expected) ==
  /\ tx \notin knownHashes
  /\ tx.nonce >= expected /\ tx.nonce <= expected + Window

\* The nonce refreshAccount leaves in memory; the answer may be an old one.
Expected(c) == IF answer[c] = None THEN stateNonce ELSE answer[c]

NonceOfAccount(c) == Expected(c)  \* Mutant: no tracker.

NextNonce(c) == IF Expected(c) > lastFaucetNonce + 1 THEN Expected(c) ELSE lastFaucetNonce + 1

\* The pool takes the transaction and sends its INSERT.
AcceptAdvancing(c, tx) ==  \* Mutant: the tracker moves before the INSERT.
  /\ Goto(c, "inserting") /\ nonce' = [nonce EXCEPT ![c] = tx.nonce]
  /\ knownHashes' = knownHashes \union {tx}
  /\ raced' = (raced \/ \E d \in Claims : step[d] \in {"inserting", "inserted"})
  /\ lastFaucetNonce' = tx.nonce

Accept(c, tx) ==
  /\ Goto(c, "inserting") /\ nonce' = [nonce EXCEPT ![c] = tx.nonce]
  /\ knownHashes' = knownHashes \union {tx}
  /\ raced' = (raced \/ \E d \in Claims : step[d] \in {"inserting", "inserted"})
  /\ UNCHANGED lastFaucetNonce

Reject(c) ==
  Goto(c, "refused") /\ UNCHANGED <<lastFaucetNonce, knownHashes, nonce, raced>>

\* From the answer to the INSERT: the nonce is chosen and the pool validates.
Submit(c) ==
  LET tx == [to |-> to[c], nonce |-> NextNonce(c)] IN
  /\ At(c, "submitting")
  /\ stateNonce' = Expected(c)
  /\ answer' = [answer EXCEPT ![c] = None]
  /\ IF ValidTransaction(tx, Expected(c)) THEN Accept(c, tx) ELSE Reject(c)
  /\ UNCHANGED <<rows, accountNonce, to, granted, lost, webRestarts>>

\* ON CONFLICT DO NOTHING.
InsertTransaction(c) ==
  /\ At(c, "inserting") /\ Goto(c, "inserted")
  /\ pending' = pending \union ({Transaction(c)} \ confirmed)
  /\ UNCHANGED <<confirmed, accountNonce, process, to, answer, nonce, faucetHistory>>

\* The pool logs the error and still answers that the transaction is valid.
InsertFails(c) ==
  /\ At(c, "inserting") /\ Goto(c, "inserted")
  /\ Cardinality(lost) < MaxLost /\ lost' = lost \union {nonce[c]}
  /\ UNCHANGED <<rows, accountNonce, process, to, answer, nonce, granted, raced, webRestarts>>

\* A clean submit: the tracker moves, whatever it has become meanwhile.
Grant(c) ==
  /\ At(c, "inserted") /\ Goto(c, "done")
  /\ lastFaucetNonce' = nonce[c] /\ granted' = granted \union {c}
  /\ UNCHANGED <<rows, accountNonce, stateNonce, knownHashes, to, answer, nonce, raced, lost, webRestarts>>

-----------------------------------------------------------------------------
MineUnconfirmed(tx) ==  \* Mutant: the row is not confirmed with the transfer.
  /\ tx \in pending /\ tx.nonce = accountNonce
  /\ accountNonce' = accountNonce + 1
  /\ UNCHANGED <<rows, process, request, faucetHistory>>

\* The worker applies a pending transaction and confirms its row.
Mine(tx) ==
  /\ tx \in pending /\ tx.nonce = accountNonce
  /\ accountNonce' = accountNonce + 1
  /\ pending' = pending \ {tx} /\ confirmed' = confirmed \union {tx}
  /\ UNCHANGED <<process, request, faucetHistory>>

\* The requests are cut off; the pool and the accounts are read from the tables.
RestartWeb ==
  /\ webRestarts < MaxRestarts /\ webRestarts' = webRestarts + 1
  /\ step' = [c \in Claims |-> IF step[c] \in {"new", "done"} THEN step[c] ELSE "refused"]
  /\ answer' = [c \in Claims |-> None]
  /\ lastFaucetNonce' = None /\ stateNonce' = accountNonce
  /\ knownHashes' = pending \union confirmed
  /\ granted' = {} /\ raced' = FALSE
  /\ UNCHANGED <<rows, accountNonce, to, nonce, lost>>

Claim(c) ==
  RefreshAccount(c) \/ Submit(c) \/ InsertTransaction(c) \/ InsertFails(c) \/ Grant(c)

FaucetNext ==
  \/ \E c \in Claims : Claim(c)
  \/ \E tx \in pending : Mine(tx)
  \/ RestartWeb

\* The worker mines what it can; see BlockProduction.
FaucetFairness == WF_faucetVars(\E tx \in pending : Mine(tx))

FaucetSpec == FaucetInit /\ [][FaucetNext]_faucetVars /\ FaucetFairness

-----------------------------------------------------------------------------
Steps == {"new", "submitting", "inserting", "inserted", "done", "refused"}

\* The variables have their types.
FaucetTypeOK ==
  /\ pending \subseteq Transactions /\ confirmed \subseteq Transactions
  /\ accountNonce \in Nat /\ stateNonce \in Nat /\ lastFaucetNonce \in Nat \union {None}
  /\ knownHashes \subseteq Transactions
  /\ step \in [Claims -> Steps] /\ to \in [Claims -> Addresses]
  /\ answer \in [Claims -> Nat \union {None}] /\ nonce \in [Claims -> Nat \union {None}]
  /\ granted \subseteq Claims /\ raced \in BOOLEAN
  /\ lost \subseteq Nat /\ webRestarts \in Nat

\* Below every pending nonce of the faucet there is a pending transaction for
\* each nonce down to the account's, or the INSERT of that nonce failed: a
\* rejected claim or a restart never stalls the claims after it.
NoGap ==
  \A tx \in pending : \A n \in accountNonce .. tx.nonce - 1 :
    n \in lost \/ \E other \in pending : other.nonce = n

\* Two claims accepted by one run of the process share a nonce only if some
\* claim chose its nonce while the INSERT of another was in flight: late
\* answers to refreshAccount and blocks mined in between do no harm.
SequentialNonces ==
  ~raced => \A c, d \in granted : c # d => nonce[c] # nonce[d]

\* The nonce of a claim's transaction belongs to another transaction as well.
Shadowed(c) ==
  \E tx \in pending \union confirmed : tx.nonce = nonce[c] /\ tx.to # to[c]

\* An accepted claim is paid in the end, unless its nonce is shared or an
\* INSERT was lost.
GrantedIsPaid ==
  \A c \in Claims :
    c \in granted ~> (Transaction(c) \in confirmed \/ Shadowed(c) \/ lost # {})
=============================================================================
