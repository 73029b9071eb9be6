------------------------------- MODULE Ledger -------------------------------
(***************************************************************************)
(* The account arithmetic of StateManager as operators on an account map.   *)
(* An address without an entry is the zero account, as in the code.  All    *)
(* accounts are key addresses; code hash and storage root never change.     *)
(***************************************************************************)
EXTENDS Integers

CONSTANTS
  Account,    \* addresses
  Tx,         \* signed transactions, one per hash
  from, to,   \* sender and recipient
  value,      \* amount transferred
  fee,        \* gasPrice * gasLimit, charged whatever gas is used
  nonceOf,    \* tx.nonce
  Reward      \* BLOCK_REWARD

ASSUME TransactionAssumption ==
  /\ from \in [Tx -> Account] /\ to \in [Tx -> Account]
  /\ \A t \in Tx : from[t] # to[t]
  /\ value \in [Tx -> Nat] /\ fee \in [Tx -> Nat] /\ nonceOf \in [Tx -> Nat]
  /\ Reward \in Nat

AccountState == [balance : Nat, nonce : Nat]

\* Mutant: the balance check is gone.
CanApplyUnfunded(accounts, t) == accounts[from[t]].nonce = nonceOf[t]

\* Mutant: a transaction with a later nonce is let through.
CanApplyLater(accounts, t) ==
  /\ accounts[from[t]].balance >= value[t] + fee[t]
  /\ accounts[from[t]].nonce <= nonceOf[t]

\* The two checks of applyTransaction.
CanApply(accounts, t) ==
  /\ accounts[from[t]].balance >= value[t] + fee[t]
  /\ accounts[from[t]].nonce = nonceOf[t]

\* What applyTransaction does to the accounts in memory; the fee goes to nobody.
Applied(accounts, t) ==
  [accounts EXCEPT ![from[t]].balance = @ - (value[t] + fee[t]),
                   ![from[t]].nonce = @ + 1,
                   ![to[t]].balance = @ + value[t]]

\* applyBlockReward
Rewarded(accounts, producer) == [accounts EXCEPT ![producer].balance = @ + Reward]
=============================================================================
