------------------------------ MODULE Execution ------------------------------
(***************************************************************************)
(* The gas of a block: the loop of produceBlock over the transactions, the   *)
(* interpreter with its gas meter, and the receipts.  A program is chosen op *)
(* by op while it runs, and an op is what it costs and how it ends: what is  *)
(* on the stack decides only whether a divisor is zero or a conversion       *)
(* throws, and some program has either at any op.  Stack, storage and logs,  *)
(* which nothing of a block depends on, are left out.                        *)
(***************************************************************************)
EXTENDS Integers, Sequences

CONSTANTS
  GasLimits,     \* gas limits of transactions
  BlockGas,      \* MAX_BLOCK_GAS
  FailedGas,     \* what the receipt of a transaction that is not applied says (21000)
  OpCosts,       \* costs of the ops on the stack
  StorageCosts,  \* costs of SLOAD and SSTORE
  LogCosts,      \* costs of LOG, by the length of its data
  MaxReceipts    \* bound: receipts of a block

ASSUME ExecutionAssumption ==
  /\ GasLimits \subseteq Nat /\ OpCosts \cup StorageCosts \cup LogCosts \subseteq Nat
  /\ {BlockGas, FailedGas, MaxReceipts} \subseteq Nat

VARIABLES
  gasLimit,           \* tx.gasLimit of the transaction at hand
  running,            \* its program is being executed
  remaining, spent,   \* the gas meter
  validTxs,           \* number of transactions in the block
  totalGasUsed, cumulativeGas,
  receipts,           \* the receipts of the block, in order
  stored              \* those that storeReceipt was called with

meter == <<remaining, spent>>
block == <<validTxs, totalGasUsed, cumulativeGas, receipts, stored>>
executionVars == <<gasLimit, running, meter, block>>

ExecutionInit ==
  /\ gasLimit = 0 /\ running = FALSE /\ remaining = 0 /\ spent = 0
  /\ validTxs = 0 /\ totalGasUsed = 0 /\ cumulativeGas = 0 /\ receipts = << >> /\ stored = << >>

EmptyBlock ==
  validTxs' = 0 /\ totalGasUsed' = 0 /\ cumulativeGas' = 0 /\ receipts' = << >> /\ stored' = << >>
EndProgram == gasLimit' = 0 /\ running' = FALSE /\ remaining' = 0 /\ spent' = 0

-----------------------------------------------------------------------------
\* createReceipt
Receipt(index, limit, gas, cumulative) ==
  [index |-> index, limit |-> limit, gasUsed |-> gas, cumulative |-> cumulative]

\* The transaction is in the block, and storeReceipt gets its receipt.
Include(index, limit, gas) ==
  LET receipt == Receipt(index, limit, gas, cumulativeGas + gas) IN
  /\ validTxs' = index + 1
  /\ totalGasUsed' = totalGasUsed + gas /\ cumulativeGas' = cumulativeGas + gas
  /\ receipts' = Append(receipts, receipt) /\ stored' = Append(stored, receipt)

\* Past the block's gas limit the loop ends.
Fits(limit) == totalGasUsed + limit <= BlockGas /\ Len(receipts) < MaxReceipts

\* A transfer uses its whole limit.
Transfer(limit) ==
  /\ ~running /\ Fits(limit)
  /\ Include(validTxs, limit, limit)
  /\ UNCHANGED <<gasLimit, running, meter>>

\* An invalid signature, or applyTransaction refuses: a receipt that is not stored.
NotApplied(limit) ==
  /\ ~running /\ Fits(limit)
  /\ receipts' = Append(receipts, Receipt(validTxs, limit, FailedGas, cumulativeGas + FailedGas))
  /\ UNCHANGED <<gasLimit, running, meter, validTxs, totalGasUsed, cumulativeGas, stored>>

\* interpreter.execute
Execute(limit) ==
  /\ ~running /\ Fits(limit)
  /\ running' = TRUE /\ gasLimit' = limit /\ remaining' = limit /\ spent' = 0
  /\ UNCHANGED block

-----------------------------------------------------------------------------
\* The result of the program; a revert differs in its status only.
Return(gas) == Include(validTxs, gasLimit, gas) /\ EndProgram

\* GasMeter.charge: an op that costs more than is left takes what is left.
Affords(amount) == amount <= remaining

OutOfGasOvercharged(amount) ==  \* Mutant: the whole cost is spent.
  ~Affords(amount) /\ Return(spent + amount)

OutOfGas(amount) == ~Affords(amount) /\ Return(spent + remaining)

Charge(amount) ==
  /\ Affords(amount) /\ remaining' = remaining - amount /\ spent' = spent + amount
  /\ UNCHANGED <<gasLimit, running, block>>

Op(costs) == \E amount \in costs : OutOfGas(amount) \/ Charge(amount)

StackOp == Op(OpCosts)
StorageOp == Op(StorageCosts)
Log == Op(LogCosts)

\* DIV and MOD by zero revert after they were paid for.
DivideByZero == \E amount \in OpCosts : Affords(amount) /\ Return(spent + amount)

\* STOP and REVERT cost nothing; so does an unknown op, which reverts, and the end.
Finish == Return(spent)

\* An op that is null or lacks its arguments, a value that BigInt or Number refuses and a
\* shift too far throw.  The exception ends the cycle; receipts stored before it stay.
ProgramFails == EmptyBlock /\ EndProgram

\* The loop is over; the next cycle starts with an empty block.
NextBlock == ~running /\ EmptyBlock /\ UNCHANGED <<gasLimit, running, meter>>

ExecutionNext ==
  \/ \E limit \in GasLimits : Transfer(limit) \/ NotApplied(limit) \/ Execute(limit)
  \/ running /\ (StackOp \/ StorageOp \/ Log \/ DivideByZero \/ Finish \/ ProgramFails)
  \/ NextBlock

ExecutionSpec == ExecutionInit /\ [][ExecutionNext]_executionVars

-----------------------------------------------------------------------------
\* The variables have their types.
ExecutionTypeOK ==
  /\ running \in BOOLEAN
  /\ {receipts, stored} \subseteq
        Seq([index : Nat, limit : Nat, gasUsed : Nat, cumulative : Nat])
  /\ {gasLimit, remaining, spent, validTxs, totalGasUsed, cumulativeGas} \subseteq Nat

\* The receipts a reader can find account for the block: they are numbered
\* without a gap, each counts the gas of those before it and no more than its
\* transaction allowed, and the last one counts what the block says it used, within
\* its limit, whatever the programs do and however they end.
GasBefore(i) == IF i = 0 THEN 0 ELSE stored[i].cumulative
ReceiptsAddUp ==
  /\ Len(stored) = validTxs /\ totalGasUsed = GasBefore(validTxs) /\ totalGasUsed <= BlockGas
  /\ \A i \in DOMAIN stored :
       /\ stored[i].index = i - 1 /\ stored[i].gasUsed <= stored[i].limit
       /\ stored[i].cumulative = GasBefore(i - 1) + stored[i].gasUsed
=============================================================================
