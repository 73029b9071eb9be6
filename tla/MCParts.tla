------------------------------- MODULE MCParts -------------------------------
(* The faucet's claims, the token budget, the gas of a block, the migrations *)
(* and the services of a leader share no state: a behaviour explores one of  *)
(* them and leaves the others in a first state.  One process is elected      *)
(* twice.                                                                    *)
EXTENDS FaucetClaims, TokenBudget, Execution, Migrations, LeaderServices

VARIABLE part

mcVars == <<part, faucetVars, budgetVars, executionVars, migrationVars, vars>>

Faucet(A) ==
  part = "faucet" /\ A /\ UNCHANGED <<part, budgetVars, executionVars, migrationVars, vars>>
Budget(A) ==
  part = "budget" /\ A /\ UNCHANGED <<part, faucetVars, executionVars, migrationVars, vars>>
Execution(A) ==
  part = "execution" /\ A /\ UNCHANGED <<part, faucetVars, budgetVars, migrationVars, vars>>
Migrations(A) ==
  part = "migrations" /\ A /\ UNCHANGED <<part, faucetVars, budgetVars, executionVars, vars>>
Services(A) ==
  part = "services" /\ A
  /\ UNCHANGED <<part, faucetVars, budgetVars, executionVars, migrationVars>>

\* Addresses are interchangeable, so that of one claim may be fixed.
AnyAddress == CHOOSE a \in Addresses : TRUE
AnyClaim == CHOOSE c \in Claims : TRUE

MCInit ==
  /\ part \in {"faucet", "budget", "execution", "migrations", "services"}
  /\ FaucetInit /\ BudgetInit /\ ExecutionInit /\ MigrationInit /\ Init
  /\ to[AnyClaim] = AnyAddress
  /\ part # "faucet" => to = [c \in Claims |-> AnyAddress]

MCNext ==
  \/ Faucet(FaucetNext) \/ Budget(BudgetNext)
  \/ Execution(ExecutionNext) \/ Migrations(MigrationNext) \/ Services(Next)

\* The fairness of each part, while its part is explored.
MCFairness ==
  /\ WF_mcVars(Faucet(\E tx \in pending : Mine(tx)))
  /\ WF_mcVars(Budget(PassTime)) /\ WF_mcVars(Budget(LoopStep)) /\ WF_mcVars(Budget(PersistStep))
  /\ WF_mcVars(Migrations(\E s \in Server : MigrationStep(s)))
  /\ WF_mcVars(Services(Produce)) /\ WF_mcVars(Services(CycleReturns \/ CycleThrows))
  /\ WF_mcVars(Services(Restart)) /\ WF_mcVars(Services(Initialized))
  /\ WF_mcVars(Services(Exit)) /\ WF_mcVars(Services(Beat)) /\ WF_mcVars(Services(ModuleStart))

MCSpec == MCInit /\ [][MCNext]_mcVars /\ MCFairness
=============================================================================
