----------------------------- MODULE Migrations -----------------------------
(***************************************************************************)
(* Servers that start together and migrate one database (migrations.ts, as   *)
(* the main of api/server.ts calls it).  The advisory lock belongs to a      *)
(* session of PostgreSQL.  While a server starts it queries one thing after  *)
(* the other, so its pool holds one connection; the driver closes it when a  *)
(* query fails, and PostgreSQL then frees the lock.                          *)
(***************************************************************************)
EXTENDS Integers, FiniteSets, FiniteSetsExt

CONSTANTS
  Server,
  Files,       \* number of migrations, which are sorted by name
  Once,        \* those that fail when they are executed again (0014 renames a table)
  MaxFaults,   \* bound: queries that fail
  MaxDeaths    \* bound: ends of processes

Migration == 1 .. Files
Nobody == "nobody"

ASSUME MigrationAssumption ==
  /\ Nobody \notin Server /\ Files \in Nat /\ Once \subseteq Migration
  /\ MaxFaults \in Nat /\ MaxDeaths \in Nat

VARIABLES
  boot,           \* the query that each server waits for
  holder,         \* server whose session has the lock, or Nobody
  gotLock,        \* servers whose query of the lock succeeded
  applied,        \* the names that each server read from schema_migrations
  executed,       \* migrations that the database has
  recorded,       \* rows of schema_migrations
  faults, deaths,
  interrupted,    \* history: a query or a process failed where the lock or the table matters
  refused         \* history: a migration was executed again that cannot be

tables == <<executed, recorded>>
server == <<holder, gotLock, applied>>
history == <<interrupted, refused>>
migrationVars == <<boot, server, tables, faults, deaths, history>>

Waits == {"lock", "lookup", "migration", "record", "unlock"}

MigrationInit ==
  /\ boot = [s \in Server |-> "down"] /\ holder = Nobody /\ gotLock = {}
  /\ applied = [s \in Server |-> {}] /\ executed = {} /\ recorded = {}
  /\ faults = 0 /\ deaths = 0 /\ interrupted = FALSE /\ refused = FALSE

On(s, query) == boot[s] = query
Await(s, query) == boot' = [boot EXCEPT ![s] = query]
Disconnect(s) == holder' = IF holder = s THEN Nobody ELSE holder

-----------------------------------------------------------------------------
\* main, up to the query of acquireLock.
Boot(s) ==
  /\ On(s, "down") /\ Await(s, "lock")
  /\ UNCHANGED <<server, tables, faults, deaths, history>>

\* Mutant: pg_try_advisory_lock, whose answer is ignored.
LockNotAwaited(s) ==
  /\ On(s, "lock") /\ holder' = (IF holder = Nobody THEN s ELSE holder)
  /\ gotLock' = gotLock \union {s} /\ Await(s, "lookup")
  /\ UNCHANGED <<applied, tables, faults, deaths, history>>

\* pg_advisory_lock answers when the lock is free.
Lock(s) ==
  /\ On(s, "lock") /\ holder = Nobody
  /\ holder' = s /\ gotLock' = gotLock \union {s} /\ Await(s, "lookup")
  /\ UNCHANGED <<applied, tables, faults, deaths, history>>

\* alreadyApplied
Lookup(s) ==
  /\ On(s, "lookup") /\ applied' = [applied EXCEPT ![s] = recorded] /\ Await(s, "migration")
  /\ UNCHANGED <<holder, gotLock, tables, faults, deaths, history>>

\* Mutant: the error is logged and the loop goes on.
HaltSkips(s) ==
  LET open == Migration \ applied[s] IN
  /\ applied' = [applied EXCEPT ![s] = @ \union {m \in open : \A n \in open : m <= n}]
  /\ Await(s, "migration") /\ UNCHANGED <<holder, gotLock>>

\* The first error ends the loop; finally finds the lock freed already, and
\* main goes on without its database set up.
Halt(s) ==
  /\ Disconnect(s) /\ Await(s, "serving")
  /\ gotLock' = gotLock \ {s} /\ applied' = [applied EXCEPT ![s] = {}]

\* execRaw of the next migration, in a transaction of its own.
Migrate(s) ==
  LET m == Min(Migration \ applied[s]) IN
  /\ On(s, "migration") /\ Migration # applied[s]
  /\ IF m \in Once \cap executed
     THEN Halt(s) /\ refused' = TRUE /\ UNCHANGED executed
     ELSE /\ executed' = executed \union {m} /\ Await(s, "record")
          /\ UNCHANGED <<server, refused>>
  /\ UNCHANGED <<recorded, faults, deaths, interrupted>>

\* INSERT INTO schema_migrations
Record(s) ==
  LET m == Min(Migration \ applied[s]) IN
  /\ On(s, "record") /\ recorded' = recorded \union {m}
  /\ applied' = [applied EXCEPT ![s] = @ \union {m}] /\ Await(s, "migration")
  /\ UNCHANGED <<holder, gotLock, executed, faults, deaths, history>>

\* After the last migration releaseLock is called if the lock was had.
AllRun(s) ==
  /\ On(s, "migration") /\ Migration = applied[s]
  /\ Await(s, IF s \in gotLock THEN "unlock" ELSE "serving")
  /\ UNCHANGED <<server, tables, faults, deaths, history>>

\* Mutant: a return before the lock is released.
UnlockForgotten(s) ==
  /\ On(s, "unlock") /\ Await(s, "serving")
  /\ UNCHANGED <<server, tables, faults, deaths, history>>

Unlock(s) ==
  /\ On(s, "unlock") /\ Disconnect(s) /\ Await(s, "serving")
  /\ gotLock' = gotLock \ {s} /\ applied' = [applied EXCEPT ![s] = {}]
  /\ UNCHANGED <<tables, faults, deaths, history>>

-----------------------------------------------------------------------------
Fault == faults < MaxFaults /\ faults' = faults + 1 /\ UNCHANGED <<tables, deaths, refused>>

\* acquireLock and alreadyApplied catch their errors: the migrations run
\* without the lock, all of them.
LockFails(s) ==
  /\ On(s, "lock") /\ Fault /\ Await(s, "lookup") /\ interrupted' = TRUE
  /\ UNCHANGED server

LookupFails(s) ==
  /\ On(s, "lookup") /\ Fault /\ Disconnect(s) /\ Await(s, "migration") /\ interrupted' = TRUE
  /\ applied' = [applied EXCEPT ![s] = {}] /\ UNCHANGED gotLock

MigrationFails(s) ==
  /\ On(s, "migration") /\ Migration # applied[s] /\ Fault /\ Halt(s)
  /\ UNCHANGED interrupted

RecordFails(s) ==
  /\ On(s, "record") /\ Fault /\ Halt(s) /\ interrupted' = TRUE

\* releaseLock ignores the error.
UnlockFails(s) ==
  /\ On(s, "unlock") /\ Fault /\ Halt(s) /\ UNCHANGED interrupted

\* A deployment or a crash ends the process, and its sessions with it.
Die(s) ==
  /\ ~On(s, "down") /\ deaths < MaxDeaths /\ deaths' = deaths + 1
  /\ Await(s, "down") /\ Disconnect(s) /\ interrupted' = (interrupted \/ On(s, "record"))
  /\ gotLock' = gotLock \ {s} /\ applied' = [applied EXCEPT ![s] = {}]
  /\ UNCHANGED <<tables, faults, refused>>

MigrationStep(s) ==
  Lock(s) \/ Lookup(s) \/ Migrate(s) \/ Record(s) \/ AllRun(s) \/ Unlock(s)

QueryFails(s) ==
  LockFails(s) \/ LookupFails(s) \/ MigrationFails(s) \/ RecordFails(s) \/ UnlockFails(s)

MigrationNext == \E s \in Server : Boot(s) \/ MigrationStep(s) \/ QueryFails(s) \/ Die(s)

\* Queries are answered: some server that can go on does.
MigrationFairness == WF_migrationVars(\E s \in Server : MigrationStep(s))

MigrationSpec == MigrationInit /\ [][MigrationNext]_migrationVars /\ MigrationFairness

-----------------------------------------------------------------------------
MigrationTypeOK ==
  /\ boot \in [Server -> Waits \union {"down", "serving"}]
  /\ holder \in Server \union {Nobody} /\ gotLock \subseteq Server
  /\ applied \in [Server -> SUBSET Migration]
  /\ executed \subseteq Migration /\ recorded \subseteq Migration
  /\ faults \in 0 .. MaxFaults /\ deaths \in 0 .. MaxDeaths
  /\ interrupted \in BOOLEAN /\ refused \in BOOLEAN

\* However many servers start together and wherever they die, a migration that
\* cannot be repeated is executed again only if a process or a query failed
\* between a migration and its record, or if the lock or the look-up failed:
\* the lock and the look-up under it suffice for everything else.
RefusedOnlyIfInterrupted == refused => interrupted

\* The table holds the first migrations without a gap, and the database has
\* what the table says, through concurrent runs without the lock too: the
\* first error halts the runner.
RecordedInOrder == recorded = 1 .. Cardinality(recorded) /\ recorded \subseteq executed

\* Whatever fails or dies, nobody waits for ever for the lock: again and again no
\* server is starting.
BootEnds == []<>(\A s \in Server : boot[s] \in {"serving", "down"})
=============================================================================
