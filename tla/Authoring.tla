----------------------------- MODULE Authoring ------------------------------
(***************************************************************************)
(* How the work of a run gets into the queue branch: loops of AgentWorker    *)
(* write files into the working tree of their process, verify them, and      *)
(* GitIntegration commits each run, replays the branch onto the remote's and *)
(* pushes it.  A commit is named by its run.  Git commands are synchronous:  *)
(* until they end, no other loop of the process goes on.                     *)
(***************************************************************************)
EXTENDS Integers, Sequences, FiniteSets, SequencesExt

CONSTANTS
  Clone,      \* worker processes, each with a clone
  Author,     \* copies of the loop; a process that was elected again may have two
  Homes,      \* where they may be: functions from Author to Clone
  File,       \* what the repository allows the agent to write, numbered as git lists paths
  Old,        \* the files that were there before the first run
  Dir,        \* of files that would lie in a new directory: what stands for that directory
  Scopes,     \* editScopes of tasks: files and directories
  MaxReplay,  \* commits that are replayed at most (25)
  MaxRuns,    \* bound: runs
  MaxErrors,  \* bound: git commands that fail
  MaxEnds     \* bound: ends of processes

ASSUME AuthoringAssumption ==
  /\ Homes \subseteq [Author -> Clone] /\ File \subseteq Nat /\ Old \subseteq File
  /\ DOMAIN Dir \subseteq File \ Old /\ Range(Dir) \intersect File = {}
  /\ Scopes \subseteq SUBSET (File \union Range(Dir))
  /\ {MaxReplay, MaxRuns, MaxErrors, MaxEnds} \subseteq Nat

VARIABLES
  home,          \* the process of each loop
  remote,        \* the queue branch of the remote: runs, in the order of their commits
  local,         \* the queue branch of each clone
  tree, index,   \* of each clone, the run that wrote a file since HEAD and since it was staged
  scoped,        \* clones in which the execution scopes are set
  at,            \* how far each loop is
  run, scope,    \* the run of each loop, and the editScopes of its task
  written,       \* changedFiles
  begun,         \* runs so far
  content,       \* of each run: the files of its commit, each with the run that wrote it
  succeeded,     \* history: runs whose commit step reported success
  alone,         \* history: runs that began in a clean tree and had it to themselves
  blamed,        \* history: runs that were refused for files they had not written
  lost,          \* history: runs whose commit went with its clone
  errors, ends

loop == <<at, run, scope, written>>
branches == <<remote, local>>
clone == <<tree, index>>
record == <<begun, content, succeeded, alone, blamed, lost>>
authoringVars == <<home, branches, clone, scoped, loop, record, errors, ends>>

Runs == 1 .. MaxRuns
Clear == [f \in File |-> 0]  \* no file differs from HEAD

AuthoringInit ==
  /\ home \in Homes /\ remote = << >> /\ local = [c \in Clone |-> << >>]
  /\ tree = [c \in Clone |-> Clear] /\ index = [c \in Clone |-> Clear] /\ scoped = {}
  /\ at = [a \in Author |-> "idle"] /\ run = [a \in Author |-> 0]
  /\ scope = [a \in Author |-> {}] /\ written = [a \in Author |-> {}]
  /\ begun = 0 /\ content = [r \in Runs |-> {}] /\ succeeded = {}
  /\ alone = {} /\ blamed = {} /\ lost = {} /\ errors = 0 /\ ends = 0

\* A loop goes on unless another one of its process waits for git.
Git == {"committed", "replayed"}
IsAt(a, step) ==
  at[a] = step /\ \A b \in Author \ {a} : home[b] = home[a] => at[b] \notin Git

Goto(a, step) == at' = [at EXCEPT ![a] = step] /\ UNCHANGED <<run, scope, written>>

\* The run is over, with a commit or without one.
Over(a) ==
  /\ at' = [at EXCEPT ![a] = "idle"] /\ run' = [run EXCEPT ![a] = 0]
  /\ scope' = [scope EXCEPT ![a] = {}] /\ written' = [written EXCEPT ![a] = {}]

Error == errors < MaxErrors /\ errors' = errors + 1
Companions(a) == {b \in Author \ {a} : home[b] = home[a] /\ at[b] # "idle"}

-----------------------------------------------------------------------------
\* Mutant: reset --hard to the branch of the remote.
CleanToRemote(c) ==
  /\ tree' = [tree EXCEPT ![c] = Clear] /\ index' = [index EXCEPT ![c] = Clear]
  /\ local' = [local EXCEPT ![c] = remote]

\* Mutant: the files of failed runs are left in place.
CleanUnstages(c) == index' = [index EXCEPT ![c] = Clear] /\ UNCHANGED <<tree, local>>

\* prepareCleanWorktree: reset --hard HEAD and clean -fd.
Clean(c) ==
  /\ tree' = [tree EXCEPT ![c] = Clear] /\ index' = [index EXCEPT ![c] = Clear]
  /\ UNCHANGED local

\* streamRealTask, up to its first await.
Begin(a) ==
  LET r == begun + 1 IN
  /\ IsAt(a, "idle") /\ begun < MaxRuns /\ begun' = r
  /\ \/ /\ Clean(home[a]) /\ UNCHANGED errors
        /\ alone' = IF Companions(a) = {} THEN alone \union {r}
                    ELSE alone \ {run[b] : b \in Companions(a)}
     \/ /\ Error /\ UNCHANGED <<clone, local>>
        /\ alone' = alone \ {run[b] : b \in Companions(a)}
  /\ scoped' = scoped \union {home[a]}
  /\ \E s \in Scopes : scope' = [scope EXCEPT ![a] = s]
  /\ at' = [at EXCEPT ![a] = "streaming"] /\ run' = [run EXCEPT ![a] = r]
  /\ UNCHANGED <<home, remote, written, content, succeeded, blamed, lost, ends>>

\* write_file: while scopes are set, every file of the allowlist is in them.
WriteFile(a) ==
  /\ IsAt(a, "streaming") /\ home[a] \in scoped
  /\ \E f \in File :
       /\ tree' = [tree EXCEPT ![home[a]][f] = run[a]]
       /\ written' = [written EXCEPT ![a] = @ \union {f}]
  /\ UNCHANGED <<home, branches, index, scoped, at, run, scope, record, errors, ends>>

\* streamRealTask ends or throws, and clears the scopes of its process; a run
\* without a written file is not verified.
EndStream(a) ==
  /\ IsAt(a, "streaming") /\ scoped' = scoped \ {home[a]}
  /\ \/ written[a] # {} /\ Goto(a, "verifying")
     \/ Over(a)
  /\ UNCHANGED <<home, branches, clone, record, errors, ends>>

\* A step of the verification fails.
FailVerification(a) ==
  /\ IsAt(a, "verifying") /\ Over(a)
  /\ UNCHANGED <<home, branches, clone, scoped, record, errors, ends>>

-----------------------------------------------------------------------------
Touched(runs) == UNION {{entry[1] : entry \in content[r]} : r \in runs}
InHead(c) == Old \union Touched(ToSet(local[c]))
Changed(c) == {f \in File : tree[c][f] # 0}

\* What git status shows first: files of HEAD and staged files.
Tracked(c) == {f \in Changed(c) : f \in InHead(c) \/ index[c][f] # 0}

\* execGit trims the output: if its first line is that of an unstaged change, " M path",
\* the columns of that line are off by one and its path lacks a character.
Misread(c) == {f \in Tracked(c) : index[c][f] = 0 /\ \A g \in Tracked(c) : f <= g}

\* For the untracked files of a new directory the status shows the directory.
Shown(c, f) == IF f \in DOMAIN Dir \ Tracked(c) THEN Dir[f] ELSE f

\* getScopedStatusEntries, with the editScopes of the task.
Entries(a) == {Shown(home[a], f) : f \in Changed(home[a]) \ Misread(home[a])} \intersect scope[a]
Expected(a) == Entries(a) \subseteq written[a]

\* getUnexpectedChangedFilesWithinScopes
RefuseUnexpected(a) ==
  LET c == home[a]
      foreign == {f \in Changed(c) : tree[c][f] # run[a] /\ Shown(c, f) \notin written[a]}
  IN
  /\ IsAt(a, "verifying") /\ ~Expected(a) /\ Over(a)
  /\ blamed' = IF {Shown(c, f) : f \in foreign} \intersect Entries(a) = {} THEN blamed
               ELSE blamed \union {run[a]}
  /\ UNCHANGED <<home, branches, clone, scoped, begun, content, succeeded, alone, lost, errors,
                 ends>>

Succeed(a) ==
  /\ Over(a) /\ succeeded' = succeeded \union {run[a]}
  /\ UNCHANGED <<home, scoped, begun, alone, blamed, lost, ends>>

NothingScoped(a) ==
  /\ IsAt(a, "verifying") /\ Entries(a) = {} /\ Succeed(a)
  /\ UNCHANGED <<branches, clone, content, errors>>

Ready(a) == IsAt(a, "verifying") /\ Expected(a) /\ Entries(a) # {}
Staged(a, files) == [f \in File |-> IF f \in files THEN tree[home[a]][f] ELSE index[home[a]][f]]

\* The guards before staging, and the quality gate, which unstages.
Reject(a) ==
  /\ Ready(a) /\ Over(a)
  /\ UNCHANGED index \/ index' = [index EXCEPT ![home[a]] = Clear]
  /\ UNCHANGED <<home, branches, tree, scoped, record, errors, ends>>

\* git add or git commit fails.
CommitFails(a) ==
  /\ Ready(a) /\ Error /\ Over(a)
  /\ \E files \in SUBSET Entries(a) : index' = [index EXCEPT ![home[a]] = Staged(a, files)]
  /\ UNCHANGED <<home, branches, tree, scoped, record, ends>>

\* A commit takes the whole index.
Commit(a) ==
  LET c == home[a]
      whole == Staged(a, Entries(a))
  IN
  /\ Ready(a) /\ Goto(a, "committed")
  /\ content' = [content EXCEPT ![run[a]] = {<<f, whole[f]>> : f \in {g \in File : whole[g] # 0}}]
  /\ local' = [local EXCEPT ![c] = Append(@, run[a])]
  /\ index' = [index EXCEPT ![c] = Clear]
  /\ tree' = [tree EXCEPT ![c] = [f \in File |-> IF tree[c][f] = whole[f] THEN 0 ELSE tree[c][f]]]
  /\ UNCHANGED <<home, remote, scoped, begun, succeeded, alone, blamed, lost, errors, ends>>

-----------------------------------------------------------------------------
Shared(c) == Len(LongestCommonPrefix({local[c], remote}))
Ahead(c) == SubSeq(local[c], Shared(c) + 1, Len(local[c]))
Incoming(c) == Touched(ToSet(remote) \ ToSet(local[c]))
Conflict(c) == Touched(ToSet(Ahead(c))) \intersect Incoming(c) # {}

\* git rebase refuses changes of tracked files, and untracked files in its way.
Refused(c) == Changed(c) \intersect (InHead(c) \union Incoming(c)) # {}

Rebases(c) == Len(Ahead(c)) <= MaxReplay

\* fetch, and rebase unless too much is ahead.
Replay(a) ==
  LET c == home[a] IN
  /\ at[a] = "committed" /\ Goto(a, "replayed") /\ (Rebases(c) => ~Refused(c))
  /\ local' = IF Rebases(c) THEN [local EXCEPT ![c] = remote \o Ahead(c)] ELSE local
  /\ UNCHANGED <<home, remote, clone, scoped, record, errors, ends>>

\* The rebase is refused, or meets a conflict and is aborted; or the fetch fails.
\* The commit stays where it is and the run has succeeded.
ReplayFails(a) ==
  LET c == home[a] IN
  /\ at[a] = "committed" /\ Succeed(a)
  /\ Error \/ (Rebases(c) /\ (Refused(c) \/ Conflict(c)) /\ UNCHANGED errors)
  /\ UNCHANGED <<branches, clone, content>>

\* The remote takes a branch that continues its own, for the push is not forced;
\* a refusal is logged.
Push(a) ==
  /\ at[a] = "replayed" /\ Succeed(a)
  /\ remote' = IF IsPrefix(remote, local[home[a]]) THEN local[home[a]] ELSE remote
  /\ UNCHANGED <<local, clone, content, errors>>

PushFails(a) ==
  /\ at[a] = "replayed" /\ Error /\ Succeed(a)
  /\ UNCHANGED <<branches, clone, content>>

\* A process ends.  Its clone lies in /tmp: it is found again, or cloned anew.
End(c) ==
  LET inside == {a \in Author : home[a] = c}
      Reset(f, v) == [a \in Author |-> IF a \in inside THEN v ELSE f[a]]
  IN
  /\ ends < MaxEnds /\ ends' = ends + 1 /\ scoped' = scoped \ {c}
  /\ at' = Reset(at, "idle") /\ run' = Reset(run, 0)
  /\ scope' = Reset(scope, {}) /\ written' = Reset(written, {})
  /\ \/ UNCHANGED <<local, clone, lost>>
     \/ /\ local' = [local EXCEPT ![c] = remote]
        /\ lost' = lost \union (ToSet(local[c]) \ ToSet(remote))
        /\ tree' = [tree EXCEPT ![c] = Clear] /\ index' = [index EXCEPT ![c] = Clear]
  /\ UNCHANGED <<home, remote, begun, content, succeeded, alone, blamed, errors>>

AuthoringNext ==
  \/ \E a \in Author :
       \/ Begin(a) \/ WriteFile(a) \/ EndStream(a) \/ FailVerification(a) \/ RefuseUnexpected(a)
       \/ NothingScoped(a) \/ Reject(a) \/ CommitFails(a) \/ Commit(a) \/ Replay(a)
       \/ ReplayFails(a) \/ Push(a) \/ PushFails(a)
  \/ \E c \in Clone : End(c)

AuthoringSpec == AuthoringInit /\ [][AuthoringNext]_authoringVars

-----------------------------------------------------------------------------
\* Types of the whole state.
AuthoringTypeOK ==
  /\ home \in Homes /\ remote \in Seq(Runs) /\ local \in [Clone -> Seq(Runs)]
  /\ {tree, index} \subseteq [Clone -> [File -> 0 .. MaxRuns]] /\ scoped \subseteq Clone
  /\ at \in [Author -> {"idle", "streaming", "verifying"} \union Git]
  /\ run \in [Author -> 0 .. MaxRuns] /\ scope \in [Author -> {{}} \union Scopes]
  /\ written \in [Author -> SUBSET File] /\ begun \in 0 .. MaxRuns
  /\ content \in [Runs -> SUBSET (File \X Runs)]
  /\ {succeeded, alone, blamed, lost} \subseteq SUBSET Runs
  /\ errors \in 0 .. MaxErrors /\ ends \in 0 .. MaxEnds

\* A run that has the tree to itself commits nothing that another run wrote and
\* is not refused for what another run left behind, however that one failed: in
\* verification, at the quality gate or half way through staging.
RunsIsolated ==
  /\ \A r \in alone : \A entry \in content[r] : entry[2] = r
  /\ alone \intersect blamed = {}

\* What was committed is kept until its clone is gone, through conflicts, refused
\* pushes and the cleaning before later runs, and gets to the remote at most once.
Committed == {r \in Runs : content[r] # {}}
CommittedIsKept ==
  /\ Committed \ lost \subseteq ToSet(remote) \union UNION {ToSet(local[c]) : c \in Clone}
  /\ IsInjective(remote)

\* The comment of autoCommitAndPush: one commit per verified run.
VerifiedIsCommitted == \A r \in succeeded : content[r] # {}
=============================================================================
