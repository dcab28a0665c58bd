---------------------------- MODULE SessionLease ----------------------------
(***************************************************************************)
(* The exclusive lease on one canonical session file                       *)
(* (runs/shared/session-lease.ts) as a revived runner uses it              *)
(* (runConfiguredSubagent in runs/background/subagent-runner.ts).          *)
(*                                                                         *)
(* The lease is a directory.  A contender prepares a private directory     *)
(* with its owner.json and renames it onto the lease directory: POSIX      *)
(* rename succeeds when the target is absent or an empty directory.  When  *)
(* that collides, the contender reads owner.json, decides from process     *)
(* probes whether the owner is demonstrably stale, and renames the lease   *)
(* directory to a tombstone named after the token it READ.  Each runner    *)
(* makes one acquisition, with a fresh random token, so a runner stands    *)
(* for its token.  Every file-system call is a step of its own wherever    *)
(* another process can come between two of them.                           *)
(***************************************************************************)
EXTENDS Naturals

CONSTANTS
  Runners,        \* runner processes contending for the session file
  NoRunner,       \* not a runner: no owner was read
  Host,           \* Host[r]: the machine r runs on (pids are probed locally)
  MaxWriters,     \* bound: Pi writers one runner spawns, one after the other
  MaxAttempts,    \* rounds of the acquire loop (4 in the code)
  DeathPoints,    \* the control points at which a runner's process may vanish
  UncaughtExits   \* whether an uncaught exception may end a streaming runner

Holds    == {"held", "spawning", "registering", "streaming", "releasing"}
Emptied  == {"removing", "verifying", "done", "unverified"}
Control  == {"create", "read", "judge", "tombstone", "lastRead", "refused",
             "dead", "gone"} \cup Holds \cup Emptied

ASSUME LeaseAssumption ==
  /\ Runners \cap {NoRunner, "absent", "empty"} = {}
  /\ MaxWriters \in Nat
  /\ MaxAttempts \in Nat \ {0}
  /\ DeathPoints \subseteq Control \ {"dead", "gone"}
  /\ UncaughtExits \in BOOLEAN

VARIABLES
  pc,         \* pc[r]: where runner r is
  attempt,    \* attempt[r]: completed rounds of the acquire loop
  seen,       \* seen[r]: the owner record r last read while contending
  slot,       \* the lease directory: "absent", "empty", or the runner whose
              \* owner.json it holds
  record,     \* record[r]: the writer part of the owner.json r last wrote
  tombs,      \* tokens whose tombstone exists (tombstones are never removed)
  writer      \* writer[r]: which of r's Pi writers is alive, 0 when none is

vars == <<pc, attempt, seen, slot, record, tombs, writer>>

\* The writer part of an owner record.  gen numbers the writers of a runner:
\* it stands for the recorded writer pid together with its start identity.
WriterRecord == [state : {"none", "spawning", "running"}, gen : 0..MaxWriters]
Unspawned    == [state |-> "none", gen |-> 0]
Unread       == [owner |-> NoRunner, rec |-> Unspawned]

TypeOK ==
  /\ pc \in [Runners -> Control]
  /\ attempt \in [Runners -> 0..MaxAttempts]
  /\ seen \in [Runners -> [owner : Runners \cup {NoRunner}, rec : WriterRecord]]
  /\ slot \in {"absent", "empty"} \cup Runners
  /\ record \in [Runners -> WriterRecord]
  /\ tombs \subseteq Runners
  /\ writer \in [Runners -> 0..MaxWriters]

Init ==
  /\ pc = [r \in Runners |-> "create"]
  /\ attempt = [r \in Runners |-> 0]
  /\ seen = [r \in Runners |-> Unread]
  /\ slot = "absent"
  /\ record = [r \in Runners |-> Unspawned]
  /\ tombs = {}
  /\ writer = [r \in Runners |-> 0]

Goto(r, label) == pc' = [pc EXCEPT ![r] = label]

-----------------------------------------------------------------------------
(* acquireSessionLease: one round of the loop is create, read, judge,       *)
(* tombstone.                                                               *)

\* createLeaseDirectory: the private directory is renamed onto the lease
\* directory; a non-empty target makes the rename fail.
CreateLease(r) ==
  /\ pc[r] = "create"
  /\ IF slot \in Runners
       THEN Goto(r, "read") /\ UNCHANGED slot
       ELSE Goto(r, "held") /\ slot' = r
  /\ UNCHANGED <<attempt, seen, record, tombs, writer>>

\* Mutant of ReadOwner: a directory without an owner record is an owner too.
ReadAnyOwner(r) ==
  /\ pc[r] = "read"
  /\ IF slot \in Runners
       THEN /\ seen' = [seen EXCEPT ![r] = [owner |-> slot, rec |-> record[slot]]]
            /\ Goto(r, "judge")
       ELSE /\ seen' = [seen EXCEPT ![r] = [owner |-> slot, rec |-> Unspawned]]
            /\ Goto(r, "refused")
  /\ UNCHANGED <<attempt, slot, record, tombs, writer>>

\* readLeaseOwner: the record now in the lease directory.  An absent or empty
\* directory gives no owner, and that is reported as a conflict.
ReadOwner(r) ==
  /\ pc[r] = "read"
  /\ IF slot \in Runners
       THEN /\ seen' = [seen EXCEPT ![r] = [owner |-> slot, rec |-> record[slot]]]
            /\ Goto(r, "judge")
       ELSE /\ seen' = [seen EXCEPT ![r] = Unread]
            /\ Goto(r, "refused")
  /\ UNCHANGED <<attempt, slot, record, tombs, writer>>

Gone(o)             == pc[o] \in {"dead", "gone"}
WriterGone(o, gen)  == writer[o] # gen

\* Mutant of DemonstrablyStale: the runner's process is not probed.
StaleWithoutWriter(r, owner, rec) ==
  /\ Host[owner] = Host[r]
  /\ rec.state # "spawning"
  /\ rec.state = "running" => WriterGone(owner, rec.gen)

\* Mutant of DemonstrablyStale: a writer still spawning is not considered.
StaleWhileSpawning(r, owner, rec) ==
  /\ Host[owner] = Host[r]
  /\ Gone(owner)
  /\ rec.state = "running" => WriterGone(owner, rec.gen)

\* demonstrablyStale, on the record that was read: same machine, the owner's
\* process gone, and its writer never started or gone too.
DemonstrablyStale(r, owner, rec) ==
  /\ Host[owner] = Host[r]
  /\ Gone(owner)
  /\ rec.state # "spawning"
  /\ rec.state = "running" => WriterGone(owner, rec.gen)

JudgeOwner(r) ==
  /\ pc[r] = "judge"
  /\ IF DemonstrablyStale(r, seen[r].owner, seen[r].rec)
       THEN Goto(r, "tombstone")
       ELSE Goto(r, "refused")
  /\ UNCHANGED <<attempt, seen, slot, record, tombs, writer>>

\* Mutant of MoveToTombstone: an occupied tombstone does not stop the rename
\* (as with one fresh tombstone name for every attempt).
MoveToFreshTombstone(r) ==
  /\ pc[r] = "tombstone"
  /\ slot' = "absent"
  /\ tombs' = IF slot \in Runners THEN tombs \cup {seen[r].owner} ELSE tombs
  /\ attempt' = [attempt EXCEPT ![r] = @ + 1]
  /\ Goto(r, IF attempt[r] + 1 = MaxAttempts THEN "lastRead" ELSE "create")
  /\ UNCHANGED <<seen, record, writer>>

\* Rename the lease directory to the tombstone of the token that was READ.
\* The rename moves whatever the directory now holds; it fails when the
\* directory is absent or the tombstone is occupied, and the loop goes on.
MoveToTombstone(r) ==
  LET token == seen[r].owner IN
  /\ pc[r] = "tombstone"
  /\ IF slot = "absent" \/ token \in tombs
       THEN UNCHANGED <<slot, tombs>>
       ELSE /\ tombs' = IF slot = "empty" THEN tombs ELSE tombs \cup {token}
            /\ slot' = "absent"
  /\ attempt' = [attempt EXCEPT ![r] = @ + 1]
  /\ Goto(r, IF attempt[r] + 1 = MaxAttempts THEN "lastRead" ELSE "create")
  /\ UNCHANGED <<seen, record, writer>>

\* After the last round the contender reads the owner once more, to name it.
ReadForConflict(r) ==
  /\ pc[r] = "lastRead"
  /\ seen' = [seen EXCEPT ![r] =
                IF slot \in Runners THEN [owner |-> slot, rec |-> record[slot]]
                                    ELSE Unread]
  /\ Goto(r, "refused")
  /\ UNCHANGED <<attempt, slot, record, tombs, writer>>

-----------------------------------------------------------------------------
(* The runner that holds the lease: runPiStreaming and updateWriter.        *)

\* updateWriter({state: "spawning"}) before the spawn.  It throws when the
\* directory no longer names r, and the run then ends.
BeginSpawn(r) ==
  /\ pc[r] = "held"
  /\ record[r].gen < MaxWriters
  /\ IF slot = r
       THEN /\ record' = [record EXCEPT ![r].state = "spawning"]
            /\ Goto(r, "spawning")
       ELSE /\ Goto(r, "releasing")
            /\ UNCHANGED record
  /\ UNCHANGED <<attempt, seen, slot, tombs, writer>>

\* spawn() starts the detached Pi process.
SpawnWriter(r) ==
  /\ pc[r] = "spawning"
  /\ writer' = [writer EXCEPT ![r] = record[r].gen + 1]
  /\ Goto(r, "registering")
  /\ UNCHANGED <<attempt, seen, slot, record, tombs>>

\* The "error" event of spawn(): no process, the record goes back to none.
SpawnFails(r) ==
  /\ pc[r] = "spawning"
  /\ record' = IF slot = r THEN [record EXCEPT ![r].state = "none"] ELSE record
  /\ Goto(r, "held")
  /\ UNCHANGED <<attempt, seen, slot, tombs, writer>>

\* updateWriter({state: "running", pid}): when it throws, the child is killed.
RegisterWriter(r) ==
  /\ pc[r] = "registering"
  /\ IF slot = r
       THEN /\ record' = [record EXCEPT
                            ![r] = [state |-> "running", gen |-> @.gen + 1]]
            /\ UNCHANGED writer
       ELSE /\ writer' = [writer EXCEPT ![r] = 0]
            /\ UNCHANGED record
  /\ Goto(r, "streaming")
  /\ UNCHANGED <<attempt, seen, slot, tombs>>

\* The writer process ends, whoever is still there to see it.
WriterExit(r) ==
  /\ writer[r] # 0
  /\ writer' = [writer EXCEPT ![r] = 0]
  /\ UNCHANGED <<pc, attempt, seen, slot, record, tombs>>

\* The "close" event: updateWriter({state: "none"}), its failure swallowed.
WriterClosed(r) ==
  /\ pc[r] = "streaming"
  /\ writer[r] = 0
  /\ record' = IF slot = r THEN [record EXCEPT ![r].state = "none"] ELSE record
  /\ Goto(r, "held")
  /\ UNCHANGED <<attempt, seen, slot, tombs, writer>>

-----------------------------------------------------------------------------
(* release(): in the finally of runConfiguredSubagent, or in the "exit"      *)
(* handler when an exception nobody catches ends the process.               *)

FinishRun(r) ==
  /\ pc[r] = "held"
  /\ Goto(r, "releasing")
  /\ UNCHANGED <<attempt, seen, slot, record, tombs, writer>>

UncaughtException(r) ==
  /\ UncaughtExits
  /\ pc[r] = "streaming"
  /\ Goto(r, "releasing")
  /\ UNCHANGED <<attempt, seen, slot, record, tombs, writer>>

\* The token check, then rmSync unlinks owner.json: the directory is empty.
UnlinkOwner(r) ==
  /\ pc[r] = "releasing"
  /\ IF slot = r
       THEN slot' = "empty" /\ Goto(r, "removing")
       ELSE Goto(r, "unverified") /\ UNCHANGED slot
  /\ UNCHANGED <<attempt, seen, record, tombs, writer>>

\* rmSync removes the directory; it throws when a successor moved in first.
RemoveDirectory(r) ==
  /\ pc[r] = "removing"
  /\ slot' = IF slot = "empty" THEN "absent" ELSE slot
  /\ Goto(r, IF slot \in Runners THEN "unverified" ELSE "verifying")
  /\ UNCHANGED <<attempt, seen, record, tombs, writer>>

\* release() acknowledges only when the lease directory does not exist.
VerifyRelease(r) ==
  /\ pc[r] = "verifying"
  /\ Goto(r, IF slot = "absent" THEN "done" ELSE "unverified")
  /\ UNCHANGED <<attempt, seen, slot, record, tombs, writer>>

\* The runner's process vanishes: "dead" when it is killed, "gone" when it has
\* emptied its lease directory before, as every runner has that ends by
\* itself.  Its detached writer lives on.
Die(r) ==
  /\ pc[r] \in DeathPoints
  /\ Goto(r, IF pc[r] \in Emptied THEN "gone" ELSE "dead")
  /\ UNCHANGED <<attempt, seen, slot, record, tombs, writer>>

-----------------------------------------------------------------------------
\* Everything a runner does except the rename to a tombstone.
OtherStep(r) ==
  \/ CreateLease(r) \/ ReadOwner(r) \/ JudgeOwner(r) \/ ReadForConflict(r)
  \/ BeginSpawn(r) \/ SpawnWriter(r) \/ SpawnFails(r) \/ RegisterWriter(r)
  \/ WriterClosed(r)
  \/ FinishRun(r) \/ UncaughtException(r)
  \/ UnlinkOwner(r) \/ RemoveDirectory(r) \/ VerifyRelease(r)

Step(r) == OtherStep(r) \/ MoveToTombstone(r)

Next == \E r \in Runners : Step(r) \/ WriterExit(r) \/ Die(r)

Spec == Init /\ [][Next]_vars

-----------------------------------------------------------------------------
\* The promise of the lease (docs/tool-reference.md: "takes an exclusive
\* cross-process lease on the canonical session file"): two runners never
\* both believe they hold it.
SingleHolder ==
  \A a, b \in Runners : pc[a] \in Holds /\ pc[b] \in Holds => a = b

\* The stronger fact updateWriter and release rely on: while a runner holds
\* the lease the directory carries its own token, so neither of them ever
\* takes its "ownership changed" branch.
HolderOwnsSlot ==
  \A r \in Runners : pc[r] \in Holds => slot = r

\* A contender takes away the lease of a dead runner only: it has read that
\* runner's record, and when it was the last one the runner wrote, no writer
\* of the runner is alive either.
OnlyTheDeadAreMoved ==
  [][\A o \in Runners : slot = o /\ slot' = "absent" =>
       /\ Gone(o)
       /\ \E c \in Runners :
            /\ pc[c] = "tombstone" /\ pc'[c] # "tombstone"
            /\ seen[c].owner = o
            /\ seen[c].rec = record[o] => writer[o] = 0]_vars

\* The only step that breaks these promises: the rename of a contender that
\* read the record of an owner that has since emptied its lease directory and
\* ended.  That owner left no tombstone, and the lease in the directory is
\* another runner's.
RenameAfterRelease ==
  \E c \in Runners :
    /\ pc[c] = "tombstone" /\ MoveToTombstone(c)
    /\ pc[seen[c].owner] = "gone"
    /\ slot \in Runners \ {seen[c].owner}

\* What the session file needs (docs/tool-reference.md: "until the new child
\* finishes"): no two Pi writers of different runners are alive at once.
WriterExclusive ==
  \A a, b \in Runners : writer[a] # 0 /\ writer[b] # 0 => a = b

\* The exact reach of the writer check in demonstrablyStale ("keeps an
\* orphaned writer exclusive", test/unit/session-lease.test.ts): a condemned
\* owner is gone and stays gone until the lease is moved away, and if it was
\* condemned on the LAST record it wrote its writer is gone as well.  Only a
\* record the owner has since replaced can condemn a lease too early.
VerdictOnLastRecordIsRight ==
  \A c \in Runners :
    pc[c] = "tombstone" =>
      /\ Gone(seen[c].owner)
      /\ seen[c].rec = record[seen[c].owner] => writer[seen[c].owner] = 0

\* The lease implements the abstract lock.
Lock == INSTANCE SessionLock WITH
          holders <- {r \in Runners : pc[r] \in Holds}
LockSpec == Lock!Spec
=============================================================================
