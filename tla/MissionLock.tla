---------------------------- MODULE MissionLock ----------------------------
(***************************************************************************)
(* The lock directory around updates of a mission record                   *)
(* (withMissionRecordLock and updateMission in missions/store.ts).         *)
(*                                                                         *)
(* A process claims the lock by renaming a private directory with its      *)
(* owner.json onto it.  On a collision it judges the lock: it reads the    *)
(* owner and probes the owner's process.  A stale lock it renames to a     *)
(* private reclaim path, judges AGAIN there, and either puts back or       *)
(* drops.  The update itself reads the record, merges, and writes the      *)
(* whole record.  Each file-system call and each probe is a step.          *)
(*                                                                         *)
(* A process makes one update, named after it, and stands for the token of *)
(* its present claim: an earlier claim of its own is never in place.       *)
(***************************************************************************)
EXTENDS Naturals

CONSTANTS
  Processes,    \* processes that update the mission, one update each
  NoProcess,    \* not a process: no directory
  Mortal,       \* the processes that may crash
  MaxTries      \* bound: collisions before the acquisition times out

ASSUME MissionLockAssumption ==
  /\ Processes \cap {NoProcess, "empty"} = {}
  /\ Mortal \subseteq Processes
  /\ MaxTries \in Nat \ {0}

VARIABLES
  pc,       \* pc[p]: the next call of process p
  tries,    \* tries[p]: collisions p has met
  lock,     \* the lock directory: whose owner.json it holds, "empty" without
            \* one, NoProcess when there is no directory
  aside,    \* aside[p]: the same for p's reclaim path
  seen,     \* seen[p]: the owner p read last, NoProcess when it found none
  record,   \* the updates the mission record contains
  copy      \* copy[p]: the record p read

vars == <<pc, tries, lock, aside, seen, record, copy>>

Contents == Processes \cup {"empty", NoProcess}

TypeOK ==
  /\ pc \in [Processes ->
       {"claim", "judge", "probe", "move", "rejudge", "reprobe", "putBack",
        "drop", "dropRetry", "wait", "read", "write", "check", "unlink",
        "rmdir", "done", "failed", "timedOut", "exited", "dead"}]
  /\ tries \in [Processes -> 0..MaxTries]
  /\ lock \in Contents
  /\ aside \in [Processes -> Contents]
  /\ seen \in [Processes -> Processes \cup {NoProcess}]
  /\ record \subseteq Processes
  /\ copy \in [Processes -> SUBSET Processes]

Init ==
  /\ pc = [p \in Processes |-> "claim"]
  /\ tries = [p \in Processes |-> 0]
  /\ lock = NoProcess
  /\ aside = [p \in Processes |-> NoProcess]
  /\ seen = [p \in Processes |-> NoProcess]
  /\ record = {}
  /\ copy = [p \in Processes |-> {}]

Goto(p, label) == pc' = [pc EXCEPT ![p] = label]

-----------------------------------------------------------------------------
(* withMissionRecordLock: the acquisition loop.                             *)

\* The rename succeeds on a missing or empty directory.
Claim(p) ==
  /\ pc[p] = "claim"
  /\ IF lock \in Processes
       THEN Goto(p, "judge") /\ UNCHANGED lock
       ELSE Goto(p, "read") /\ lock' = p
  /\ UNCHANGED <<tries, aside, seen, record, copy>>

\* An update that is over leaves its process running, or the process ends.
Over == {"done", "failed", "timedOut"}

Gone(p) == pc[p] \in {"exited", "dead"}

\* readMissionLockOwner on a directory with this content.
OwnerIn(content) == IF content \in Processes THEN content ELSE NoProcess

\* Mutant of Verdicts: the age of the lock alone decides.
VerdictsByAge(owner, content) ==
  IF owner = NoProcess /\ content = "empty" THEN BOOLEAN ELSE {FALSE}

\* The rest of missionLockIsStale, with the owner that was read: stale is a
\* lock whose owner is not a process any more.  Without an owner the directory
\* found by then is stale once it has been left alone for a minute, which an
\* empty one may have been when nobody is about to remove it.
Verdicts(owner, content) ==
  IF owner \in Processes THEN {Gone(owner)}
  ELSE IF content = "empty" /\ \A q \in Processes : pc[q] # "rmdir" THEN BOOLEAN
  ELSE {FALSE}

\* reclaimStaleMissionLock judges the lock where it is: it reads the owner,
Judge(p) ==
  /\ pc[p] = "judge"
  /\ seen' = [seen EXCEPT ![p] = OwnerIn(lock)]
  /\ Goto(p, "probe")
  /\ UNCHANGED <<tries, lock, aside, record, copy>>

\* and then probes the process it read, which may have released the lock and
\* ended in between.
Probe(p) ==
  /\ pc[p] = "probe"
  /\ \E stale \in Verdicts(seen[p], lock) : Goto(p, IF stale THEN "move" ELSE "wait")
  /\ UNCHANGED <<tries, lock, aside, seen, record, copy>>

\* It renames whatever the lock is now to its own reclaim path.
Move(p) ==
  /\ pc[p] = "move"
  /\ IF lock = NoProcess
       THEN Goto(p, "wait") /\ UNCHANGED <<lock, aside>>
       ELSE /\ Goto(p, "rejudge")
            /\ aside' = [aside EXCEPT ![p] = lock]
            /\ lock' = NoProcess
  /\ UNCHANGED <<tries, seen, record, copy>>

Rejudge(p) ==
  /\ pc[p] = "rejudge"
  /\ seen' = [seen EXCEPT ![p] = OwnerIn(aside[p])]
  /\ Goto(p, "reprobe")
  /\ UNCHANGED <<tries, lock, aside, record, copy>>

\* Mutant of Reprobe: what was moved is what was judged.
ReprobeTrusting(p) ==
  /\ pc[p] = "reprobe"
  /\ Goto(p, "dropRetry")
  /\ UNCHANGED <<tries, lock, aside, seen, record, copy>>

Reprobe(p) ==
  /\ pc[p] = "reprobe"
  /\ \E stale \in Verdicts(seen[p], aside[p]) :
       Goto(p, IF stale THEN "dropRetry" ELSE "putBack")
  /\ UNCHANGED <<tries, lock, aside, seen, record, copy>>

\* A lock that is not stale goes back, unless the path is taken by now.
PutBack(p) ==
  /\ pc[p] = "putBack"
  /\ IF lock \in Processes
       THEN UNCHANGED <<lock, aside>>
       ELSE lock' = aside[p] /\ aside' = [aside EXCEPT ![p] = NoProcess]
  /\ Goto(p, "drop")
  /\ UNCHANGED <<tries, seen, record, copy>>

\* The finally drops the reclaim path, also with a lock that did not go back.
\* A reclaimed lock is claimed at once; the loop counts that round too.
Drop(p) ==
  /\ pc[p] \in {"drop", "dropRetry"}
  /\ aside' = [aside EXCEPT ![p] = NoProcess]
  /\ IF pc[p] = "drop"
       THEN Goto(p, "wait") /\ UNCHANGED tries
       ELSE /\ Goto(p, "claim")
            /\ tries' = [tries EXCEPT ![p] = IF @ < MaxTries THEN @ + 1 ELSE @]
  /\ UNCHANGED <<lock, seen, record, copy>>

\* Mutant of Wait: the retries have no end.
WaitPastTheEnd(p) ==
  /\ pc[p] = "wait"
  /\ Goto(p, "claim")
  /\ tries' = [tries EXCEPT ![p] = @ + 1]
  /\ UNCHANGED <<lock, aside, seen, record, copy>>

\* A collision that reclaimed nothing waits and tries again, a few times.
Wait(p) ==
  /\ pc[p] = "wait"
  /\ IF tries[p] = MaxTries
       THEN Goto(p, "timedOut") /\ UNCHANGED tries
       ELSE Goto(p, "claim") /\ tries' = [tries EXCEPT ![p] = @ + 1]
  /\ UNCHANGED <<lock, aside, seen, record, copy>>

-----------------------------------------------------------------------------
(* updateMissionUnlocked: the operation under the lock.                     *)

ReadMission(p) ==
  /\ pc[p] = "read"
  /\ copy' = [copy EXCEPT ![p] = record]
  /\ Goto(p, "write")
  /\ UNCHANGED <<tries, lock, aside, seen, record>>

WriteMission(p) ==
  /\ pc[p] = "write"
  /\ record' = copy[p] \cup {p}
  /\ Goto(p, "check")
  /\ UNCHANGED <<tries, lock, aside, seen, copy>>

\* removeOwnedMissionLock: the token is read, then the directory is removed,
\* whatever it is by then: first its owner.json, then the directory.
CheckOwner(p) ==
  /\ pc[p] = "check"
  /\ Goto(p, IF lock = p THEN "unlink" ELSE "done")
  /\ UNCHANGED <<tries, lock, aside, seen, record, copy>>

UnlinkOwner(p) ==
  /\ pc[p] = "unlink"
  /\ IF lock = NoProcess
       THEN Goto(p, "done") /\ UNCHANGED lock
       ELSE Goto(p, "rmdir") /\ lock' = "empty"
  /\ UNCHANGED <<tries, aside, seen, record, copy>>

\* The directory is not removed when another claim has moved in: the removal
\* throws, and the caller sees an error although its update was written.
RemoveDirectory(p) ==
  /\ pc[p] = "rmdir"
  /\ IF lock \in Processes
       THEN Goto(p, "failed") /\ UNCHANGED lock
       ELSE Goto(p, "done") /\ lock' = NoProcess
  /\ UNCHANGED <<tries, aside, seen, record, copy>>

\* A process may end once its update is over, and some may crash before.
Exit(p) ==
  /\ pc[p] \in Over
  /\ Goto(p, "exited")
  /\ UNCHANGED <<tries, lock, aside, seen, record, copy>>

Crash(p) ==
  /\ p \in Mortal
  /\ pc[p] \notin Over /\ ~Gone(p)
  /\ Goto(p, "dead")
  /\ UNCHANGED <<tries, lock, aside, seen, record, copy>>

-----------------------------------------------------------------------------
\* Everything in an update except the rename of a lock that was judged stale.
OtherStep(p) ==
  \/ Claim(p) \/ Judge(p) \/ Probe(p) \/ Rejudge(p) \/ Reprobe(p) \/ PutBack(p)
  \/ Drop(p) \/ Wait(p) \/ ReadMission(p) \/ WriteMission(p)
  \/ CheckOwner(p) \/ UnlinkOwner(p) \/ RemoveDirectory(p)

Step(p) == OtherStep(p) \/ Move(p)

Next == \E p \in Processes : Step(p) \/ Exit(p) \/ Crash(p)

Spec == Init /\ [][Next]_vars

\* A living process goes on with its update; that it ends is not assumed.
LiveSpec == Spec /\ \A p \in Processes : WF_vars(Step(p))

-----------------------------------------------------------------------------
\* Two live updates are never both between the read and the write of the
\* record (README.md: "Cross-process locking around mission record updates").
MutualExclusion ==
  \A p, q \in Processes :
    pc[p] \in {"read", "write"} /\ pc[q] \in {"read", "write"} => p = q

\* README.md: "Concurrent children preserve sibling runs, decisions, receipts,
\* artifacts, and usage": an update that was written stays in the record.
NoUpdateIsLost ==
  [][record \subseteq record']_vars

\* A lock that was moved away although its update lives is not dropped: until
\* the update is written and the lock about to be released, it is in place or
\* on the path of the contender that will put it back.
LiveLockIsKept ==
  \A p \in Processes :
    pc[p] \in {"read", "write", "check"} =>
      lock = p \/ \E c \in Processes : aside[c] = p

\* What a process leaves behind when it crashes or ends, at whatever point, does
\* not block the mission: once the others are through and the lock in place, if
\* any, is that of a process that is gone, an update that starts is written,
\* unless it crashes itself, and does not time out.
LeftoversDoNotBlock ==
  \A p \in Processes :
    /\ pc[p] = "claim"
    /\ lock \in Processes => Gone(lock)
    /\ \A q \in Processes \ {p} : pc[q] \in Over \/ Gone(q)
    ~> pc[p] \in {"done", "dead"}

\* The only step that breaks the lock: a contender renames the lock of another
\* process than the one whose record it read and judged.
LateReclaim ==
  \E p \in Processes : Move(p) /\ lock \in Processes \ {seen[p]}

\* The lock that withMissionRecordLock means to be, with the updates between
\* read and write as its holders: the promise of SessionLock.
Lock == INSTANCE SessionLock WITH
          Runners <- Processes,
          holders <- {p \in Processes : pc[p] \in {"read", "write"}}
=============================================================================
