--------------------------- MODULE RevivalStartup ---------------------------
(***************************************************************************)
(* The startup handshake of a revived run: a parent                        *)
(* (spawnRunner in runs/background/async-execution.ts) spawns a detached   *)
(* runner (runConfiguredSubagent in subagent-runner.ts) and learns         *)
(* synchronously whether the run was started.  They talk through three     *)
(* files in the new run's directory:                                       *)
(*   runner-startup.json          runner: ready, acknowledged, or error    *)
(*   runner-startup-ack.json      parent: I saw that you hold the lease    *)
(*   runner-startup-proceed.json  parent: run -- the commit point          *)
(* Both sides give up after a timeout: 10 s the parent, 30 s the runner.   *)
(* Several attempts to revive one session contend for its lease.  That the *)
(* lease is exclusive is not assumed here (SessionLease shows how far it   *)
(* is): a runner may get it although another one has it, or be refused.    *)
(*                                                                         *)
(* Time passes in ticks.  A process may be late, but only so much:         *)
(* MaxStall bounds how long a parent that has something to do may be       *)
(* suspended before it does it; a waiting runner whose file is there sees  *)
(* it within the tick.                                                     *)
(***************************************************************************)
EXTENDS Naturals

CONSTANTS
  Attempts,       \* attempts to revive the session, a parent and a runner each
  ParentTimeout,  \* RUNNER_STARTUP_TIMEOUT_MS, in ticks
  RunnerTimeout,  \* timeoutMs of waitForStartupControl, in ticks
  MaxStall        \* bound: ticks a parent with something to do may be late

ASSUME StartupAssumption ==
  /\ ParentTimeout \in Nat
  /\ RunnerTimeout \in Nat
  /\ MaxStall \in Nat

VARIABLES
  pc,        \* pc[i]: where the parent of attempt i is
  rc,        \* rc[i]: where its runner is
  startup,   \* startup[i]: the state in runner-startup.json
  ack,       \* attempts whose ack file exists
  proceed,   \* attempts whose proceed file exists
  holders,   \* attempts whose runner holds the lease
  waited,    \* waited[i]: ticks the parent spent in its present wait
  late,      \* late[i]: ticks the parent has had something to do
  patience,  \* patience[i]: ticks the runner spent in its present wait
  failed,    \* attempts persisted as failed with a not-started proof
  ran,       \* attempts whose runner went on to run the child
  gaveUp,    \* attempts whose runner timed out
  seenGone,  \* attempts whose runner was seen to be gone (terminationObserved)
  slot       \* slot[i]: the capacity slot reserved for i: rolled back or bound

parentVars == <<pc, ack, proceed, waited, late, failed, seenGone, slot>>
runnerVars == <<rc, startup, holders, patience, ran, gaveUp>>
vars       == <<parentVars, runnerVars>>

ParentWaits == {"waitReady", "waitAcknowledged"}
RunnerWaits == {"waitAck", "waitProceed"}

TypeOK ==
  /\ pc \in [Attempts -> ParentWaits \cup
       {"idle", "writeAck", "writeProceed", "commit", "fail", "terminate",
        "settle", "started", "refused", "crashed"}]
  /\ rc \in [Attempts -> RunnerWaits \cup
       {"absent", "boot", "writeReady", "writeAcknowledged", "writeError",
        "running", "release", "exited"}]
  /\ startup \in [Attempts -> {"none", "ready", "acknowledged", "error"}]
  /\ ack \subseteq Attempts /\ proceed \subseteq Attempts
  /\ holders \subseteq Attempts
  /\ waited \in [Attempts -> 0..ParentTimeout]
  /\ late \in [Attempts -> 0..MaxStall]
  /\ patience \in [Attempts -> 0..RunnerTimeout]
  /\ failed \subseteq Attempts /\ ran \subseteq Attempts
  /\ gaveUp \subseteq Attempts /\ seenGone \subseteq Attempts
  /\ slot \in [Attempts -> {"reserved", "bound", "rolledBack"}]

Init ==
  /\ pc = [i \in Attempts |-> "idle"]
  /\ rc = [i \in Attempts |-> "absent"]
  /\ startup = [i \in Attempts |-> "none"]
  /\ ack = {} /\ proceed = {}
  /\ holders = {}
  /\ waited = [i \in Attempts |-> 0]
  /\ late = [i \in Attempts |-> 0]
  /\ patience = [i \in Attempts |-> 0]
  /\ failed = {} /\ ran = {} /\ gaveUp = {} /\ seenGone = {}
  /\ slot = [i \in Attempts |-> "reserved"]

\* The parent goes on to the next step, and its clocks start again.
ParentGoto(i, label) ==
  /\ pc' = [pc EXCEPT ![i] = label]
  /\ waited' = [waited EXCEPT ![i] = 0]
  /\ late' = [late EXCEPT ![i] = 0]

RunnerGoto(i, label) ==
  /\ rc' = [rc EXCEPT ![i] = label]
  /\ patience' = [patience EXCEPT ![i] = 0]

-----------------------------------------------------------------------------
(* The parent: spawnRunner.                                                 *)

\* The files of an earlier start are removed before the spawn.
Spawn(i) ==
  /\ pc[i] = "idle"
  /\ ParentGoto(i, "waitReady")
  /\ RunnerGoto(i, "boot")
  /\ UNCHANGED <<startup, ack, proceed, holders, failed, ran, gaveUp, seenGone, slot>>

\* No process: the caller rolls the slot back.
SpawnFails(i) ==
  /\ pc[i] = "idle"
  /\ ParentGoto(i, "refused")
  /\ slot' = [slot EXCEPT ![i] = "rolledBack"]
  /\ UNCHANGED <<ack, proceed, failed, seenGone, runnerVars>>

Expected(i) == IF pc[i] = "waitReady" THEN "ready" ELSE "acknowledged"

\* waitForRunnerStartup sees the state it waits for.
SeeExpected(i) ==
  /\ pc[i] \in ParentWaits
  /\ startup[i] = Expected(i)
  /\ ParentGoto(i, IF pc[i] = "waitReady" THEN "writeAck" ELSE "writeProceed")
  /\ UNCHANGED <<ack, proceed, failed, seenGone, slot, runnerVars>>

SeeError(i) ==
  /\ pc[i] \in ParentWaits
  /\ startup[i] = "error"
  /\ ParentGoto(i, "fail")
  /\ UNCHANGED <<ack, proceed, failed, seenGone, slot, runnerVars>>

\* Mutant of ParentTimesOut: only the wait for "ready" has a deadline.
ParentTimesOutOnce(i) ==
  /\ pc[i] = "waitReady"
  /\ waited[i] = ParentTimeout
  /\ startup[i] \notin {"ready", "error"}
  /\ ParentGoto(i, "fail")
  /\ UNCHANGED <<ack, proceed, failed, seenGone, slot, runnerVars>>

\* After the deadline the file is read once more.
ParentTimesOut(i) ==
  /\ pc[i] \in ParentWaits
  /\ waited[i] = ParentTimeout
  /\ startup[i] \notin {Expected(i), "error"}
  /\ ParentGoto(i, "fail")
  /\ UNCHANGED <<ack, proceed, failed, seenGone, slot, runnerVars>>

WriteAck(i) ==
  /\ pc[i] = "writeAck"
  /\ \/ ack' = ack \cup {i} /\ ParentGoto(i, "waitAcknowledged")
     \/ ack' = ack /\ ParentGoto(i, "fail")
  /\ UNCHANGED <<proceed, failed, seenGone, slot, runnerVars>>

\* The commit point: from the moment the file is there the run is started.
WriteProceed(i) ==
  /\ pc[i] = "writeProceed"
  /\ \/ proceed' = proceed \cup {i} /\ ParentGoto(i, "commit")
     \/ proceed' = proceed /\ ParentGoto(i, "fail")
  /\ UNCHANGED <<ack, failed, seenGone, slot, runnerVars>>

\* The startup file is removed, the slot is bound, the run is reported started.
Commit(i) ==
  /\ pc[i] = "commit"
  /\ startup' = [startup EXCEPT ![i] = "none"]
  /\ slot' = [slot EXCEPT ![i] = "bound"]
  /\ ParentGoto(i, "started")
  /\ UNCHANGED <<ack, proceed, failed, seenGone, rc, holders, patience, ran, gaveUp>>

\* persistPreProceedStartupFailure comes before the runner is stopped.
PersistFailure(i) ==
  /\ pc[i] = "fail"
  /\ failed' = failed \cup {i}
  /\ ParentGoto(i, "terminate")
  /\ UNCHANGED <<ack, proceed, seenGone, slot, runnerVars>>

\* Death gives the lease up: it is reclaimed from a demonstrably dead owner.
Dies(i) ==
  /\ RunnerGoto(i, "exited")
  /\ holders' = holders \ {i}

\* Mutant of Terminate: a signal that was sent counts as the runner's end.
TerminateHopefully(i) ==
  /\ pc[i] = "terminate"
  /\ seenGone' = seenGone \cup {i}
  /\ ParentGoto(i, "settle")
  /\ UNCHANGED <<ack, proceed, failed, slot, runnerVars>>

\* terminateRunnerBeforeProceed: SIGTERM, then SIGKILL.  The runner is gone
\* then, but the probe may still find it: the parent has not reaped its child.
Terminate(i) ==
  /\ pc[i] = "terminate"
  /\ Dies(i)
  /\ \E observed \in BOOLEAN :
       seenGone' = IF observed THEN seenGone \cup {i} ELSE seenGone
  /\ ParentGoto(i, "settle")
  /\ UNCHANGED <<ack, proceed, failed, slot, startup, ran, gaveUp>>

\* The caller of spawnRunner: the slot is rolled back when the runner was seen
\* to be gone, otherwise it is bound to it.  The start is reported as failed.
Settle(i) ==
  /\ pc[i] = "settle"
  /\ slot' = [slot EXCEPT ![i] = IF i \in seenGone THEN "rolledBack" ELSE "bound"]
  /\ ParentGoto(i, "refused")
  /\ UNCHANGED <<ack, proceed, failed, seenGone, runnerVars>>

ParentCrash(i) ==
  /\ pc[i] \notin {"idle", "started", "refused", "crashed"}
  /\ ParentGoto(i, "crashed")
  /\ UNCHANGED <<ack, proceed, failed, seenGone, slot, runnerVars>>

-----------------------------------------------------------------------------
(* The runner: runConfiguredSubagent and waitForStartupControl.             *)

\* acquireSessionLease gives a token, or throws: a conflict or an I/O error.
AcquireLease(i) ==
  /\ rc[i] = "boot"
  /\ \/ holders' = holders \cup {i} /\ RunnerGoto(i, "writeReady")
     \/ UNCHANGED holders /\ RunnerGoto(i, "writeError")
  /\ UNCHANGED <<startup, ran, gaveUp, parentVars>>

WriteReady(i) ==
  /\ rc[i] = "writeReady"
  /\ startup' = [startup EXCEPT ![i] = "ready"]
  /\ RunnerGoto(i, "waitAck")
  /\ UNCHANGED <<holders, ran, gaveUp, parentVars>>

\* Mutant of SeeAck: a one-phase handshake, the child is run on the ack.
RunOnAck(i) ==
  /\ rc[i] = "waitAck"
  /\ i \in ack
  /\ ran' = ran \cup {i}
  /\ RunnerGoto(i, "running")
  /\ UNCHANGED <<startup, holders, gaveUp, parentVars>>

SeeAck(i) ==
  /\ rc[i] = "waitAck"
  /\ i \in ack
  /\ RunnerGoto(i, "writeAcknowledged")
  /\ UNCHANGED <<startup, holders, ran, gaveUp, parentVars>>

WriteAcknowledged(i) ==
  /\ rc[i] = "writeAcknowledged"
  /\ startup' = [startup EXCEPT ![i] = "acknowledged"]
  /\ RunnerGoto(i, "waitProceed")
  /\ UNCHANGED <<holders, ran, gaveUp, parentVars>>

\* startupCommitted: the child is run.
SeeProceed(i) ==
  /\ rc[i] = "waitProceed"
  /\ i \in proceed
  /\ ran' = ran \cup {i}
  /\ RunnerGoto(i, "running")
  /\ UNCHANGED <<startup, holders, gaveUp, parentVars>>

\* Mutants of RunnerTimesOut: the parent's timeout on both sides; no deadline
\* for the second wait.
RunnerTimesOutEarly(i) ==
  /\ rc[i] \in RunnerWaits
  /\ patience[i] = ParentTimeout
  /\ gaveUp' = gaveUp \cup {i}
  /\ RunnerGoto(i, "writeError")
  /\ UNCHANGED <<startup, holders, ran, parentVars>>

RunnerTimesOutOnce(i) ==
  /\ rc[i] = "waitAck"
  /\ patience[i] = RunnerTimeout
  /\ gaveUp' = gaveUp \cup {i}
  /\ RunnerGoto(i, "writeError")
  /\ UNCHANGED <<startup, holders, ran, parentVars>>

\* Unlike the parent the runner does not look again after its deadline.
RunnerTimesOut(i) ==
  /\ rc[i] \in RunnerWaits
  /\ patience[i] = RunnerTimeout
  /\ gaveUp' = gaveUp \cup {i}
  /\ RunnerGoto(i, "writeError")
  /\ UNCHANGED <<startup, holders, ran, parentVars>>

\* Mutant of WriteError: a state name the parent does not know.
WriteErrorMisspelt(i) ==
  /\ rc[i] = "writeError"
  /\ startup' = [startup EXCEPT ![i] = "failed"]
  /\ RunnerGoto(i, "release")
  /\ UNCHANGED <<holders, ran, gaveUp, parentVars>>

WriteError(i) ==
  /\ rc[i] = "writeError"
  /\ startup' = [startup EXCEPT ![i] = "error"]
  /\ RunnerGoto(i, "release")
  /\ UNCHANGED <<holders, ran, gaveUp, parentVars>>

FinishRun(i) ==
  /\ rc[i] = "running"
  /\ RunnerGoto(i, "release")
  /\ UNCHANGED <<startup, holders, ran, gaveUp, parentVars>>

\* The finally releases a lease it got, and the process ends.
Release(i) ==
  /\ rc[i] = "release"
  /\ Dies(i)
  /\ UNCHANGED <<startup, ran, gaveUp, parentVars>>

RunnerCrash(i) ==
  /\ rc[i] \notin {"absent", "exited"}
  /\ Dies(i)
  /\ UNCHANGED <<startup, ran, gaveUp, parentVars>>

-----------------------------------------------------------------------------
\* The parent can take a step that is not a timeout.
HasWork(i) ==
  \/ pc[i] \in {"writeAck", "writeProceed", "commit", "fail", "terminate", "settle"}
  \/ pc[i] \in ParentWaits /\ startup[i] \in {Expected(i), "error"}

\* The file the runner waits for is there.
Answered(i) ==
  \/ rc[i] = "waitAck" /\ i \in ack
  \/ rc[i] = "waitProceed" /\ i \in proceed

\* A tick: nobody is later than MaxStall, or waits past a timeout.
Tick ==
  /\ \A i \in Attempts :
       /\ HasWork(i) => late[i] < MaxStall
       /\ (pc[i] \in ParentWaits /\ ~HasWork(i)) => waited[i] < ParentTimeout
       /\ rc[i] \in RunnerWaits => patience[i] < RunnerTimeout /\ ~Answered(i)
  /\ late' = [i \in Attempts |-> IF HasWork(i) THEN late[i] + 1 ELSE late[i]]
  /\ waited' = [i \in Attempts |->
                  IF pc[i] \in ParentWaits /\ ~HasWork(i) THEN waited[i] + 1
                                                          ELSE waited[i]]
  /\ patience' = [i \in Attempts |->
                    IF rc[i] \in RunnerWaits THEN patience[i] + 1 ELSE patience[i]]
  /\ UNCHANGED <<pc, ack, proceed, failed, seenGone, slot, rc, startup, holders, ran, gaveUp>>

ParentStep(i) ==
  \/ SeeExpected(i) \/ SeeError(i) \/ ParentTimesOut(i) \/ WriteAck(i)
  \/ WriteProceed(i) \/ Commit(i) \/ PersistFailure(i) \/ Terminate(i) \/ Settle(i)

StartupStep(i) ==
  \/ AcquireLease(i) \/ WriteReady(i) \/ SeeAck(i) \/ WriteAcknowledged(i)
  \/ SeeProceed(i) \/ RunnerTimesOut(i) \/ WriteError(i) \/ Release(i)

Next ==
  \/ \E i \in Attempts :
       \/ Spawn(i) \/ SpawnFails(i) \/ ParentStep(i) \/ ParentCrash(i)
       \/ StartupStep(i) \/ FinishRun(i) \/ RunnerCrash(i)
  \/ Tick

Spec == Init /\ [][Next]_vars

\* Time passes, a living parent and a living runner go on.  That the child's
\* run ends is not assumed.
LiveSpec ==
  /\ Spec
  /\ WF_vars(Tick)
  /\ \A i \in Attempts : WF_vars(ParentStep(i)) /\ WF_vars(StartupStep(i))

-----------------------------------------------------------------------------
\* A start persisted as failed never runs, at whatever point the two sides
\* timed out, crashed or failed to write: its not-started proof is what later
\* frees its capacity slot (runnerReleaseVerdict).
FailedStartNeverRuns == failed \cap ran = {}

\* No start is committed whose runner has given up waiting: the runner's longer
\* timeout covers a parent that is late twice, reading and writing.
CommittedIsNotGivenUp == proceed \cap gaveUp = {}

\* A slot is rolled back, and with it a capacity unit given to somebody else,
\* only for a runner that does not exist any more.
RolledBackIsGone ==
  \A i \in Attempts :
    slot[i] = "rolledBack" => rc[i] \in {"absent", "exited"} /\ i \notin ran

\* Every resume is answered unless its parent crashes.
EveryStartIsAnswered ==
  \A i \in Attempts :
    pc[i] = "waitReady" ~> pc[i] \in {"started", "refused", "crashed"}

\* An uncommitted start gives the session back, even when its parent crashed
\* and nobody is left to stop the runner.
UncommittedStartFreesSession ==
  \A i \in Attempts : (i \in holders /\ i \notin proceed) ~> (i \notin holders \/ i \in proceed)
=============================================================================
