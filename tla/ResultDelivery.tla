--------------------------- MODULE ResultDelivery ---------------------------
(***************************************************************************)
(* How the result of a background run reaches its session.                 *)
(*                                                                         *)
(* A detached runner per run (subagent-runner.ts) files its result and     *)
(* then its status.  The result goes to a pending file, an index entry is  *)
(* written, and a rename makes the file public (result-files.ts).  The     *)
(* runtime of the parent session (result-watcher.ts, notify.ts and         *)
(* completion-batcher.ts, in one JavaScript process) finds the file by a   *)
(* file-system event or by a scan, tells the session with sendMessage,     *)
(* marks the result as delivered and removes it.  Its reconciler           *)
(* (stale-run-reconciler.ts) writes a failed result and status for a       *)
(* runner it finds dead.                                                   *)
(*                                                                         *)
(* One session is modelled, and the runtimes that serve it one after       *)
(* another.  The steps of a runner and the file writes of the runtime      *)
(* interleave; in the runtime, a turn of the event loop excludes others.   *)
(***************************************************************************)
EXTENDS Naturals, FiniteSets

CONSTANTS
  Runs,        \* the background runs of the session
  Ended,       \* those that ended, their results filed, before the runtime began
  MaxTrouble   \* bound: kills, failed writes and restarts there may be

ASSUME DeliveryAssumption ==
  /\ Ended \subseteq Runs
  /\ MaxTrouble \in Nat

VARIABLES
  rc,         \* rc[r]: where the runner of r is
  outcome,    \* outcome[r]: the outcome it files, chosen when it first files one
  committed,  \* runs whose runner has finalResultCommitted
  children,   \* runs whose runner is a child of the runtime's process
  pending,    \* pending[r]: the content of r's pending file, empty without one
  public,     \* public[r]: the content of r's public result file
  index,      \* runs with a result-index entry
  status,     \* status[r]: the state in status.json
  phase,      \* the runtime is down, restoring its jobs, or up
  todo,       \* runs restoreActiveJobs has still to reconcile
  tracked,    \* asyncJobs
  event,      \* runs with a file-system event the watcher has not seen
  queue,      \* files the coalescer has scheduled
  task,       \* task[r]: where handleResult is with the file of r
  data,       \* data[r]: the content handleResult has read
  rec,        \* rec[r]: where the reconciler is with r
  seen,       \* keys in the notifier's seen map
  done,       \* keys in completionSeen
  told,       \* told[r]: the outcomes the session was told
  count,      \* count[r]: times the present runtime told the session of r that it
              \* has not forgotten
  trouble     \* how much trouble may still come

runnerVars == <<rc, outcome, committed, children>>
fileVars   == <<pending, public, index>>
jobVars    == <<phase, todo, tracked>>
toldVars   == <<seen, told, count>>
vars == <<runnerVars, fileVars, status, jobVars, event, queue, task, data, rec,
          done, toldVars, trouble>>

Outcomes == {"complete", "failed", "paused"}

\* A result, and whether notificationDeliveredAt was added to it.
Payload == [outcome : Outcomes, marked : BOOLEAN]

\* The file a runner writes next: a snapshot of a status that became terminal,
\* the final result, or the snapshot after the final result failed to write.
Then == [snapPending   |-> "snapIndex",    snapIndex     |-> "snapStatus",
         snapStatus    |-> "winding",
         resultPending |-> "resultIndex",  resultIndex   |-> "resultPromote",
         resultPromote |-> "resultStatus", resultStatus  |-> "gone",
         lastPending   |-> "lastIndex",    lastIndex     |-> "lastStatus",
         lastStatus    |-> "gone"]

TypeOK ==
  /\ rc \in [Runs -> DOMAIN Then \cup {"working", "winding", "gone"}]
  /\ outcome \in [Runs -> Outcomes \cup {"open"}]
  /\ committed \subseteq Runs /\ children \subseteq Runs
  /\ pending \in [Runs -> SUBSET Payload] /\ public \in [Runs -> SUBSET Payload]
  /\ \A r \in Runs : Cardinality(pending[r]) <= 1 /\ Cardinality(public[r]) <= 1
  /\ index \subseteq Runs
  /\ status \in [Runs -> Outcomes \cup {"running"}]
  /\ phase \in {"down", "restoring", "up"}
  /\ todo \subseteq Runs /\ tracked \subseteq Runs
  /\ event \subseteq Runs /\ queue \subseteq Runs
  /\ task \in [Runs -> {"idle", "deliver", "held", "mark", "markIndex",
                        "markPromote", "unlink", "unindex", "unpend"}]
  /\ data \in [Runs -> SUBSET Payload]
  /\ rec \in [Runs -> {"idle", "probe", "probeGone", "repairPending", "repairIndex",
                       "repairPromote", "repairStatus"}]
  /\ seen \subseteq Runs /\ done \subseteq Runs
  /\ told \in [Runs -> SUBSET Outcomes]
  /\ count \in [Runs -> 0..2]
  /\ trouble \in 0..MaxTrouble

Init ==
  /\ outcome \in [Runs -> {"complete", "failed", "open"}]
  /\ \A r \in Runs : (outcome[r] = "open") <=> (r \notin Ended)
  /\ rc = [r \in Runs |-> IF r \in Ended THEN "gone" ELSE "working"]
  /\ committed = Ended
  /\ children \in SUBSET (Runs \ Ended)
  /\ pending = [r \in Runs |-> {}]
  /\ public = [r \in Runs |->
       IF r \in Ended THEN {[outcome |-> outcome[r], marked |-> FALSE]} ELSE {}]
  /\ index = Ended
  /\ status = [r \in Runs |-> IF r \in Ended THEN outcome[r] ELSE "running"]
  /\ phase = "up" /\ todo = {} /\ tracked = Runs \ Ended
  /\ event = {} /\ queue = {}
  /\ task = [r \in Runs |-> "idle"]
  /\ data = [r \in Runs |-> {}]
  /\ rec = [r \in Runs |-> "idle"]
  /\ seen = {} /\ done = {}
  /\ told = [r \in Runs |-> {}]
  /\ count = [r \in Runs |-> 0]
  /\ trouble = MaxTrouble

Goto(r, label)   == task' = [task EXCEPT ![r] = label]
RunnerGoto(r, l) == rc' = [rc EXCEPT ![r] = l]
ReconcileGoto(r, label) == rec' = [rec EXCEPT ![r] = label]

\* Something goes wrong here, which it may do only so often.
SomethingFails == trouble > 0 /\ trouble' = trouble - 1

-----------------------------------------------------------------------------
(* The files of a result, as runner and runtime write them.                 *)

Filed(r) == pending[r] \cup public[r]

OutcomesFiled(r) == {p.outcome : p \in Filed(r)}

File(r, o, marked) ==
  pending' = [pending EXCEPT ![r] = {[outcome |-> o, marked |-> marked]}]

\* The rename of promotePendingResultFile.  The watcher, if there is one, gets
\* an event for it.
Rename(r) ==
  /\ public' = [public EXCEPT ![r] = pending[r]]
  /\ pending' = [pending EXCEPT ![r] = {}]
  /\ event' = IF phase = "up" THEN event \cup {r} ELSE event
  /\ UNCHANGED trouble

\* promotePendingResultFile: without a pending file there is nothing to do, and
\* when the rename fails the file stays where it is.
Promote(r) ==
  IF pending[r] = {}
    THEN UNCHANGED <<pending, public, event, trouble>>
    ELSE \/ Rename(r)
         \/ SomethingFails /\ UNCHANGED <<pending, public, event>>

\* What a reader finds after a promotion: the pending file if it is still
\* there, otherwise the public one.
FoundAfter(r) == IF pending'[r] # {} THEN pending'[r] ELSE public'[r]

-----------------------------------------------------------------------------
(* The runner: subagent-runner.ts.                                          *)

\* Mutant of EndEarly: the state of the payload is not set.
EndEarlyUnset(r, o) ==
  /\ rc[r] = "working"
  /\ RunnerGoto(r, "snapPending")
  /\ UNCHANGED <<outcome, committed, children, fileVars, status, jobVars,
                 event, queue, task, data, rec, done, toldVars, trouble>>

\* The status becomes terminal while the run winds down: an interrupt, a spent
\* usage budget, a steering request that comes too late.
EndEarly(r, o) ==
  /\ rc[r] = "working"
  /\ RunnerGoto(r, "snapPending")
  /\ outcome' = [outcome EXCEPT ![r] = o]
  /\ UNCHANGED <<committed, children, fileVars, status, jobVars, event,
                 queue, task, data, rec, done, toldVars, trouble>>

\* The run is over.  An outcome that was already filed stays; a run is paused by
\* an interrupt only.
FinishRun(r, o) ==
  /\ \/ rc[r] = "working" /\ o # "paused"
     \/ rc[r] = "winding" /\ o = outcome[r]
  /\ RunnerGoto(r, "resultPending")
  /\ outcome' = [outcome EXCEPT ![r] = o]
  /\ UNCHANGED <<committed, children, fileVars, status, jobVars, event,
                 queue, task, data, rec, done, toldVars, trouble>>

\* Mutant of WritePending: a status that becomes terminal files no result.
WritePendingFinalOnly(r) ==
  /\ rc[r] \in {"snapPending", "resultPending", "lastPending"}
  /\ IF rc[r] = "resultPending"
       THEN File(r, outcome[r], FALSE)
       ELSE UNCHANGED pending
  /\ RunnerGoto(r, Then[rc[r]])
  /\ UNCHANGED <<outcome, committed, children, public, index, status,
                 jobVars, event, queue, task, data, rec, done, toldVars,
                 trouble>>

WritePending(r) ==
  /\ rc[r] \in {"snapPending", "resultPending", "lastPending"}
  /\ File(r, outcome[r], FALSE)
  /\ RunnerGoto(r, Then[rc[r]])
  /\ UNCHANGED <<outcome, committed, children, public, index, status,
                 jobVars, event, queue, task, data, rec, done, toldVars,
                 trouble>>

WriteIndex(r) ==
  /\ rc[r] \in {"snapIndex", "resultIndex", "lastIndex"}
  /\ index' = index \cup {r}
  /\ RunnerGoto(r, Then[rc[r]])
  /\ UNCHANGED <<outcome, committed, children, pending, public, status,
                 jobVars, event, queue, task, data, rec, done, toldVars,
                 trouble>>

PromoteResult(r) ==
  /\ rc[r] = "resultPromote"
  /\ Promote(r)
  /\ committed' = committed \cup {r}
  /\ RunnerGoto(r, Then[rc[r]])
  /\ UNCHANGED <<outcome, children, index, status, jobVars, queue, task,
                 data, rec, done, toldVars>>

WriteStatus(r) ==
  /\ rc[r] \in {"snapStatus", "resultStatus", "lastStatus"}
  /\ status' = [status EXCEPT ![r] = outcome[r]]
  /\ RunnerGoto(r, Then[rc[r]])
  /\ UNCHANGED <<outcome, committed, children, fileVars, jobVars, event,
                 queue, task, data, rec, done, toldVars, trouble>>

\* The result cannot be written: the run fails, and the status write tries to
\* file a snapshot instead.
FinalWriteFails(r) ==
  /\ rc[r] \in {"resultPending", "resultIndex"}
  /\ SomethingFails
  /\ RunnerGoto(r, "lastPending")
  /\ outcome' = [outcome EXCEPT ![r] = "failed"]
  /\ UNCHANGED <<committed, children, fileVars, status, jobVars, event,
                 queue, task, data, rec, done, toldVars>>

\* The runner is killed, or a snapshot it cannot write is the exception that
\* ends it.
Die(r) ==
  /\ rc[r] # "gone"
  /\ SomethingFails
  /\ RunnerGoto(r, "gone")
  /\ UNCHANGED <<outcome, committed, children, fileVars, status, jobVars,
                 event, queue, task, data, rec, done, toldVars>>

RunnerStep(r) ==
  \/ \E o \in Outcomes : EndEarly(r, o) \/ FinishRun(r, o)
  \/ WritePending(r) \/ WriteIndex(r) \/ PromoteResult(r) \/ WriteStatus(r)

-----------------------------------------------------------------------------
(* The watcher: result-watcher.ts.                                          *)

Held  == {r \in Runs : task[r] = "held"}

\* No turn of the event loop is under way.
Quiet == \A r \in Runs : task[r] \in {"idle", "held"} /\ rec[r] = "idle"

Ready == phase = "up" /\ Quiet

\* The watch callback writes the index entry again and schedules the file.
WatchEvent(r) ==
  /\ Ready /\ r \in event
  /\ event' = event \ {r}
  /\ index' = IF public[r] = {} THEN index ELSE index \cup {r}
  /\ queue' = queue \cup {r}
  /\ UNCHANGED <<runnerVars, pending, public, status, jobVars, task, data,
                 rec, done, toldVars, trouble>>

\* What a scan looks at: an indexed or a pending result of the session, or the
\* public file of a job of this runtime.
Candidates ==
  {r \in Runs : /\ Filed(r) # {}
                /\ r \in index \cup tracked \/ pending[r] # {}}

\* primeExistingResults, for one candidate.
Scan(r) ==
  /\ Ready /\ r \in Candidates \ queue
  /\ IF r \in index THEN Promote(r) ELSE UNCHANGED <<pending, public, event,
                                                     trouble>>
  /\ queue' = queue \cup {r}
  /\ UNCHANGED <<runnerVars, index, status, jobVars, task, data, rec, done,
                 toldVars>>

\* handleResult returns at once: the file is being processed, or is not there.
IgnoreResult(r) ==
  /\ Ready /\ r \in queue
  /\ r \in Held \/ Filed(r) = {}
  /\ queue' = queue \ {r}
  /\ UNCHANGED <<runnerVars, fileVars, status, jobVars, event, task, data,
                 rec, done, toldVars, trouble>>

\* It reads the result.  One that this runtime, or the mark in the file, says
\* was delivered is removed without telling the session again.
ReadResult(r) ==
  /\ Ready /\ r \in queue
  /\ r \notin Held /\ Filed(r) # {}
  /\ queue' = queue \ {r}
  /\ Promote(r)
  /\ data' = [data EXCEPT ![r] = FoundAfter(r)]
  /\ LET delivered == \E p \in FoundAfter(r) : p.marked
     IN /\ done' = IF delivered THEN done \cup {r} ELSE done
        /\ Goto(r, IF delivered \/ r \in done THEN "unlink" ELSE "deliver")
  /\ UNCHANGED <<runnerVars, index, status, jobVars, rec, toldVars>>

-----------------------------------------------------------------------------
(* The notifier: notify.ts and completion-batcher.ts.                       *)

OutcomeRead(r) == {p.outcome : p \in data[r]}

\* sendMessage accepts one message about the runs of group, and the promises
\* their tasks wait for are resolved.
Accept(group) ==
  /\ seen' = seen \cup group
  /\ told' = [r \in Runs |-> IF r \in group THEN told[r] \cup OutcomeRead(r) ELSE told[r]]
  /\ count' = [r \in Runs |->
                 IF r \in group /\ count[r] < 2 THEN count[r] + 1 ELSE count[r]]
  /\ task' = [r \in Runs |-> IF r \in group THEN "mark" ELSE task[r]]
  /\ UNCHANGED <<queue, trouble>>

\* Mutant of Refuse: a refused batch is forgotten, not scheduled again.
RefuseForgetting(group) ==
  /\ SomethingFails
  /\ task' = [r \in Runs |-> IF r \in group THEN "unlink" ELSE task[r]]
  /\ UNCHANGED <<toldVars, queue>>

\* sendMessage throws: the tasks schedule their files again.
Refuse(group) ==
  /\ SomethingFails
  /\ task' = [r \in Runs |-> IF r \in group THEN "idle" ELSE task[r]]
  /\ queue' = queue \cup group
  /\ UNCHANGED toldVars

Send(group) ==
  /\ Accept(group) \/ Refuse(group)
  /\ UNCHANGED <<runnerVars, fileVars, status, jobVars, event, data, rec,
                 done>>

\* Mutant of AlreadyTold: only what was marked delivered counts.
AlreadyToldMarked(r) == r \in seen \cap done

AlreadyTold(r) == r \in seen

Acknowledge(r) ==
  /\ task[r] = "deliver" /\ AlreadyTold(r)
  /\ Goto(r, "mark")
  /\ UNCHANGED <<runnerVars, fileVars, status, jobVars, event, queue, data,
                 rec, done, toldVars, trouble>>

\* A success waits in the batch.
Hold(r) ==
  /\ task[r] = "deliver" /\ ~AlreadyTold(r)
  /\ OutcomeRead(r) = {"complete"}
  /\ Goto(r, "held")
  /\ UNCHANGED <<runnerVars, fileVars, status, jobVars, event, queue, data,
                 rec, done, toldVars, trouble>>

\* Any other outcome goes out at once, after the batch was flushed.
Urgent(r) ==
  task[r] = "deliver" /\ ~AlreadyTold(r) /\ OutcomeRead(r) # {"complete"}

SendNow(r) ==
  /\ Urgent(r) /\ Held = {}
  /\ Send({r})

\* emitGroup: a timer of the batcher, or the flush before an urgent message.
EmitBatch ==
  /\ Held # {}
  /\ Ready \/ \E r \in Runs : Urgent(r)
  /\ Send(Held)

-----------------------------------------------------------------------------
(* The end of handleResult: mark the result, then remove it.                *)

\* markDeliveredNotification writes what was read, with the mark, through
\* writeAsyncResultFile.
MarkPending(r) ==
  /\ task[r] = "mark"
  /\ \E o \in OutcomeRead(r) : File(r, o, TRUE)
  /\ Goto(r, "markIndex")
  /\ UNCHANGED <<runnerVars, public, index, status, jobVars, event, queue,
                 data, rec, done, toldVars, trouble>>

MarkIndex(r) ==
  /\ task[r] = "markIndex"
  /\ index' = index \cup {r}
  /\ Goto(r, "markPromote")
  /\ UNCHANGED <<runnerVars, pending, public, status, jobVars, event, queue,
                 data, rec, done, toldVars, trouble>>

MarkPromote(r) ==
  /\ task[r] = "markPromote"
  /\ Promote(r)
  /\ done' = done \cup {r}
  /\ Goto(r, "unlink")
  /\ UNCHANGED <<runnerVars, index, status, jobVars, queue, data, rec,
                 toldVars>>

\* A write fails: the file is scheduled again.
MarkFails(r) ==
  /\ task[r] \in {"mark", "markIndex"}
  /\ SomethingFails
  /\ Goto(r, "idle")
  /\ queue' = queue \cup {r}
  /\ UNCHANGED <<runnerVars, fileVars, status, jobVars, event, data, rec,
                 done, toldVars>>

\* removeDeliveredResult: the public file, the index entry, the pending file.
Unlink(r) ==
  /\ task[r] = "unlink"
  /\ public' = [public EXCEPT ![r] = {}]
  /\ Goto(r, "unindex")
  /\ UNCHANGED <<runnerVars, pending, index, status, jobVars, event, queue,
                 data, rec, done, toldVars, trouble>>

UnlinkFails(r) ==
  /\ task[r] = "unlink" /\ public[r] # {}
  /\ SomethingFails
  /\ Goto(r, "idle")
  /\ queue' = queue \cup {r}
  /\ UNCHANGED <<runnerVars, fileVars, status, jobVars, event, data, rec,
                 done, toldVars>>

Unindex(r) ==
  /\ task[r] = "unindex"
  /\ index' = index \ {r}
  /\ Goto(r, "unpend")
  /\ UNCHANGED <<runnerVars, pending, public, status, jobVars, event, queue,
                 data, rec, done, toldVars, trouble>>

Unpend(r) ==
  /\ task[r] = "unpend"
  /\ pending' = [pending EXCEPT ![r] = {}]
  /\ Goto(r, "idle")
  /\ data' = [data EXCEPT ![r] = {}]
  /\ UNCHANGED <<runnerVars, public, index, status, jobVars, event, queue,
                 rec, done, toldVars, trouble>>

\* markSeenWithTtl: both maps forget a key after ten minutes, the notifier
\* first, for its stamp is the older one.  What it tells is then counted anew.
Forget(r) ==
  /\ Ready
  /\ \/ /\ r \in seen
        /\ seen' = seen \ {r} /\ count' = [count EXCEPT ![r] = 0]
        /\ UNCHANGED done
     \/ /\ r \in done \ seen
        /\ done' = done \ {r}
        /\ UNCHANGED <<seen, count>>
  /\ UNCHANGED <<runnerVars, fileVars, status, jobVars, event, queue, task, data,
                 rec, told, trouble>>

TaskStep(r) ==
  \/ Acknowledge(r) \/ Hold(r) \/ SendNow(r)
  \/ MarkPending(r) \/ MarkIndex(r) \/ MarkPromote(r) \/ MarkFails(r)
  \/ Unlink(r) \/ UnlinkFails(r) \/ Unindex(r) \/ Unpend(r)

-----------------------------------------------------------------------------
(* The reconciler: reconcileAsyncRun, called by the job tracker, by a status *)
(* request, and for every active run of the session when a runtime starts.   *)

\* The reconciliation of r ends here.  A run that a starting runtime finds to
\* be over is not tracked.
EndReconcile(r, over) ==
  /\ ReconcileGoto(r, "idle")
  /\ todo' = todo \ {r}
  /\ tracked' = IF phase = "restoring" /\ over THEN tracked \ {r} ELSE tracked
  /\ UNCHANGED phase

MayReconcile(r) ==
  /\ Quiet
  /\ phase = "up" \/ (phase = "restoring" /\ r \in todo)

\* A result is there: the status is taken from it.
StatusFromResult(r) ==
  /\ MayReconcile(r) /\ status[r] = "running" /\ Filed(r) # {}
  /\ IF r \in index THEN Promote(r) ELSE UNCHANGED <<pending, public, event,
                                                     trouble>>
  /\ \E p \in FoundAfter(r) : status' = [status EXCEPT ![r] = p.outcome]
  /\ EndReconcile(r, TRUE)
  /\ UNCHANGED <<runnerVars, index, queue, task, data, done, toldVars>>

\* No result is there: the process decides.
LookForResult(r) ==
  /\ MayReconcile(r) /\ status[r] = "running" /\ Filed(r) = {}
  /\ ReconcileGoto(r, IF rc[r] = "gone" THEN "probeGone" ELSE "probe")
  /\ UNCHANGED <<runnerVars, fileVars, status, jobVars, event, queue, task,
                 data, done, toldVars, trouble>>

\* The status is terminal by now.
NothingToReconcile(r) ==
  /\ phase = "restoring" /\ Quiet /\ r \in todo /\ status[r] # "running"
  /\ EndReconcile(r, TRUE)
  /\ UNCHANGED <<runnerVars, fileVars, status, event, queue, task, data,
                 done, toldVars, trouble>>

\* checkPidLiveness.  The runtime cannot reap a child during a turn: one that
\* ended since the turn began still answers the signal.
Answers(r) == rec[r] = "probe" /\ (rc[r] # "gone" \/ r \in children)

ProbeAlive(r) ==
  /\ Answers(r)
  /\ EndReconcile(r, FALSE)
  /\ UNCHANGED <<runnerVars, fileVars, status, event, queue, task, data,
                 done, toldVars, trouble>>

ProbeDead(r) ==
  /\ rec[r] \in {"probe", "probeGone"} /\ ~Answers(r)
  /\ ReconcileGoto(r, "repairPending")
  /\ UNCHANGED <<runnerVars, fileVars, status, jobVars, event, queue, task,
                 data, done, toldVars, trouble>>

\* Mutant of RepairPending: the repair writes the status only.
RepairPendingSkipped(r) ==
  /\ rec[r] = "repairPending"
  /\ ReconcileGoto(r, "repairStatus")
  /\ UNCHANGED <<runnerVars, fileVars, status, jobVars, event, queue, task,
                 data, done, toldVars, trouble>>

\* writeFailedRepair: a failed result, then a failed status.
RepairPending(r) ==
  /\ rec[r] = "repairPending"
  /\ File(r, "failed", FALSE)
  /\ ReconcileGoto(r, "repairIndex")
  /\ UNCHANGED <<runnerVars, public, index, status, jobVars, event, queue,
                 task, data, done, toldVars, trouble>>

RepairIndex(r) ==
  /\ rec[r] = "repairIndex"
  /\ index' = index \cup {r}
  /\ ReconcileGoto(r, "repairPromote")
  /\ UNCHANGED <<runnerVars, pending, public, status, jobVars, event, queue,
                 task, data, done, toldVars, trouble>>

RepairPromote(r) ==
  /\ rec[r] = "repairPromote"
  /\ Promote(r)
  /\ ReconcileGoto(r, "repairStatus")
  /\ UNCHANGED <<runnerVars, index, status, jobVars, queue, task, data, done,
                 toldVars>>

RepairStatus(r) ==
  /\ rec[r] = "repairStatus"
  /\ status' = [status EXCEPT ![r] = "failed"]
  /\ EndReconcile(r, TRUE)
  /\ UNCHANGED <<runnerVars, fileVars, event, queue, task, data, done,
                 toldVars, trouble>>

\* A write of the repair throws.  The tracker tries again; a starting runtime
\* gives up restoring, and tracks no job.
RepairFails(r) ==
  /\ rec[r] \in {"repairPending", "repairIndex", "repairStatus"}
  /\ SomethingFails
  /\ ReconcileGoto(r, "idle")
  /\ IF phase = "restoring"
       THEN todo' = {} /\ tracked' = {} /\ UNCHANGED phase
       ELSE UNCHANGED jobVars
  /\ UNCHANGED <<runnerVars, fileVars, status, event, queue, task, data,
                 done, toldVars>>

\* The tracker refreshes a job, a status is asked for, or a runtime starts.
ReconcileStart(r) == StatusFromResult(r) \/ LookForResult(r)

ReconcileStep(r) ==
  \/ NothingToReconcile(r) \/ ProbeAlive(r) \/ ProbeDead(r)
  \/ RepairPending(r) \/ RepairIndex(r) \/ RepairPromote(r) \/ RepairStatus(r)
  \/ RepairFails(r)

\* A job leaves the tracker some time after its end.
Untrack(r) ==
  /\ Ready /\ r \in tracked
  /\ status[r] # "running" \/ r \in done
  /\ tracked' = tracked \ {r}
  /\ UNCHANGED <<runnerVars, fileVars, status, phase, todo, event, queue,
                 task, data, rec, done, toldVars, trouble>>

-----------------------------------------------------------------------------
(* The runtime ends, by a shutdown, a reload or a crash, and another starts. *)

\* Whatever was in memory is lost.  A held promise is resolved with false by a
\* shutdown, and its task returns because it does not own the session any more.
\* A reload stays in the process, otherwise the runners are orphans from now on.
Stop ==
  /\ phase # "down"
  /\ SomethingFails
  /\ phase' = "down" /\ todo' = {} /\ tracked' = {}
  /\ event' = {} /\ queue' = {}
  /\ task' = [r \in Runs |-> "idle"] /\ data' = [r \in Runs |-> {}]
  /\ rec' = [r \in Runs |-> "idle"]
  /\ seen' = {} /\ done' = {} /\ count' = [r \in Runs |-> 0]
  /\ \/ UNCHANGED children
     \/ children' = {}
  /\ UNCHANGED <<rc, outcome, committed, fileVars, status, told>>

\* restoreActiveJobs reads which runs are active.
Start ==
  /\ phase = "down"
  /\ phase' = "restoring"
  /\ todo' = {r \in Runs : status[r] = "running"}
  /\ tracked' = todo'
  /\ UNCHANGED <<runnerVars, fileVars, status, event, queue, task, data, rec,
                 done, toldVars, trouble>>

\* startResultWatcher; the scan that follows is Scan.
StartWatcher ==
  /\ phase = "restoring" /\ todo = {} /\ Quiet
  /\ phase' = "up"
  /\ UNCHANGED <<runnerVars, fileVars, status, todo, tracked, event, queue,
                 task, data, rec, done, toldVars, trouble>>

-----------------------------------------------------------------------------
Next ==
  \/ \E r \in Runs :
       \/ RunnerStep(r) \/ FinalWriteFails(r) \/ Die(r)
       \/ WatchEvent(r) \/ Scan(r) \/ IgnoreResult(r) \/ ReadResult(r)
       \/ TaskStep(r) \/ Forget(r)
       \/ ReconcileStart(r) \/ ReconcileStep(r) \/ Untrack(r)
  \/ EmitBatch \/ Stop \/ Start \/ StartWatcher

Spec == Init /\ [][Next]_vars

\* The event loop of a runtime that is up comes round to every timer and every
\* file-system event, and the jobs it tracks are reconciled at an interval.
\* Runners are not assumed to do anything.
Fairness ==
  /\ \A r \in Runs :
       /\ SF_vars(WatchEvent(r)) /\ SF_vars(Scan(r))
       /\ SF_vars(IgnoreResult(r) \/ ReadResult(r))
       /\ WF_vars(TaskStep(r)) /\ WF_vars(ReconcileStep(r))
       /\ SF_vars(r \in tracked /\ ReconcileStart(r))
  /\ SF_vars(EmitBatch) /\ WF_vars(Start) /\ SF_vars(StartWatcher)

LiveSpec == Spec /\ Fairness

-----------------------------------------------------------------------------
\* The files, the notifier's memory and the messages, as the session sees them.
Report == INSTANCE Delivery WITH
  over       <- {r \in Runs : status[r] # "running"},
  filed      <- {r \in Runs : Filed(r) # {}},
  told       <- {r \in Runs : told[r] # {}},
  remembered <- seen

\* When a status says that a run is over, the session was told of it or a
\* result is on disk for the watcher to deliver: whatever the order of the
\* writes of runner, watcher and reconciler, and wherever one of them stopped.
NoEndGoesUnreported ==
  \A r \in Runs :
    status[r] # "running" => told[r] # {} \/ Filed(r) # {}

\* One runtime does not tell the session of a run twice before it forgets that
\* it did, however often files, events and retries bring the result back.
ToldOncePerRuntime == \A r \in Runs : count[r] <= 1

\* notify.ts:4-6: result files "are deleted only after sendMessage() accepts
\* the notification".
DeletedOnlyOnceTold ==
  [][\A r \in Runs : Filed(r) # {} /\ Filed(r)' = {} => told[r] # {}]_vars

\* Whatever becomes of its runner, a run that is gone is reported in the end.
EveryEndIsTold ==
  \A r \in Runs : rc[r] = "gone" ~> told[r] # {}

\* test/unit/stale-run-reconciler.test.ts:353: reconciliation "preserves an
\* existing result instead of overwriting it with stale-run failure".
RepairPreservesResult ==
  [][\A r \in committed :
       OutcomesFiled(r) = {"complete"} => "failed" \notin OutcomesFiled(r)']_vars
=============================================================================
