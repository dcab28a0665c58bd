# pi-ensemble: verification models

TLA+ models, model-checking runs and machine-checked proofs for the concurrent
core of pi-ensemble, the Pi extension that delegates work to child agents
("subagents"), in the foreground or as detached background runs. Paths are
relative to the repository's root; `background/`, `foreground/` and `shared/`
without a prefix stand for `src/runs/background/`, `src/runs/foreground/` and
`src/runs/shared/`.

`PROJECT.json` lists the components, the runs, what each definition models
(with its lines), the disagreements found, the hazards and the theorems.

    tlc -workers 2 -config MCSessionLease.cfg MCSessionLease.tla   # a run
    tlapm SessionLease_proofs.tla                                  # the proofs

## 1. The system

A parent session runs the extension in one JavaScript process; several such
processes may have the same session open, and one may be restarted or reloaded
at any moment. A background run is a detached *runner* process that executes
steps by spawning Pi child processes (*writers* of a session file). Runner and
extension share no memory: everything between them is a file, replaced by an
atomic rename, or the existence of a directory, or the death of a process that
the other side probes with a signal. That is where the hard behaviour is.
A foreground run is a tool call of the parent that waits for one child process;
it may be handed over to go on without the call. Inside one process JavaScript
excludes interleaving during a turn of the event loop, and only between turns
does other work come in.

| Component | State it keeps | Operations | Who it meets, and how | What makes it correct |
|---|---|---|---|---|
| Session lease, `shared/session-lease.ts` | a lease directory with `owner.json` (token, process, writer record), tombstones | acquire, reclaim a stale lease, register a writer, release | runners reviving one session contend through renames and process probes | one holder; a lease is only taken from the dead; one Pi writer per session file |
| Active async capacity, `background/active-async-capacity.ts` | slot directories with an owner record and a claim file; the handle in memory | reserve, transfer, mark started, roll back, reconcile | extension processes of a session; reads status and process-terminal proof of runs | a running run is charged; the cap holds; capacity comes back |
| Launch and revival, `background/async-execution.ts`, `background/subagent-runner.ts` | three startup files, the run's status | spawn, ready / ack / proceed handshake, timeouts, stop | parent and runner through files; uses lease and capacity | a failed start never runs; a committed one does; every start is answered |
| Runner's loop over a chain, `background/subagent-runner.ts` | the chain, its steps, flags, children, the status | run a step, a parallel or a dynamic group, retry, stop, end | children it spawns; parents through its inbox; files its result | whatever ends the run reaches every child; a complete run ran everything |
| Process-terminal proof, `background/process-terminal.ts` | candidate and final proof in the status and an artifact | record a candidate, finalize | runner writes, capacity reads | a proof is final and never claims too much |
| Mission store, `src/missions/store.ts` | mission record, lock directory | claim, reclaim, read-merge-write | all processes of a mission | updates exclude each other, none is lost |
| Result delivery, `background/result-files.ts`, `result-watcher.ts`, `notify.ts`, `completion-batcher.ts`, `completion-dedupe.ts` | pending and public result files, index entries, de-duplication maps, a batch, timers | file, promote, watch, scan, tell, batch, mark, remove | runner files; the runtime of the session delivers, and may be restarted | every end is told, once per runtime; nothing is deleted before it was told |
| Run lifecycle and reconciler, `background/stale-run-reconciler.ts`, `async-job-tracker.ts` and others | `status.json`, active index, jobs in memory | reconcile, repair, track, restore | runner writes too; probes its process | a result wins over a repair; a dead run is reported |
| Control channel, steering, chain append, `background/control-channel.ts`, `steering.ts`, `chain-append.ts` | request files, capabilities, acknowledgments, the steering ledger | stop, interrupt, time out, steer, append a step | parents, runner and children through files | a committed request is settled, and reaches the child it names; a stop ends the run |
| Waiting for runs, `background/subagent-wait.ts` and others | the remembered runs, subscriptions, completions in memory | wait, subscribe, complete, drain, resume | delivery and foreground runs feed it | a wait ends with its run or when the run needs its parent |
| Scheduled runs, `background/scheduled-runs.ts` | jobs, occurrence claims, scheduler lease | claim due, take over, record | runtimes compete | an occurrence runs once, or is recorded as missed |
| Budgets and limits, `shared/*budget*.ts` | counters; file-backed fanout claims | claim, release | processes of one run tree | limits are not exceeded |
| Foreground execution, `foreground/execution.ts`, `subagent-executor.ts` | foreground controls, remembered runs and their history file | call, retry, abort, interrupt, hand over, remember, report | the child process; the supervisor channel asks for a handover | the parent is told of the end once; a handover is final |
| Worktrees and hand-off | git worktrees, hand-off files | create, diff, remove | git | nothing is removed that holds work |
| Child protocol, acceptance, nested events, external jobs | per-child state in memory, event files | parse, classify, retry | runner and child | a verdict follows the child's evidence |
| Supervisor channel and intercom, `src/intercom/` | request and reply files, the pending requests of a runtime | ask, announce, answer, expire | child and parent through files | a question frees its parent and stays answerable |
| Mission actions, goal driver, workflow state | mission record, workflow-state file and its lock | create, update, drive | mission store | follows the store |
| Scripted workflows | interpreter state, workflow capacity slots | run, wait, cancel | capacity | slots end with the workflow |
| Watchdog | review state, timers | review, arbitrate | one process | advisory only |
| Extension, RPC, API | wiring | route events | everything | requests are validated |
| Agents, profiles, slash commands, TUI, inspectors, benchmark | caches, rendering | discover, render | - | presentation |
| Shared file utilities | - | atomic replace, append, retry | everything | a replace is atomic |

Modelled are the components above scheduled runs, and further down foreground
execution and the supervisor channel, without the parts section 7 names: there
several processes change the same files, or one process serves them between its
awaits, and a test can hardly produce the orders that matter. The hazards of each
are in `PROJECT.json` at the line where they bite, with the properties that catch
them.

## 2. Modules

| Module | What it is |
|---|---|
| `SessionLock` | the abstract lock that the lease, and the mission lock, mean to be |
| `Capacity` | the abstract ledger of slots that the cap promises |
| `Delivery` | the abstract delivery: ends that are shown, filed, told, remembered |
| `SessionLease` | the lease protocol, one file-system call per step |
| `AsyncCapacity` | slots, launches, resumes, refreshes, rollbacks, the runs they belong to |
| `RevivalStartup` | the startup handshake, with time |
| `MissionLock` | the mission lock and the read-merge-write under it |
| `ResultDelivery` | runner, files, watcher, notifier, batcher, reconciler, restart |
| `RunControl` | a background run: the runner's loop, its control inbox, steering and appended steps, its children |
| `ForegroundRun` | a foreground run: call, attempts, handover, the child's questions, waiting, a session left and resumed |
| `<Module>_proofs` | theorems about each of `SessionLease`, `AsyncCapacity`, `RevivalStartup`, `MissionLock`, `ResultDelivery`, `RunControl`, `ForegroundRun` and `MCRuns` |
| `MC<Module>` | instances for TLC, each with its `.cfg` files; `MCRuns` has `RunControl` and `ForegroundRun` |

### SessionLease

A runner makes one acquisition with a fresh token, so a runner *is* its token.
`slot` is the lease directory (absent, empty, or the runner whose `owner.json`
is in it), `tombs` the tombstones, `record[r]` the writer record in r's owner
file, `writer[r]` the Pi process that is really there. `pc[r]` names the next
file-system call of `acquireSessionLease`, of `updateWriter`, or of the streaming
and releasing code of `runConfiguredSubagent`. A contender's reading of the
record, its process probes, and its rename to the tombstone are three steps:
that is the protocol's weak spot. `release` removes `owner.json` and then the
directory, and a rename may land on the emptied directory in between. `Die`
ends a process at the points in `DeathPoints`: `dead` is a runner that was killed with its lease
in place, `gone` one that had emptied its lease directory before, as every runner has that ends by itself. An
uncaught exception releases the lease through the exit handler while the writer lives on.
`RenameAfterRelease` names the one step that breaks the protocol: a contender renames away a lease
on the record of an owner that is `gone` by then, and the lease is another runner's.

### AsyncCapacity

`exists`, `owner` and `claim` are the directories and files of the slots, `mine`
and `prev` the handle in memory, `pc` the next call of the parent, with the steps at which
another process can come in. A launch reconciles, counts and creates; a resume
finds the source's slot and transfers it; a refresh judges, claims and removes;
`Crash` may leave a directory without owner or a claim file behind, as in the
code. A run's status, process and proof are changed by the run, and by the stale-run repair
(`DeclareFailed`). A proof is `none`, `not-started`, `observed` or `unknown`.
Slots of scripted workflows are not in the model.

`Ledger` is the ledger of `Capacity` as the owner records and status files show it: which run each slot is
charged to, which slots are marked started, which runs are reported, running, over.

### RevivalStartup

Two attempts, each a parent and a runner, with the three startup files as sets
(`proceed` is the commit point). Time passes in ticks; a parent that has
something to do may be late by at most `MaxStall` ticks each time, which stands for
its polling and for a suspended process. That the lease is exclusive is not assumed: a runner gets
it or is refused whoever has it (`holders`), so what is said of the handshake does not rest on
the lease, and whether two revivals can run at once is a question for `SessionLease`.

### MissionLock

`lock` is the lock directory and `aside[p]` what contender p moved to its reclaim path. Reading
the owner (`Judge`, `Rejudge`) and probing its process (`Probe`, `Reprobe`) are separate steps, and
so are the move, putting back and dropping, the check of the owner's token and the two removals of a release.
A lock is stale when the process of its owner is gone, be it by a `Crash` or by an ordinary `Exit` after its update;
without an owner it is stale after a minute, which is long enough for any removal that is under way.
`LateReclaim` names the step that breaks the lock: a contender renames the lock of another process than the
one it read and judged. The record is the set of updates
written to it; an update reads it, and writes it back with itself added. `Lock` is `SessionLock` with
the updates between read and write as its holders.

### ResultDelivery

Files are `pending`, `public` and `index`, with the outcome and the delivery mark as
content. A runner files a snapshot when its status becomes terminal early, and the
final result; each is pending file, index entry, (rename,) status, in this order,
and the runner can be killed between any two. In the runtime, `task[r]` says
where `handleResult` is with r's file: delivering, held in the batch, marking,
removing. `seen` and `done` are the notifier's and the watcher's
de-duplication maps, lost on a restart; `Forget` is the expiry of an entry after ten
minutes, the notifier's first, as its stamp is the older one. `rec[r]` says where `reconcileAsyncRun`
is. Granularity: looking up a result, promoting and reading it are one step, so are
`terminalStatusFromResult` and the status write that follows; the writes of a result and of its
mark are one step per file, because runner and runtime race there. Two turns of the
runtime's event loop never overlap (`Quiet`), while runners may act between any two of its
file writes. A runner that is a child of the runtime (`children`) cannot be reaped
in the middle of a turn and still answers the probe. A shutdown, a reload and a crash are one action, `Stop`:
whatever was in memory is lost in each case. One session is modelled. `Report` is `Delivery` with
the ends a status shows, the results on disk, the runs the session was told of and the notifier's map.

### RunControl

One background run from the runner's first line to its exit. The runner is
single-threaded, so each of its actions is a stretch of `runSubagent` between two
awaits: taking the next group at the loop's top (`StartOne`, `StartMany`,
`StartFan`, with `consumePendingAppendRequests` before it), a task of a group
being started, retried, judged and finished (`StartTask`, `ChildEnds`, `Retry`,
`FinishTask`), the end of a group (`GroupDone`) and the end of the run, in its
four steps: close the inbox, read and sweep what is left, publish the result,
write the last status. `Listening` says at which awaits timers and file watchers
are served; the requests are consumed only there. `flags` are the runner's
`interrupted`, `timedOut`, `stopped`, turn and usage budget; `told` says which
child has been told of which.

A chain is a sequence of groups, and `steps` the flat list the status shows. A
dynamic group holds one placeholder until its items are known; `Splice` puts
them in its place, and every later step moves. Requests and the ledger name a
step by its place, so each step has an `id` in the model which never changes;
`steer[r].want` records the ids a request was meant for when its sender read the
status, and `heard` whom it reached. Parents are split at each file operation
(`ReadForSteer`, `WriteSteer`, `ConfirmSteer`: check the inbox, write, check
again), as is the append of a step, whose `WriteBackStatus` writes the status
back that was read before. Children publish a capability, take requests from
their inbox, queue and acknowledge them at the start of a turn.

What one child does is its outcome; usage and turn budgets are the moments at
which they run out.

### ForegroundRun

One foreground run, always a single child: parallel and chain calls go to the
background. `call` is the parent's tool call, `pipeline` the state of
`runSyncCompletion` (about to launch, a process runs, it closed, the delay before
a startup retry, acceptance, settled) and `handover` the `detachedReason` of
`runSync`. `ends` are the reasons the present process is being ended for, in the
order of precedence the code's guards give them: no deadline after an interrupt,
no interrupt after the deadline. `registered` and `remembered` are the run's
entries in `foregroundControls` and `foregroundRuns`, `history` its entry in the
history file (written as well as it goes: an error is only logged, and `RewriteHistory` is another
session that drops the entry when it rewrites the file, which no lock protects), `completions` the completion events the session got.

Publishing the receipt, remembering the run and returning from the call are one
action (`HandOver`): only microtasks lie between them, and whatever else could
come in needs a turn of the event loop. The same holds for the terminal callback
(`SettleDetached`: remember, file, report, remove the control). `PollRequest` is
the part of `poll` that handles one request file, with the refresh before it: it
marks a detached run as needing attention, shows the question, and asks for a
handover if the call is still open. The child's side (`AskSupervisor`,
`TakeReply`, `GiveUpAsking`) is in another process and meets the parent in the
request and reply files. `LeaveSession` forgets everything the runtime has in
memory, `ResumeSession` reads the history.

### How they compose

A session has background and foreground runs, which share the executor and no
state: `MCRuns` starts in either and leaves the other at rest, in a state that a run of its module can end in. The result that
`RunControl` publishes is the file whose way `ResultDelivery` follows.

`SessionLease` and `MissionLock` implement `SessionLock` but for one step each (a refinement; proved for both, and
checked for the lease). `AsyncCapacity` implements `Capacity`, and `ResultDelivery` implements
`Delivery` (both proved; TLC checked each once on a small instance before, and no run repeats it). The outcomes of
`RevivalStartup` (started, rolled back, retained as unsettled) are the branches of
`AsyncCapacity`'s spawn step. `ResultDelivery`'s repair is `AsyncCapacity`'s
`DeclareFailed`.

## 3. Runs

| Run | Instance | Shows |
|---|---|---|
| `MCSessionLease` | 3 runners, 2 writers each, 2 rounds, ordinary ends and deaths anywhere, uncaught exceptions, every step but `RenameAfterRelease` | one holder, the directory is its own, only the dead lose their lease, a verdict on the last record is right, the lock is implemented |
| `MCSessionLeaseWriters` | 3 runners, no death before the release is done | `WriterExclusive` fails, see section 6 |
| `MCAsyncCapacity` | 2 parents, 3 runs, the first launched before the others, 1 slot, crashes, failing writes | an accepted run stays charged; its slot is released only on an observed proof |
| `MCAsyncCapacityOneParent` | 1 parent, 3 runs, 2 slots, nothing fails | every running run is charged, the cap holds, capacity comes back |
| `MCAsyncCapacityOverLimit` | 2 parents, 3 runs, 1 slot, nothing fails | `ActiveWithinLimit` fails, see section 6 |
| `MCRevivalStartup` | 2 attempts, timeouts 1 and 3, lateness 1, crashes, failing writes | both sides agree on whether the run starts; every start ends |
| `MCMissionLock` | 3 processes that may end after their update, one may crash, 2 tries, fairness | exclusion, no lost update, a live lock is not dropped, what is left behind blocks no later update |
| `MCMissionLockLostUpdate` | 4 processes, none crashes | `NoUpdateIsLost` fails, see section 6 |
| `MCResultDelivery` | 1 run, 1 disturbance, fairness | every end is told |
| `MCResultDeliveryBatch` | a finishing run and an earlier result, 1 disturbance | no end unreported, told once per runtime, deleted only once told |
| `MCResultDeliveryRepair` | 1 run, no disturbance | `RepairPreservesResult` fails, see section 6 |
| `MCRuns` | in the background, a parallel group of 2 to which a step may be appended, or a dynamic group of up to 2 with a step behind it; 1 steering request, 2 attempts, one child at a time, 2 disturbances, a last child that cannot be steered; in the foreground, 2 questions and 2 processes; fairness | a steering request is settled and reaches its child, every child is told, a complete run ran everything, no child after a stop, a stop ends the run; the session is told once, a handover is final, a question frees the parent and stays answerable |

The bounds, and why they are enough to be interesting:

- *Every step but one.* `MCSessionLease` has the next-state relation without `RenameAfterRelease` (`SpecButRename`), and so checks what
  the theorems of section 5 say: that this step is the only one that breaks the lease. `MCSessionLeaseWriters` has it.
- *Three runners.* One dies or releases, one reclaims, one acquires in between: the
  races need exactly an old owner, a contender with an old verdict, and a
  successor. Two writers per runner let a record be replaced after it was read. Two
  rounds of the acquisition loop reach the second rename and the "last read" (the code has four).
- *Three runs and one or two slots.* One run to fill a slot, one to replace it, one to
  exceed the cap, or to be resumed from another. Two parents are enough, as each race is
  between two. In `MCAsyncCapacity` the parent of the first launch is done with it, or crashed, when the second
  begins (`PairsOfOperations`, an action constraint): the second and the third launch or resume race with each other and
  with refreshes, from whatever state the first has left. Two launches that race before a third one begins are
  left to `MCAsyncCapacityOverLimit` and to the theorems of section 5, which assume no order at all. The ids of `MCAsyncCapacityOneParent` are
  given out in order (`InOrder`), which loses nothing, as they are only names.
- *Timeouts 1 and 3.* As in the code (10 s and 30 s) the runner waits three times as long as
  the parent does in one phase, and the parent has two phases. `MaxStall` is the slack this leaves.
- *Three mission processes* are an owner that ends or crashes, a contender that judges it, and an update whose lock
  the contender may move. The fourth process is what the disagreement needs: a moved lock frees the path for it. With three
  `LateReclaim` happens too and breaks nothing.
- *Disturbances.* One of: runner killed, runtime ended, write or rename failed, message refused,
  at any step. What `MCResultDeliveryBatch` checks is proved for any number of them. With two, `EveryEndIsTold` does not
  hold: a runner killed between the pending file and its index entry, then a runtime that promotes that file and stops
  before it indexes it, leave a public result no later scan considers. No document promises delivery then, so it is a
  hazard in `PROJECT.json` and not a finding.

- *Chains.* A group with one task that runs and one that waits, whose chain may grow by an appended step; a dynamic
  group that moves the step behind it when it is expanded. Both at once (a step appended behind a dynamic group) are left to the
  theorems, which hold for every chain. With one child at a time the second task starts after
  whatever came in meanwhile. Two attempts are one retry. One steering request may name every child or one of them, and
  the disturbances are counted over the stop, the deadline, the interrupt, the steering, the append, a
  retry, an exhausted budget: each pair of them meets.
- *Foreground.* Two questions: one answered or open while the other is asked, one before and one after a
  handover. Two processes: a first attempt, and a retry or a fallback. The questions differ in nothing but their number, so they are
  asked in order; the one asked first may expire. What the user and the clock do is otherwise bounded by nothing but the state.
  The action constraint `Smaller` of `MCRuns` states this and what is left out of the chains.

The instances that are checked for liveness are constrained in steps without fairness only (a launch, an append, a question,
its expiry), so that a behaviour that the constraint allows is never stopped by it where fairness asks for a step.

Deadlock is not checked: every system here may stop, with all runs over or crashed.

## 4. Fairness

- `AsyncCapacity`: a parent goes on with a synchronous call it has begun, and an event that
  triggers a refresh is handled: weak fairness of the steps of a parent and of the refresh. Only the one-parent
  instance, which does not crash, uses it.
- `RevivalStartup`: time passes, a living parent and a living runner go on.
  That the child's run ends is not assumed.
- `MissionLock`: a living process goes on with its update; that it ends when it is done is not assumed.
- `ResultDelivery`: a task in progress goes on (weak fairness). Timers, file-system events and the tracker's
  poll are served by an event loop that other turns keep interrupting, so that they are enabled again and
  again rather than all the time: they need strong fairness, and a loop that comes round to all its
  queues gives it. Disturbances are bounded and need none. **Nothing is assumed of runners**: one may hang
  for ever; a run is due for a report only when its process is gone.

- `RunControl`: the runner goes on; its inbox is served while it listens; a child that was told to end by a stop, a
  deadline or an exhausted turn budget ends, since the runner follows with SIGTERM and SIGKILL. An
  interrupted child is only asked to end, so nothing is assumed of it.
- `ForegroundRun`: the event loop goes on with a pipeline whose process is closed, the request directory is polled, the wait
  loop looks again. Nothing is assumed of the child (it may run for ever, also after it was told to end), of the user or of the clock.

`SessionLease` is checked for safety only: the code fails closed (a lease whose owner
died while "spawning" is never reclaimed), so that a contender that goes on for ever is not promised the
lease.

## 5. Proofs

Each `<Module>_proofs` module EXTENDS its module. What follows is proved for every value of the constants:
any number of processes, runs, slots, attempts, questions or requests, every chain and every bound. The named
assumptions on constants (`LeaseAssumption`, `StartupAssumption` and so on) only say that bounds are numbers and that model
values are distinct; TLC evaluates them in each run. Where a theorem has a further hypothesis, it is named below
with the reason.

All proofs have one shape: an inductive invariant with a part for each idea, a lemma `<Part>Inductive` for each
part (one step per action of the module; the actions that leave the part's variables alone in one step), and a
theorem that combines them. A type invariant comes first, since nothing can be said of a function whose domain is unknown.

**`SessionLease_proofs`**

- `TypeCorrect`: `TypeOK` alone is not inductive: that the attempt counter and
  the writer generation stay within bounds follows from where a runner is, which `Bounds` adds.
- `VerdictsAreRight` (`VerdictOnLastRecordIsRight`), from `VerdictInv`, which adds
  `RecordTellsTruth`: at each control point, what the record on disk may say of the writer that is there. Holds for
  any `DeathPoints`.
- `MutualExclusion` (`SingleHolder`), `HolderKeepsDirectory` (`HolderOwnsSlot`) and `OnlyTheDeadLoseTheirLease`
  (`OnlyTheDeadAreMoved`), all from `LeaseInv`: a
  killed owner somebody has read still has its lease in the directory, unless its tombstone exists; so a rename
  to that tombstone moves this very lease, or fails because the tombstone is not empty.
- `ImplementsLock`: the lease implements `SessionLock`. Initial states map to initial states, and each step is an
  acquisition, a giving-up, or a stutter.

The last four have the form `Spec => X \/ <><<RenameAfterRelease>>_vars`, with no assumption on when and how processes end:
X holds of every behaviour in which no contender renames a lease away on the record of an owner that has released its own and
ended. As any finite behaviour may go on with stutters, this says that X is not violated *before* such a step. That the
exception is needed is what `MCSessionLeaseWriters` shows, for ordinary ends of runners; that there is no other is what is proved: kills at any
point, a rename into an emptied directory, exceptions nobody catches and verdicts on old records of killed owners do not break the lease.

**`RevivalStartup_proofs`**

- `TypeCorrect`; `FailureIsFinal` (`FailedStartNeverRuns`) and `RollbackIsOfTheGone` (`RolledBackIsGone`) from `PhaseInv`, which
  ties the parent's place to the files it has written: only a parent that has not written `proceed` records a failure.
- `CommittedInTime` (`CommittedIsNotGivenUp`), from `TimingInv`, which bounds how long the runner has waited by how late its
  parent was, and `GivenUpInv`. It assumes `LateTwiceIsInTime == RunnerTimeout > 2 * MaxStall`: a parent can be late when it
  reads `acknowledged` and again when it writes `proceed`. The bound is the best: with `RunnerTimeout = 2` and `MaxStall = 1` TLC finds
  a start that is committed after its runner has given up. In the code the timeout is 30 s, so that a parent may be
  suspended for just under 15 s at each of the two places; nothing in the code enforces that.

**`AsyncCapacity_proofs`**

- `TypeCorrect`, in six parts.
- `ReleasedByProof` (`StartedSlotNeedsProof`), from `JobInv` and `VerdictInv`: a verdict that was reached before the claim stays
  right, since nothing read of a run that is over changes any more and no run id is used again. `ProofInv` and `ProvenInv` add which proof
  it was: a run that was reported as started is released on an observed one only, since `not-started` is recorded for runs
  that failed before the report and `unknown` retains the slot.
- `AcceptedKeepsSlot` (`AcceptedIsCharged`), from `HandleInv` (whose handle it is and what a rollback would restore) and
  `SlotInv` (who is making a slot). It needs no assumption on overlap: a launch that lost its slot is not reported as started.
- `ImplementsLedger`: `AsyncCapacity` implements `Capacity`, from the same invariants and with no assumption on overlap. `RecordWritten`
  says what one owner record that is written does to the ledger; `StepOfLedger` maps each action. What overlap breaks is no step of the
  ledger but a promise `Capacity` does not make: that a run whose launch was *not* reported does not run.
- `RunningKeepsSlot` (`RunningIsCharged`) and `CapKept` (`ActiveWithinLimit`) have the hypothesis `[]OneAtATime`: no two processes are in
  the middle of an operation at once. `MCAsyncCapacityOverLimit` shows both false without it. With it, `FoundInv` and `FreeInv` say that
  an operation finds its own record in its slot and is never refused a claim, even though crashed processes leave both behind. The cap follows
  as distinct running runs own distinct slots.

**`MissionLock_proofs`**

- `TypeCorrect`.
- `UpdatesExclude` (`MutualExclusion`), `HoldersKeepTheirLock` (`LiveLockIsKept`) and `UpdatesAreKept` (`NoUpdateIsLost`), from `JudgedGone` (what
  a contender is about to move or drop was judged rightly), `HolderInv` (an update under way has its lock in place) and `CopyInv` (it has read the
  record as it is). Each says `Spec => X \/ <><<LateReclaim>>_vars`, read as for the lease: X is not violated before a contender renames
  the lock of another process than the one it read and judged. `MCMissionLockLostUpdate` shows a behaviour with that step, without any crash. The theorems
  say that it is the only hole: the probe after an owner's release, the claim of an empty directory, the second judgment,
  putting back, the check of the owner before two removals, ordinary ends and a crash at any point need nothing more.
- `ImplementsLock`, with the same exception: the lock directory implements `SessionLock`. An acquisition is a `Claim`, a giving-up is the
  write or the death of the holder; all of reclaiming is a stutter.

**`ResultDelivery_proofs`**

- `TypeCorrect`; `EndsAreReported` (`NoEndGoesUnreported`) from `TaskInv` (what the runtime remembers as told was told), `MarkInv` (a marked
  result was told) and `FiledInv` (whoever shows the end of a run, or is about to, has filed a result); `DeletedAfterMessage`
  (`DeletedOnlyOnceTold`) from the same.
- `ToldAtMostOnce` (`ToldOncePerRuntime`) from `CountInv`: at most once for as long as the notifier remembers. After `Forget` a result whose
  file comes back is told again, as in the code.
- `ImplementsDelivery`: `ResultDelivery` implements `Delivery`, from the invariants above and `ReadInv` (what a task is about to tell
  is still on disk). The files of a run are one set in `Delivery`: promotion, index and mark are stutters, so `StepOfDelivery` says that
  none of them adds or removes a result.

**`ForegroundRun_proofs`**

- `FgTypeCorrect`, with `LaunchBound`: another process may follow only while the bound is not reached.
- `EndToldOnce` (`ToldExactlyOnce`), `ShownStaysAnswerable` (`QuestionStaysAnswerable`) and `HandoverStands` (`HandoverIsFinal`) from one
  invariant, `FgInv`: the call has its receipt exactly when the run was handed over, a run handed over for a question is not tried again,
  nothing is told early, what a settlement leaves behind, and a question waits only while its child runs. None of them needs the history file: it may
  not be written, or be lost, at any point.

**`RunControl_proofs`**

- `TypeCorrect`. Most of it is about places: `PositionInv`, `PlacesInv` and `ChildInv` say that the cursor and whatever names a child
  stay within a list which other steps lengthen.
- `NothingStartsAfterStop` (`NoChildAfterStop`) needs no invariant: it holds of every step from any state.
- `RunningChildrenAreTold` (`EveryChildIsTold`), with `ProcInv`: a process works on a task of the group that is under way.
- `CommittedSteersAreSettled` (`AcceptedSteerIsSettled`), from `FiledInv` (a request that was written is in the inbox until it is in the
  ledger), `ClosedInv` and `SweptInv`.
- `CompleteRuns` (`CompleteRunRanEverything`), from `AlignInv`, `DoneInv` and `EndInv`. `AlignInv` says that the flat list of steps is laid out as the chain is:
  that there is an offset for each group that is to come, with the group's width between them. Showing that it holds at launch, and is kept by
  appended groups and by the expansion of a placeholder, is the longest part of the module (`LaidNext`, `LaidAppend`, `LaidSplice`).
- `SteersReachTheirChildren` (`SteerReachesItsChild`): a place names the same step from the time a request is made until it is
  heard, as only the steps behind a waiting placeholder move (`Settled`, `SetInv`, `RunInv`). This must hold of every old status that an
  append may write back, which is `SnapInv`; `TailInv` says that what is beyond the current group has not begun; `NameInv`, `SentInv` and `RouteInv` follow the request.

The list of steps at launch is a recursive function of the chain. The library's induction theorems cannot be used here, so `Induction` is stated of
a set of numbers and derived from the fact that the finite sets are well-founded by inclusion; `LaunchUnfolds` unfolds the function with it.

**`MCRuns_proofs`**

- `RunsTypeCorrect` (`RunsTypeOK`), `RunsKeepTheirPromises` (the six other invariants of the run) and `RunsTakeNothingBack`
  (`NoChildAfterStop`, `HandoverIsFinal`): what is proved of the two modules' own specifications holds in a session that starts in either.
  The new part is that the run which is over satisfies the invariants (`OverLoop`, `OverEnds`, `OverSteers`, `OverForeground`), although
  it is an initial state of neither module; that a step of the session keeps them follows from the lemmas of the two modules (`StepOfEach`).

**What stays with TLC.** Liveness is out of the prover's reach: `CapacityComesBack`, `EveryStartIsAnswered`,
`UncommittedStartFreesSession`, `LeftoversDoNotBlock`, `EveryEndIsTold`, `StopEndsRun` and `QuestionFreesParent`. Every safety property of a
passing run is proved of the specification it is about, some up to the one step or under the hypothesis named above.
The four disagreements of section 6 are shown by TLC.

## 6. Disagreements between code and documents

1. **Session lease** (`shared/session-lease.ts:280`, run `MCSessionLeaseWriters`). A retained tombstone stops a
   second reclaim for the same *dead* token, but an owner that finishes normally leaves none. A contender that read
   its record before the release and probes the process after the exit renames the successor's
   lease away, and two Pi writers run on one session file, which `docs/tool-reference.md:231` excludes.
2. **Capacity** (`background/active-async-capacity.ts:334`, run `MCAsyncCapacityOverLimit`). `markStarted` throws before it
   marks anything when another process holds the slot's claim; the launch is reported failed, the
   rollback frees the slot of a runner that is running, and the cap (`docs/configuration.md:233`) is exceeded.
3. **Mission store** (`src/missions/store.ts:114`, run `MCMissionLockLostUpdate`). A contender reads the owner of a lock, which then
   releases it and ends by itself; the probe finds it gone, and the contender moves the next update's live lock aside. A third process
   claims the free path before the lock is put back; two updates run at once and one is lost, against
   `README.md:36`. No process crashes.
4. **Stale-run repair** (`background/stale-run-reconciler.ts:388`, run `MCResultDeliveryRepair`). The result is looked for
   before the process is probed. A runner that finishes and exits in between has its complete result replaced by a
   failed one, against `test/unit/stale-run-reconciler.test.ts:353`. It needs a reconciler that is not the runner's
   parent and that is held up between two synchronous calls.

All four need several processes on one session or mission, and narrow timing; none needs a crash.

## 7. Not modelled

- File contents beyond what the properties tell apart: messages, summaries, records of missions, formatting.
- Slots of scripted workflows; assembly of a process-terminal proof (its outcome is in `AsyncCapacity`).
- In `ResultDelivery`: the intercom relay, nested enrichment, mission and schedule observers, replay records,
  sessions that are switched within one runtime.
- In the reconciler: a pid that stays alive for 24 hours without an update, runs without a status file, nested runs.
- Process identifiers that are reused: a probe tells the truth about the process it was meant for. (The lease
  compares process start times for that, where the platform tells them.)
- In `MissionLock`, and against no promise: a live lock that was moved may be put back after its owner's release, and then stays until that process
  ends. `LeftoversDoNotBlock` says that it blocks nobody afterwards.
- In `AsyncCapacity`: that *every* running run has a slot (`RunningIsCharged`) is said of one extension process, or of several whose
  operations do not overlap. With overlap it is false (`MCAsyncCapacityOverLimit`); what is left then is `AcceptedIsCharged`.
- In `RunControl`: a run of mode `single` as the target of a request (chains only); steering requests that are recovered by
  a later runtime, briefs for a revival, the re-filing of pending requests at a compaction; nested descendants;
  the death of the runner in mid-run (in `ResultDelivery`); more than 20 requests in the ledger; the summary of the result. Four things a reader of the code may stumble
  on are in the model and break no property, as nothing promises otherwise: an append request filed after the
  runner's last look is lost; the status it writes back may undo what the runner wrote in between; acknowledgments that are unread
  when the inbox closes leave the ledger with "failed" for a message the session accepted; after an interrupt,
  neither stop nor deadline has an effect. A message for a child behind a dynamic group that is not expanded
  goes to whoever takes its place. A run whose child is killed by a signal ends as failed: no result keeps the signal, so that
  `signalTerminated` (`subagent-runner.ts:4841`) never holds.
- In `ForegroundRun`: validation, prompts, worktrees, output files, acceptance beyond its end, nested runs, tool
  timeouts, steering of the child, more than 50 remembered runs, non-blocking wait subscriptions. The child is taken to have
  the supervisor tool (`allowIntercomDetach`). A session is left only when neither a call nor a wait blocks it, as Pi
  leaves a session when it is idle. In the model and against no promise: a runtime that resumed the session learns of
  the end of a run only when it is started again, and gets no completion event; attention for a question that
  expired stays; the history file is best effort (errors are only logged, `subagent-executor.ts:610-616`) and every session rewrites it as a
  whole without a lock (`foreground-history.ts:111-122`), so that a session that is resumed after the end of a run may not know of it; the SIGKILL after an abort never fires (`execution.ts:1309`), so that no liveness of an
  aborted call is stated.
- Scheduled runs (`background/scheduled-runs.ts`): next in the plan. A model should have the schedule record that
  `runDue` and a failed launch read before an await and write back after it, the lock that stays behind when the process
  dies between taking and recording it, and runtimes that finish one run at the same time.
- The components of the table in section 1 without a module: budgets beyond their effect on a run, worktrees, child protocol and acceptance,
  mission actions, scripted workflows, watchdog, extension and RPC, and the presentation. They hold no state two actors
  change, or are parsers, or are long sequences of git commands.

## 8. Plan

In this order, the most shared state first:

1. *Done, with the proofs of section 5:* session lease, capacity, revival startup, mission lock, result delivery, the background run with
   control, steering and appended steps, the foreground run with handover, questions and waiting.
2. Scheduled runs: occurrence claims of competing runtimes, lease takeover, missed occurrences.
3. Process-terminal proof: assembly of the candidate with child and orphan evidence, its overlay on the status; composed
   with `AsyncCapacity`'s proof values by refinement.
4. File-backed fanout budgets; wait subscriptions.

Theorems: *done* are type correctness and every safety property of the passing runs; the lock as an abstraction of the lease and of the
mission lock, but for the one step that breaks each; the ledger that the cap implements and the delivery that the result files implement. Left are
an abstract run (what a session may see of a background run) that `RunControl` implements, and whatever items 2 to 4 bring.

Runs stay few: a run of a finished module is merged or retired when a new question needs its place.
