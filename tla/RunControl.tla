----------------------------- MODULE RunControl -----------------------------
(***************************************************************************)
(* One background run and everything that reaches into it while it works:  *)
(* the runner's loop over its chain (src/runs/background/                  *)
(* subagent-runner.ts), the control inbox through which the parent stops,  *)
(* times out, interrupts and steers it (control-channel.ts), the requests  *)
(* that append a step to the running chain (chain-append.ts) and the Pi    *)
(* children with their own steering inboxes (subagent-prompt-runtime.ts).  *)
(*                                                                         *)
(* The runner is single-threaded: an action of the runner is one stretch   *)
(* of its code between two awaits.  The parents and the children are other *)
(* processes, and meet the runner only in files, so their operations are   *)
(* split at each file operation.                                           *)
(*                                                                         *)
(* A chain is a sequence of groups: one child ("one"), a parallel group    *)
(* ("many") or a dynamic group ("fan"), which holds one placeholder in the *)
(* list of steps until its children are known.  Control files, ledger and  *)
(* inboxes name a child by its flat index, its place in that list.         *)
(***************************************************************************)
EXTENDS Naturals, Sequences, FiniteSets

CONSTANTS
  Plans,         \* the chains that may be launched: sequences of groups [kind, size]
  Steers,        \* steering requests the parents may send
  Appends,       \* append-step requests the parents may send
  Concurrency,   \* children of one group that run at once
  MaxAttempts,   \* startup retries and model fallbacks of one step, plus one
  MaxItems,      \* items a dynamic group may expand to
  Old,           \* step ids whose Pi session cannot be steered
  FailFast,      \* the groups' failFast option
  MaxTrouble     \* how often the parents may reach into the run, or something
                 \* may go wrong in it

ASSUME PlanAssumption ==
  Plans \subseteq Seq([kind : {"one", "many", "fan"}, size : Nat \ {0}])
ASSUME BoundsAssumption ==
  /\ Concurrency \in Nat \ {0}
  /\ MaxAttempts \in Nat \ {0}
  /\ MaxItems \in Nat /\ MaxTrouble \in Nat
  /\ FailFast \in BOOLEAN
\* The ledger forgets all but the last 20 requests (MAX_STEERING_REQUESTS).
ASSUME SteersAssumption == IsFiniteSet(Steers) /\ Cardinality(Steers) <= 20

VARIABLES
  phase,       \* where the runner is: "top", "group", "share", "closed",
               \* "swept", "published", "exited"
  plan,        \* the groups, the appended ones included
  cursor,      \* groups begun so far (stepCursor)
  start,       \* steps of the groups before the current one (flatIndex)
  steps,       \* status.steps: the id and the status of each
  state,       \* statusPayload.state
  err,         \* statusPayload.error is set
  flags,       \* interrupted, timedOut, stopped, turnBudget and usage exceeded
  spent,       \* the run's usage budget is exhausted
  task,        \* the current group's tasks: where each is, its attempt, its result
  outcomes,    \* the kinds of result pushed on "results"
  known,       \* steering requests with a record in the ledger
  ledger,      \* per request, the state of each target
  held,        \* pendingStepSteers
  deaf         \* steeringCapabilities with supported: false
loop == <<phase, plan, cursor, start, task, outcomes, spent>>
report == <<steps, state, err, flags>>
steering == <<known, ledger, held, deaf>>

VARIABLES
  disk,        \* status.json
  control,     \* which of stop.json, timeout.json, interrupt.json are there
  steerFiles,  \* steering requests in the run's inbox
  appendFiles, \* requests in the append directory
  inbox,       \* the requests routed to children: <<child, request>>
  capFiles,    \* children that have published an unsupported capability
  acks,        \* acknowledgments not yet read: [req, child, state]
  closed,      \* the inbox is marked closed
  result       \* the state in the run's result file
files == <<disk, control, steerFiles, appendFiles, inbox, capFiles, acks,
           closed, result>>

VARIABLES
  proc,        \* the children whose process runs
  told,        \* the flags running children have been told of: <<child, flag>>
  queue,       \* the follow-ups Pi has queued: <<child, request>>
  heard        \* <<request, step id>>: whose session accepted the message
children == <<proc, told, queue, heard>>

VARIABLES
  asked,       \* the controls the run has been sent
  steer,       \* per steering request: the parent's place and what it names
  append,      \* per append request: the parent's place and what it read
  trouble      \* disturbances so far
callers == <<asked, steer, append>>
parents == <<callers, trouble>>

vars == <<loop, report, steering, files, children, parents>>

-----------------------------------------------------------------------------
(* Vocabulary.                                                             *)

One == [kind |-> "one", size |-> 1]
Width(group) == IF group.kind = "many" THEN group.size ELSE 1
StepsOf(group, g) ==
  [k \in 1 .. Width(group) |->
     [id |-> <<g, IF group.kind = "fan" THEN 0 ELSE k>>, st |-> "pending"]]

LaunchSteps(chain) ==
  LET first[g \in 0 .. Len(chain)] ==
        IF g = 0 THEN <<>> ELSE first[g - 1] \o StepsOf(chain[g], g)
  IN first[Len(chain)]

Running(ss) == {i \in DOMAIN ss : ss[i].st = "running"}
WriteStatus(s, ss) == disk' = [state |-> s, steps |-> ss, pendingAppends |-> FALSE]

Quiet(fs) == flags \cap fs = {}
Ending == {"timedOut", "stopped"}             \* aborts the attempts of a step
Breaking == Ending \cup {"interrupted", "turnBudget"}  \* leaves the loop
Child(k) == start + k                         \* flat index of the k-th task
Done(k) == task[k].pc = "done"

\* The awaits at which the runner serves its timers and file watchers: before
\* the first group, while a child runs, waits to be retried or is judged, while
\* a dynamic group is judged, and while the session is exported at the end.
Listening ==
  \/ phase = "top" /\ cursor = 0
  \/ phase = "group" /\ \E k \in DOMAIN task : task[k].pc \notin {"wait", "done"}
  \/ phase = "group" /\ plan[cursor].kind = "fan" /\ \A k \in DOMAIN task : Done(k)
  \/ phase = "share"

\* What the parents do to the run and what goes wrong in it is bounded.
Trouble == trouble < MaxTrouble /\ trouble' = trouble + 1
Charge(unplanned) ==
  IF unplanned THEN Trouble ELSE UNCHANGED trouble

Waiting == [pc |-> "wait", try |-> 0, res |-> "none"]
Failed == {"fail", "deadline", "stopped", "timedOut", "turns"}

Init ==
  /\ phase = "top" /\ plan \in Plans /\ cursor = 0 /\ start = 0
  /\ task = <<>> /\ outcomes = {} /\ spent = FALSE
  /\ steps = LaunchSteps(plan) /\ state = "running" /\ err = FALSE /\ flags = {}
  /\ known = {} /\ ledger = [r \in Steers |-> <<>>] /\ held = {} /\ deaf = {}
  /\ disk = [state |-> "running", steps |-> steps, pendingAppends |-> FALSE]
  /\ control = {} /\ steerFiles = {} /\ appendFiles = {}
  /\ inbox = {} /\ capFiles = {} /\ acks = {}
  /\ closed = FALSE /\ result = "none"
  /\ proc = {} /\ told = {} /\ queue = {} /\ heard = {}
  /\ asked = {} /\ trouble = 0
  /\ steer = [r \in Steers |-> [pc |-> "idle", sel |-> {}, indexed |-> FALSE, want |-> {}]]
  /\ append = [a \in Appends |-> [pc |-> "idle", read |-> <<>>]]

-----------------------------------------------------------------------------
(* Steering, as the runner keeps it.                                       *)

\* What becomes of a request for step i when the list of steps is ss.
TargetState(ss, i) ==
  IF i \notin DOMAIN ss THEN "failed"
  ELSE IF ss[i].st = "pending" THEN "scheduled"
  ELSE IF ss[i].st # "running" \/ i \in deaf THEN "failed"
  ELSE "routed"

\* The first delivery of a request makes its record, a later one updates it:
\* a target the record lacks stays unrecorded.
Recorded(r, f) ==
  IF r \in known
  THEN [i \in DOMAIN ledger[r] |-> IF i \in DOMAIN f THEN f[i] ELSE ledger[r][i]]
  ELSE f

\* Deliver the requests rs to the children is, the list of steps being ss.
Deliver(rs, is, ss) ==
  LET f == [i \in is |-> TargetState(ss, i)]
  IN /\ known' = known \cup rs
     /\ ledger' = [r \in Steers |-> IF r \in rs THEN Recorded(r, f) ELSE ledger[r]]
     /\ inbox' = inbox \cup {i \in is : f[i] = "routed"} \X rs

\* Mutant of FlushSteers: whatever is held is released, whichever child it names.
FlushAllSteers(i, ss) ==
  Deliver(held, {i}, ss) /\ held' = {} /\ UNCHANGED deaf

\* Step i has just been set running in ss: release what was held for it.
FlushSteers(i, ss) ==
  LET due == {r \in held : ~steer[r].indexed \/ steer[r].sel = {i}}
  IN Deliver(due, {i}, ss) /\ held' = held \ due /\ UNCHANGED deaf

-----------------------------------------------------------------------------
(* The loop over the chain.                                                *)

\* At the top of the loop every append request found becomes a tail step.
NewPlan == plan \o [k \in 1 .. Cardinality(appendFiles) |-> One]
NewSteps ==
  steps \o [k \in 1 .. Cardinality(appendFiles) |->
              [id |-> <<Len(plan) + k, 1>>, st |-> "pending"]]
NextGroup == NewPlan[cursor + 1]

AtLoopTop ==
  /\ phase = "top" /\ Quiet(Breaking) /\ cursor < Len(NewPlan)
  /\ plan' = NewPlan /\ appendFiles' = {}

LeaveLoop ==
  /\ phase = "top" /\ phase' = "share"
  /\ Quiet(Breaking) => appendFiles = {} /\ cursor = Len(plan)
  /\ UNCHANGED <<plan, cursor, start, task, outcomes, spent, report, steering,
                 files, children, parents>>

UsageExhausted ==
  /\ AtLoopTop /\ spent
  /\ phase' = "share" /\ state' = "failed" /\ err' = TRUE /\ steps' = NewSteps
  /\ flags' = flags \cup {"usage"}
  /\ WriteStatus("failed", NewSteps)
  /\ UNCHANGED <<cursor, start, task, outcomes, spent, steering, control,
                 steerFiles, inbox, capFiles, acks, closed, result, children, parents>>

\* Mutant of Spawn: the new process is not told of what was asked before.
SpawnUntold(i) == proc' = proc \cup {i} /\ UNCHANGED <<told, queue, heard>>

\* A child's process starts and is told at once of what was asked before.
Spawn(i) ==
  /\ proc' = proc \cup {i}
  /\ told' = told \cup {i} \X (flags \cap {"interrupted", "timedOut", "stopped"})
  /\ UNCHANGED <<queue, heard>>

\* The k-th task of a group whose tasks are ts starts in the list of steps ss.
StartStep(k, ts, ss) ==
  LET now == [ss EXCEPT ![Child(k)].st = "running"]
  IN /\ steps' = now
     /\ task' = [ts EXCEPT ![k].pc = "child", ![k].try = 1]
     /\ FlushSteers(Child(k), now)
     /\ Spawn(Child(k))
     /\ WriteStatus(state, now)

\* A sequential step: nothing is awaited between the top of the loop and the
\* start of its child.
StartOne ==
  /\ AtLoopTop /\ ~spent /\ NextGroup.kind = "one"
  /\ cursor' = cursor + 1 /\ phase' = "group"
  /\ StartStep(1, <<Waiting>>, NewSteps)
  /\ UNCHANGED <<start, outcomes, spent, state, err, flags, control, steerFiles,
                 capFiles, acks, closed, result, parents>>

\* A parallel group: its steps are set pending; or its worktrees cannot be made.
StartMany ==
  /\ AtLoopTop /\ ~spent /\ NextGroup.kind = "many"
  /\ cursor' = cursor + 1
  /\ \/ /\ phase' = "group" /\ steps' = NewSteps
        /\ task' = [k \in 1 .. NextGroup.size |-> Waiting]
        /\ UNCHANGED <<outcomes, trouble>>
     \/ /\ phase' = "share" /\ outcomes' = outcomes \cup {"fail"} /\ Trouble
        /\ steps' = [i \in DOMAIN NewSteps |->
             IF i - start \in 1 .. NextGroup.size
             THEN [NewSteps[i] EXCEPT !.st = "failed"] ELSE NewSteps[i]]
        /\ UNCHANGED task
  /\ WriteStatus(state, steps')
  /\ UNCHANGED <<start, spent, state, err, flags, steering, control, steerFiles,
                 inbox, capFiles, acks, closed, result, children, callers>>

\* Mutant of Splice: the placeholder stays in the list, behind the items.
SpliceBefore(n) ==
  SubSeq(NewSteps, 1, start)
  \o [k \in 1 .. n |-> [id |-> <<cursor + 1, k>>, st |-> "pending"]]
  \o SubSeq(NewSteps, start + 1, Len(NewSteps))

\* The n items of a dynamic group take the place of its placeholder, and every
\* later step moves: the ledger and the held requests keep their indexes.
Splice(n) ==
  SubSeq(NewSteps, 1, start)
  \o [k \in 1 .. n |-> [id |-> <<cursor + 1, k>>, st |-> "pending"]]
  \o SubSeq(NewSteps, start + 2, Len(NewSteps))
Placeholder(st) == [NewSteps EXCEPT ![start + 1].st = st]

StartFan ==
  /\ AtLoopTop /\ ~spent /\ NextGroup.kind = "fan"
  /\ cursor' = cursor + 1
  /\ \/ \E n \in 1 .. MaxItems :
          /\ phase' = "group" /\ steps' = Splice(n)
          /\ task' = [k \in 1 .. n |-> Waiting]
          /\ UNCHANGED <<state, err, outcomes, trouble>>
     \/ /\ phase' = "group" /\ steps' = Placeholder("complete") /\ task' = <<>>
        /\ UNCHANGED <<state, err, outcomes, trouble>>
     \/ \* The items cannot be read, or the fan-out budget refuses them.
        /\ phase' = "share" /\ steps' = Placeholder("failed") /\ UNCHANGED task
        /\ Trouble
        /\ state' = "failed" /\ err' = TRUE /\ outcomes' = outcomes \cup {"fail"}
  /\ WriteStatus(state', steps')
  /\ UNCHANGED <<start, spent, flags, steering, control, steerFiles, inbox,
                 capFiles, acks, closed, result, children, callers>>

\* The next task of a parallel or dynamic group gets a worker.
Next1(k) ==
  /\ phase = "group" /\ k \in DOMAIN task /\ task[k].pc = "wait"
  /\ \A j \in 1 .. k - 1 : task[j].pc # "wait"
  /\ Cardinality({j \in DOMAIN task : task[j].pc \notin {"wait", "done"}}) < Concurrency

Aborted == FailFast /\ \E j \in DOMAIN task : task[j].res \in Failed

\* Why the k-th task does not start, in the order the code asks.
Refusal ==
  IF spent THEN "fail"
  ELSE IF "timedOut" \in flags THEN "timedOut"
  ELSE IF "stopped" \in flags THEN "stopped"
  ELSE IF "interrupted" \in flags THEN "paused"
  ELSE IF Aborted THEN "skipped"
  ELSE "none"

StartTask(k) ==
  /\ Next1(k) /\ Refusal = "none"
  /\ StartStep(k, task, steps)
  /\ UNCHANGED <<phase, plan, cursor, start, outcomes, spent, state, err, flags,
                 control, steerFiles, appendFiles, capFiles, acks, closed, result, parents>>

RefuseTask(k) ==
  /\ Next1(k) /\ Refusal # "none"
  /\ task' = [task EXCEPT ![k] = [@ EXCEPT !.pc = "done", !.res = Refusal]]
  /\ outcomes' = outcomes \cup {Refusal}
  /\ flags' = IF spent THEN flags \cup {"usage"} ELSE flags
  /\ steps' = IF Refusal \in {"fail", "skipped"}
              THEN [steps EXCEPT ![Child(k)].st = "failed"] ELSE steps
  /\ WriteStatus(state, steps')
  /\ UNCHANGED <<phase, plan, cursor, start, spent, state, err, steering, control,
                 steerFiles, appendFiles, inbox, capFiles, acks, closed, result,
                 children, parents>>

\* How a child's process may end: as it was told to, or by itself.
Told(i, f) == <<i, f>> \in told
Endings(i) ==
  IF Told(i, "stopped") THEN {"stopped"}
  ELSE IF Told(i, "timedOut") THEN {"timedOut"}
  ELSE IF Told(i, "turnBudget") THEN {"turns"}
  ELSE IF Told(i, "interrupted") THEN {"paused", "retry"}
  ELSE {"ok", "fail", "retry", "deadline"}

\* Mutant of MayRetry: one attempt more than allowed.
MayRetryAgain(k) == task[k].try <= MaxAttempts /\ Quiet(Ending)

MayRetry(k) == task[k].try < MaxAttempts /\ Quiet(Ending)

\* The process closes.  A startup failure or a failure of the model is tried
\* again, unless the run was stopped or timed out; a session that shuts down in
\* order reports the follow-ups it still holds as failed.
ChildEnds(k) ==
  LET i == Child(k)
      here == {i} \X Steers
  IN /\ phase = "group" /\ k \in DOMAIN task /\ task[k].pc = "child"
     /\ \E how \in Endings(i) :
          LET again == how = "retry" /\ MayRetry(k)
          IN /\ task' = [task EXCEPT ![k].pc = IF again THEN "retrying" ELSE "judging",
                                     ![k].res = IF how = "retry" THEN "fail" ELSE how]
             /\ Charge(how \in {"fail", "retry", "deadline"})
     /\ proc' = proc \ {i} /\ told' = told \ {i} \X Breaking /\ queue' = queue \ here
     /\ \/ acks' = acks \cup {[req |-> q[2], child |-> i, state |-> "failed"] :
                              q \in queue \cap here}
        \/ acks' = acks
     /\ UNCHANGED <<phase, plan, cursor, start, outcomes, spent, report, steering,
                    disk, control, steerFiles, appendFiles, inbox, capFiles, closed,
                    result, heard, callers>>

\* Mutant of Retry: whatever was asked during the delay, the next attempt starts.
RetryAnyway(k) ==
  /\ phase = "group" /\ k \in DOMAIN task /\ task[k].pc = "retrying"
  /\ task' = [task EXCEPT ![k].pc = "child", ![k].try = @ + 1]
  /\ Spawn(Child(k))
  /\ UNCHANGED <<phase, plan, cursor, start, outcomes, spent, report, steering,
                 files, parents>>

\* After the delay, or with the next model: another process, unless the run
\* was stopped or timed out meanwhile.  An interrupt does not end the wait.
Retry(k) ==
  /\ phase = "group" /\ k \in DOMAIN task /\ task[k].pc = "retrying"
  /\ IF Quiet(Ending)
     THEN /\ task' = [task EXCEPT ![k].pc = "child", ![k].try = @ + 1]
          /\ Spawn(Child(k))
     ELSE task' = [task EXCEPT ![k].pc = "judging"] /\ UNCHANGED children
  /\ UNCHANGED <<phase, plan, cursor, start, outcomes, spent, report, steering,
                 files, parents>>

\* What acceptance may make of a result.
Verdicts(res) ==
  IF "stopped" \in flags THEN {"stopped"}
  ELSE IF "timedOut" \in flags THEN {"timedOut"}
  ELSE IF res = "ok" THEN {"ok", "fail", "gate"}
  ELSE {res}

StatusOf(res) ==
  CASE res = "stopped" -> "stopped"
    [] res = "paused" -> "paused"
    [] res \in {"ok", "gate"} -> "complete"
    [] OTHER -> "failed"

\* The step is over: its acceptance is judged, its result recorded.
FinishTask(k) ==
  /\ phase = "group" /\ k \in DOMAIN task /\ task[k].pc = "judging"
  /\ \E res \in Verdicts(task[k].res) :
       /\ task' = [task EXCEPT ![k].pc = "done", ![k].res = res]
       /\ outcomes' = outcomes \cup {res}
       /\ steps' = [steps EXCEPT ![Child(k)].st = StatusOf(res)]
       /\ Charge(task[k].res = "ok" /\ res \in {"fail", "gate"})
  /\ WriteStatus(state, steps')
  /\ UNCHANGED <<phase, plan, cursor, start, spent, state, err, flags, steering, control,
                 steerFiles, appendFiles, inbox, capFiles, acks, closed, result,
                 children, callers>>

\* Every task of the group is done.  A failed child leaves the loop, and so
\* does a rejected acceptance gate, with an error but no failed result; a
\* dynamic group is judged as a whole first.
GroupResults == {task[k].res : k \in DOMAIN task}
GroupDone ==
  /\ phase = "group" /\ task # <<>> /\ \A k \in DOMAIN task : Done(k)
  /\ start' = start + Len(task)
  /\ LET fan == plan[cursor].kind = "fan"
         sound == GroupResults \cap (Failed \cup {"gate"}) = {}
     IN \/ /\ sound /\ (fan => Quiet(Ending) /\ ~err)
           /\ phase' = "top" /\ UNCHANGED <<err, outcomes, trouble>>
        \/ /\ ~sound \/ fan
           /\ phase' = "share" /\ Charge(sound /\ Quiet(Ending) /\ ~err)
           /\ err' = (err \/ "gate" \in GroupResults \/ sound)
           /\ outcomes' = IF fan /\ err' THEN outcomes \cup {"fail"} ELSE outcomes
  /\ UNCHANGED <<plan, cursor, task, spent, steps, state, flags, steering, files,
                 children, callers>>

\* A dynamic group without items is judged by itself.
EmptyFanDone ==
  /\ phase = "group" /\ task = <<>>
  /\ LET over == IF "stopped" \in flags THEN "stopped" ELSE "failed"
     IN \/ /\ Quiet(Ending)
           /\ phase' = "top" /\ start' = start + 1
           /\ UNCHANGED <<report, outcomes, trouble>>
        \/ /\ phase' = "share" /\ UNCHANGED start /\ Charge(Quiet(Ending))
           /\ state' = over /\ err' = TRUE /\ outcomes' = outcomes \cup {"fail"}
           /\ steps' = [steps EXCEPT ![start + 1].st = over]
           /\ UNCHANGED flags
  /\ WriteStatus(state', steps')
  /\ UNCHANGED <<plan, cursor, task, spent, steering, control, steerFiles,
                 appendFiles, inbox, capFiles, acks, closed, result, children, callers>>

-----------------------------------------------------------------------------
(* The control inbox, the run's deadline and its turn budget.              *)

\* The flag is set, the steps that are over are marked, every child is told.
Apply(flag, over, st) ==
  /\ flags' = flags \cup {flag}
  /\ steps' = [i \in DOMAIN steps |->
       IF steps[i].st \in over THEN [steps[i] EXCEPT !.st = st] ELSE steps[i]]
  /\ told' = told \cup proc \X {flag}
  /\ UNCHANGED <<proc, queue, heard>>

\* Mutant of MayEnd: a stop is only heeded while there is a child to be told.
MayEndWithChild ==
  state = "running" /\ Quiet(Ending \cup {"interrupted"}) /\ proc # {}

MayEnd == state = "running" /\ Quiet(Ending \cup {"interrupted"})
StopRunner ==
  Apply("stopped", {"running", "pending"}, "stopped") /\ err' = TRUE /\ UNCHANGED state
TimeoutRunner ==
  Apply("timedOut", {"running", "pending"}, "failed") /\ err' = TRUE /\ UNCHANGED state
InterruptRunner ==
  Apply("interrupted", {"running"}, "paused") /\ state' = "paused" /\ UNCHANGED err

Served == UNCHANGED <<loop, steering, steerFiles, appendFiles, inbox, capFiles,
                      acks, closed, result, callers>>

\* A control file is removed whether or not the run still heeds it.  One check
\* reads stop, timeout and interrupt in this order, but each may be written
\* between two of the reads.
ConsumeStop ==
  /\ Listening /\ "stop" \in control /\ control' = control \ {"stop"}
  /\ IF MayEnd THEN StopRunner /\ WriteStatus(state', steps')
     ELSE UNCHANGED <<report, children, disk>>
  /\ Served /\ UNCHANGED trouble

ConsumeTimeout ==
  /\ Listening /\ "timeout" \in control /\ control' = control \ {"timeout"}
  /\ IF MayEnd THEN TimeoutRunner /\ WriteStatus(state', steps')
     ELSE UNCHANGED <<report, children, disk>>
  /\ Served /\ UNCHANGED trouble

ConsumeInterrupt ==
  /\ Listening /\ "interrupt" \in control /\ control' = control \ {"interrupt"}
  /\ IF state = "running" THEN InterruptRunner /\ WriteStatus(state', steps')
     ELSE UNCHANGED <<report, children, disk>>
  /\ Served /\ UNCHANGED trouble

\* The timer of the run's own deadline.
DeadlinePasses ==
  /\ Listening /\ MayEnd /\ Trouble
  /\ TimeoutRunner /\ WriteStatus(state', steps')
  /\ UNCHANGED control /\ Served

\* A child passes the turn budget: the run will end, that child is killed.
TurnsExceeded(k) ==
  /\ phase = "group" /\ Trouble
  /\ k \in DOMAIN task /\ task[k].pc = "child" /\ Quiet(Ending \cup {"turnBudget"})
  /\ flags' = flags \cup {"turnBudget"} /\ err' = TRUE
  /\ told' = told \cup {<<Child(k), "turnBudget">>}
  /\ UNCHANGED <<steps, state, proc, queue, heard, disk, control>> /\ Served

\* The usage a child reports, or the cost of what it did, exhausts the budget.
Overspend(k) ==
  /\ phase = "group" /\ k \in DOMAIN task /\ task[k].pc \in {"child", "judging"}
  /\ ~spent /\ Trouble /\ spent' = TRUE
  /\ UNCHANGED <<phase, plan, cursor, start, task, outcomes, report, steering,
                 files, children, callers>>

\* A steering request is read: it is recorded, routed to the children that
\* run, and held if it names one that waits, or nobody while nobody runs.
ConsumeSteer(r) ==
  LET sel == steer[r].sel
      is == IF sel # {} THEN sel ELSE Running(steps)
      waits == steer[r].indexed /\ \E i \in sel \cap DOMAIN steps : steps[i].st = "pending"
  IN /\ Listening /\ r \in steerFiles /\ steerFiles' = steerFiles \ {r}
     /\ IF state = "running"
        THEN Deliver({r}, is, steps)
        ELSE /\ known' = known \cup {r}
             /\ ledger' = [ledger EXCEPT ![r] = Recorded(r,
                  [i \in (IF sel # {} THEN sel ELSE DOMAIN steps) |-> "failed"])]
             /\ UNCHANGED inbox
     /\ held' = IF waits \/ is = {} THEN held \cup {r} ELSE held
     /\ WriteStatus(state, steps)
     /\ UNCHANGED <<loop, report, deaf, control, appendFiles, capFiles, acks, closed,
                    result, children, parents>>

\* A child has said that its session cannot be steered.
ConsumeCapability(i) ==
  /\ Listening /\ i \in capFiles /\ i \notin deaf
  /\ deaf' = deaf \cup {i}
  /\ ledger' = [r \in Steers |-> [j \in DOMAIN ledger[r] |->
       IF j = i /\ ledger[r][j] \in {"routed", "scheduled"} THEN "failed" ELSE ledger[r][j]]]
  /\ WriteStatus(state, steps)
  /\ UNCHANGED <<loop, report, known, held, control, steerFiles, appendFiles, inbox,
                 capFiles, acks, closed, result, children, parents>>

\* An acknowledgment is read; "queued" sorts before what follows it.
ConsumeAck(a) ==
  /\ Listening /\ a \in acks /\ acks' = acks \ {a}
  /\ a.state = "queued" \/ [a EXCEPT !.state = "queued"] \notin acks
  /\ ledger' = IF a.child \in DOMAIN ledger[a.req]
               THEN [ledger EXCEPT ![a.req][a.child] = a.state] ELSE ledger
  /\ WriteStatus(state, steps)
  /\ UNCHANGED <<loop, report, known, held, deaf, control, steerFiles, appendFiles,
                 inbox, capFiles, closed, result, children, parents>>

-----------------------------------------------------------------------------
(* The end of the run.  The runner awaits nothing here, but the parents'   *)
(* file operations fall between its own.                                   *)

\* The final state, and the inbox closed for further steering.  A child killed
\* by a signal is one that failed: its result does not keep the signal.
Late == IF "deadline" \in outcomes /\ Quiet(Ending \cup {"interrupted"})
        THEN {"timedOut"} ELSE {}
FinalState(fs, failed) ==
  IF "stopped" \in fs THEN "stopped"
  ELSE IF fs \cap {"timedOut", "turnBudget", "usage"} # {} \/ failed THEN "failed"
  ELSE IF "interrupted" \in fs THEN "paused"
  ELSE IF outcomes \subseteq {"ok", "gate"} THEN "complete"
  ELSE "failed"

CloseInbox ==
  /\ phase = "share" /\ phase' = "closed"
  /\ flags' = flags \cup Late
  /\ state' = FinalState(flags', err)
  /\ closed' = TRUE
  /\ UNCHANGED <<plan, cursor, start, task, outcomes, spent, steps, err, steering,
                 disk, control, steerFiles, appendFiles, inbox, capFiles, acks, result,
                 children, parents>>

\* What is still in the inbox is recorded as failed, and so is every target
\* that has not got its message.
SweepSteers ==
  LET all == [r \in Steers |->
        IF r \in steerFiles
        THEN Recorded(r, [i \in (IF steer[r].sel # {} THEN steer[r].sel
                                 ELSE DOMAIN steps) |-> "failed"])
        ELSE ledger[r]]
  IN /\ phase = "closed" /\ phase' = "swept"
     /\ steerFiles' = {} /\ known' = known \cup steerFiles
     /\ ledger' = [r \in Steers |-> [i \in DOMAIN all[r] |->
          IF all[r][i] \in {"scheduled", "routed", "queued"} THEN "failed" ELSE all[r][i]]]
     /\ IF steerFiles # {} THEN WriteStatus(state, steps) ELSE UNCHANGED disk
     /\ UNCHANGED <<plan, cursor, start, task, outcomes, spent, report, held, deaf,
                    control, appendFiles, inbox, capFiles, acks, closed, result,
                    children, parents>>

\* The result file takes its state from the flags and the results alone; a
\* result that cannot be written fails the run.
PublishResult ==
  /\ phase = "swept" /\ phase' = "published"
  /\ \/ result' = FinalState(flags, FALSE) /\ UNCHANGED <<state, err, trouble>>
     \/ result' = result /\ state' = "failed" /\ err' = TRUE /\ Trouble
  /\ UNCHANGED <<plan, cursor, start, task, outcomes, spent, steps, flags, steering,
                 disk, control, steerFiles, appendFiles, inbox, capFiles, acks, closed,
                 children, callers>>

WriteLastStatus ==
  /\ phase = "published" /\ phase' = "exited"
  /\ WriteStatus(state, steps)
  /\ UNCHANGED <<plan, cursor, start, task, outcomes, spent, report, steering, control,
                 steerFiles, appendFiles, inbox, capFiles, acks, closed, result,
                 children, parents>>

-----------------------------------------------------------------------------
(* The Pi children.                                                        *)

\* A session without sendUserMessage says so.
PublishCapability(i) ==
  /\ i \in proc /\ steps[i].id \in Old /\ i \notin capFiles
  /\ capFiles' = capFiles \cup {i}
  /\ UNCHANGED <<loop, report, steering, disk, control, steerFiles, appendFiles,
                 inbox, acks, closed, result, children, parents>>

\* A child takes a request from its inbox: Pi accepts it, queues it as a
\* follow-up, or it fails; the acknowledgment says which.
TakeSteer(i, r) ==
  /\ i \in proc /\ <<i, r>> \in inbox
  /\ inbox' = inbox \ {<<i, r>>}
  /\ \E s \in IF steps[i].id \in Old THEN {"failed"} ELSE {"delivered", "queued", "failed"} :
       /\ acks' = acks \cup {[req |-> r, child |-> i, state |-> s]}
       /\ heard' = IF s = "delivered" THEN heard \cup {<<r, steps[i].id>>} ELSE heard
       /\ queue' = IF s = "queued" THEN queue \cup {<<i, r>>} ELSE queue
  /\ UNCHANGED <<loop, report, steering, disk, control, steerFiles, appendFiles,
                 capFiles, closed, result, proc, told, parents>>

\* A queued follow-up is delivered when a turn starts.
StartTurn(i, r) ==
  /\ i \in proc /\ <<i, r>> \in queue
  /\ queue' = queue \ {<<i, r>>}
  /\ acks' = acks \cup {[req |-> r, child |-> i, state |-> "delivered"]}
  /\ heard' = heard \cup {<<r, steps[i].id>>}
  /\ UNCHANGED <<loop, report, steering, disk, control, steerFiles, appendFiles,
                 inbox, capFiles, closed, result, proc, told, parents>>

-----------------------------------------------------------------------------
(* The parents.                                                            *)

\* stop, interrupt and the deadline of an ancestor write one file each.
SendControl(c) ==
  /\ c \notin asked /\ disk.state = "running" /\ Trouble
  /\ asked' = asked \cup {c} /\ control' = control \cup {c}
  /\ UNCHANGED <<loop, report, steering, disk, steerFiles, appendFiles, inbox,
                 capFiles, acks, closed, result, children, steer, append>>

Sender == UNCHANGED <<loop, report, steering, disk, control, appendFiles, inbox,
                      capFiles, acks, closed, result, children, asked, append>>

\* The parent reads the status and picks the children it means: one it names,
\* those that run, or, without a look at the status, whichever run when the
\* request is read.  "want" is the children meant, if no dynamic group that
\* is still to be expanded can move them.
Settled(ss, i) == \A j \in 1 .. i : ss[j].id[2] # 0 \/ ss[j].st # "pending"

ReadForSteer(r) ==
  /\ steer[r].pc = "idle" /\ Trouble /\ ~closed /\ disk.state = "running"
  /\ \/ \E i \in DOMAIN disk.steps :
          /\ disk.steps[i].st \in {"running", "pending"}
          /\ steer' = [steer EXCEPT ![r] =
               [pc |-> "checked", sel |-> {i}, indexed |-> TRUE,
                want |-> IF Settled(disk.steps, i) THEN {disk.steps[i].id} ELSE {}]]
     \/ LET is == Running(disk.steps)
        IN /\ is # {}
           /\ steer' = [steer EXCEPT ![r] =
                [pc |-> "checked", sel |-> is, indexed |-> FALSE,
                 want |-> {disk.steps[i].id : i \in is}]]
     \/ steer' = [steer EXCEPT ![r].pc = "checked"]
  /\ UNCHANGED steerFiles /\ Sender

WriteSteer(r) ==
  /\ steer[r].pc = "checked"
  /\ steer' = [steer EXCEPT ![r].pc = "written"]
  /\ steerFiles' = steerFiles \cup {r}
  /\ Sender /\ UNCHANGED trouble

\* Mutant of ConfirmSteer: the parent relies on its first look at the inbox.
ConfirmUnchecked(r) ==
  /\ steer[r].pc = "written" /\ steer' = [steer EXCEPT ![r].pc = "accepted"]
  /\ Sender /\ UNCHANGED <<steerFiles, trouble>>

\* The inbox is looked at again: a request that came too late is taken back.
ConfirmSteer(r) ==
  /\ steer[r].pc = "written"
  /\ steer' = [steer EXCEPT ![r].pc = IF closed THEN "refused" ELSE "accepted"]
  /\ steerFiles' = IF closed THEN steerFiles \ {r} ELSE steerFiles
  /\ Sender /\ UNCHANGED trouble

Appender == UNCHANGED <<loop, report, steering, control, steerFiles, inbox,
                        capFiles, acks, closed, result, children, asked, steer>>

\* append-step reads the status, files its request and writes the status it
\* had read back, with the number of requests that wait.
ReadForAppend(a) ==
  /\ append[a].pc = "idle" /\ Trouble /\ disk.state = "running"
  /\ \/ \E i \in DOMAIN disk.steps : disk.steps[i].st \in {"running", "pending"}
     \/ disk.pendingAppends
  /\ append' = [append EXCEPT ![a] = [pc |-> "read", read |-> disk]]
  /\ Appender /\ UNCHANGED <<disk, appendFiles>>

FileAppend(a) ==
  /\ append[a].pc = "read"
  /\ append' = [append EXCEPT ![a].pc = "filed"]
  /\ appendFiles' = appendFiles \cup {a}
  /\ Appender /\ UNCHANGED <<disk, trouble>>

WriteBackStatus(a) ==
  /\ append[a].pc = "filed"
  /\ append' = [append EXCEPT ![a] = [pc |-> "done", read |-> <<>>]]
  /\ disk' = [append[a].read EXCEPT !.pendingAppends = (appendFiles # {})]
  /\ Appender /\ UNCHANGED <<appendFiles, trouble>>

-----------------------------------------------------------------------------
TaskStep(k) == StartTask(k) \/ RefuseTask(k) \/ Retry(k) \/ FinishTask(k)
Tasks == DOMAIN task

RunnerStep ==
  \/ LeaveLoop \/ UsageExhausted \/ StartOne \/ StartMany \/ StartFan
  \/ \E k \in Tasks : TaskStep(k)
  \/ GroupDone \/ EmptyFanDone
  \/ CloseInbox \/ SweepSteers \/ PublishResult \/ WriteLastStatus

ServeInbox ==
  \/ ConsumeStop \/ ConsumeTimeout \/ ConsumeInterrupt
  \/ \E r \in Steers : ConsumeSteer(r)
  \/ \E i \in capFiles : ConsumeCapability(i)
  \/ \E a \in acks : ConsumeAck(a)

ChildStep ==
  \/ \E k \in Tasks : ChildEnds(k) \/ TurnsExceeded(k) \/ Overspend(k)
  \/ \E i \in proc : PublishCapability(i)
  \/ \E i \in proc, r \in Steers : TakeSteer(i, r) \/ StartTurn(i, r)

ParentStep ==
  \/ \E c \in {"stop", "timeout", "interrupt"} : SendControl(c)
  \/ \E r \in Steers : ReadForSteer(r) \/ WriteSteer(r) \/ ConfirmSteer(r)
  \/ \E a \in Appends : ReadForAppend(a) \/ FileAppend(a) \/ WriteBackStatus(a)

Next == RunnerStep \/ ServeInbox \/ DeadlinePasses \/ ChildStep \/ ParentStep

Spec == Init /\ [][Next]_vars

\* The runner goes on, its inbox is served (watched and polled), and a child
\* whose process tree was told to end ends: it is killed if it does not.  An
\* interrupted child is only asked to end, and nothing is assumed of it.
MaxSize == 3   \* tasks of a group in the instances that are checked for liveness
EndsAsTold(k) ==
  ChildEnds(k) /\ \E f \in Ending \cup {"turnBudget"} : Told(Child(k), f)
Fairness ==
  /\ WF_vars(RunnerStep) /\ WF_vars(ServeInbox)
  /\ \A k \in 1 .. MaxSize : WF_vars(EndsAsTold(k))
LiveSpec == Spec /\ Fairness

-----------------------------------------------------------------------------
(* Properties.                                                             *)

TargetStates == {"scheduled", "routed", "queued", "delivered", "failed"}
Statuses == {"pending", "running", "complete", "failed", "paused", "stopped"}
Results == {"none", "ok", "gate", "paused", "skipped"} \cup Failed

\* Every variable holds a value of its kind.
TypeOK ==
  /\ phase \in {"top", "group", "share", "closed", "swept", "published", "exited"}
  /\ cursor \in 0 .. Len(plan) /\ start \in 0 .. Len(steps)
  /\ \A i \in DOMAIN steps : steps[i].st \in Statuses
  /\ state \in {"running", "paused", "failed", "stopped", "complete"}
  /\ flags \subseteq Breaking \cup {"usage"} /\ err \in BOOLEAN /\ spent \in BOOLEAN
  /\ \A k \in DOMAIN task :
       /\ task[k].pc \in {"wait", "child", "retrying", "judging", "done"}
       /\ task[k].try \in 0 .. MaxAttempts /\ task[k].res \in Results
  /\ outcomes \subseteq Results /\ known \subseteq Steers /\ held \subseteq Steers
  /\ \A r \in Steers : \A i \in DOMAIN ledger[r] : ledger[r][i] \in TargetStates
  /\ deaf \subseteq capFiles /\ capFiles \subseteq DOMAIN steps
  /\ control \subseteq asked /\ asked \subseteq {"stop", "timeout", "interrupt"}
  /\ trouble \in 0 .. MaxTrouble
  /\ steerFiles \subseteq Steers /\ appendFiles \subseteq Appends
  /\ proc \subseteq DOMAIN steps /\ told \subseteq proc \X Breaking
  /\ inbox \subseteq (DOMAIN steps) \X Steers /\ queue \subseteq proc \X Steers
  /\ acks \subseteq [req : Steers, child : DOMAIN steps,
                    state : {"queued", "delivered", "failed"}]

\* A steering request the parent was told is committed is settled when the
\* run is over: the ledger has its record, and no target is left scheduled,
\* routed or queued.  The parent checks the inbox before and after it writes;
\* the runner closes it, then reads what is left, then sweeps the ledger.
AcceptedSteerIsSettled ==
  phase = "exited" =>
    \A r \in Steers : steer[r].pc = "accepted" =>
      /\ r \in known
      /\ \A i \in DOMAIN ledger[r] : ledger[r][i] \in {"delivered", "failed"}

\* Whatever ends or pauses the run reaches every child that runs, the one that
\* was started between two models or after the flag was set included.
EveryChildIsTold ==
  \A i \in proc, f \in flags \cap {"interrupted", "timedOut", "stopped"} : Told(i, f)

\* A run that says it is complete has run its whole chain: every group was
\* begun, every step of the list is complete, also those appended meanwhile
\* and those a dynamic group put in the place of its placeholder.
CompleteRunRanEverything ==
  phase = "exited" /\ state = "complete" =>
    cursor = Len(plan) /\ \A i \in DOMAIN steps : steps[i].st = "complete"

\* Once the run is stopped or timed out, no child process is started: not by
\* a retry, not by the next task of a group, not by the next group.
NoChildAfterStop ==
  [][~Quiet(Ending) => proc' \subseteq proc]_vars

\* A stop that was sent ends the run, unless the run was paused before it was
\* read: the runner, its children and its retries all come to an end.
StopEndsRun ==
  "stop" \in control ~> (phase = "exited" \/ "interrupted" \in flags)

\* A message reaches only children it was meant for when it was sent, although
\* it names them by their places in a list that appended steps and the items
\* of dynamic groups change.  A child behind a dynamic group that is still to
\* be expanded is excepted: its message goes to whoever takes its place.
SteerReachesItsChild ==
  \A r \in Steers : steer[r].want # {} =>
    \A h \in heard : h[1] = r => h[2] \in steer[r].want
=============================================================================
