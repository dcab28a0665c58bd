-------------------------- MODULE RunControl_proofs --------------------------
(***************************************************************************)
(* Proofs about a background run and its control inbox: that no child      *)
(* process is started once the run was stopped or timed out, that every    *)
(* child that runs was told of it, that a steering request a parent was    *)
(* told is committed is settled when the run is over and that one that was *)
(* delivered reached the child it names, that a run that is complete has   *)
(* run its whole chain, and that every variable holds a value of its kind. *)
(***************************************************************************)
EXTENDS RunControl, FiniteSetTheorems, SequenceTheorems, TLAPS

-----------------------------------------------------------------------------
(* Nothing is started once the run was stopped.                            *)

\* No step adds a process once the run was stopped or timed out.
LEMMA StepAfterStop == [Next]_vars => [~Quiet(Ending) => proc' \subseteq proc]_vars
<1>1. [Next]_vars => (~Quiet(Ending) => proc' \subseteq proc)
  <2> SUFFICES ASSUME [Next]_vars PROVE ~Quiet(Ending) => proc' \subseteq proc
    OBVIOUS
  <2> USE DEF loop, report, steering, files, children, callers, parents
  <2>1. ASSUME StartOne PROVE ~Quiet(Ending) => proc' \subseteq proc
    BY <2>1 DEF StartOne, StartStep, FlushSteers, Spawn, Deliver, AtLoopTop, Quiet,
       Ending, Breaking
  <2>2. ASSUME NEW k \in Tasks, StartTask(k) PROVE ~Quiet(Ending) => proc' \subseteq proc
    BY <2>2 DEF StartTask, StartStep, FlushSteers, Spawn, Deliver, Refusal, Quiet,
       Ending, Aborted
  <2>3. ASSUME NEW k \in Tasks, Retry(k) PROVE ~Quiet(Ending) => proc' \subseteq proc
    BY <2>3 DEF Retry, Spawn, Quiet, Ending
  <2>4. ASSUME NEW k \in Tasks, ChildEnds(k) PROVE ~Quiet(Ending) => proc' \subseteq proc
    BY <2>4 DEF ChildEnds
  <2>5. ASSUME \/ LeaveLoop \/ UsageExhausted \/ StartMany \/ StartFan
              \/ GroupDone \/ EmptyFanDone \/ CloseInbox \/ SweepSteers
              \/ PublishResult \/ WriteLastStatus \/ ConsumeStop
              \/ ConsumeTimeout \/ ConsumeInterrupt \/ DeadlinePasses
        PROVE  UNCHANGED proc
    BY <2>5 DEF LeaveLoop, UsageExhausted, StartMany, StartFan, GroupDone,
         EmptyFanDone, CloseInbox, SweepSteers, PublishResult, WriteLastStatus,
         ConsumeStop, ConsumeTimeout, ConsumeInterrupt, DeadlinePasses, AtLoopTop,
         StopRunner, Apply, Served, TimeoutRunner, InterruptRunner
  <2>6. ASSUME NEW k \in Tasks,
              \/ RefuseTask(k) \/ FinishTask(k) \/ TurnsExceeded(k)
              \/ Overspend(k)
        PROVE  UNCHANGED proc
    BY <2>6 DEF RefuseTask, FinishTask, TurnsExceeded, Overspend, Served
  <2>7. ASSUME NEW r \in Steers,
              \/ ConsumeSteer(r) \/ ReadForSteer(r) \/ WriteSteer(r)
              \/ ConfirmSteer(r)
        PROVE  UNCHANGED proc
    BY <2>7 DEF ConsumeSteer, ReadForSteer, WriteSteer, ConfirmSteer, Deliver, Sender
  <2>8. ASSUME NEW i \in capFiles,
              \/ ConsumeCapability(i)
        PROVE  UNCHANGED proc
    BY <2>8 DEF ConsumeCapability
  <2>9. ASSUME NEW a \in acks,
              \/ ConsumeAck(a)
        PROVE  UNCHANGED proc
    BY <2>9 DEF ConsumeAck
  <2>10. ASSUME NEW i \in proc,
              \/ PublishCapability(i)
        PROVE  UNCHANGED proc
    BY <2>10 DEF PublishCapability
  <2>11. ASSUME NEW i \in proc, NEW r \in Steers,
              \/ TakeSteer(i, r) \/ StartTurn(i, r)
        PROVE  UNCHANGED proc
    BY <2>11 DEF TakeSteer, StartTurn
  <2>12. ASSUME NEW c \in {"stop", "timeout", "interrupt"},
              \/ SendControl(c)
        PROVE  UNCHANGED proc
    BY <2>12 DEF SendControl
  <2>13. ASSUME NEW a \in Appends,
              \/ ReadForAppend(a) \/ FileAppend(a) \/ WriteBackStatus(a)
        PROVE  UNCHANGED proc
    BY <2>13 DEF ReadForAppend, FileAppend, WriteBackStatus, Appender
  <2>14. CASE UNCHANGED proc
    BY <2>14
  <2> QED
    BY <2>1, <2>2, <2>3, <2>4, <2>5, <2>6, <2>7, <2>8, <2>9, <2>10, <2>11, <2>12,
       <2>13, <2>14 DEF Next, RunnerStep, TaskStep, ServeInbox, ChildStep, ParentStep,
       vars
<1> QED
  BY <1>1

\* The top of the loop, the worker that takes the next task and the retry each
\* look at the flags before they start a process, and await nothing between the
\* two: no state after a stop or a timeout lets a child process start.
THEOREM NothingStartsAfterStop == Spec => NoChildAfterStop
  BY StepAfterStop, PTL DEF Spec, NoChildAfterStop

-----------------------------------------------------------------------------
(* The tasks of the current group.                                         *)

Group   == [kind : {"one", "many", "fan"}, size : Nat \ {0}]
TaskRec == [pc : {"wait", "child", "retrying", "judging", "done"}, try : Nat, res : Results]

\* The chain is a sequence of groups, the current group a sequence of tasks.
PlanOK == plan \in Seq(Group) /\ cursor \in Nat /\ IsFiniteSet(appendFiles)
TaskOK == start \in Nat /\ task \in Seq(TaskRec)

\* The group that the top of the loop begins is one of the chain's, or one
\* that was appended.
LEMMA NewPlanFacts ==
  ASSUME PlanOK
  PROVE  /\ NewPlan \in Seq(Group)
         /\ cursor < Len(NewPlan) => NextGroup \in Group
<1> USE DEF PlanOK
<1>1. Cardinality(appendFiles) \in Nat
  BY FS_CardinalityType
<1>2. One \in Group
  BY DEF One, Group
<1> DEFINE tail == [k \in 1 .. Cardinality(appendFiles) |-> One]
<1>3. tail \in Seq(Group)
  BY <1>1, <1>2
<1>4. NewPlan \in Seq(Group)
  BY <1>3 DEF NewPlan
<1> HIDE DEF tail
<1>5. ASSUME cursor < Len(NewPlan) PROVE NextGroup \in Group
  <2> DEFINE s == NewPlan
  <2>1. s \in Seq(Group) /\ cursor < Len(s)
    BY <1>4, <1>5
  <2> HIDE DEF s
  <2>2. s[cursor + 1] \in Group
    BY <2>1
  <2> QED
    BY <2>2 DEF NextGroup, s
<1> QED
  BY <1>4, <1>5

\* A task is replaced by another.
LEMMA TaskFacts ==
  ASSUME NEW ts \in Seq(TaskRec), NEW k \in DOMAIN ts, NEW new \in TaskRec
  PROVE  /\ [ts EXCEPT ![k] = new] \in Seq(TaskRec)
         /\ DOMAIN [ts EXCEPT ![k] = new] = DOMAIN ts
         /\ [ts EXCEPT ![k] = new][k] = new
         /\ \A j \in DOMAIN ts \ {k} : [ts EXCEPT ![k] = new][j] = ts[j]
<1> HIDE DEF TaskRec
<1> QED
  OBVIOUS

\* What a task becomes is a task.
LEMMA TaskRecFacts ==
  ASSUME NEW t \in TaskRec, NEW p \in {"wait", "child", "retrying", "judging", "done"},
         NEW n \in Nat
  PROVE  /\ [t EXCEPT !.pc = p, !.try = n] \in TaskRec
         /\ \A res \in Results : [t EXCEPT !.pc = p, !.res = res] \in TaskRec
         /\ [t EXCEPT !.pc = p] \in TaskRec
  BY DEF TaskRec

\* PlanOK holds in every initial state and is kept by every step.
LEMMA PlanOKInductive ==
  ASSUME PlanAssumption
  PROVE  /\ Init => PlanOK
         /\ PlanOK /\ [Next]_vars => PlanOK'
<1> USE PlanAssumption DEF PlanAssumption, PlanOK
<1>1. Init => PlanOK
  BY FS_EmptySet DEF Init, Group
<1>2. PlanOK /\ [Next]_vars => PlanOK'
  <2> SUFFICES ASSUME PlanOK, [Next]_vars PROVE PlanOK'
    OBVIOUS
  <2> USE DEF loop, report, steering, files, children, callers, parents
  <2>n. NewPlan \in Seq(Group)
    BY NewPlanFacts
  <2>e. IsFiniteSet({})
    BY FS_EmptySet
  <2>1. ASSUME UsageExhausted PROVE PlanOK'
    BY <2>1, <2>n, <2>e DEF UsageExhausted, AtLoopTop
  <2>2. ASSUME StartOne PROVE PlanOK'
    BY <2>2, <2>n, <2>e DEF StartOne, StartStep, FlushSteers, Spawn, Deliver,
       AtLoopTop
  <2>3. ASSUME StartMany PROVE PlanOK'
    BY <2>3, <2>n, <2>e DEF StartMany, AtLoopTop
  <2>4. ASSUME StartFan PROVE PlanOK'
    BY <2>4, <2>n, <2>e DEF StartFan, AtLoopTop
  <2>5. ASSUME NEW a \in Appends, FileAppend(a) PROVE PlanOK'
    BY <2>5, FS_AddElement DEF FileAppend, Appender
  <2>6. ASSUME \/ LeaveLoop \/ GroupDone \/ EmptyFanDone \/ CloseInbox
              \/ SweepSteers \/ PublishResult \/ WriteLastStatus \/ ConsumeStop
              \/ ConsumeTimeout \/ ConsumeInterrupt \/ DeadlinePasses
        PROVE  UNCHANGED <<plan, cursor, appendFiles>>
    BY <2>6 DEF LeaveLoop, GroupDone, EmptyFanDone, CloseInbox, SweepSteers,
         PublishResult, WriteLastStatus, ConsumeStop, ConsumeTimeout,
         ConsumeInterrupt, DeadlinePasses, StopRunner, Apply, Served, TimeoutRunner,
         InterruptRunner
  <2>7. ASSUME NEW k \in Tasks,
              \/ StartTask(k) \/ RefuseTask(k) \/ Retry(k) \/ FinishTask(k)
              \/ ChildEnds(k) \/ TurnsExceeded(k) \/ Overspend(k)
        PROVE  UNCHANGED <<plan, cursor, appendFiles>>
    BY <2>7 DEF StartTask, RefuseTask, Retry, FinishTask, ChildEnds, TurnsExceeded,
         Overspend, StartStep, FlushSteers, Spawn, Deliver, Served
  <2>8. ASSUME NEW r \in Steers,
              \/ ConsumeSteer(r) \/ ReadForSteer(r) \/ WriteSteer(r)
              \/ ConfirmSteer(r)
        PROVE  UNCHANGED <<plan, cursor, appendFiles>>
    BY <2>8 DEF ConsumeSteer, ReadForSteer, WriteSteer, ConfirmSteer, Deliver, Sender
  <2>9. ASSUME NEW i \in capFiles,
              \/ ConsumeCapability(i)
        PROVE  UNCHANGED <<plan, cursor, appendFiles>>
    BY <2>9 DEF ConsumeCapability
  <2>10. ASSUME NEW a \in acks,
              \/ ConsumeAck(a)
        PROVE  UNCHANGED <<plan, cursor, appendFiles>>
    BY <2>10 DEF ConsumeAck
  <2>11. ASSUME NEW i \in proc,
              \/ PublishCapability(i)
        PROVE  UNCHANGED <<plan, cursor, appendFiles>>
    BY <2>11 DEF PublishCapability
  <2>12. ASSUME NEW i \in proc, NEW r \in Steers,
              \/ TakeSteer(i, r) \/ StartTurn(i, r)
        PROVE  UNCHANGED <<plan, cursor, appendFiles>>
    BY <2>12 DEF TakeSteer, StartTurn
  <2>13. ASSUME NEW c \in {"stop", "timeout", "interrupt"},
              \/ SendControl(c)
        PROVE  UNCHANGED <<plan, cursor, appendFiles>>
    BY <2>13 DEF SendControl
  <2>14. ASSUME NEW a \in Appends,
              \/ ReadForAppend(a) \/ WriteBackStatus(a)
        PROVE  UNCHANGED <<plan, cursor, appendFiles>>
    BY <2>14 DEF ReadForAppend, WriteBackStatus, Appender
  <2>15. CASE UNCHANGED <<plan, cursor, appendFiles>>
    BY <2>15
  <2> QED
    BY <2>1, <2>2, <2>3, <2>4, <2>5, <2>6, <2>7, <2>8, <2>9, <2>10, <2>11, <2>12,
       <2>13, <2>14, <2>15 DEF Next, RunnerStep, TaskStep, ServeInbox, ChildStep,
       ParentStep, vars
<1> QED
  BY <1>1, <1>2

\* A task that waits is a task, and so is a list of them.
LEMMA WaitingFacts ==
  /\ Waiting \in TaskRec /\ Waiting.pc = "wait"
  /\ \A n \in Nat : [k \in 1 .. n |-> Waiting] \in Seq(TaskRec)
<1>1. Waiting \in TaskRec /\ Waiting.pc = "wait"
  BY DEF Waiting, TaskRec, Results
<1> QED
  BY <1>1

\* A child is started: its task is under way, and no other changes.
LEMMA StartFacts ==
  ASSUME NEW ts \in Seq(TaskRec), NEW k \in DOMAIN ts, NEW ss, StartStep(k, ts, ss)
  PROVE  /\ task' \in Seq(TaskRec) /\ DOMAIN task' = DOMAIN ts
         /\ task'[k].pc = "child" /\ proc' = proc \cup {Child(k)}
         /\ \A j \in DOMAIN ts \ {k} : task'[j] = ts[j]
<1> DEFINE new == [ts[k] EXCEPT !.pc = "child", !.try = 1]
<1>1. ts[k] \in TaskRec
  OBVIOUS
<1>2. new \in TaskRec
  <2> HIDE DEF TaskRec
  <2> QED
    BY <1>1, TaskRecFacts
<1>3. new.pc = "child"
  BY <1>1 DEF TaskRec
<1>4. task' = [ts EXCEPT ![k] = new]
  BY DEF StartStep
<1> HIDE DEF new
<1>5. proc' = proc \cup {Child(k)}
  BY DEF StartStep, Spawn
<1> QED
  BY <1>2, <1>3, <1>4, <1>5, TaskFacts

\* One task is refused, retried, judged or ends: no other task changes, and a
\* process is started or removed with the task it works on.
LEMMA TaskSteps ==
  ASSUME TaskOK, NEW k \in Tasks,
         StartTask(k) \/ RefuseTask(k) \/ Retry(k) \/ FinishTask(k) \/ ChildEnds(k)
  PROVE  /\ task' \in Seq(TaskRec) /\ Tasks' = Tasks /\ start' = start
         /\ phase = "group" /\ phase' = phase
         /\ \A j \in Tasks \ {k} : task'[j] = task[j]
         /\ \/ proc' = proc /\ task[k].pc # "child"
            \/ proc' = proc \cup {Child(k)} /\ task'[k].pc = "child"
            \/ proc' = proc \ {Child(k)}
<1> USE DEF TaskOK, Tasks, children
<1>r. task[k] \in TaskRec
  OBVIOUS
<1> DEFINE Becomes(new) == new \in TaskRec /\ task' = [task EXCEPT ![k] = new]
<1>t. ASSUME NEW new, Becomes(new)
      PROVE  /\ task' \in Seq(TaskRec) /\ DOMAIN task' = DOMAIN task
             /\ task'[k] = new /\ \A j \in Tasks \ {k} : task'[j] = task[j]
  <2> HIDE DEF TaskRec
  <2> QED
    BY <1>t, TaskFacts
<1>1. CASE StartTask(k)
  <2>1. StartStep(k, task, steps) /\ start' = start /\ phase = "group" /\ phase' = phase
    BY <1>1 DEF StartTask, Next1
  <2> QED
    BY <2>1, StartFacts
<1>2. CASE RefuseTask(k)
  <2> DEFINE new == [task[k] EXCEPT !.pc = "done", !.res = Refusal]
  <2>1. Refusal \in Results
    BY DEF Refusal, Results, Failed
  <2>2. new \in TaskRec
    BY <1>r, <2>1, TaskRecFacts
  <2>3. /\ task' = [task EXCEPT ![k] = new]
        /\ start' = start /\ phase = "group" /\ phase' = phase
        /\ proc' = proc /\ task[k].pc # "child"
    BY <1>2 DEF RefuseTask, Next1
  <2> HIDE DEF new
  <2> QED
    BY <1>t, <2>2, <2>3
<1>3. CASE Retry(k)
  <2>1. /\ start' = start /\ phase = "group" /\ phase' = phase
        /\ task[k].pc # "child"
    BY <1>3 DEF Retry
  <2>2. CASE Quiet(Ending)
    <3> DEFINE n == task[k].try + 1
               new == [task[k] EXCEPT !.pc = "child", !.try = n]
    <3>1. n \in Nat
      BY <1>r DEF TaskRec
    <3>2. new \in TaskRec /\ new.pc = "child"
      <4> HIDE DEF n
      <4>1. new \in TaskRec
        BY <1>r, <3>1, TaskRecFacts
      <4>2. new.pc = "child"
        BY <1>r DEF TaskRec
      <4> QED
        BY <4>1, <4>2
    <3>3. /\ task' = [task EXCEPT ![k] = new]
          /\ proc' = proc \cup {Child(k)}
      BY <1>3, <1>r, <2>2 DEF Retry, Spawn, TaskRec
    <3> HIDE DEF new
    <3> QED
      BY <1>t, <2>1, <3>2, <3>3
  <2>3. CASE ~Quiet(Ending)
    <3> DEFINE new == [task[k] EXCEPT !.pc = "judging"]
    <3>1. new \in TaskRec
      BY <1>r, TaskRecFacts
    <3>2. task' = [task EXCEPT ![k] = new] /\ proc' = proc
      BY <1>3, <2>3 DEF Retry
    <3> HIDE DEF new
    <3> QED
      BY <1>t, <2>1, <3>1, <3>2
  <2> QED
    BY <2>2, <2>3
<1>4. CASE FinishTask(k)
  <2>1. /\ start' = start /\ phase = "group" /\ phase' = phase
        /\ proc' = proc /\ task[k].pc # "child"
    BY <1>4 DEF FinishTask
  <2>2. PICK res \in Verdicts(task[k].res) :
          task' = [task EXCEPT ![k] = [task[k] EXCEPT !.pc = "done", !.res = res]]
    BY <1>4 DEF FinishTask
  <2> DEFINE new == [task[k] EXCEPT !.pc = "done", !.res = res]
  <2>3. task[k].res \in Results
    BY <1>r DEF TaskRec
  <2>4. res \in Results
    BY <2>3 DEF Verdicts, Results, Failed
  <2>5. new \in TaskRec
    BY <1>r, <2>4, TaskRecFacts
  <2> HIDE DEF new
  <2> QED
    BY <1>t, <2>1, <2>2, <2>5 DEF new
<1>5. CASE ChildEnds(k)
  <2>1. /\ start' = start /\ phase = "group" /\ phase' = phase
        /\ proc' = proc \ {Child(k)}
    BY <1>5 DEF ChildEnds
  <2>2. PICK p \in {"retrying", "judging"}, res \in Results :
          task' = [task EXCEPT ![k] = [task[k] EXCEPT !.pc = p, !.res = res]]
    BY <1>5, <1>r DEF ChildEnds, Endings, Results, Failed
  <2> DEFINE new == [task[k] EXCEPT !.pc = p, !.res = res]
  <2>3. new \in TaskRec
    BY <1>r, TaskRecFacts
  <2> HIDE DEF new
  <2> QED
    BY <1>t, <2>1, <2>2, <2>3 DEF new
<1> QED
  BY <1>1, <1>2, <1>3, <1>4, <1>5

\* TaskOK holds in every initial state and is kept by every step.
LEMMA TaskOKInductive ==
  ASSUME BoundsAssumption
  PROVE  /\ Init => TaskOK
         /\ PlanOK /\ TaskOK /\ [Next]_vars => TaskOK'
<1> USE BoundsAssumption DEF BoundsAssumption, TaskOK
<1>1. Init => TaskOK
  BY DEF Init
<1>2. PlanOK /\ TaskOK /\ [Next]_vars => TaskOK'
  <2> SUFFICES ASSUME PlanOK, TaskOK, [Next]_vars PROVE TaskOK'
    OBVIOUS
  <2> USE DEF loop, report, steering, files, children, callers, parents
  <2>1. ASSUME StartOne PROVE TaskOK'
    <3>1. <<Waiting>> \in Seq(TaskRec) /\ DOMAIN <<Waiting>> = {1}
      BY WaitingFacts
    <3>2. StartStep(1, <<Waiting>>, NewSteps) /\ start' = start
      BY <2>1 DEF StartOne
    <3> QED
      BY <3>1, <3>2, StartFacts
  <2>2. ASSUME StartMany PROVE TaskOK'
    <3>1. NextGroup.size \in Nat
      BY <2>2, NewPlanFacts DEF StartMany, AtLoopTop, Group
    <3>2. task' = [k \in 1 .. NextGroup.size |-> Waiting] \/ UNCHANGED task
      BY <2>2 DEF StartMany
    <3>3. start' = start
      BY <2>2 DEF StartMany
    <3> QED
      BY <3>1, <3>2, <3>3, WaitingFacts
  <2>3. ASSUME StartFan PROVE TaskOK'
    <3>1. \/ \E n \in 1 .. MaxItems : task' = [k \in 1 .. n |-> Waiting]
          \/ task' = <<>> \/ UNCHANGED task
      BY <2>3 DEF StartFan
    <3>2. start' = start
      BY <2>3 DEF StartFan
    <3>3. ASSUME NEW n \in 1 .. MaxItems PROVE [k \in 1 .. n |-> Waiting] \in Seq(TaskRec)
      BY WaitingFacts
    <3>4. <<>> \in Seq(TaskRec)
      OBVIOUS
    <3> QED
      BY <3>1, <3>2, <3>3, <3>4
  <2>4. ASSUME NEW k \in Tasks, StartTask(k) PROVE TaskOK'
    BY <2>4, TaskSteps
  <2>5. ASSUME NEW k \in Tasks, RefuseTask(k) PROVE TaskOK'
    BY <2>5, TaskSteps
  <2>6. ASSUME NEW k \in Tasks, Retry(k) PROVE TaskOK'
    BY <2>6, TaskSteps
  <2>7. ASSUME NEW k \in Tasks, FinishTask(k) PROVE TaskOK'
    BY <2>7, TaskSteps
  <2>8. ASSUME GroupDone PROVE TaskOK'
    BY <2>8 DEF GroupDone
  <2>9. ASSUME EmptyFanDone PROVE TaskOK'
    BY <2>9 DEF EmptyFanDone
  <2>10. ASSUME NEW k \in Tasks, ChildEnds(k) PROVE TaskOK'
    BY <2>10, TaskSteps
  <2>11. ASSUME \/ LeaveLoop \/ UsageExhausted \/ CloseInbox \/ SweepSteers
              \/ PublishResult \/ WriteLastStatus \/ ConsumeStop
              \/ ConsumeTimeout \/ ConsumeInterrupt \/ DeadlinePasses
        PROVE  UNCHANGED <<start, task>>
    BY <2>11 DEF LeaveLoop, UsageExhausted, CloseInbox, SweepSteers, PublishResult,
         WriteLastStatus, ConsumeStop, ConsumeTimeout, ConsumeInterrupt,
         DeadlinePasses, AtLoopTop, StopRunner, Apply, Served, TimeoutRunner,
         InterruptRunner
  <2>12. ASSUME NEW r \in Steers,
              \/ ConsumeSteer(r) \/ ReadForSteer(r) \/ WriteSteer(r)
              \/ ConfirmSteer(r)
        PROVE  UNCHANGED <<start, task>>
    BY <2>12 DEF ConsumeSteer, ReadForSteer, WriteSteer, ConfirmSteer, Deliver, Sender
  <2>13. ASSUME NEW i \in capFiles,
              \/ ConsumeCapability(i)
        PROVE  UNCHANGED <<start, task>>
    BY <2>13 DEF ConsumeCapability
  <2>14. ASSUME NEW a \in acks,
              \/ ConsumeAck(a)
        PROVE  UNCHANGED <<start, task>>
    BY <2>14 DEF ConsumeAck
  <2>15. ASSUME NEW k \in Tasks,
              \/ TurnsExceeded(k) \/ Overspend(k)
        PROVE  UNCHANGED <<start, task>>
    BY <2>15 DEF TurnsExceeded, Overspend, Served
  <2>16. ASSUME NEW i \in proc,
              \/ PublishCapability(i)
        PROVE  UNCHANGED <<start, task>>
    BY <2>16 DEF PublishCapability
  <2>17. ASSUME NEW i \in proc, NEW r \in Steers,
              \/ TakeSteer(i, r) \/ StartTurn(i, r)
        PROVE  UNCHANGED <<start, task>>
    BY <2>17 DEF TakeSteer, StartTurn
  <2>18. ASSUME NEW c \in {"stop", "timeout", "interrupt"},
              \/ SendControl(c)
        PROVE  UNCHANGED <<start, task>>
    BY <2>18 DEF SendControl
  <2>19. ASSUME NEW a \in Appends,
              \/ ReadForAppend(a) \/ FileAppend(a) \/ WriteBackStatus(a)
        PROVE  UNCHANGED <<start, task>>
    BY <2>19 DEF ReadForAppend, FileAppend, WriteBackStatus, Appender
  <2>20. CASE UNCHANGED <<start, task>>
    BY <2>20
  <2> QED
    BY <2>1, <2>2, <2>3, <2>4, <2>5, <2>6, <2>7, <2>8, <2>9, <2>10, <2>11, <2>12,
       <2>13, <2>14, <2>15, <2>16, <2>17, <2>18, <2>19, <2>20 DEF Next, RunnerStep,
       TaskStep, ServeInbox, ChildStep, ParentStep, vars
<1> QED
  BY <1>1, <1>2

-----------------------------------------------------------------------------
(* The children that run, and what they were told.                         *)

\* A child process works on a task of the group that is under way.
ProcInv ==
  \A i \in proc : phase = "group" /\ \E k \in Tasks : i = Child(k) /\ task[k].pc = "child"

\* A task that starts, is tried again or ends takes its process with it.
LEMMA ProcSteps ==
  ASSUME TaskOK, ProcInv, NEW k \in Tasks,
         StartTask(k) \/ RefuseTask(k) \/ Retry(k) \/ FinishTask(k) \/ ChildEnds(k)
  PROVE  ProcInv'
<1>1. /\ Tasks' = Tasks /\ start' = start /\ phase' = "group"
      /\ \A j \in Tasks \ {k} : task'[j] = task[j]
      /\ \/ proc' = proc /\ task[k].pc # "child"
         \/ proc' = proc \cup {Child(k)} /\ task'[k].pc = "child"
         \/ proc' = proc \ {Child(k)}
  BY TaskSteps
<1> SUFFICES ASSUME NEW i \in proc'
             PROVE  \E j \in Tasks : i = start + j /\ task'[j].pc = "child"
  BY <1>1 DEF ProcInv, Child
<1>2. CASE i = Child(k) /\ task'[k].pc = "child"
  BY <1>2 DEF Child
<1>3. CASE i \in proc /\ (i # Child(k) \/ task[k].pc # "child")
  <2>1. PICK j \in Tasks : i = Child(j) /\ task[j].pc = "child"
    BY <1>3 DEF ProcInv
  <2>2. j # k
    BY <1>3, <2>1
  <2> QED
    BY <1>1, <2>1, <2>2 DEF Child
<1> QED
  BY <1>1, <1>2, <1>3

\* ProcInv holds in every initial state and is kept by every step.
LEMMA ProcInvInductive ==
  /\ Init => ProcInv
  /\ TaskOK /\ ProcInv /\ [Next]_vars => ProcInv'
<1> USE DEF ProcInv
<1>1. Init => ProcInv
  BY DEF Init
<1>2. TaskOK /\ ProcInv /\ [Next]_vars => ProcInv'
  <2> SUFFICES ASSUME TaskOK, ProcInv, [Next]_vars PROVE ProcInv'
    OBVIOUS
  <2> USE DEF loop, report, steering, files, children, callers, parents
  <2>e. phase # "group" => proc = {}
    OBVIOUS
  <2>1. ASSUME LeaveLoop PROVE ProcInv'
    BY <2>1, <2>e DEF LeaveLoop
  <2>2. ASSUME UsageExhausted PROVE ProcInv'
    BY <2>2, <2>e DEF UsageExhausted, AtLoopTop
  <2>3. ASSUME StartOne PROVE ProcInv'
    <3>1. StartStep(1, <<Waiting>>, NewSteps) /\ start' = start /\ phase' = "group"
          /\ phase = "top"
      BY <2>3 DEF StartOne, AtLoopTop
    <3>2. <<Waiting>> \in Seq(TaskRec) /\ DOMAIN <<Waiting>> = {1}
      BY WaitingFacts
    <3>3. Tasks' = {1} /\ task'[1].pc = "child" /\ proc' = {Child(1)}
      <4> DEFINE ts == <<Waiting>>
      <4>1. ts \in Seq(TaskRec) /\ DOMAIN ts = {1} /\ StartStep(1, ts, NewSteps)
        BY <3>1, <3>2
      <4> HIDE DEF ts
      <4>2. 1 \in DOMAIN ts
        BY <4>1
      <4>3. DOMAIN task' = DOMAIN ts /\ task'[1].pc = "child" /\ proc' = proc \cup {Child(1)}
        BY <4>1, <4>2, StartFacts
      <4> QED
        BY <2>e, <3>1, <4>1, <4>3 DEF Tasks
    <3>4. Child(1)' = Child(1)
      BY <3>1 DEF Child
    <3> QED
      BY <3>1, <3>3, <3>4
  <2>4. ASSUME StartMany PROVE ProcInv'
    BY <2>4, <2>e DEF StartMany, AtLoopTop
  <2>5. ASSUME StartFan PROVE ProcInv'
    BY <2>5, <2>e DEF StartFan, AtLoopTop
  <2>6. ASSUME NEW k \in Tasks, StartTask(k) PROVE ProcInv'
    BY <2>6, ProcSteps
  <2>7. ASSUME NEW k \in Tasks, RefuseTask(k) PROVE ProcInv'
    BY <2>7, ProcSteps
  <2>8. ASSUME NEW k \in Tasks, Retry(k) PROVE ProcInv'
    BY <2>8, ProcSteps
  <2>9. ASSUME NEW k \in Tasks, FinishTask(k) PROVE ProcInv'
    BY <2>9, ProcSteps
  <2>10. ASSUME GroupDone PROVE ProcInv'
    <3>1. proc = {} /\ proc' = proc
      BY <2>10 DEF GroupDone, Done, Tasks
    <3> QED
      BY <3>1
  <2>11. ASSUME EmptyFanDone PROVE ProcInv'
    <3>1. Tasks = {} /\ proc' = proc
      BY <2>11 DEF EmptyFanDone, Tasks
    <3> QED
      BY <3>1
  <2>12. ASSUME CloseInbox PROVE ProcInv'
    BY <2>12, <2>e DEF CloseInbox
  <2>13. ASSUME SweepSteers PROVE ProcInv'
    BY <2>13, <2>e DEF SweepSteers
  <2>14. ASSUME PublishResult PROVE ProcInv'
    BY <2>14, <2>e DEF PublishResult
  <2>15. ASSUME WriteLastStatus PROVE ProcInv'
    BY <2>15, <2>e DEF WriteLastStatus
  <2>16. ASSUME NEW k \in Tasks, ChildEnds(k) PROVE ProcInv'
    BY <2>16, ProcSteps
  <2>17. ASSUME \/ ConsumeStop \/ ConsumeTimeout \/ ConsumeInterrupt
              \/ DeadlinePasses
        PROVE  UNCHANGED <<proc, phase, start, task>>
    BY <2>17 DEF ConsumeStop, ConsumeTimeout, ConsumeInterrupt, DeadlinePasses,
         StopRunner, Apply, Served, TimeoutRunner, InterruptRunner
  <2>18. ASSUME NEW r \in Steers,
              \/ ConsumeSteer(r) \/ ReadForSteer(r) \/ WriteSteer(r)
              \/ ConfirmSteer(r)
        PROVE  UNCHANGED <<proc, phase, start, task>>
    BY <2>18 DEF ConsumeSteer, ReadForSteer, WriteSteer, ConfirmSteer, Deliver, Sender
  <2>19. ASSUME NEW i \in capFiles,
              \/ ConsumeCapability(i)
        PROVE  UNCHANGED <<proc, phase, start, task>>
    BY <2>19 DEF ConsumeCapability
  <2>20. ASSUME NEW a \in acks,
              \/ ConsumeAck(a)
        PROVE  UNCHANGED <<proc, phase, start, task>>
    BY <2>20 DEF ConsumeAck
  <2>21. ASSUME NEW k \in Tasks,
              \/ TurnsExceeded(k) \/ Overspend(k)
        PROVE  UNCHANGED <<proc, phase, start, task>>
    BY <2>21 DEF TurnsExceeded, Overspend, Served
  <2>22. ASSUME NEW i \in proc,
              \/ PublishCapability(i)
        PROVE  UNCHANGED <<proc, phase, start, task>>
    BY <2>22 DEF PublishCapability
  <2>23. ASSUME NEW i \in proc, NEW r \in Steers,
              \/ TakeSteer(i, r) \/ StartTurn(i, r)
        PROVE  UNCHANGED <<proc, phase, start, task>>
    BY <2>23 DEF TakeSteer, StartTurn
  <2>24. ASSUME NEW c \in {"stop", "timeout", "interrupt"},
              \/ SendControl(c)
        PROVE  UNCHANGED <<proc, phase, start, task>>
    BY <2>24 DEF SendControl
  <2>25. ASSUME NEW a \in Appends,
              \/ ReadForAppend(a) \/ FileAppend(a) \/ WriteBackStatus(a)
        PROVE  UNCHANGED <<proc, phase, start, task>>
    BY <2>25 DEF ReadForAppend, FileAppend, WriteBackStatus, Appender
  <2>26. CASE UNCHANGED <<proc, phase, start, task>>
    BY <2>26 DEF Tasks, Child
  <2> QED
    BY <2>1, <2>2, <2>3, <2>4, <2>5, <2>6, <2>7, <2>8, <2>9, <2>10, <2>11, <2>12,
       <2>13, <2>14, <2>15, <2>16, <2>17, <2>18, <2>19, <2>20, <2>21, <2>22, <2>23,
       <2>24, <2>25, <2>26 DEF Next, RunnerStep, TaskStep, ServeInbox, ChildStep,
       ParentStep, vars
<1> QED
  BY <1>1, <1>2

\* EveryChildIsTold holds in every initial state and is kept by every step.
LEMMA EveryChildIsToldInductive ==
  /\ Init => EveryChildIsTold
  /\ ProcInv /\ EveryChildIsTold /\ [Next]_vars => EveryChildIsTold'
<1> USE DEF EveryChildIsTold, Told
<1>1. Init => EveryChildIsTold
  BY DEF Init
<1>2. ProcInv /\ EveryChildIsTold /\ [Next]_vars => EveryChildIsTold'
  <2> SUFFICES ASSUME ProcInv, EveryChildIsTold, [Next]_vars PROVE EveryChildIsTold'
    OBVIOUS
  <2> USE DEF loop, report, steering, files, children, callers, parents
  <2>1. ASSUME UsageExhausted PROVE EveryChildIsTold'
    BY <2>1 DEF UsageExhausted, AtLoopTop
  <2>2. ASSUME StartOne PROVE EveryChildIsTold'
    BY <2>2 DEF StartOne, StartStep, FlushSteers, Spawn, Deliver, AtLoopTop
  <2>3. ASSUME NEW k \in Tasks, StartTask(k) PROVE EveryChildIsTold'
    BY <2>3 DEF StartTask, StartStep, FlushSteers, Spawn, Deliver
  <2>4. ASSUME NEW k \in Tasks, RefuseTask(k) PROVE EveryChildIsTold'
    BY <2>4 DEF RefuseTask
  <2>5. ASSUME NEW k \in Tasks, Retry(k) PROVE EveryChildIsTold'
    BY <2>5 DEF Retry, Spawn
  <2>6. ASSUME CloseInbox PROVE EveryChildIsTold'
    <3>1. proc = {} /\ proc' = proc
      BY <2>6 DEF CloseInbox, ProcInv
    <3> QED
      BY <3>1
  <2>7. ASSUME ConsumeStop PROVE EveryChildIsTold'
    <3>1. \/ /\ flags' = flags \cup {"stopped"} /\ proc' = proc
             /\ told' = told \cup proc \X {"stopped"}
          \/ UNCHANGED <<flags, proc, told>>
      BY <2>7 DEF ConsumeStop, StopRunner, Apply
    <3> QED
      BY <3>1
  <2>8. ASSUME ConsumeTimeout PROVE EveryChildIsTold'
    <3>1. \/ /\ flags' = flags \cup {"timedOut"} /\ proc' = proc
             /\ told' = told \cup proc \X {"timedOut"}
          \/ UNCHANGED <<flags, proc, told>>
      BY <2>8 DEF ConsumeTimeout, TimeoutRunner, Apply
    <3> QED
      BY <3>1
  <2>9. ASSUME ConsumeInterrupt PROVE EveryChildIsTold'
    <3>1. \/ /\ flags' = flags \cup {"interrupted"} /\ proc' = proc
             /\ told' = told \cup proc \X {"interrupted"}
          \/ UNCHANGED <<flags, proc, told>>
      BY <2>9 DEF ConsumeInterrupt, InterruptRunner, Apply
    <3> QED
      BY <3>1
  <2>10. ASSUME DeadlinePasses PROVE EveryChildIsTold'
    <3>1. \/ /\ flags' = flags \cup {"timedOut"} /\ proc' = proc
             /\ told' = told \cup proc \X {"timedOut"}
          \/ UNCHANGED <<flags, proc, told>>
      BY <2>10 DEF DeadlinePasses, TimeoutRunner, Apply
    <3> QED
      BY <3>1
  <2>11. ASSUME NEW k \in Tasks, ChildEnds(k) PROVE EveryChildIsTold'
    BY <2>11 DEF ChildEnds
  <2>12. ASSUME NEW k \in Tasks, TurnsExceeded(k) PROVE EveryChildIsTold'
    BY <2>12 DEF TurnsExceeded, Served
  <2>13. ASSUME \/ LeaveLoop \/ StartMany \/ StartFan \/ GroupDone
              \/ EmptyFanDone \/ SweepSteers \/ PublishResult
              \/ WriteLastStatus
        PROVE  UNCHANGED <<proc, told, flags>>
    BY <2>13 DEF LeaveLoop, StartMany, StartFan, GroupDone, EmptyFanDone, SweepSteers,
         PublishResult, WriteLastStatus, AtLoopTop
  <2>14. ASSUME NEW k \in Tasks,
              \/ FinishTask(k) \/ Overspend(k)
        PROVE  UNCHANGED <<proc, told, flags>>
    BY <2>14 DEF FinishTask, Overspend
  <2>15. ASSUME NEW r \in Steers,
              \/ ConsumeSteer(r) \/ ReadForSteer(r) \/ WriteSteer(r)
              \/ ConfirmSteer(r)
        PROVE  UNCHANGED <<proc, told, flags>>
    BY <2>15 DEF ConsumeSteer, ReadForSteer, WriteSteer, ConfirmSteer, Deliver, Sender
  <2>16. ASSUME NEW i \in capFiles,
              \/ ConsumeCapability(i)
        PROVE  UNCHANGED <<proc, told, flags>>
    BY <2>16 DEF ConsumeCapability
  <2>17. ASSUME NEW a \in acks,
              \/ ConsumeAck(a)
        PROVE  UNCHANGED <<proc, told, flags>>
    BY <2>17 DEF ConsumeAck
  <2>18. ASSUME NEW i \in proc,
              \/ PublishCapability(i)
        PROVE  UNCHANGED <<proc, told, flags>>
    BY <2>18 DEF PublishCapability
  <2>19. ASSUME NEW i \in proc, NEW r \in Steers,
              \/ TakeSteer(i, r) \/ StartTurn(i, r)
        PROVE  UNCHANGED <<proc, told, flags>>
    BY <2>19 DEF TakeSteer, StartTurn
  <2>20. ASSUME NEW c \in {"stop", "timeout", "interrupt"},
              \/ SendControl(c)
        PROVE  UNCHANGED <<proc, told, flags>>
    BY <2>20 DEF SendControl
  <2>21. ASSUME NEW a \in Appends,
              \/ ReadForAppend(a) \/ FileAppend(a) \/ WriteBackStatus(a)
        PROVE  UNCHANGED <<proc, told, flags>>
    BY <2>21 DEF ReadForAppend, FileAppend, WriteBackStatus, Appender
  <2>22. CASE UNCHANGED <<proc, told, flags>>
    BY <2>22
  <2> QED
    BY <2>1, <2>2, <2>3, <2>4, <2>5, <2>6, <2>7, <2>8, <2>9, <2>10, <2>11, <2>12,
       <2>13, <2>14, <2>15, <2>16, <2>17, <2>18, <2>19, <2>20, <2>21, <2>22 DEF Next,
       RunnerStep, TaskStep, ServeInbox, ChildStep, ParentStep, vars
<1> QED
  BY <1>1, <1>2

\* The plan, the tasks and the processes, in every state that can be reached.
LEMMA LoopInvariant ==
  ASSUME PlanAssumption, BoundsAssumption
  PROVE  Spec => [](PlanOK /\ TaskOK /\ ProcInv)
<1>1. Init => PlanOK /\ TaskOK /\ ProcInv
  BY PlanOKInductive, TaskOKInductive, ProcInvInductive
<1>2. (PlanOK /\ TaskOK /\ ProcInv) /\ [Next]_vars => (PlanOK /\ TaskOK /\ ProcInv)'
  BY PlanOKInductive, TaskOKInductive, ProcInvInductive
<1> QED
  BY <1>1, <1>2, PTL DEF Spec

\* Every child that runs was told of every stop, timeout and interrupt of its
\* run: those that came while it ran and those that came before it was started.
\* The group ends only with all its tasks, so a child is never left behind by
\* the end of the run, which may set the timeout flag itself.
THEOREM RunningChildrenAreTold ==
  ASSUME PlanAssumption, BoundsAssumption
  PROVE  Spec => []EveryChildIsTold
<1>1. Init => EveryChildIsTold
  BY EveryChildIsToldInductive
<1>2. ProcInv /\ EveryChildIsTold /\ [Next]_vars => EveryChildIsTold'
  BY EveryChildIsToldInductive
<1> QED
  BY <1>1, <1>2, LoopInvariant, PTL DEF Spec

-----------------------------------------------------------------------------
(* The steering requests and the ledger.                                   *)

Ended == {"closed", "swept", "published", "exited"}

\* The inbox is closed when the run is at its end.
ClosedInv == closed <=> phase \in Ended

\* What the parents keep of a request.
SteerOK ==
  /\ DOMAIN steer = Steers
  /\ \A r \in Steers :
       steer[r] = [pc |-> steer[r].pc, sel |-> steer[r].sel,
                   indexed |-> steer[r].indexed, want |-> steer[r].want]

\* A request that was written is in the inbox until it is in the ledger.
FiledInv ==
  \A r \in Steers : steer[r].pc \in {"written", "accepted"} => r \in steerFiles \cup known

\* The ledger and the acknowledgments hold nothing but states of a target.
LedgerOK ==
  /\ DOMAIN ledger = Steers
  /\ \A r \in Steers : \A i \in DOMAIN ledger[r] : ledger[r][i] \in TargetStates
  /\ \A a \in acks : a.state \in {"queued", "delivered", "failed"}

\* After the sweep the ledger has every request the parent was told is
\* committed, and no request has a target that may still change.
SweptInv ==
  phase \in Ended \ {"closed"} =>
    \A r \in Steers :
      /\ steer[r].pc = "accepted" => r \in known
      /\ \A i \in DOMAIN ledger[r] : ledger[r][i] \in {"delivered", "failed"}

\* A record made or updated holds states of a target.
LEMMA RecordedFacts ==
  ASSUME LedgerOK, NEW r \in Steers, NEW f, \A i \in DOMAIN f : f[i] \in TargetStates
  PROVE  \A i \in DOMAIN Recorded(r, f) : Recorded(r, f)[i] \in TargetStates
<1>1. CASE r \in known
  BY <1>1 DEF Recorded, LedgerOK
<1>2. CASE r \notin known
  BY <1>2 DEF Recorded
<1> QED
  BY <1>1, <1>2

\* A delivery changes the records of the requests it is about.
LEMMA DeliverFacts ==
  ASSUME LedgerOK, NEW rs, NEW is, NEW ss, Deliver(rs, is, ss)
  PROVE  /\ DOMAIN ledger' = Steers
         /\ \A r \in Steers : \A i \in DOMAIN ledger'[r] : ledger'[r][i] \in TargetStates
         /\ known' = known \cup rs
<1> DEFINE f == [i \in is |-> TargetState(ss, i)]
<1>1. \A i \in DOMAIN f : f[i] \in TargetStates
  BY DEF TargetState, TargetStates
<1>2. /\ known' = known \cup rs
      /\ ledger' = [r \in Steers |-> IF r \in rs THEN Recorded(r, f) ELSE ledger[r]]
  BY DEF Deliver
<1> HIDE DEF f
<1>3. ASSUME NEW r \in Steers, NEW i \in DOMAIN ledger'[r] PROVE ledger'[r][i] \in TargetStates
  <2>1. CASE r \in rs
    <3>1. ledger'[r] = Recorded(r, f)
      BY <1>2, <2>1
    <3> QED
      BY <1>1, <1>3, <3>1, RecordedFacts
  <2>2. CASE r \notin rs
    <3>1. ledger'[r] = ledger[r]
      BY <1>2, <2>2
    <3> QED
      BY <1>3, <3>1 DEF LedgerOK
  <2> QED
    BY <2>1, <2>2
<1> QED
  BY <1>2, <1>3

\* The sweep leaves no target that may still change, and a record of each
\* request that was in the inbox.
LEMMA SweepFacts ==
  ASSUME LedgerOK, SweepSteers
  PROVE  /\ DOMAIN ledger' = Steers /\ acks' = acks
         /\ known' = known \cup steerFiles
         /\ \A r \in Steers : \A i \in DOMAIN ledger'[r] : ledger'[r][i] \in {"delivered", "failed"}
<1> DEFINE f(r) == [i \in (IF steer[r].sel # {} THEN steer[r].sel ELSE DOMAIN steps) |-> "failed"]
           all == [r \in Steers |-> IF r \in steerFiles THEN Recorded(r, f(r)) ELSE ledger[r]]
<1>1. /\ known' = known \cup steerFiles /\ acks' = acks
      /\ ledger' = [r \in Steers |-> [i \in DOMAIN all[r] |->
           IF all[r][i] \in {"scheduled", "routed", "queued"} THEN "failed" ELSE all[r][i]]]
  BY DEF SweepSteers
<1>2. ASSUME NEW r \in Steers, NEW i \in DOMAIN all[r] PROVE all[r][i] \in TargetStates
  <2>1. CASE r \in steerFiles
    <3>1. all[r] = Recorded(r, f(r))
      BY <2>1
    <3>2. \A j \in DOMAIN f(r) : f(r)[j] \in TargetStates
      BY DEF TargetStates
    <3> HIDE DEF all, f
    <3> QED
      BY <1>2, <3>1, <3>2, RecordedFacts
  <2>2. CASE r \notin steerFiles
    <3>1. all[r] = ledger[r]
      BY <2>2
    <3> HIDE DEF all
    <3> QED
      BY <1>2, <3>1 DEF LedgerOK
  <2> QED
    BY <2>1, <2>2
<1> HIDE DEF all
<1> QED
  BY <1>1, <1>2 DEF TargetStates

\* ClosedInv holds in every initial state and is kept by every step.
LEMMA ClosedInvInductive ==
  /\ Init => ClosedInv
  /\ ClosedInv /\ [Next]_vars => ClosedInv'
<1> USE DEF ClosedInv, Ended
<1>1. Init => ClosedInv
  <2>1. Init => phase = "top" /\ closed = FALSE
    BY DEF Init
  <2>2. phase = "top" => ~(phase \in Ended)
    OBVIOUS
  <2> HIDE DEF Ended
  <2> QED
    BY <2>1, <2>2, Zenon
<1>2. ClosedInv /\ [Next]_vars => ClosedInv'
  <2> SUFFICES ASSUME ClosedInv, [Next]_vars PROVE ClosedInv'
    OBVIOUS
  <2> USE DEF loop, report, steering, files, children, callers, parents
  <2>1. ASSUME LeaveLoop PROVE ClosedInv'
    BY <2>1 DEF LeaveLoop
  <2>2. ASSUME UsageExhausted PROVE ClosedInv'
    BY <2>2 DEF UsageExhausted, AtLoopTop
  <2>3. ASSUME StartOne PROVE ClosedInv'
    BY <2>3 DEF StartOne, AtLoopTop
  <2>4. ASSUME StartMany PROVE ClosedInv'
    BY <2>4 DEF StartMany, AtLoopTop
  <2>5. ASSUME StartFan PROVE ClosedInv'
    BY <2>5 DEF StartFan, AtLoopTop
  <2>6. ASSUME GroupDone PROVE ClosedInv'
    BY <2>6 DEF GroupDone
  <2>7. ASSUME EmptyFanDone PROVE ClosedInv'
    BY <2>7 DEF EmptyFanDone
  <2>8. ASSUME CloseInbox PROVE ClosedInv'
    BY <2>8 DEF CloseInbox
  <2>9. ASSUME SweepSteers PROVE ClosedInv'
    BY <2>9 DEF SweepSteers
  <2>10. ASSUME PublishResult PROVE ClosedInv'
    BY <2>10 DEF PublishResult
  <2>11. ASSUME WriteLastStatus PROVE ClosedInv'
    BY <2>11 DEF WriteLastStatus
  <2>12. ASSUME NEW k \in Tasks,
              \/ StartTask(k) \/ RefuseTask(k) \/ Retry(k) \/ FinishTask(k)
              \/ ChildEnds(k) \/ TurnsExceeded(k) \/ Overspend(k)
        PROVE  UNCHANGED <<closed, phase>>
    BY <2>12 DEF StartTask, RefuseTask, Retry, FinishTask, ChildEnds, TurnsExceeded,
         Overspend, Served
  <2>13. ASSUME \/ ConsumeStop \/ ConsumeTimeout \/ ConsumeInterrupt
              \/ DeadlinePasses
        PROVE  UNCHANGED <<closed, phase>>
    BY <2>13 DEF ConsumeStop, ConsumeTimeout, ConsumeInterrupt, DeadlinePasses,
         StopRunner, Apply, Served, TimeoutRunner, InterruptRunner
  <2>14. ASSUME NEW r \in Steers,
              \/ ConsumeSteer(r) \/ ReadForSteer(r) \/ WriteSteer(r)
              \/ ConfirmSteer(r)
        PROVE  UNCHANGED <<closed, phase>>
    BY <2>14 DEF ConsumeSteer, ReadForSteer, WriteSteer, ConfirmSteer, Sender
  <2>15. ASSUME NEW i \in capFiles,
              \/ ConsumeCapability(i)
        PROVE  UNCHANGED <<closed, phase>>
    BY <2>15 DEF ConsumeCapability
  <2>16. ASSUME NEW a \in acks,
              \/ ConsumeAck(a)
        PROVE  UNCHANGED <<closed, phase>>
    BY <2>16 DEF ConsumeAck
  <2>17. ASSUME NEW i \in proc,
              \/ PublishCapability(i)
        PROVE  UNCHANGED <<closed, phase>>
    BY <2>17 DEF PublishCapability
  <2>18. ASSUME NEW i \in proc, NEW r \in Steers,
              \/ TakeSteer(i, r) \/ StartTurn(i, r)
        PROVE  UNCHANGED <<closed, phase>>
    BY <2>18 DEF TakeSteer, StartTurn
  <2>19. ASSUME NEW c \in {"stop", "timeout", "interrupt"},
              \/ SendControl(c)
        PROVE  UNCHANGED <<closed, phase>>
    BY <2>19 DEF SendControl
  <2>20. ASSUME NEW a \in Appends,
              \/ ReadForAppend(a) \/ FileAppend(a) \/ WriteBackStatus(a)
        PROVE  UNCHANGED <<closed, phase>>
    BY <2>20 DEF ReadForAppend, FileAppend, WriteBackStatus, Appender
  <2>21. CASE UNCHANGED <<closed, phase>>
    BY <2>21
  <2> QED
    BY <2>1, <2>2, <2>3, <2>4, <2>5, <2>6, <2>7, <2>8, <2>9, <2>10, <2>11, <2>12,
       <2>13, <2>14, <2>15, <2>16, <2>17, <2>18, <2>19, <2>20, <2>21 DEF Next,
       RunnerStep, TaskStep, ServeInbox, ChildStep, ParentStep, vars
<1> QED
  BY <1>1, <1>2

\* SteerOK holds in every initial state and is kept by every step.
LEMMA SteerOKInductive ==
  /\ Init => SteerOK
  /\ SteerOK /\ [Next]_vars => SteerOK'
<1> USE DEF SteerOK
<1>1. Init => SteerOK
  BY DEF Init
<1>2. SteerOK /\ [Next]_vars => SteerOK'
  <2> SUFFICES ASSUME SteerOK, [Next]_vars PROVE SteerOK'
    OBVIOUS
  <2> USE DEF loop, report, steering, files, children, callers, parents
  <2>1. ASSUME NEW r \in Steers, ReadForSteer(r) PROVE SteerOK'
    BY <2>1 DEF ReadForSteer, Sender
  <2>2. ASSUME NEW r \in Steers, WriteSteer(r) PROVE SteerOK'
    BY <2>2 DEF WriteSteer, Sender
  <2>3. ASSUME NEW r \in Steers, ConfirmSteer(r) PROVE SteerOK'
    BY <2>3 DEF ConfirmSteer, Sender
  <2>4. ASSUME \/ LeaveLoop \/ UsageExhausted \/ StartOne \/ StartMany
              \/ StartFan \/ GroupDone \/ EmptyFanDone \/ CloseInbox
              \/ SweepSteers \/ PublishResult \/ WriteLastStatus \/ ConsumeStop
              \/ ConsumeTimeout \/ ConsumeInterrupt \/ DeadlinePasses
        PROVE  UNCHANGED steer
    BY <2>4 DEF LeaveLoop, UsageExhausted, StartOne, StartMany, StartFan, GroupDone,
         EmptyFanDone, CloseInbox, SweepSteers, PublishResult, WriteLastStatus,
         ConsumeStop, ConsumeTimeout, ConsumeInterrupt, DeadlinePasses, AtLoopTop,
         StopRunner, Apply, Served, TimeoutRunner, InterruptRunner
  <2>5. ASSUME NEW k \in Tasks,
              \/ StartTask(k) \/ RefuseTask(k) \/ Retry(k) \/ FinishTask(k)
              \/ ChildEnds(k) \/ TurnsExceeded(k) \/ Overspend(k)
        PROVE  UNCHANGED steer
    BY <2>5 DEF StartTask, RefuseTask, Retry, FinishTask, ChildEnds, TurnsExceeded,
         Overspend, Served
  <2>6. ASSUME NEW r \in Steers,
              \/ ConsumeSteer(r)
        PROVE  UNCHANGED steer
    BY <2>6 DEF ConsumeSteer
  <2>7. ASSUME NEW i \in capFiles,
              \/ ConsumeCapability(i)
        PROVE  UNCHANGED steer
    BY <2>7 DEF ConsumeCapability
  <2>8. ASSUME NEW a \in acks,
              \/ ConsumeAck(a)
        PROVE  UNCHANGED steer
    BY <2>8 DEF ConsumeAck
  <2>9. ASSUME NEW i \in proc,
              \/ PublishCapability(i)
        PROVE  UNCHANGED steer
    BY <2>9 DEF PublishCapability
  <2>10. ASSUME NEW i \in proc, NEW r \in Steers,
              \/ TakeSteer(i, r) \/ StartTurn(i, r)
        PROVE  UNCHANGED steer
    BY <2>10 DEF TakeSteer, StartTurn
  <2>11. ASSUME NEW c \in {"stop", "timeout", "interrupt"},
              \/ SendControl(c)
        PROVE  UNCHANGED steer
    BY <2>11 DEF SendControl
  <2>12. ASSUME NEW a \in Appends,
              \/ ReadForAppend(a) \/ FileAppend(a) \/ WriteBackStatus(a)
        PROVE  UNCHANGED steer
    BY <2>12 DEF ReadForAppend, FileAppend, WriteBackStatus, Appender
  <2>13. CASE UNCHANGED steer
    BY <2>13
  <2> QED
    BY <2>1, <2>2, <2>3, <2>4, <2>5, <2>6, <2>7, <2>8, <2>9, <2>10, <2>11, <2>12,
       <2>13 DEF Next, RunnerStep, TaskStep, ServeInbox, ChildStep, ParentStep, vars
<1> QED
  BY <1>1, <1>2

\* LedgerOK holds in every initial state and is kept by every step.
LEMMA LedgerOKInductive ==
  /\ Init => LedgerOK
  /\ LedgerOK /\ [Next]_vars => LedgerOK'
<1> USE DEF LedgerOK
<1>1. Init => LedgerOK
  BY DEF Init
<1>2. LedgerOK /\ [Next]_vars => LedgerOK'
  <2> SUFFICES ASSUME LedgerOK, [Next]_vars PROVE LedgerOK'
    OBVIOUS
  <2> USE DEF loop, report, steering, files, children, callers, parents
  <2>1. ASSUME StartOne PROVE LedgerOK'
    <3>1. \E rs, i, ss : Deliver(rs, {i}, ss)
      BY <2>1 DEF StartOne, StartStep, FlushSteers
    <3>2. acks' = acks
      BY <2>1 DEF StartOne
    <3> QED
      BY <3>1, <3>2, DeliverFacts
  <2>2. ASSUME NEW k \in Tasks, StartTask(k) PROVE LedgerOK'
    <3>1. \E rs, i, ss : Deliver(rs, {i}, ss)
      BY <2>2 DEF StartTask, StartStep, FlushSteers
    <3>2. acks' = acks
      BY <2>2 DEF StartTask
    <3> QED
      BY <3>1, <3>2, DeliverFacts
  <2>3. ASSUME SweepSteers PROVE LedgerOK'
    <3>1. LedgerOK
      OBVIOUS
    <3>2. \A s \in {"delivered", "failed"} : s \in TargetStates
      BY DEF TargetStates
    <3> QED
      BY <2>3, <3>1, <3>2, SweepFacts
  <2>4. ASSUME NEW r \in Steers, ConsumeSteer(r) PROVE LedgerOK'
    <3> DEFINE f == [i \in (IF steer[r].sel # {} THEN steer[r].sel ELSE DOMAIN steps) |-> "failed"]
    <3>1. \/ \E is : Deliver({r}, is, steps)
          \/ ledger' = [ledger EXCEPT ![r] = Recorded(r, f)]
      BY <2>4 DEF ConsumeSteer
    <3>2. acks' = acks
      BY <2>4 DEF ConsumeSteer
    <3>3. \A i \in DOMAIN f : f[i] \in TargetStates
      BY DEF TargetStates
    <3>4. LedgerOK
      OBVIOUS
    <3> HIDE DEF f, LedgerOK
    <3>5. \A i \in DOMAIN Recorded(r, f) : Recorded(r, f)[i] \in TargetStates
      BY <3>3, <3>4, RecordedFacts
    <3>6. CASE \E is : Deliver({r}, is, steps)
      BY <3>2, <3>4, <3>6, DeliverFacts DEF LedgerOK
    <3>7. CASE ledger' = [ledger EXCEPT ![r] = Recorded(r, f)]
      BY <3>2, <3>4, <3>5, <3>7 DEF LedgerOK
    <3> QED
      BY <3>1, <3>6, <3>7
  <2>5. ASSUME NEW i \in capFiles, ConsumeCapability(i) PROVE LedgerOK'
    BY <2>5 DEF ConsumeCapability, TargetStates
  <2>6. ASSUME NEW a \in acks, ConsumeAck(a) PROVE LedgerOK'
    BY <2>6 DEF ConsumeAck, TargetStates
  <2>7. ASSUME NEW k \in Tasks, ChildEnds(k) PROVE LedgerOK'
    BY <2>7 DEF ChildEnds, TargetStates
  <2>8. ASSUME NEW i \in proc, NEW r \in Steers, TakeSteer(i, r) PROVE LedgerOK'
    BY <2>8 DEF TakeSteer, TargetStates
  <2>9. ASSUME NEW i \in proc, NEW r \in Steers, StartTurn(i, r) PROVE LedgerOK'
    BY <2>9 DEF StartTurn, TargetStates
  <2>10. ASSUME \/ LeaveLoop \/ UsageExhausted \/ StartMany \/ StartFan
              \/ GroupDone \/ EmptyFanDone \/ CloseInbox \/ PublishResult
              \/ WriteLastStatus \/ ConsumeStop \/ ConsumeTimeout
              \/ ConsumeInterrupt \/ DeadlinePasses
        PROVE  UNCHANGED <<ledger, acks>>
    BY <2>10 DEF LeaveLoop, UsageExhausted, StartMany, StartFan, GroupDone,
         EmptyFanDone, CloseInbox, PublishResult, WriteLastStatus, ConsumeStop,
         ConsumeTimeout, ConsumeInterrupt, DeadlinePasses, AtLoopTop, StopRunner,
         Apply, Served, TimeoutRunner, InterruptRunner
  <2>11. ASSUME NEW k \in Tasks,
              \/ RefuseTask(k) \/ Retry(k) \/ FinishTask(k) \/ TurnsExceeded(k)
              \/ Overspend(k)
        PROVE  UNCHANGED <<ledger, acks>>
    BY <2>11 DEF RefuseTask, Retry, FinishTask, TurnsExceeded, Overspend, Served
  <2>12. ASSUME NEW i \in proc,
              \/ PublishCapability(i)
        PROVE  UNCHANGED <<ledger, acks>>
    BY <2>12 DEF PublishCapability
  <2>13. ASSUME NEW c \in {"stop", "timeout", "interrupt"},
              \/ SendControl(c)
        PROVE  UNCHANGED <<ledger, acks>>
    BY <2>13 DEF SendControl
  <2>14. ASSUME NEW r \in Steers,
              \/ ReadForSteer(r) \/ WriteSteer(r) \/ ConfirmSteer(r)
        PROVE  UNCHANGED <<ledger, acks>>
    BY <2>14 DEF ReadForSteer, WriteSteer, ConfirmSteer, Sender
  <2>15. ASSUME NEW a \in Appends,
              \/ ReadForAppend(a) \/ FileAppend(a) \/ WriteBackStatus(a)
        PROVE  UNCHANGED <<ledger, acks>>
    BY <2>15 DEF ReadForAppend, FileAppend, WriteBackStatus, Appender
  <2>16. CASE UNCHANGED <<ledger, acks>>
    BY <2>16
  <2> QED
    BY <2>1, <2>2, <2>3, <2>4, <2>5, <2>6, <2>7, <2>8, <2>9, <2>10, <2>11, <2>12,
       <2>13, <2>14, <2>15, <2>16 DEF Next, RunnerStep, TaskStep, ServeInbox,
       ChildStep, ParentStep, vars
<1> QED
  BY <1>1, <1>2

\* FiledInv holds in every initial state and is kept by every step.
LEMMA FiledInvInductive ==
  /\ Init => FiledInv
  /\ SteerOK /\ ClosedInv /\ FiledInv /\ [Next]_vars => FiledInv'
<1> USE DEF FiledInv, SteerOK
<1>1. Init => FiledInv
  BY DEF Init
<1>2. SteerOK /\ ClosedInv /\ FiledInv /\ [Next]_vars => FiledInv'
  <2> SUFFICES ASSUME SteerOK, ClosedInv, FiledInv, [Next]_vars PROVE FiledInv'
    OBVIOUS
  <2> USE DEF loop, report, steering, files, children, callers, parents
  <2>1. ASSUME StartOne PROVE FiledInv'
    BY <2>1 DEF StartOne, StartStep, FlushSteers, Spawn, Deliver, AtLoopTop
  <2>2. ASSUME NEW k \in Tasks, StartTask(k) PROVE FiledInv'
    BY <2>2 DEF StartTask, StartStep, FlushSteers, Spawn, Deliver
  <2>3. ASSUME SweepSteers PROVE FiledInv'
    BY <2>3 DEF SweepSteers
  <2>4. ASSUME NEW r \in Steers, ConsumeSteer(r) PROVE FiledInv'
    BY <2>4 DEF ConsumeSteer, Deliver
  <2>5. ASSUME NEW r \in Steers, ReadForSteer(r) PROVE FiledInv'
    BY <2>5 DEF ReadForSteer, Sender
  <2>6. ASSUME NEW r \in Steers, WriteSteer(r) PROVE FiledInv'
    BY <2>6 DEF WriteSteer, Sender
  <2>7. ASSUME NEW r \in Steers, ConfirmSteer(r) PROVE FiledInv'
    BY <2>7 DEF ConfirmSteer, Sender
  <2>8. ASSUME \/ LeaveLoop \/ UsageExhausted \/ StartMany \/ StartFan
              \/ GroupDone \/ EmptyFanDone \/ CloseInbox \/ PublishResult
              \/ WriteLastStatus \/ ConsumeStop \/ ConsumeTimeout
              \/ ConsumeInterrupt \/ DeadlinePasses
        PROVE  UNCHANGED <<steer, steerFiles, known>>
    BY <2>8 DEF LeaveLoop, UsageExhausted, StartMany, StartFan, GroupDone,
         EmptyFanDone, CloseInbox, PublishResult, WriteLastStatus, ConsumeStop,
         ConsumeTimeout, ConsumeInterrupt, DeadlinePasses, AtLoopTop, StopRunner,
         Apply, Served, TimeoutRunner, InterruptRunner
  <2>9. ASSUME NEW k \in Tasks,
              \/ RefuseTask(k) \/ Retry(k) \/ FinishTask(k) \/ ChildEnds(k)
              \/ TurnsExceeded(k) \/ Overspend(k)
        PROVE  UNCHANGED <<steer, steerFiles, known>>
    BY <2>9 DEF RefuseTask, Retry, FinishTask, ChildEnds, TurnsExceeded, Overspend,
         Spawn, Served
  <2>10. ASSUME NEW i \in capFiles,
              \/ ConsumeCapability(i)
        PROVE  UNCHANGED <<steer, steerFiles, known>>
    BY <2>10 DEF ConsumeCapability
  <2>11. ASSUME NEW a \in acks,
              \/ ConsumeAck(a)
        PROVE  UNCHANGED <<steer, steerFiles, known>>
    BY <2>11 DEF ConsumeAck
  <2>12. ASSUME NEW i \in proc,
              \/ PublishCapability(i)
        PROVE  UNCHANGED <<steer, steerFiles, known>>
    BY <2>12 DEF PublishCapability
  <2>13. ASSUME NEW i \in proc, NEW r \in Steers,
              \/ TakeSteer(i, r) \/ StartTurn(i, r)
        PROVE  UNCHANGED <<steer, steerFiles, known>>
    BY <2>13 DEF TakeSteer, StartTurn
  <2>14. ASSUME NEW c \in {"stop", "timeout", "interrupt"},
              \/ SendControl(c)
        PROVE  UNCHANGED <<steer, steerFiles, known>>
    BY <2>14 DEF SendControl
  <2>15. ASSUME NEW a \in Appends,
              \/ ReadForAppend(a) \/ FileAppend(a) \/ WriteBackStatus(a)
        PROVE  UNCHANGED <<steer, steerFiles, known>>
    BY <2>15 DEF ReadForAppend, FileAppend, WriteBackStatus, Appender
  <2>16. CASE UNCHANGED <<steer, steerFiles, known>>
    BY <2>16
  <2> QED
    BY <2>1, <2>2, <2>3, <2>4, <2>5, <2>6, <2>7, <2>8, <2>9, <2>10, <2>11, <2>12,
       <2>13, <2>14, <2>15, <2>16 DEF Next, RunnerStep, TaskStep, ServeInbox,
       ChildStep, ParentStep, vars
<1> QED
  BY <1>1, <1>2

\* SweptInv holds in every initial state and is kept by every step.
LEMMA SweptInvInductive ==
  /\ Init => SweptInv
  /\ SteerOK /\ ClosedInv /\ FiledInv /\ LedgerOK /\ SweptInv /\ [Next]_vars => SweptInv'
<1> USE DEF SweptInv, Ended
<1>1. Init => SweptInv
  BY DEF Init
<1>2. SteerOK /\ ClosedInv /\ FiledInv /\ LedgerOK /\ SweptInv /\ [Next]_vars => SweptInv'
  <2> SUFFICES ASSUME SteerOK, ClosedInv, FiledInv, LedgerOK, SweptInv, [Next]_vars PROVE SweptInv'
    OBVIOUS
  <2> USE DEF loop, report, steering, files, children, callers, parents
  <2>1. ASSUME LeaveLoop PROVE SweptInv'
    BY <2>1 DEF LeaveLoop
  <2>2. ASSUME UsageExhausted PROVE SweptInv'
    BY <2>2 DEF UsageExhausted, AtLoopTop
  <2>3. ASSUME StartOne PROVE SweptInv'
    BY <2>3 DEF StartOne, AtLoopTop
  <2>4. ASSUME StartMany PROVE SweptInv'
    BY <2>4 DEF StartMany, AtLoopTop
  <2>5. ASSUME StartFan PROVE SweptInv'
    BY <2>5 DEF StartFan, AtLoopTop
  <2>6. ASSUME NEW k \in Tasks, StartTask(k) PROVE SweptInv'
    BY <2>6 DEF StartTask, Next1
  <2>7. ASSUME GroupDone PROVE SweptInv'
    BY <2>7 DEF GroupDone
  <2>8. ASSUME EmptyFanDone PROVE SweptInv'
    BY <2>8 DEF EmptyFanDone
  <2>9. ASSUME CloseInbox PROVE SweptInv'
    <3>1. phase' = "closed"
      BY <2>9 DEF CloseInbox
    <3> QED
      BY <3>1
  <2>10. ASSUME SweepSteers PROVE SweptInv'
    <3>1. steer' = steer
      BY <2>10 DEF SweepSteers
    <3> QED
      BY <2>10, <3>1, SweepFacts DEF FiledInv
  <2>11. ASSUME PublishResult PROVE SweptInv'
    BY <2>11 DEF PublishResult
  <2>12. ASSUME WriteLastStatus PROVE SweptInv'
    BY <2>12 DEF WriteLastStatus
  <2>13. ASSUME NEW r \in Steers, ConsumeSteer(r) PROVE SweptInv'
    BY <2>13 DEF ConsumeSteer, Listening
  <2>14. ASSUME NEW i \in capFiles, ConsumeCapability(i) PROVE SweptInv'
    BY <2>14 DEF ConsumeCapability, Listening
  <2>15. ASSUME NEW a \in acks, ConsumeAck(a) PROVE SweptInv'
    BY <2>15 DEF ConsumeAck, Listening
  <2>16. ASSUME NEW r \in Steers, ReadForSteer(r) PROVE SweptInv'
    BY <2>16 DEF ReadForSteer, Sender, SteerOK
  <2>17. ASSUME NEW r \in Steers, WriteSteer(r) PROVE SweptInv'
    BY <2>17 DEF WriteSteer, Sender, SteerOK
  <2>18. ASSUME NEW r \in Steers, ConfirmSteer(r) PROVE SweptInv'
    BY <2>18 DEF ConfirmSteer, Sender, SteerOK, ClosedInv
  <2>19. ASSUME NEW k \in Tasks,
              \/ RefuseTask(k) \/ Retry(k) \/ FinishTask(k) \/ ChildEnds(k)
              \/ TurnsExceeded(k) \/ Overspend(k)
        PROVE  UNCHANGED <<phase, steer, known, ledger>>
    BY <2>19 DEF RefuseTask, Retry, FinishTask, ChildEnds, TurnsExceeded, Overspend,
         Served
  <2>20. ASSUME \/ ConsumeStop \/ ConsumeTimeout \/ ConsumeInterrupt
              \/ DeadlinePasses
        PROVE  UNCHANGED <<phase, steer, known, ledger>>
    BY <2>20 DEF ConsumeStop, ConsumeTimeout, ConsumeInterrupt, DeadlinePasses,
         StopRunner, Apply, Served, TimeoutRunner, InterruptRunner
  <2>21. ASSUME NEW i \in proc,
              \/ PublishCapability(i)
        PROVE  UNCHANGED <<phase, steer, known, ledger>>
    BY <2>21 DEF PublishCapability
  <2>22. ASSUME NEW i \in proc, NEW r \in Steers,
              \/ TakeSteer(i, r) \/ StartTurn(i, r)
        PROVE  UNCHANGED <<phase, steer, known, ledger>>
    BY <2>22 DEF TakeSteer, StartTurn
  <2>23. ASSUME NEW c \in {"stop", "timeout", "interrupt"},
              \/ SendControl(c)
        PROVE  UNCHANGED <<phase, steer, known, ledger>>
    BY <2>23 DEF SendControl
  <2>24. ASSUME NEW a \in Appends,
              \/ ReadForAppend(a) \/ FileAppend(a) \/ WriteBackStatus(a)
        PROVE  UNCHANGED <<phase, steer, known, ledger>>
    BY <2>24 DEF ReadForAppend, FileAppend, WriteBackStatus, Appender
  <2>25. CASE UNCHANGED <<phase, steer, known, ledger>>
    BY <2>25
  <2> QED
    BY <2>1, <2>2, <2>3, <2>4, <2>5, <2>6, <2>7, <2>8, <2>9, <2>10, <2>11, <2>12,
       <2>13, <2>14, <2>15, <2>16, <2>17, <2>18, <2>19, <2>20, <2>21, <2>22, <2>23,
       <2>24, <2>25 DEF Next, RunnerStep, TaskStep, ServeInbox, ChildStep, ParentStep,
       vars
<1> QED
  BY <1>1, <1>2

\* A steering request the parent was told is committed is in the ledger when the
\* run is over, and no target of it is left to be settled.  The parent looks at the
\* inbox again after it has written, so a request it is told of was there before
\* the inbox was closed, and the sweep that comes after the closing finds it.
THEOREM CommittedSteersAreSettled == Spec => []AcceptedSteerIsSettled
<1> DEFINE Inv == SteerOK /\ ClosedInv /\ FiledInv /\ LedgerOK /\ SweptInv
<1>1. Init => Inv
  BY SteerOKInductive, ClosedInvInductive, FiledInvInductive, LedgerOKInductive,
     SweptInvInductive
<1>2. Inv /\ [Next]_vars => Inv'
  BY SteerOKInductive, ClosedInvInductive, FiledInvInductive, LedgerOKInductive,
     SweptInvInductive
<1>3. Inv => AcceptedSteerIsSettled
  BY DEF SweptInv, Ended, AcceptedSteerIsSettled
<1> QED
  BY <1>1, <1>2, <1>3, PTL DEF Spec

-----------------------------------------------------------------------------
(* Induction, and the list of steps a chain is launched with.              *)

\* A set of numbers has a least one: the intervals that end in its members are
\* finite sets, and the finite sets are well-founded by inclusion.
LEMMA LeastNumber ==
  ASSUME NEW T \in SUBSET Nat, T # {}
  PROVE  \E n \in T : \A m \in T : n <= m
<1> DEFINE F == {0 .. n : n \in T}
           R == StrictSubsetOrdering(Nat)
<1>1. IsWellFoundedOn(R, FiniteSubsetsOf(Nat))
  BY FS_StrictSubsetOrderingWellFounded
<1>2. F \subseteq FiniteSubsetsOf(Nat) /\ F # {}
  <2>1. ASSUME NEW n \in Nat PROVE 0 .. n \in SUBSET Nat /\ IsFiniteSet(0 .. n)
    BY FS_Interval
  <2> QED
    BY <2>1 DEF FiniteSubsetsOf
<1>3. \E x \in F : \A y \in F : ~(<<y, x>> \in R)
  <2> HIDE DEF F, R
  <2> QED
    BY <1>1, <1>2, WFMin
<1>4. PICK n \in T : \A m \in T : ~(<<0 .. m, 0 .. n>> \in R)
  BY <1>3
<1>5. ASSUME NEW m \in T, m < n PROVE FALSE
  <2>1. 0 .. m \subseteq 0 .. n /\ n \in 0 .. n /\ n \notin 0 .. m
    BY <1>5
  <2>2. 0 .. m \in SUBSET Nat /\ 0 .. n \in SUBSET Nat
    OBVIOUS
  <2> QED
    BY <2>1, <2>2, <1>4 DEF StrictSubsetOrdering
<1> QED
  BY <1>5

\* Induction, stated of a set.
LEMMA Induction ==
  ASSUME NEW S, 0 \in S, \A n \in Nat : n \in S => n + 1 \in S
  PROVE  Nat \subseteq S
<1> SUFFICES ASSUME Nat \ S # {} PROVE FALSE
  OBVIOUS
<1>1. PICK n \in Nat \ S : \A m \in Nat \ S : n <= m
  BY LeastNumber
<1>2. n # 0 /\ n - 1 \in Nat
  BY <1>1
<1>3. n - 1 \in S
  BY <1>1, <1>2
<1> QED
  BY <1>1, <1>2, <1>3

\* f[g] are the steps of the first g groups of the chain.
Unfolds(f, chain, n) ==
  f = [g \in 0 .. n |-> IF g = 0 THEN <<>> ELSE f[g - 1] \o StepsOf(chain[g], g)]

\* The recursive function in LaunchSteps is defined for every chain.
LEMMA LaunchUnfolds ==
  ASSUME NEW chain \in Seq(Group)
  PROVE  \E f : Unfolds(f, chain, Len(chain)) /\ LaunchSteps(chain) = f[Len(chain)]
<1> DEFINE S == {n \in Nat : \E f : Unfolds(f, chain, n)}
<1>1. 0 \in S
  <2> DEFINE f == [g \in 0 .. 0 |-> <<>>]
  <2>1. Unfolds(f, chain, 0)
    BY DEF Unfolds
  <2> QED
    BY <2>1
<1>2. ASSUME NEW n \in Nat, n \in S PROVE n + 1 \in S
  <2>1. PICK f : Unfolds(f, chain, n)
    BY <1>2
  <2> DEFINE new == [g \in 0 .. n + 1 |->
                       IF g = n + 1 THEN f[n] \o StepsOf(chain[n + 1], n + 1) ELSE f[g]]
  <2>2. ASSUME NEW g \in 0 .. n + 1
        PROVE  new[g] = IF g = 0 THEN <<>> ELSE new[g - 1] \o StepsOf(chain[g], g)
    <3>1. CASE g = n + 1
      <4>1. new[g] = f[n] \o StepsOf(chain[g], g) /\ new[g - 1] = f[n] /\ g # 0
        BY <3>1
      <4> QED
        BY <4>1
    <3>2. CASE g # n + 1
      <4>1. g \in 0 .. n /\ new[g] = f[g]
        BY <3>2
      <4>2. g # 0 => new[g - 1] = f[g - 1]
        BY <3>2
      <4>3. f[g] = IF g = 0 THEN <<>> ELSE f[g - 1] \o StepsOf(chain[g], g)
        BY <2>1, <4>1 DEF Unfolds
      <4> QED
        BY <4>1, <4>2, <4>3
    <3> QED
      BY <3>1, <3>2
  <2>3. DOMAIN new = 0 .. n + 1 /\ new = [g \in DOMAIN new |-> new[g]]
    OBVIOUS
  <2> HIDE DEF new
  <2>4. Unfolds(new, chain, n + 1)
    BY <2>2, <2>3 DEF Unfolds
  <2> QED
    BY <2>4
<1>3. \E f : Unfolds(f, chain, Len(chain))
  <2>1. Nat \subseteq S
    <3> HIDE DEF S
    <3> QED
      BY <1>1, <1>2, Induction
  <2> QED
    BY <2>1
<1> DEFINE first == CHOOSE f : Unfolds(f, chain, Len(chain))
<1>4. Unfolds(first, chain, Len(chain))
  BY <1>3
<1>5. LaunchSteps(chain) = first[Len(chain)]
  BY DEF LaunchSteps, Unfolds
<1> QED
  BY <1>4, <1>5

-----------------------------------------------------------------------------
(* The list of steps and the chain it is the list of.                      *)

StepRec == [id : Nat \X Nat, st : Statuses]
StepId(group, g, k) == <<g, IF group.kind = "fan" THEN 0 ELSE k>>

\* off[g] is the place in ss of the last step of the g-th group of pl, for the
\* groups after the c-th.  The first s steps are those of the first c groups.
Lays(off, ss, pl, s, c) ==
  /\ off \in [c .. Len(pl) -> Nat]
  /\ \A g, h \in c .. Len(pl) : g <= h => off[g] <= off[h]
  /\ off[c] = s /\ off[Len(pl)] = Len(ss)
  /\ \A g \in c + 1 .. Len(pl) :
       /\ off[g] = off[g - 1] + Width(pl[g])
       /\ \A k \in 1 .. Width(pl[g]) : ss[off[g - 1] + k].id = StepId(pl[g], g, k)
Laid(ss, pl, s, c) == c \in 0 .. Len(pl) /\ s \in Nat /\ \E off : Lays(off, ss, pl, s, c)

\* The steps that follow the first s.
LEMMA WidthFacts ==
  ASSUME NEW group \in Group, NEW g \in Nat
  PROVE  /\ Width(group) \in Nat \ {0}
         /\ StepsOf(group, g) \in Seq(StepRec) /\ Len(StepsOf(group, g)) = Width(group)
         /\ \A k \in 1 .. Width(group) :
              StepsOf(group, g)[k] = [id |-> StepId(group, g, k), st |-> "pending"]
<1>1. Width(group) \in Nat \ {0}
  BY DEF Width, Group
<1>2. ASSUME NEW k \in 1 .. Width(group)
      PROVE  [id |-> <<g, IF group.kind = "fan" THEN 0 ELSE k>>, st |-> "pending"] \in StepRec
  BY <1>1 DEF StepRec, Statuses
<1> DEFINE n == Width(group)
           ss == [k \in 1 .. n |->
                    [id |-> <<g, IF group.kind = "fan" THEN 0 ELSE k>>, st |-> "pending"]]
<1>3. ss \in Seq(StepRec) /\ Len(ss) = n
  <2>1. n \in Nat
    BY <1>1
  <2>2. \A k \in 1 .. n :
          [id |-> <<g, IF group.kind = "fan" THEN 0 ELSE k>>, st |-> "pending"] \in StepRec
    BY <1>2
  <2> HIDE DEF n, StepRec
  <2> QED
    BY <2>1, <2>2
<1>4. StepsOf(group, g) = ss
  BY DEF StepsOf
<1>5. \A k \in 1 .. n : ss[k] = [id |-> StepId(group, g, k), st |-> "pending"]
  BY DEF StepId
<1> QED
  BY <1>1, <1>3, <1>4, <1>5

\* The list of steps at the launch is the list of the whole chain's.
LEMMA LaunchFacts ==
  ASSUME NEW chain \in Seq(Group)
  PROVE  /\ LaunchSteps(chain) \in Seq(StepRec)
         /\ \A i \in DOMAIN LaunchSteps(chain) : LaunchSteps(chain)[i].st = "pending"
         /\ Laid(LaunchSteps(chain), chain, 0, 0)
<1> DEFINE n == Len(chain)
<1>1. PICK f : Unfolds(f, chain, n) /\ LaunchSteps(chain) = f[n]
  BY LaunchUnfolds
<1>n. n \in Nat
  OBVIOUS
<1>2. /\ f[0] = <<>>
      /\ \A g \in 1 .. n : f[g] = f[g - 1] \o StepsOf(chain[g], g)
  BY <1>1, <1>n DEF Unfolds
<1> DEFINE Good(g) ==
             /\ f[g] \in Seq(StepRec)
             /\ \A i \in 1 .. Len(f[g]) : f[g][i].st = "pending"
             /\ \A h \in 0 .. g :
                  /\ f[h] \in Seq(StepRec) /\ Len(f[h]) <= Len(f[g])
                  /\ \A i \in 1 .. Len(f[h]) : f[g][i] = f[h][i]
           S == {g \in Nat : g <= n => Good(g)}
<1>3. 0 \in S
  <2>1. f[0] \in Seq(StepRec) /\ Len(f[0]) = 0
    BY <1>2
  <2>2. \A h \in 0 .. 0 : h = 0
    OBVIOUS
  <2> QED
    BY <2>1, <2>2
<1>4. ASSUME NEW g \in Nat, g \in S PROVE g + 1 \in S
  <2> SUFFICES ASSUME g + 1 <= n PROVE Good(g + 1)
    OBVIOUS
  <2>1. Good(g)
    BY <1>4, <1>n
  <2> DEFINE tail == StepsOf(chain[g + 1], g + 1)
  <2>2. /\ tail \in Seq(StepRec)
        /\ \A k \in 1 .. Len(tail) : tail[k].st = "pending"
    <3>1. chain[g + 1] \in Group
      OBVIOUS
    <3>2. /\ tail \in Seq(StepRec) /\ Len(tail) = Width(chain[g + 1])
          /\ \A k \in 1 .. Width(chain[g + 1]) :
               tail[k] = [id |-> StepId(chain[g + 1], g + 1, k), st |-> "pending"]
      BY <3>1, WidthFacts
    <3> HIDE DEF tail
    <3> QED
      BY <3>2
  <2>3. f[g + 1] = f[g] \o tail
    <3> DEFINE m == g + 1
    <3>1. m \in 1 .. n /\ m - 1 = g
      BY <1>n
    <3> HIDE DEF m
    <3>2. f[m] = f[m - 1] \o StepsOf(chain[m], m)
      BY <1>2, <3>1
    <3> QED
      BY <3>1, <3>2 DEF m
  <2> HIDE DEF tail
  <2> DEFINE a == f[g]  b == f[g + 1]
  <2>4. /\ b \in Seq(StepRec) /\ Len(b) = Len(a) + Len(tail)
        /\ \A i \in 1 .. Len(a) : b[i] = a[i]
        /\ \A k \in 1 .. Len(tail) : b[Len(a) + k] = tail[k]
    BY <2>1, <2>2, <2>3
  <2>5. a \in Seq(StepRec) /\ \A i \in 1 .. Len(a) : a[i].st = "pending"
    BY <2>1
  <2>6. \A i \in 1 .. Len(b) : b[i].st = "pending"
    <3> SUFFICES ASSUME NEW i \in 1 .. Len(b) PROVE b[i].st = "pending"
      OBVIOUS
    <3>1. CASE i <= Len(a)
      BY <2>4, <2>5, <3>1
    <3>2. CASE i > Len(a)
      <4> DEFINE k == i - Len(a)
      <4>1. k \in 1 .. Len(tail) /\ i = Len(a) + k
        BY <2>2, <2>4, <2>5, <3>2
      <4> HIDE DEF k
      <4> QED
        BY <2>2, <2>4, <4>1
    <3> QED
      BY <2>4, <2>5, <3>1, <3>2
  <2>7. ASSUME NEW h \in 0 .. g + 1
        PROVE  /\ f[h] \in Seq(StepRec) /\ Len(f[h]) <= Len(b)
               /\ \A i \in 1 .. Len(f[h]) : b[i] = f[h][i]
    <3>1. CASE h = g + 1
      BY <2>4, <3>1
    <3>2. CASE h \in 0 .. g
      <4>1. /\ f[h] \in Seq(StepRec) /\ Len(f[h]) <= Len(a)
            /\ \A i \in 1 .. Len(f[h]) : a[i] = f[h][i]
        BY <2>1, <3>2
      <4> QED
        BY <2>2, <2>4, <2>5, <4>1
    <3> QED
      BY <3>1, <3>2
  <2> QED
    BY <2>4, <2>6, <2>7
<1>5. \A g \in 0 .. n : Good(g)
  <2>1. Nat \subseteq S
    <3> HIDE DEF S
    <3> QED
      BY <1>3, <1>4, Induction
  <2> QED
    BY <2>1, <1>n
<1> DEFINE off == [g \in 0 .. n |-> Len(f[g])]
<1>6. Lays(off, f[n], chain, 0, 0)
  <2>1. off \in [0 .. n -> Nat] /\ off[0] = 0 /\ off[n] = Len(f[n])
    BY <1>2, <1>5, <1>n
  <2>2. ASSUME NEW g \in 0 .. n, NEW h \in 0 .. n, g <= h PROVE off[g] <= off[h]
    <3>1. g \in 0 .. h
      BY <2>2
    <3> QED
      BY <1>5, <3>1
  <2>3. ASSUME NEW g \in 1 .. n
        PROVE  /\ off[g] = off[g - 1] + Width(chain[g])
               /\ \A k \in 1 .. Width(chain[g]) :
                    f[n][off[g - 1] + k].id = StepId(chain[g], g, k)
    <3> DEFINE tail == StepsOf(chain[g], g)
    <3>1. chain[g] \in Group /\ g - 1 \in 0 .. n /\ g \in 0 .. n /\ g \in Nat
      BY <1>n
    <3>2. /\ tail \in Seq(StepRec) /\ Len(tail) = Width(chain[g]) /\ Width(chain[g]) \in Nat
          /\ \A k \in 1 .. Width(chain[g]) :
               tail[k] = [id |-> StepId(chain[g], g, k), st |-> "pending"]
      BY <3>1, WidthFacts
    <3>3. f[g] = f[g - 1] \o tail
      BY <1>2
    <3>4. f[g - 1] \in Seq(StepRec) /\ f[g] \in Seq(StepRec) /\ f[n] \in Seq(StepRec)
      BY <1>5, <1>n, <3>1
    <3> HIDE DEF tail
    <3>5. /\ Len(f[g]) = Len(f[g - 1]) + Width(chain[g])
          /\ \A k \in 1 .. Width(chain[g]) : f[g][Len(f[g - 1]) + k] = tail[k]
      <4> DEFINE a == f[g - 1]  b == f[g]  w == Width(chain[g])
      <4>1. /\ a \in Seq(StepRec) /\ b = a \o tail
            /\ tail \in Seq(StepRec) /\ Len(tail) = w
        BY <3>2, <3>3, <3>4
      <4> HIDE DEF a, b, w
      <4>2. a \in Seq(StepRec) /\ tail \in Seq(StepRec) /\ b = a \o tail
        BY <4>1
      <4>3. Len(a) \in Nat /\ Len(tail) \in Nat /\ Len(b) = Len(a) + Len(tail)
        BY <4>2, ConcatProperties
      <4>4. ASSUME NEW k \in 1 .. Len(tail) PROVE b[Len(a) + k] = tail[k]
        <5> DEFINE i == Len(a) + k
        <5>1. i \in 1 .. Len(a) + Len(tail) /\ ~(i <= Len(a)) /\ i - Len(a) = k
          BY <4>3
        <5> HIDE DEF i
        <5>2. b[i] = IF i <= Len(a) THEN a[i] ELSE tail[i - Len(a)]
          BY <4>2, <5>1, ConcatProperties
        <5> QED
          BY <5>1, <5>2 DEF i
      <4>5. /\ Len(b) = Len(a) + Len(tail)
            /\ \A k \in 1 .. Len(tail) : b[Len(a) + k] = tail[k]
        BY <4>2, <4>3, <4>4
      <4> QED
        BY <4>1, <4>5 DEF a, b, w
    <3>6. \A i \in 1 .. Len(f[g]) : f[n][i] = f[g][i]
      <4>1. Good(n)
        BY <1>5, <1>n
      <4> QED
        BY <3>1, <4>1
    <3>7. off[g] = Len(f[g]) /\ off[g - 1] = Len(f[g - 1])
      BY <3>1
    <3>8. ASSUME NEW k \in 1 .. Width(chain[g])
          PROVE  f[n][Len(f[g - 1]) + k].id = StepId(chain[g], g, k)
      <4>1. Len(f[g - 1]) + k \in 1 .. Len(f[g])
        BY <3>2, <3>4, <3>5
      <4>2. f[n][Len(f[g - 1]) + k] = tail[k]
        BY <3>5, <3>6, <4>1
      <4> QED
        BY <3>2, <4>2
    <3> QED
      BY <3>5, <3>7, <3>8
  <2> HIDE DEF off
  <2> QED
    BY <2>1, <2>2, <2>3 DEF Lays
<1>7. Laid(f[n], chain, 0, 0)
  BY <1>6, <1>n DEF Laid
<1>8. f[n] \in Seq(StepRec) /\ \A i \in DOMAIN f[n] : f[n][i].st = "pending"
  <2>1. Good(n)
    BY <1>5, <1>n
  <2> QED
    BY <2>1
<1> QED
  BY <1>1, <1>7, <1>8

\* What the next group of the chain takes of the list.
LEMMA LaidNext ==
  ASSUME NEW ss \in Seq(StepRec), NEW pl \in Seq(Group), NEW s, NEW c,
         Laid(ss, pl, s, c), c < Len(pl)
  PROVE  /\ pl[c + 1] \in Group /\ s \in Nat /\ s + Width(pl[c + 1]) <= Len(ss)
         /\ \A k \in 1 .. Width(pl[c + 1]) : ss[s + k].id = StepId(pl[c + 1], c + 1, k)
         /\ Laid(ss, pl, s + Width(pl[c + 1]), c + 1)
<1> DEFINE n == Len(pl)  d == c + 1  w == Width(pl[d])  m == Len(ss)
<1>1. PICK off : Lays(off, ss, pl, s, c)
  BY DEF Laid
<1>2. /\ c \in Nat /\ d \in Nat /\ n \in Nat /\ d \in c .. n /\ d \in c + 1 .. n /\ c \in c .. n
      /\ n \in c .. n /\ d - 1 = c /\ s \in Nat /\ d <= n
  BY DEF Laid
<1>3. pl[d] \in Group
  <2>1. d \in 1 .. Len(pl)
    BY <1>2
  <2> HIDE DEF d, Group
  <2> QED
    BY <2>1
<1>4. w \in Nat
  BY <1>3, WidthFacts DEF Width, Group
<1>5. /\ off \in [c .. n -> Nat] /\ off[c] = s /\ off[n] = m
      /\ \A g, h \in c .. n : g <= h => off[g] <= off[h]
      /\ \A g \in c + 1 .. n :
           /\ off[g] = off[g - 1] + Width(pl[g])
           /\ \A k \in 1 .. Width(pl[g]) : ss[off[g - 1] + k].id = StepId(pl[g], g, k)
  BY <1>1 DEF Lays
<1> HIDE DEF n, d, w, m
<1>6. off[d] = s + w /\ off[d] <= m
  <2>1. off[d] = off[d - 1] + Width(pl[d])
    BY <1>2, <1>5
  <2> QED
    BY <1>2, <1>5, <2>1 DEF w
<1>7. \A k \in 1 .. w : ss[s + k].id = StepId(pl[d], d, k)
  BY <1>2, <1>5 DEF w
<1> DEFINE new == [g \in d .. n |-> off[g]]
<1>8. Lays(new, ss, pl, s + w, d)
  <2>1. new \in [d .. n -> Nat] /\ new[d] = s + w /\ new[n] = m
    BY <1>2, <1>5, <1>6
  <2>2. \A g, h \in d .. n : g <= h => new[g] <= new[h]
    BY <1>2, <1>5
  <2>3. ASSUME NEW g \in d + 1 .. n
        PROVE  /\ new[g] = new[g - 1] + Width(pl[g])
               /\ \A k \in 1 .. Width(pl[g]) : ss[new[g - 1] + k].id = StepId(pl[g], g, k)
    <3>1. /\ g \in c + 1 .. n /\ g \in d .. n /\ g - 1 \in d .. n
          /\ new[g] = off[g] /\ new[g - 1] = off[g - 1]
      BY <1>2
    <3> QED
      BY <1>5, <3>1
  <2> HIDE DEF new
  <2> QED
    BY <2>1, <2>2, <2>3 DEF Lays, n, m
<1>9. Laid(ss, pl, s + w, d)
  BY <1>2, <1>4, <1>8 DEF Laid, n
<1> QED
  BY <1>2, <1>3, <1>6, <1>7, <1>9 DEF d, w, m

\* Only the ids say which group a step belongs to.
LEMMA LaidSame ==
  ASSUME NEW ss \in Seq(StepRec), NEW tt \in Seq(StepRec), NEW pl \in Seq(Group), NEW s, NEW c,
         Laid(ss, pl, s, c), Len(tt) = Len(ss), \A i \in 1 .. Len(ss) : tt[i].id = ss[i].id
  PROVE  Laid(tt, pl, s, c)
<1> DEFINE n == Len(pl)
<1>1. PICK off : Lays(off, ss, pl, s, c)
  BY DEF Laid
<1>2. c \in 0 .. n /\ s \in Nat /\ n \in Nat
  BY DEF Laid
<1>3. ASSUME NEW g \in c + 1 .. n, NEW k \in 1 .. Width(pl[g])
      PROVE  tt[off[g - 1] + k].id = StepId(pl[g], g, k)
  <2>1. /\ off \in [c .. n -> Nat] /\ off[n] = Len(ss) /\ off[g] = off[g - 1] + Width(pl[g])
        /\ off[g] <= off[n] /\ g - 1 \in c .. n /\ g \in c .. n
    <3>1. g \in c .. n /\ g - 1 \in c .. n /\ n \in c .. n /\ g <= n
      BY <1>2
    <3>2. /\ off \in [c .. n -> Nat] /\ off[n] = Len(ss)
          /\ \A i, h \in c .. n : i <= h => off[i] <= off[h]
          /\ off[g] = off[g - 1] + Width(pl[g])
      BY <1>1 DEF Lays
    <3> QED
      BY <3>1, <3>2
  <2>2. Width(pl[g]) \in Nat
    <3>1. g \in 1 .. Len(pl)
      BY <1>2
    <3>2. pl[g] \in Group
      BY <3>1
    <3> QED
      BY <3>2, WidthFacts DEF Width, Group
  <2>3. off[g - 1] + k \in 1 .. Len(ss)
    BY <2>1, <2>2
  <2>4. ss[off[g - 1] + k].id = StepId(pl[g], g, k)
    BY <1>1 DEF Lays
  <2> QED
    BY <2>3, <2>4
<1>4. Lays(off, tt, pl, s, c)
  BY <1>1, <1>3 DEF Lays
<1> QED
  BY <1>2, <1>4 DEF Laid

\* A chain to which single steps are appended.
LEMMA LaidAppend ==
  ASSUME NEW ss \in Seq(StepRec), NEW pl \in Seq(Group), NEW s, NEW c, Laid(ss, pl, s, c),
         NEW n \in Nat, NEW es \in Seq(StepRec), NEW ps \in Seq(Group),
         Len(es) = n, Len(ps) = n,
         \A k \in 1 .. n : ps[k] = One /\ es[k].id = <<Len(pl) + k, 1>>
  PROVE  Laid(ss \o es, pl \o ps, s, c)
<1> DEFINE N == Len(pl)  m == Len(ss)  tt == ss \o es  tl == pl \o ps
<1>1. PICK off : Lays(off, ss, pl, s, c)
  BY DEF Laid
<1>2. c \in 0 .. N /\ s \in Nat /\ N \in Nat /\ m \in Nat
  BY DEF Laid
<1>3. Len(tt) = m + n /\ \A i \in 1 .. m + n : tt[i] = IF i <= m THEN ss[i] ELSE es[i - m]
  <2>1. /\ Len(ss \o es) = Len(ss) + Len(es)
        /\ \A i \in 1 .. Len(ss) + Len(es) :
             (ss \o es)[i] = IF i <= Len(ss) THEN ss[i] ELSE es[i - Len(ss)]
    BY ConcatProperties, Zenon
  <2>2. Len(es) = n
    OBVIOUS
  <2> QED
    BY <2>1, <2>2, Zenon
<1>4. Len(tl) = N + n /\ \A i \in 1 .. N + n : tl[i] = IF i <= N THEN pl[i] ELSE ps[i - N]
  BY ConcatProperties
<1>5. /\ off \in [c .. N -> Nat] /\ off[c] = s /\ off[N] = m
      /\ \A g, h \in c .. N : g <= h => off[g] <= off[h]
      /\ \A g \in c + 1 .. N :
           /\ off[g] = off[g - 1] + Width(pl[g])
           /\ \A k \in 1 .. Width(pl[g]) : ss[off[g - 1] + k].id = StepId(pl[g], g, k)
  BY <1>1 DEF Lays
<1>a. \A k \in 1 .. n : ps[k] = One /\ es[k].id = <<N + k, 1>>
  OBVIOUS
<1> HIDE DEF N, m, tt, tl
<1> DEFINE new == [g \in c .. N + n |-> IF g <= N THEN off[g] ELSE m + (g - N)]
<1>6. new \in [c .. N + n -> Nat] /\ new[c] = s /\ new[N + n] = m + n
  <2>1. ASSUME NEW g \in c .. N + n
        PROVE  (IF g <= N THEN off[g] ELSE m + (g - N)) \in Nat
    <3>1. CASE g <= N
      <4>1. g \in c .. N
        BY <1>2, <3>1
      <4>2. off[g] \in Nat
        BY <1>5, <4>1
      <4> QED
        BY <3>1, <4>2
    <3>2. CASE ~(g <= N)
      <4>1. m + (g - N) \in Nat
        BY <1>2, <3>2
      <4> QED
        BY <3>2, <4>1
    <3> QED
      BY <3>1, <3>2
  <2>2. c \in c .. N + n /\ c <= N /\ N + n \in c .. N + n
    BY <1>2
  <2>3. new[c] = s
    BY <1>5, <2>2
  <2>4. new[N + n] = IF N + n <= N THEN off[N + n] ELSE m + (N + n - N)
    BY <1>2, <2>2
  <2>5. CASE n = 0
    <3>1. N + n = N /\ N + n <= N /\ m + n = m
      BY <1>2, <2>5
    <3> HIDE DEF new
    <3>2. new[N + n] = m
      BY <1>5, <2>4, <3>1
    <3> QED
      BY <2>1, <2>3, <3>1, <3>2 DEF new
  <2>6. CASE n # 0
    <3>1. ~(N + n <= N) /\ m + (N + n - N) = m + n
      BY <1>2, <2>6
    <3> HIDE DEF new
    <3>2. new[N + n] = m + n
      BY <2>4, <3>1
    <3> QED
      BY <2>1, <2>3, <3>2 DEF new
  <2> QED
    BY <2>5, <2>6
<1>7. ASSUME NEW g \in c .. N + n, NEW h \in c .. N + n, g <= h PROVE new[g] <= new[h]
  <2>1. CASE h <= N
    BY <1>2, <1>5, <1>7, <2>1
  <2>2. CASE h > N /\ g <= N
    <3>1. off[g] <= off[N] /\ new[g] = off[g] /\ new[h] = m + (h - N) /\ off[g] \in Nat
      BY <1>2, <1>5, <2>2
    <3> QED
      BY <1>2, <1>5, <2>2, <3>1
  <2>3. CASE g > N
    BY <1>2, <1>7, <2>3
  <2> QED
    BY <1>2, <2>1, <2>2, <2>3
<1>8. ASSUME NEW g \in c + 1 .. N + n
      PROVE  /\ new[g] = new[g - 1] + Width(tl[g])
             /\ \A k \in 1 .. Width(tl[g]) : tt[new[g - 1] + k].id = StepId(tl[g], g, k)
  <2>1. CASE g <= N
    <3>1. /\ g \in c + 1 .. N /\ g - 1 \in c .. N /\ g \in c .. N /\ g \in 1 .. N /\ N \in c .. N
          /\ g - 1 <= N
      BY <1>2, <2>1
    <3>2. new[g] = off[g] /\ new[g - 1] = off[g - 1] /\ tl[g] = pl[g]
      BY <1>2, <1>4, <3>1
    <3>3. Width(pl[g]) \in Nat
      <4>1. pl[g] \in Group
        BY <3>1 DEF N
      <4> QED
        BY <4>1 DEF Width, Group
    <3>4. ASSUME NEW k \in 1 .. Width(pl[g]) PROVE off[g - 1] + k \in 1 .. m
      <4>1. off[g] = off[g - 1] + Width(pl[g]) /\ off[g] <= off[N] /\ off[g - 1] \in Nat
        BY <1>5, <3>1
      <4>2. off[N] = m
        BY <1>5
      <4> HIDE DEF new
      <4> QED
        BY <1>2, <3>3, <4>1, <4>2
    <3> QED
      <4>1. ASSUME NEW k \in 1 .. Width(pl[g])
            PROVE  tt[off[g - 1] + k].id = StepId(pl[g], g, k)
        <5> DEFINE i == off[g - 1] + k
        <5>1. i \in 1 .. m + n /\ i <= m
          BY <1>2, <3>4
        <5>2. ss[i].id = StepId(pl[g], g, k)
          BY <1>5, <3>1
        <5> HIDE DEF i
        <5>3. tt[i].id = StepId(pl[g], g, k)
          BY <1>3, <5>1, <5>2
        <5> QED
          BY <5>3 DEF i
      <4> HIDE DEF new
      <4> QED
        BY <1>5, <3>1, <3>2, <4>1
  <2>2. CASE g > N
    <3> DEFINE k == g - N
    <3>1. k \in 1 .. n /\ g = N + k /\ g - 1 \in c .. N + n /\ g \in c .. N + n
      BY <1>2, <2>2
    <3>2. tl[g] = One /\ tt[m + k].id = <<g, 1>>
      <4>1. tl[g] = ps[k] /\ ps[k] = One /\ es[k].id = <<g, 1>>
        <5>1. g \in 1 .. N + n /\ ~(g <= N) /\ g - N = k /\ k \in 1 .. n
          BY <1>2, <2>2, <3>1
        <5> HIDE DEF k, new
        <5>2. tl[g] = ps[k]
          BY <1>4, <5>1
        <5>3. ps[k] = One /\ es[k].id = <<g, 1>>
          BY <1>a, <3>1, <5>1
        <5> QED
          BY <5>2, <5>3
      <4> DEFINE i == m + k
      <4>2. i \in 1 .. m + n /\ ~(i <= m) /\ i - m = k
        BY <1>2, <3>1
      <4> HIDE DEF i, k, new
      <4>3. tt[i] = es[k]
        BY <1>3, <4>2
      <4> QED
        BY <4>1, <4>3 DEF i
    <3>3. Width(tl[g]) = 1 /\ StepId(tl[g], g, 1) = <<g, 1>>
      BY <3>2 DEF Width, StepId, One
    <3>4. new[g] = m + k /\ new[g - 1] = m + k - 1
      <4>1. /\ new[g] = (IF g <= N THEN off[g] ELSE m + (g - N))
            /\ new[g - 1] = (IF g - 1 <= N THEN off[g - 1] ELSE m + (g - 1 - N))
        BY <3>1
      <4>2. ~(g <= N) /\ k \in 1 .. n /\ k = g - N /\ g \in Nat
        BY <1>2, <2>2, <3>1
      <4> HIDE DEF k, new
      <4>3. CASE k = 1
        <5>1. g - 1 = N /\ g - 1 <= N /\ m + (g - N) = m + k /\ m + k - 1 = m
          BY <1>2, <4>2, <4>3
        <5>2. off[g - 1] = m
          BY <1>5, <5>1
        <5> QED
          BY <4>1, <4>2, <5>1, <5>2
      <4>4. CASE k # 1
        <5>1. ~(g - 1 <= N) /\ m + (g - N) = m + k /\ m + (g - 1 - N) = m + k - 1
          BY <1>2, <4>2, <4>4
        <5> QED
          BY <4>1, <4>2, <5>1
      <4> QED
        BY <4>3, <4>4
    <3>5. \A j \in 1 .. 1 : j = 1
      OBVIOUS
    <3>6. m + k - 1 + 1 = m + k /\ m + k = m + k - 1 + 1
      BY <1>2, <3>1
    <3> HIDE DEF k, new
    <3> QED
      BY <3>2, <3>3, <3>4, <3>5, <3>6
  <2>3. g <= N \/ g > N
    BY <1>2
  <2> HIDE DEF new
  <2> QED
    BY <2>1, <2>2, <2>3
<1> HIDE DEF new
<1>9. Lays(new, tt, tl, s, c)
  BY <1>3, <1>4, <1>6, <1>7, <1>8 DEF Lays
<1>10. c \in 0 .. Len(tl)
  BY <1>2, <1>4
<1> QED
  BY <1>2, <1>9, <1>10 DEF Laid, tt, tl

\* The list ss with the items in the place of its step s + 1.
Spliced(ss, s, items) == SubSeq(ss, 1, s) \o items \o SubSeq(ss, s + 2, Len(ss))

\* The n items of a dynamic group take the place of its placeholder: the steps
\* before it keep their places, those behind it move.
LEMMA SpliceFacts ==
  ASSUME NEW ss \in Seq(StepRec), NEW s \in Nat, s + 1 <= Len(ss),
         NEW n \in Nat \ {0}, NEW items \in Seq(StepRec), Len(items) = n
  PROVE  /\ Spliced(ss, s, items) \in Seq(StepRec)
         /\ Len(Spliced(ss, s, items)) = Len(ss) + n - 1
         /\ \A i \in 1 .. s : Spliced(ss, s, items)[i] = ss[i]
         /\ \A k \in 1 .. n : Spliced(ss, s, items)[s + k] = items[k]
         /\ \A i \in s + 2 .. Len(ss) : Spliced(ss, s, items)[i + n - 1] = ss[i]
<1> DEFINE m == Len(ss)  a == SubSeq(ss, 1, s)  z == SubSeq(ss, s + 2, m)
           tt == Spliced(ss, s, items)
<1>1. m \in Nat /\ s + 1 <= m
  OBVIOUS
<1>2. a \in Seq(StepRec) /\ Len(a) = s /\ \A i \in 1 .. s : a[i] = ss[i]
  <2>1. \A i \in 1 .. s : ss[i] \in StepRec
    BY <1>1
  <2>2. /\ a \in Seq(StepRec) /\ Len(a) = IF 1 <= s THEN s - 1 + 1 ELSE 0
        /\ \A i \in 1 .. s - 1 + 1 : a[i] = ss[1 + i - 1]
    BY <2>1, SubSeqProperties
  <2> HIDE DEF a
  <2> QED
    BY <2>2
<1>3. z \in Seq(StepRec) /\ Len(z) = m - s - 1 /\ \A i \in 1 .. m - s - 1 : z[i] = ss[s + 1 + i]
  <2> DEFINE p == s + 2
  <2>0. p \in Int /\ m \in Int /\ p = s + 2
    BY <1>1
  <2>1. \A i \in p .. m : ss[i] \in StepRec
    BY <1>1
  <2> HIDE DEF p, m
  <2>2. /\ SubSeq(ss, p, m) \in Seq(StepRec)
        /\ Len(SubSeq(ss, p, m)) = IF p <= m THEN m - p + 1 ELSE 0
        /\ \A i \in 1 .. m - p + 1 : SubSeq(ss, p, m)[i] = ss[p + i - 1]
    BY <2>0, <2>1, SubSeqProperties
  <2>3. z = SubSeq(ss, p, m)
    BY DEF p
  <2> HIDE DEF z
  <2>4. Len(z) = m - s - 1 /\ m - p + 1 = m - s - 1
    BY <1>1, <2>0, <2>2, <2>3
  <2>5. \A i \in 1 .. m - s - 1 : z[i] = ss[s + 1 + i]
    <3> SUFFICES ASSUME NEW i \in 1 .. m - s - 1 PROVE z[i] = ss[s + 1 + i]
      OBVIOUS
    <3>1. p + i - 1 = s + 1 + i /\ i \in 1 .. m - p + 1
      BY <1>1, <2>0
    <3> QED
      BY <2>2, <2>3, <3>1
  <2> QED
    BY <2>2, <2>3, <2>4, <2>5
<1>4. tt = (a \o items) \o z
  BY DEF Spliced
<1> HIDE DEF m, a, z, tt
<1> DEFINE b == a \o items
<1>5. b \in Seq(StepRec) /\ Len(b) = Len(a) + Len(items)
  BY <1>2, ConcatProperties
<1>6. \A i \in 1 .. Len(a) + Len(items) : b[i] = IF i <= Len(a) THEN a[i] ELSE items[i - Len(a)]
  BY <1>2, ConcatProperties
<1>7. tt = b \o z
  BY <1>4
<1> HIDE DEF b
<1>8. b \in Seq(StepRec)
  BY <1>5
<1>9. (b \o z) \in Seq(StepRec) /\ Len(b \o z) = Len(b) + Len(z)
  BY <1>3, <1>8, ConcatProperties
<1>10. \A i \in 1 .. Len(b) + Len(z) : (b \o z)[i] = IF i <= Len(b) THEN b[i] ELSE z[i - Len(b)]
  BY <1>3, <1>8, ConcatProperties
<1>11. Len(a) = s /\ Len(z) = m - s - 1
  BY <1>2, <1>3
<1>12. Len(b) = s + n
  BY <1>5, <1>11
<1>13. tt \in Seq(StepRec) /\ Len(tt) = m + n - 1
  <2>1. tt \in Seq(StepRec) /\ Len(tt) = Len(b) + Len(z)
    BY <1>7, <1>9
  <2>2. Len(tt) = s + n + (m - s - 1)
    BY <1>11, <1>12, <2>1
  <2>3. s + n + (m - s - 1) = m + n - 1
    BY <1>1
  <2> QED
    BY <2>1, <2>2, <2>3
<1>14. ASSUME NEW i \in 1 .. s PROVE tt[i] = ss[i]
  <2>1. /\ i \in 1 .. Len(a) + Len(items) /\ i \in 1 .. Len(b) + Len(z)
        /\ i <= Len(a) /\ i <= Len(b)
    BY <1>1, <1>11, <1>12
  <2>2. tt[i] = b[i] /\ b[i] = a[i] /\ a[i] = ss[i]
    BY <1>2, <1>6, <1>7, <1>10, <2>1
  <2> QED
    BY <2>2
<1>15. ASSUME NEW k \in 1 .. n PROVE tt[s + k] = items[k]
  <2> DEFINE i == s + k
  <2>1. /\ i \in 1 .. Len(a) + Len(items) /\ i \in 1 .. Len(b) + Len(z)
        /\ ~(i <= Len(a)) /\ i <= Len(b) /\ i - Len(a) = k
    BY <1>1, <1>11, <1>12
  <2> HIDE DEF i
  <2>2. tt[i] = b[i] /\ b[i] = items[k]
    BY <1>6, <1>7, <1>10, <2>1
  <2> QED
    BY <2>2 DEF i
<1>16. ASSUME NEW i \in s + 2 .. m PROVE tt[i + n - 1] = ss[i]
  <2> DEFINE j == i + n - 1  k == i - s - 1
  <2>1. /\ j \in 1 .. Len(b) + Len(z) /\ ~(j <= Len(b)) /\ j - Len(b) = k
        /\ i = s + 1 + k /\ k \in 1 .. m - s - 1
    BY <1>1, <1>11, <1>12
  <2> HIDE DEF j, k
  <2>2. tt[j] = z[k] /\ z[k] = ss[s + 1 + k]
    BY <1>3, <1>7, <1>10, <2>1
  <2> QED
    BY <2>1, <2>2 DEF j
<1> QED
  BY <1>13, <1>14, <1>15, <1>16 DEF m, tt

\* The list once a dynamic group is expanded.
LEMMA LaidSplice ==
  ASSUME NEW ss \in Seq(StepRec), NEW pl \in Seq(Group), NEW s, NEW c, Laid(ss, pl, s, c),
         c < Len(pl), pl[c + 1].kind = "fan",
         NEW n \in Nat \ {0}, NEW tt \in Seq(StepRec), Len(tt) = Len(ss) + n - 1,
         \A i \in s + 2 .. Len(ss) : tt[i + n - 1] = ss[i]
  PROVE  Laid(tt, pl, s + n, c + 1)
<1> DEFINE N == Len(pl)  d == c + 1  m == Len(ss)
<1>1. PICK off : Lays(off, ss, pl, s, c)
  BY DEF Laid
<1>2. c \in 0 .. N /\ s \in Nat /\ N \in Nat /\ m \in Nat /\ d \in 1 .. N /\ d - 1 = c /\ d = c + 1
  BY DEF Laid
<1>3. /\ off \in [c .. N -> Nat] /\ off[c] = s /\ off[N] = m
      /\ \A g, h \in c .. N : g <= h => off[g] <= off[h]
      /\ \A g \in c + 1 .. N :
           /\ off[g] = off[g - 1] + Width(pl[g])
           /\ \A k \in 1 .. Width(pl[g]) : ss[off[g - 1] + k].id = StepId(pl[g], g, k)
  BY <1>1 DEF Lays
<1>4. off[d] = s + 1
  <2>1. Width(pl[d]) = 1 /\ d \in c + 1 .. N
    BY <1>2 DEF Width
  <2>2. off[d] = off[d - 1] + Width(pl[d])
    BY <1>3, <2>1
  <2> QED
    BY <1>2, <1>3, <2>1, <2>2
<1>5. \A i \in s + 2 .. m : tt[i + n - 1] = ss[i]
  OBVIOUS
<1>6. Len(tt) = m + n - 1
  OBVIOUS
<1> HIDE DEF N, d, m
<1>7. \A g \in d .. N : off[g] \in Nat /\ s + 1 <= off[g] /\ g \in c .. N
  <2> SUFFICES ASSUME NEW g \in d .. N PROVE off[g] \in Nat /\ s + 1 <= off[g] /\ g \in c .. N
    OBVIOUS
  <2>1. g \in c .. N /\ d \in c .. N /\ d <= g
    BY <1>2
  <2> QED
    BY <1>3, <1>4, <2>1
<1> DEFINE new == [g \in d .. N |-> off[g] + n - 1]
<1>8. new \in [d .. N -> Nat] /\ new[d] = s + n /\ new[N] = Len(tt)
  <2>1. d \in d .. N /\ N \in d .. N
    BY <1>2
  <2>2. new[d] = s + n /\ new[N] = Len(tt)
    BY <1>2, <1>3, <1>4, <1>6, <2>1
  <2>3. \A g \in d .. N : off[g] + n - 1 \in Nat
    BY <1>7
  <2> QED
    BY <2>2, <2>3
<1>9. \A g, h \in d .. N : g <= h => new[g] <= new[h]
  BY <1>3, <1>7
<1>10. ASSUME NEW g \in d + 1 .. N
       PROVE  /\ new[g] = new[g - 1] + Width(pl[g])
              /\ \A k \in 1 .. Width(pl[g]) : tt[new[g - 1] + k].id = StepId(pl[g], g, k)
  <2>1. g \in c + 1 .. N /\ g \in d .. N /\ g - 1 \in d .. N /\ g \in 1 .. N /\ N \in c .. N /\ g <= N
    BY <1>2
  <2>2. Width(pl[g]) \in Nat
    <3>1. pl[g] \in Group
      BY <2>1 DEF N
    <3> QED
      BY <3>1 DEF Width, Group
  <2>3. new[g] = off[g] + n - 1 /\ new[g - 1] = off[g - 1] + n - 1
    BY <2>1
  <2> HIDE DEF new
  <2>4. off[g] = off[g - 1] + Width(pl[g]) /\ off[g] <= m /\ off[g - 1] \in Nat /\ off[g - 1] >= s + 1
    BY <1>3, <1>7, <2>1
  <2>5. ASSUME NEW k \in 1 .. Width(pl[g]) PROVE tt[new[g - 1] + k].id = StepId(pl[g], g, k)
    <3> DEFINE i == off[g - 1] + k
    <3>1. i \in s + 2 .. m /\ i + n - 1 = new[g - 1] + k
      <4> DEFINE p == off[g - 1]  w == Width(pl[g])
      <4>1. p \in Nat /\ w \in Nat /\ s + 1 <= p /\ p + w <= m /\ k \in 1 .. w
        BY <2>2, <2>4
      <4> HIDE DEF p, w
      <4>2. p + k \in s + 2 .. m
        BY <1>2, <4>1
      <4>3. p + k + n - 1 = (p + n - 1) + k
        BY <4>1
      <4> QED
        BY <2>3, <4>2, <4>3 DEF p
    <3>2. ss[i].id = StepId(pl[g], g, k)
      BY <1>3, <2>1
    <3> HIDE DEF i
    <3>3. tt[i + n - 1] = ss[i]
      BY <1>5, <3>1
    <3> QED
      BY <3>1, <3>2, <3>3
  <2>6. new[g] = new[g - 1] + Width(pl[g])
    BY <2>2, <2>3, <2>4
  <2> QED
    BY <2>5, <2>6
<1> HIDE DEF new
<1>11. Lays(new, tt, pl, s + n, d)
  BY <1>8, <1>9, <1>10 DEF Lays, N
<1>12. d \in 0 .. N /\ s + n \in Nat
  BY <1>2
<1> QED
  BY <1>11, <1>12 DEF Laid, N, d

\* A step of the list is one of the chain's.
LEMMA LaidBound ==
  ASSUME NEW ss \in Seq(StepRec), NEW pl \in Seq(Group), NEW s, NEW c, Laid(ss, pl, s, c)
  PROVE  s \in Nat /\ s <= Len(ss) /\ c \in 0 .. Len(pl) /\ (c = Len(pl) => s = Len(ss))
<1>1. PICK off : Lays(off, ss, pl, s, c)
  BY DEF Laid
<1>2. c \in 0 .. Len(pl) /\ s \in Nat /\ Len(pl) \in Nat
  BY DEF Laid
<1>3. c \in c .. Len(pl) /\ Len(pl) \in c .. Len(pl) /\ c <= Len(pl)
  BY <1>2
<1> QED
  BY <1>1, <1>2, <1>3 DEF Lays

-----------------------------------------------------------------------------
(* How the list of steps changes.                                          *)

StepsOK == steps \in Seq(StepRec)

\* tt is ss with some steps marked, none of them as pending, and those that are
\* marked as running are in R.
Marks(ss, tt, R) ==
  /\ tt \in Seq(StepRec) /\ Len(tt) = Len(ss)
  /\ \A i \in 1 .. Len(ss) :
       /\ tt[i].id = ss[i].id
       /\ tt[i] = ss[i] \/ (tt[i].st # "pending" /\ (tt[i].st = "running" => i \in R))

\* One step is marked.
LEMMA MarkOne ==
  ASSUME NEW ss \in Seq(StepRec), NEW j, NEW st \in Statuses, st # "pending",
         NEW R, st = "running" => j \in R
  PROVE  /\ Marks(ss, [ss EXCEPT ![j].st = st], R)
         /\ \A i \in 1 .. Len(ss) : i # j => [ss EXCEPT ![j].st = st][i] = ss[i]
         /\ j \in 1 .. Len(ss) => [ss EXCEPT ![j].st = st][j].st = st
<1> DEFINE tt == [ss EXCEPT ![j].st = st]
<1>1. \A t \in StepRec : /\ [t EXCEPT !.st = st] \in StepRec
                         /\ [t EXCEPT !.st = st].id = t.id /\ [t EXCEPT !.st = st].st = st
  BY DEF StepRec
<1>2. CASE j \in 1 .. Len(ss)
  <2> DEFINE new == [ss[j] EXCEPT !.st = st]
  <2>1. ss[j] \in StepRec
    BY <1>2
  <2>2. new \in StepRec /\ new.id = ss[j].id /\ new.st = st
    BY <1>1, <2>1
  <2>3. tt = [ss EXCEPT ![j] = new]
    OBVIOUS
  <2> HIDE DEF new, StepRec, tt
  <2>4. /\ tt \in Seq(StepRec) /\ Len(tt) = Len(ss) /\ tt[j] = new
        /\ \A i \in 1 .. Len(ss) : i # j => tt[i] = ss[i]
    BY <1>2, <2>2, <2>3
  <2> QED
    BY <1>2, <2>2, <2>4 DEF Marks, tt
<1>3. CASE j \notin 1 .. Len(ss)
  <2>1. tt = ss
    BY <1>3
  <2> QED
    BY <1>3, <2>1 DEF Marks
<1> QED
  BY <1>2, <1>3

\* A function on 1 .. n is a list of n elements.
LEMMA ListOf ==
  ASSUME NEW S, NEW n \in Nat, NEW f \in [1 .. n -> S]
  PROVE  f \in Seq(S) /\ Len(f) = n
  OBVIOUS

\* Several steps are marked.
LEMMA MarkSome ==
  ASSUME NEW ss \in Seq(StepRec), NEW M, NEW st \in Statuses \ {"pending", "running"}, NEW R,
         NEW tt, tt = [i \in DOMAIN ss |-> IF i \in M THEN [ss[i] EXCEPT !.st = st] ELSE ss[i]]
  PROVE  Marks(ss, tt, R)
<1>1. \A t \in StepRec : /\ [t EXCEPT !.st = st] \in StepRec
                         /\ [t EXCEPT !.st = st].id = t.id /\ [t EXCEPT !.st = st].st = st
  BY DEF StepRec
<1>2. DOMAIN ss = 1 .. Len(ss) /\ Len(ss) \in Nat
  OBVIOUS
<1>3. ASSUME NEW i \in 1 .. Len(ss)
      PROVE  tt[i] \in StepRec /\ tt[i].id = ss[i].id /\ (tt[i] = ss[i] \/ tt[i].st = st)
  <2>1. ss[i] \in StepRec
    OBVIOUS
  <2>2. CASE i \in M
    <3>1. tt[i] = [ss[i] EXCEPT !.st = st]
      BY <2>2
    <3> QED
      BY <1>1, <2>1, <3>1
  <2>3. CASE i \notin M
    <3>1. tt[i] = ss[i]
      BY <2>3
    <3> QED
      BY <2>1, <3>1
  <2> QED
    BY <2>2, <2>3
<1>4. tt \in Seq(StepRec) /\ Len(tt) = Len(ss)
  <2> DEFINE n == Len(ss)
  <2>1. n \in Nat /\ DOMAIN tt = 1 .. n /\ tt = [i \in 1 .. n |-> tt[i]]
    BY <1>2
  <2>2. \A i \in 1 .. n : tt[i] \in StepRec
    BY <1>3
  <2> HIDE DEF n
  <2>3. tt \in [1 .. n -> StepRec]
    BY <2>1, <2>2
  <2>4. tt \in Seq(StepRec) /\ Len(tt) = n
    BY <2>1, <2>3
  <2> QED
    BY <2>4 DEF n
<1> QED
  BY <1>3, <1>4 DEF Marks

\* The steps and the groups that were appended.
LEMMA NewStepsFacts ==
  ASSUME PlanOK, StepsOK
  PROVE  /\ NewSteps \in Seq(StepRec) /\ Len(steps) <= Len(NewSteps)
         /\ \A i \in 1 .. Len(steps) : NewSteps[i] = steps[i]
         /\ \A i \in 1 .. Len(NewSteps) :
              i > Len(steps) => NewSteps[i].st = "pending" /\ NewSteps[i].id[2] = 1
         /\ NewPlan \in Seq(Group) /\ Len(plan) <= Len(NewPlan)
         /\ \A s, c : Laid(steps, plan, s, c) => Laid(NewSteps, NewPlan, s, c)
<1> DEFINE n  == Cardinality(appendFiles)
           es == [k \in 1 .. n |-> [id |-> <<Len(plan) + k, 1>>, st |-> "pending"]]
           ps == [k \in 1 .. n |-> One]
<1>1. n \in Nat /\ Len(plan) \in Nat /\ plan \in Seq(Group) /\ steps \in Seq(StepRec)
  BY FS_CardinalityType DEF PlanOK, StepsOK
<1>2. One \in Group
  BY DEF One, Group
<1>3. ps \in Seq(Group) /\ Len(ps) = n /\ \A k \in 1 .. n : ps[k] = One
  <2> HIDE DEF n, Group
  <2> QED
    BY <1>1, <1>2
<1>4. /\ es \in Seq(StepRec) /\ Len(es) = n
      /\ \A k \in 1 .. n : /\ es[k].id = <<Len(plan) + k, 1>> /\ es[k].id[2] = 1
                           /\ es[k].st = "pending"
  <2> HIDE DEF n
  <2>1. \A k \in 1 .. n : [id |-> <<Len(plan) + k, 1>>, st |-> "pending"] \in StepRec
    BY <1>1 DEF StepRec, Statuses
  <2>2. es \in [1 .. n -> StepRec]
    BY <2>1
  <2>3. \A k \in 1 .. n : /\ es[k].id = <<Len(plan) + k, 1>> /\ es[k].id[2] = 1
                          /\ es[k].st = "pending"
    OBVIOUS
  <2>4. es \in Seq(StepRec) /\ Len(es) = n
    <3>1. n \in Nat
      BY <1>1
    <3> HIDE DEF es, StepRec
    <3> QED
      BY <2>2, <3>1, ListOf
  <2> QED
    BY <2>3, <2>4
<1>5. NewSteps = steps \o es /\ NewPlan = plan \o ps
  BY DEF NewSteps, NewPlan
<1> HIDE DEF n, es, ps
<1>6. /\ NewSteps \in Seq(StepRec) /\ Len(NewSteps) = Len(steps) + Len(es)
      /\ \A i \in 1 .. Len(steps) + Len(es) :
           NewSteps[i] = IF i <= Len(steps) THEN steps[i] ELSE es[i - Len(steps)]
  BY <1>1, <1>4, <1>5, ConcatProperties
<1>7. NewPlan \in Seq(Group) /\ Len(NewPlan) = Len(plan) + Len(ps)
  BY <1>1, <1>3, <1>5, ConcatProperties
<1>8. Len(steps) \in Nat
  BY <1>1
<1>9. \A i \in 1 .. Len(steps) : NewSteps[i] = steps[i]
  <2>1. \A i \in 1 .. Len(steps) : i \in 1 .. Len(steps) + Len(es) /\ i <= Len(steps)
    BY <1>1, <1>4, <1>8
  <2> QED
    BY <1>6, <2>1
<1>10. ASSUME NEW i \in 1 .. Len(NewSteps), i > Len(steps)
       PROVE  NewSteps[i].st = "pending" /\ NewSteps[i].id[2] = 1
  <2> DEFINE k == i - Len(steps)
  <2>1. k \in 1 .. n /\ ~(i <= Len(steps)) /\ i \in 1 .. Len(steps) + Len(es)
    BY <1>1, <1>4, <1>6, <1>8, <1>10
  <2>2. NewSteps[i] = es[k]
    BY <1>6, <2>1
  <2> HIDE DEF k
  <2> QED
    BY <1>4, <2>1, <2>2
<1>11. ASSUME NEW s, NEW c, Laid(steps, plan, s, c) PROVE Laid(NewSteps, NewPlan, s, c)
  BY <1>1, <1>3, <1>4, <1>5, <1>11, LaidAppend
<1>12. Len(steps) <= Len(NewSteps) /\ Len(plan) <= Len(NewPlan)
  BY <1>1, <1>3, <1>4, <1>6, <1>7, <1>8
<1> QED
  BY <1>6, <1>7, <1>9, <1>10, <1>11, <1>12

\* The values of "Marks": nothing changes, or one kind of step does.
LEMMA MarksFacts ==
  ASSUME NEW ss \in Seq(StepRec)
  PROVE  /\ \A R : Marks(ss, ss, R)
         /\ \A tt, R : Marks(ss, tt, R) =>
              /\ tt \in Seq(StepRec) /\ DOMAIN tt = 1 .. Len(ss) /\ DOMAIN ss = 1 .. Len(ss)
              /\ Len(tt) = Len(ss) /\ \A i \in 1 .. Len(ss) : tt[i].id = ss[i].id
<1> USE DEF Marks
<1> HIDE DEF StepRec
<1> QED
  OBVIOUS

\* The places of the tasks of the group that is under way.
Own == {Child(k) : k \in {j \in Tasks : phase = "group"}}

\* A stop, a timeout or an interrupt marks steps, and so do a task that
\* starts, is refused or ends and a dynamic group that has no items.
LEMMA MarkingSteps ==
  ASSUME StepsOK,
         \/ \E k \in Tasks : StartTask(k) \/ RefuseTask(k) \/ FinishTask(k)
         \/ EmptyFanDone
         \/ ConsumeStop \/ ConsumeTimeout \/ ConsumeInterrupt \/ DeadlinePasses
  PROVE  Marks(steps, steps', Own)
<1> USE DEF StepsOK
<1>s. {"running", "failed", "complete", "paused", "stopped"} \subseteq Statuses \ {"pending"}
  BY DEF Statuses
<1>u. UNCHANGED steps => Marks(steps, steps', Own)
  BY MarksFacts
<1>m. ASSUME NEW j, NEW st \in Statuses \ {"pending"}, st = "running" => j \in Own,
             steps' = [steps EXCEPT ![j].st = st]
      PROVE  Marks(steps, steps', Own)
  BY <1>m, MarkOne
<1>a. ASSUME NEW flag, NEW over, NEW st \in Statuses \ {"pending", "running"}, Apply(flag, over, st)
      PROVE  Marks(steps, steps', Own)
  <2> DEFINE M == {i \in DOMAIN steps : steps[i].st \in over}
  <2>1. steps' = [i \in DOMAIN steps |->
                    IF i \in M THEN [steps[i] EXCEPT !.st = st] ELSE steps[i]]
    BY <1>a DEF Apply
  <2> HIDE DEF M
  <2> QED
    BY <2>1, MarkSome
<1>1. ASSUME NEW k \in Tasks, StartTask(k) PROVE Marks(steps, steps', Own)
  <2>1. steps' = [steps EXCEPT ![Child(k)].st = "running"]
    BY <1>1 DEF StartTask, StartStep
  <2>2. Child(k) \in Own
    BY <1>1 DEF StartTask, Next1, Own
  <2> QED
    BY <1>m, <1>s, <2>1, <2>2
<1>2. ASSUME NEW k \in Tasks, RefuseTask(k) PROVE Marks(steps, steps', Own)
  <2>1. steps' = [steps EXCEPT ![Child(k)].st = "failed"] \/ UNCHANGED steps
    BY <1>2 DEF RefuseTask
  <2> QED
    BY <1>m, <1>s, <1>u, <2>1
<1>3. ASSUME NEW k \in Tasks, FinishTask(k) PROVE Marks(steps, steps', Own)
  <2>1. PICK res : steps' = [steps EXCEPT ![Child(k)].st = StatusOf(res)]
    BY <1>3 DEF FinishTask
  <2>2. StatusOf(res) \in {"failed", "complete", "paused", "stopped"}
    BY DEF StatusOf
  <2> QED
    BY <1>m, <1>s, <2>1, <2>2
<1>4. ASSUME EmptyFanDone PROVE Marks(steps, steps', Own)
  <2>1. \/ UNCHANGED steps
        \/ \E st \in {"stopped", "failed"} : steps' = [steps EXCEPT ![start + 1].st = st]
    BY <1>4 DEF EmptyFanDone, report
  <2> QED
    BY <1>m, <1>s, <1>u, <2>1
<1>5. ASSUME ConsumeStop \/ ConsumeTimeout \/ ConsumeInterrupt \/ DeadlinePasses
      PROVE  Marks(steps, steps', Own)
  <2>1. \/ UNCHANGED steps
        \/ Apply("stopped", {"running", "pending"}, "stopped")
        \/ Apply("timedOut", {"running", "pending"}, "failed")
        \/ Apply("interrupted", {"running"}, "paused")
    BY <1>5 DEF ConsumeStop, ConsumeTimeout, ConsumeInterrupt, DeadlinePasses, StopRunner,
                TimeoutRunner, InterruptRunner, report
  <2> QED
    BY <1>a, <1>s, <1>u, <2>1
<1> QED
  BY <1>1, <1>2, <1>3, <1>4, <1>5

\* A group that begins marks steps of the list with the appended ones.
LEMMA BeginningSteps ==
  ASSUME PlanOK, StepsOK, UsageExhausted \/ StartOne \/ StartMany
  PROVE  Marks(NewSteps, steps', IF phase' = "group" THEN {start + 1} ELSE {})
<1>n. NewSteps \in Seq(StepRec)
  BY NewStepsFacts
<1>s. {"running", "failed"} \subseteq Statuses \ {"pending"}
  BY DEF Statuses
<1>u. \A R : steps' = NewSteps => Marks(NewSteps, steps', R)
  BY <1>n, MarksFacts
<1>1. CASE UsageExhausted
  BY <1>1, <1>u DEF UsageExhausted
<1>2. CASE StartOne
  <2>1. steps' = [NewSteps EXCEPT ![Child(1)].st = "running"]
    BY <1>2 DEF StartOne, StartStep
  <2>2. phase' = "group" /\ Child(1) = start + 1
    BY <1>2 DEF StartOne, Child
  <2> HIDE DEF NewSteps
  <2> QED
    BY <1>n, <1>s, <2>1, <2>2, MarkOne
<1>3. CASE StartMany
  <2> DEFINE M == {i \in DOMAIN NewSteps : i - start \in 1 .. NextGroup.size}
  <2>1. \/ steps' = NewSteps
        \/ steps' = [i \in DOMAIN NewSteps |->
             IF i \in M THEN [NewSteps[i] EXCEPT !.st = "failed"] ELSE NewSteps[i]]
    BY <1>3 DEF StartMany
  <2> HIDE DEF M, NewSteps
  <2> QED
    BY <1>n, <1>s, <1>u, <2>1, MarkSome
<1> QED
  BY <1>1, <1>2, <1>3

\* The items of a dynamic group take the place of the placeholder, or it is
\* marked and the group has no task.
LEMMA FanSteps ==
  ASSUME PlanOK, StepsOK, StartFan
  PROVE  \/ /\ phase' = "group"
            /\ \E n \in 1 .. MaxItems : /\ steps' = Splice(n)
                                        /\ task' = [k \in 1 .. n |-> Waiting]
         \/ /\ Marks(NewSteps, steps', {})
            /\ (phase' = "group" /\ task' = <<>>) \/ phase' = "share"
<1>n. NewSteps \in Seq(StepRec)
  BY NewStepsFacts
<1>1. \/ /\ phase' = "group"
         /\ \E n \in 1 .. MaxItems : steps' = Splice(n) /\ task' = [k \in 1 .. n |-> Waiting]
      \/ /\ \E st \in {"complete", "failed"} : steps' = Placeholder(st)
         /\ (phase' = "group" /\ task' = <<>>) \/ phase' = "share"
  BY DEF StartFan
<1>2. ASSUME NEW st \in {"complete", "failed"} PROVE Marks(NewSteps, Placeholder(st), {})
  <2>1. st \in Statuses /\ st # "pending" /\ st # "running"
    BY DEF Statuses
  <2> HIDE DEF NewSteps
  <2> QED
    BY <1>n, <2>1, MarkOne DEF Placeholder
<1> QED
  BY <1>1, <1>2

\* What the n items of a dynamic group make of the list.
LEMMA SplicedFacts ==
  ASSUME PlanOK, StepsOK, start \in Nat, start + 1 <= Len(NewSteps), NEW n \in Nat \ {0}
  PROVE  /\ Splice(n) \in Seq(StepRec) /\ Len(Splice(n)) = Len(NewSteps) + n - 1
         /\ \A i \in 1 .. start : Splice(n)[i] = NewSteps[i]
         /\ \A k \in 1 .. n : Splice(n)[start + k] = [id |-> <<cursor + 1, k>>, st |-> "pending"]
         /\ \A i \in start + 2 .. Len(NewSteps) : Splice(n)[i + n - 1] = NewSteps[i]
<1> DEFINE items == [k \in 1 .. n |-> [id |-> <<cursor + 1, k>>, st |-> "pending"]]
           ss == NewSteps
           tt == Splice(n)
<1>1. ss \in Seq(StepRec) /\ start + 1 <= Len(ss)
  BY NewStepsFacts
<1>2. \A k \in 1 .. n : /\ [id |-> <<cursor + 1, k>>, st |-> "pending"] \in StepRec
                        /\ items[k] = [id |-> <<cursor + 1, k>>, st |-> "pending"]
  BY DEF PlanOK, StepRec, Statuses
<1>3. items \in [1 .. n -> StepRec]
  BY <1>2
<1>4. tt = Spliced(ss, start, items)
  BY DEF Splice, Spliced
<1> HIDE DEF items, ss, tt
<1>5. items \in Seq(StepRec) /\ Len(items) = n
  BY <1>3, ListOf
<1>6. /\ tt \in Seq(StepRec) /\ Len(tt) = Len(ss) + n - 1
      /\ \A i \in 1 .. start : tt[i] = ss[i]
      /\ \A k \in 1 .. n : tt[start + k] = items[k]
      /\ \A i \in start + 2 .. Len(ss) : tt[i + n - 1] = ss[i]
  <2>1. start \in Nat /\ n \in Nat \ {0}
    OBVIOUS
  <2>2. /\ Spliced(ss, start, items) \in Seq(StepRec)
        /\ Len(Spliced(ss, start, items)) = Len(ss) + n - 1
        /\ \A i \in 1 .. start : Spliced(ss, start, items)[i] = ss[i]
        /\ \A k \in 1 .. n : Spliced(ss, start, items)[start + k] = items[k]
        /\ \A i \in start + 2 .. Len(ss) : Spliced(ss, start, items)[i + n - 1] = ss[i]
    <3> HIDE DEF Spliced
    <3> QED
      BY ONLY <1>1, <1>5, <2>1, SpliceFacts
  <2> QED
    BY ONLY <1>4, <2>2
<1> QED
  BY <1>2, <1>6 DEF ss, tt

-----------------------------------------------------------------------------
(* The list of steps and the chain stay aligned.                           *)

\* The steps of the groups that were begun: the tasks of the current group
\* included, or the placeholder of a dynamic group that has none.
Taken == IF Len(task) = 0 THEN 1 ELSE Len(task)
Base == IF phase = "group" THEN start + Taken ELSE start

\* While the loop runs, the groups that are still to begin own the steps from
\* Base on, in order.
AlignInv == phase \in {"top", "group"} => Laid(steps, plan, Base, cursor)

\* At the top of the loop the next group owns the next steps.
LEMMA BeginFacts ==
  ASSUME PlanOK, StepsOK, AlignInv, phase = "top", cursor < Len(NewPlan)
  PROVE  /\ NewSteps \in Seq(StepRec) /\ NewPlan \in Seq(Group)
         /\ NextGroup \in Group /\ start \in Nat
         /\ Width(NextGroup) \in Nat \ {0} /\ start + Width(NextGroup) <= Len(NewSteps)
         /\ \A k \in 1 .. Width(NextGroup) :
              NewSteps[start + k].id = StepId(NextGroup, cursor + 1, k)
         /\ Laid(NewSteps, NewPlan, start, cursor)
         /\ Laid(NewSteps, NewPlan, start + Width(NextGroup), cursor + 1)
<1> DEFINE ss == NewSteps  pl == NewPlan
<1>1. Laid(steps, plan, start, cursor)
  BY DEF AlignInv, Base
<1>2. ss \in Seq(StepRec) /\ pl \in Seq(Group) /\ Laid(ss, pl, start, cursor)
  BY <1>1, NewStepsFacts
<1>3. NextGroup = pl[cursor + 1] /\ cursor < Len(pl)
  BY DEF NextGroup
<1> HIDE DEF ss, pl
<1>4. /\ NextGroup \in Group /\ start \in Nat /\ start + Width(NextGroup) <= Len(ss)
      /\ \A k \in 1 .. Width(NextGroup) : ss[start + k].id = StepId(NextGroup, cursor + 1, k)
      /\ Laid(ss, pl, start + Width(NextGroup), cursor + 1)
  BY <1>2, <1>3, LaidNext
<1>5. Width(NextGroup) \in Nat \ {0}
  BY <1>4, WidthFacts
<1> QED
  BY <1>2, <1>4, <1>5 DEF ss, pl

\* StepsOK holds in every initial state and is kept by every step.
LEMMA StepsOKInductive ==
  ASSUME PlanAssumption
  PROVE  /\ Init => StepsOK
         /\ PlanOK /\ AlignInv /\ StepsOK /\ [Next]_vars => StepsOK'
<1> USE PlanAssumption DEF PlanAssumption, StepsOK
<1>1. Init => StepsOK
  <2> SUFFICES ASSUME Init PROVE StepsOK
    OBVIOUS
  <2>1. plan \in Seq(Group)
    BY DEF Init, Group
  <2>2. /\ steps = LaunchSteps(plan) /\ phase = "top" /\ start = 0 /\ cursor = 0
    BY DEF Init
  <2> QED
    BY <2>1, <2>2, LaunchFacts DEF Base
<1>2. PlanOK /\ AlignInv /\ StepsOK /\ [Next]_vars => StepsOK'
  <2> SUFFICES ASSUME PlanOK, AlignInv, StepsOK, [Next]_vars PROVE StepsOK'
    OBVIOUS
  <2> USE DEF loop, report, steering, files, children, callers, parents
  <2>1. ASSUME UsageExhausted PROVE StepsOK'
    BY <2>1, BeginningSteps DEF Marks
  <2>2. ASSUME StartOne PROVE StepsOK'
    BY <2>2, BeginningSteps DEF Marks
  <2>3. ASSUME StartMany PROVE StepsOK'
    BY <2>3, BeginningSteps DEF Marks
  <2>4. ASSUME StartFan PROVE StepsOK'
    <3>1. CASE \E R : Marks(NewSteps, steps', R)
      BY <3>1 DEF Marks
    <3>2. CASE \E n \in 1 .. MaxItems : steps' = Splice(n)
      <4>1. PICK n \in Nat \ {0} : steps' = Splice(n)
        BY <3>2
      <4>2. phase = "top" /\ cursor < Len(NewPlan)
        BY <2>4 DEF StartFan, AtLoopTop
      <4>3. start \in Nat /\ start + Width(NextGroup) <= Len(NewSteps)
            /\ Width(NextGroup) = 1 /\ start + 1 <= Len(NewSteps)
        <5>1. start \in Nat /\ start + Width(NextGroup) <= Len(NewSteps)
          BY <4>2, BeginFacts
        <5>2. Width(NextGroup) = 1
          BY <2>4 DEF StartFan, Width
        <5> QED
          BY <5>1, <5>2
      <4>4. Splice(n) \in Seq(StepRec)
        BY <4>3, SplicedFacts
      <4> QED
        BY <4>1, <4>4
    <3> QED
      BY <2>4, <3>1, <3>2, FanSteps
  <2>5. ASSUME NEW k \in Tasks, StartTask(k) PROVE StepsOK'
    BY <2>5, MarkingSteps DEF Marks
  <2>6. ASSUME NEW k \in Tasks, RefuseTask(k) PROVE StepsOK'
    BY <2>6, MarkingSteps DEF Marks
  <2>7. ASSUME NEW k \in Tasks, FinishTask(k) PROVE StepsOK'
    BY <2>7, MarkingSteps DEF Marks
  <2>8. ASSUME EmptyFanDone PROVE StepsOK'
    BY <2>8, MarkingSteps DEF Marks
  <2>9. ASSUME ConsumeStop PROVE StepsOK'
    BY <2>9, MarkingSteps DEF Marks
  <2>10. ASSUME ConsumeTimeout PROVE StepsOK'
    BY <2>10, MarkingSteps DEF Marks
  <2>11. ASSUME ConsumeInterrupt PROVE StepsOK'
    BY <2>11, MarkingSteps DEF Marks
  <2>12. ASSUME DeadlinePasses PROVE StepsOK'
    BY <2>12, MarkingSteps DEF Marks
  <2>13. ASSUME \/ LeaveLoop \/ GroupDone \/ CloseInbox \/ SweepSteers
              \/ PublishResult \/ WriteLastStatus
        PROVE  UNCHANGED steps
    BY <2>13 DEF LeaveLoop, GroupDone, CloseInbox, SweepSteers, PublishResult,
         WriteLastStatus
  <2>14. ASSUME NEW k \in Tasks,
              \/ Retry(k) \/ ChildEnds(k) \/ TurnsExceeded(k) \/ Overspend(k)
        PROVE  UNCHANGED steps
    BY <2>14 DEF Retry, ChildEnds, TurnsExceeded, Overspend, Spawn, Served
  <2>15. ASSUME NEW r \in Steers,
              \/ ConsumeSteer(r) \/ ReadForSteer(r) \/ WriteSteer(r)
              \/ ConfirmSteer(r)
        PROVE  UNCHANGED steps
    BY <2>15 DEF ConsumeSteer, ReadForSteer, WriteSteer, ConfirmSteer, Deliver, Sender
  <2>16. ASSUME NEW i \in capFiles,
              \/ ConsumeCapability(i)
        PROVE  UNCHANGED steps
    BY <2>16 DEF ConsumeCapability
  <2>17. ASSUME NEW a \in acks,
              \/ ConsumeAck(a)
        PROVE  UNCHANGED steps
    BY <2>17 DEF ConsumeAck
  <2>18. ASSUME NEW i \in proc,
              \/ PublishCapability(i)
        PROVE  UNCHANGED steps
    BY <2>18 DEF PublishCapability
  <2>19. ASSUME NEW i \in proc, NEW r \in Steers,
              \/ TakeSteer(i, r) \/ StartTurn(i, r)
        PROVE  UNCHANGED steps
    BY <2>19 DEF TakeSteer, StartTurn
  <2>20. ASSUME NEW c \in {"stop", "timeout", "interrupt"},
              \/ SendControl(c)
        PROVE  UNCHANGED steps
    BY <2>20 DEF SendControl
  <2>21. ASSUME NEW a \in Appends,
              \/ ReadForAppend(a) \/ FileAppend(a) \/ WriteBackStatus(a)
        PROVE  UNCHANGED steps
    BY <2>21 DEF ReadForAppend, FileAppend, WriteBackStatus, Appender
  <2>22. CASE UNCHANGED steps
    BY <2>22
  <2> QED
    BY <2>1, <2>2, <2>3, <2>4, <2>5, <2>6, <2>7, <2>8, <2>9, <2>10, <2>11, <2>12,
       <2>13, <2>14, <2>15, <2>16, <2>17, <2>18, <2>19, <2>20, <2>21, <2>22 DEF Next,
       RunnerStep, TaskStep, ServeInbox, ChildStep, ParentStep, vars
<1> QED
  BY <1>1, <1>2

\* Only the empty list has no element.
LEMMA EmptyList ==
  ASSUME NEW S, NEW s \in Seq(S)
  PROVE  s = <<>> <=> Len(s) = 0
  OBVIOUS

\* AlignInv holds in every initial state and is kept by every step.
LEMMA AlignInvInductive ==
  ASSUME PlanAssumption
  PROVE  /\ Init => AlignInv
         /\ PlanOK /\ TaskOK /\ StepsOK /\ AlignInv /\ [Next]_vars => AlignInv'
<1> USE PlanAssumption DEF PlanAssumption, AlignInv, Base
<1>1. Init => AlignInv
  <2> SUFFICES ASSUME Init PROVE AlignInv
    OBVIOUS
  <2>1. plan \in Seq(Group)
    BY DEF Init, Group
  <2>2. /\ steps = LaunchSteps(plan) /\ phase = "top" /\ start = 0 /\ cursor = 0
    BY DEF Init
  <2> QED
    BY <2>1, <2>2, LaunchFacts DEF Base
<1>2. PlanOK /\ TaskOK /\ StepsOK /\ AlignInv /\ [Next]_vars => AlignInv'
  <2> SUFFICES ASSUME PlanOK, TaskOK, StepsOK, AlignInv, [Next]_vars PROVE AlignInv'
    OBVIOUS
  <2> USE DEF loop, report, steering, files, children, callers, parents
  <2>m. ASSUME NEW R, Marks(steps, steps', R), plan' = plan, cursor' = cursor, Base' = Base, phase' = phase
        PROVE  AlignInv'
    <3>1. steps \in Seq(StepRec) /\ plan \in Seq(Group)
      BY DEF StepsOK, PlanOK
    <3>2. Laid(steps, plan, Base, cursor) => Laid(steps', plan, Base, cursor)
      BY <2>m, <3>1, LaidSame DEF Marks
    <3> HIDE DEF Base
    <3> QED
      BY <2>m, <3>2
  <2>b. ASSUME NEW R, Marks(NewSteps, steps', R), plan' = NewPlan, cursor' = cursor + 1,
               Base' = start + Width(NextGroup), phase = "top", cursor < Len(NewPlan)
        PROVE  AlignInv'
    <3> DEFINE ss == NewSteps  pl == NewPlan  w == Width(NextGroup)
    <3>1. ss \in Seq(StepRec) /\ pl \in Seq(Group) /\ Laid(ss, pl, start + w, cursor + 1)
      BY <2>b, BeginFacts
    <3> HIDE DEF ss, pl, w, Base
    <3>2. Laid(steps', pl, start + w, cursor + 1)
      BY <2>b, <3>1, LaidSame DEF Marks, ss
    <3> QED
      BY <2>b, <3>2 DEF pl, w
  <2>1. ASSUME LeaveLoop PROVE AlignInv'
    <3>1. phase' \notin {"top", "group"}
      BY <2>1 DEF LeaveLoop
    <3> QED
      BY <3>1
  <2>2. ASSUME UsageExhausted PROVE AlignInv'
    <3>1. phase' \notin {"top", "group"}
      BY <2>2 DEF UsageExhausted
    <3> QED
      BY <3>1
  <2>3. ASSUME StartOne PROVE AlignInv'
    <3>1. /\ plan' = NewPlan /\ cursor' = cursor + 1 /\ start' = start /\ phase' = "group"
          /\ phase = "top" /\ cursor < Len(NewPlan) /\ Width(NextGroup) = 1
      BY <2>3 DEF StartOne, AtLoopTop, Width
    <3>2. Len(task') = 1
      <4> DEFINE ts == <<Waiting>>
      <4>1. ts \in Seq(TaskRec) /\ DOMAIN ts = {1} /\ StartStep(1, ts, NewSteps)
        BY <2>3, WaitingFacts DEF StartOne
      <4> HIDE DEF ts
      <4>2. task' \in Seq(TaskRec) /\ DOMAIN task' = {1}
        BY <4>1, StartFacts
      <4> QED
        BY <4>2
    <3> QED
      BY <2>b, <2>3, <3>1, <3>2, BeginningSteps DEF Taken
  <2>4. ASSUME StartMany PROVE AlignInv'
    <3>1. CASE phase' = "share"
      BY <3>1
    <3>2. CASE phase' # "share"
      <4>1. /\ plan' = NewPlan /\ cursor' = cursor + 1 /\ start' = start /\ phase' = "group"
            /\ phase = "top" /\ cursor < Len(NewPlan)
            /\ task' = [k \in 1 .. NextGroup.size |-> Waiting]
            /\ Width(NextGroup) = NextGroup.size
        BY <2>4, <3>2 DEF StartMany, AtLoopTop, Width
      <4>2. Width(NextGroup) \in Nat \ {0}
        BY <4>1, BeginFacts
      <4>3. Len(task') = Width(NextGroup)
        BY <4>1, <4>2
      <4> QED
        BY <2>b, <2>4, <4>1, <4>2, <4>3, BeginningSteps DEF Taken
    <3> QED
      BY <3>1, <3>2
  <2>5. ASSUME StartFan PROVE AlignInv'
    <3>1. /\ plan' = NewPlan /\ cursor' = cursor + 1 /\ start' = start
          /\ phase = "top" /\ cursor < Len(NewPlan) /\ NextGroup.kind = "fan"
          /\ Width(NextGroup) = 1
      BY <2>5 DEF StartFan, AtLoopTop, Width
    <3>2. CASE phase' = "share"
      BY <3>2
    <3>3. CASE phase' = "group" /\ task' = <<>> /\ Marks(NewSteps, steps', {})
      <4>1. Len(task') = 0
        BY <3>3
      <4> QED
        BY <2>b, <3>1, <3>3, <4>1 DEF Taken
    <3>4. ASSUME NEW n \in 1 .. MaxItems, steps' = Splice(n), phase' = "group",
                 task' = [k \in 1 .. n |-> Waiting]
          PROVE  Laid(steps', plan', Base', cursor')
      <4>1. n \in Nat \ {0} /\ Len(task') = n
        BY <3>4
      <4>2. start \in Nat /\ start + 1 <= Len(NewSteps) /\ Laid(NewSteps, NewPlan, start, cursor)
            /\ NewSteps \in Seq(StepRec) /\ NewPlan \in Seq(Group)
        BY <3>1, BeginFacts
      <4>3. /\ Splice(n) \in Seq(StepRec) /\ Len(Splice(n)) = Len(NewSteps) + n - 1
            /\ \A i \in start + 2 .. Len(NewSteps) : Splice(n)[i + n - 1] = NewSteps[i]
        BY <4>1, <4>2, SplicedFacts
      <4>4. NewPlan[cursor + 1].kind = "fan"
        BY <3>1 DEF NextGroup
      <4> DEFINE ss == NewSteps  pl == NewPlan  tt == Splice(n)
      <4> HIDE DEF ss, pl, tt
      <4>5. Laid(tt, pl, start + n, cursor + 1)
        BY <3>1, <4>1, <4>2, <4>3, <4>4, LaidSplice DEF ss, pl, tt
      <4> QED
        BY <3>1, <3>4, <4>1, <4>5 DEF Taken, Base, pl, tt
    <3> QED
      BY <2>5, <3>2, <3>3, <3>4, FanSteps
  <2>6. ASSUME NEW k \in Tasks, StartTask(k) PROVE AlignInv'
    <3>1. plan' = plan /\ cursor' = cursor
      BY <2>6 DEF StartTask
    <3>2. start' = start /\ phase = "group" /\ phase' = phase /\ Len(task') = Len(task)
      BY <2>6, TaskSteps DEF Tasks, TaskOK
    <3>3. Marks(steps, steps', Own)
      BY <2>6, MarkingSteps
    <3> QED
      BY <2>m, <3>1, <3>2, <3>3 DEF Taken
  <2>7. ASSUME NEW k \in Tasks, RefuseTask(k) PROVE AlignInv'
    <3>1. plan' = plan /\ cursor' = cursor
      BY <2>7 DEF RefuseTask
    <3>2. start' = start /\ phase = "group" /\ phase' = phase /\ Len(task') = Len(task)
      BY <2>7, TaskSteps DEF Tasks, TaskOK
    <3>3. Marks(steps, steps', Own)
      BY <2>7, MarkingSteps
    <3> QED
      BY <2>m, <3>1, <3>2, <3>3 DEF Taken
  <2>8. ASSUME NEW k \in Tasks, Retry(k) PROVE AlignInv'
    <3>1. plan' = plan /\ cursor' = cursor
      BY <2>8 DEF Retry
    <3>2. start' = start /\ phase = "group" /\ phase' = phase /\ Len(task') = Len(task)
      BY <2>8, TaskSteps DEF Tasks, TaskOK
    <3>3. Marks(steps, steps', Own)
      <4>1. steps' = steps
        BY <2>8 DEF Retry
      <4> QED
        BY <4>1, MarksFacts DEF StepsOK
    <3> QED
      BY <2>m, <3>1, <3>2, <3>3 DEF Taken
  <2>9. ASSUME NEW k \in Tasks, FinishTask(k) PROVE AlignInv'
    <3>1. plan' = plan /\ cursor' = cursor
      BY <2>9 DEF FinishTask
    <3>2. start' = start /\ phase = "group" /\ phase' = phase /\ Len(task') = Len(task)
      BY <2>9, TaskSteps DEF Tasks, TaskOK
    <3>3. Marks(steps, steps', Own)
      BY <2>9, MarkingSteps
    <3> QED
      BY <2>m, <3>1, <3>2, <3>3 DEF Taken
  <2>10. ASSUME GroupDone PROVE AlignInv'
    <3>1. /\ plan' = plan /\ cursor' = cursor /\ start' = start + Len(task) /\ phase = "group"
          /\ task # <<>> /\ phase' \in {"top", "share"} /\ steps' = steps
      BY <2>10 DEF GroupDone, report
    <3>2. Len(task) # 0
      BY <3>1, EmptyList DEF TaskOK
    <3> QED
      BY <3>1, <3>2 DEF Taken
  <2>11. ASSUME EmptyFanDone PROVE AlignInv'
    <3>1. /\ plan' = plan /\ cursor' = cursor /\ task = <<>> /\ phase = "group"
          /\ \/ phase' = "top" /\ start' = start + 1 /\ steps' = steps
             \/ phase' = "share"
      BY <2>11 DEF EmptyFanDone, report
    <3>2. Len(task) = 0
      BY <3>1
    <3> QED
      BY <3>1, <3>2 DEF Taken
  <2>12. ASSUME CloseInbox PROVE AlignInv'
    <3>1. phase' \notin {"top", "group"}
      BY <2>12 DEF CloseInbox
    <3> QED
      BY <3>1
  <2>13. ASSUME SweepSteers PROVE AlignInv'
    <3>1. phase' \notin {"top", "group"}
      BY <2>13 DEF SweepSteers
    <3> QED
      BY <3>1
  <2>14. ASSUME PublishResult PROVE AlignInv'
    <3>1. phase' \notin {"top", "group"}
      BY <2>14 DEF PublishResult
    <3> QED
      BY <3>1
  <2>15. ASSUME WriteLastStatus PROVE AlignInv'
    <3>1. phase' \notin {"top", "group"}
      BY <2>15 DEF WriteLastStatus
    <3> QED
      BY <3>1
  <2>16. ASSUME ConsumeStop PROVE AlignInv'
    <3>1. plan' = plan /\ cursor' = cursor /\ start' = start /\ phase' = phase /\ task' = task
      BY <2>16 DEF ConsumeStop, Served
    <3>2. Marks(steps, steps', Own)
      BY <2>16, MarkingSteps
    <3> QED
      BY <2>m, <3>1, <3>2 DEF Taken
  <2>17. ASSUME ConsumeTimeout PROVE AlignInv'
    <3>1. plan' = plan /\ cursor' = cursor /\ start' = start /\ phase' = phase /\ task' = task
      BY <2>17 DEF ConsumeTimeout, Served
    <3>2. Marks(steps, steps', Own)
      BY <2>17, MarkingSteps
    <3> QED
      BY <2>m, <3>1, <3>2 DEF Taken
  <2>18. ASSUME ConsumeInterrupt PROVE AlignInv'
    <3>1. plan' = plan /\ cursor' = cursor /\ start' = start /\ phase' = phase /\ task' = task
      BY <2>18 DEF ConsumeInterrupt, Served
    <3>2. Marks(steps, steps', Own)
      BY <2>18, MarkingSteps
    <3> QED
      BY <2>m, <3>1, <3>2 DEF Taken
  <2>19. ASSUME DeadlinePasses PROVE AlignInv'
    <3>1. plan' = plan /\ cursor' = cursor /\ start' = start /\ phase' = phase /\ task' = task
      BY <2>19 DEF DeadlinePasses, Served
    <3>2. Marks(steps, steps', Own)
      BY <2>19, MarkingSteps
    <3> QED
      BY <2>m, <3>1, <3>2 DEF Taken
  <2>20. ASSUME NEW k \in Tasks, ChildEnds(k) PROVE AlignInv'
    <3>1. plan' = plan /\ cursor' = cursor
      BY <2>20 DEF ChildEnds
    <3>2. start' = start /\ phase = "group" /\ phase' = phase /\ Len(task') = Len(task)
      BY <2>20, TaskSteps DEF Tasks, TaskOK
    <3>3. Marks(steps, steps', Own)
      <4>1. steps' = steps
        BY <2>20 DEF ChildEnds
      <4> QED
        BY <4>1, MarksFacts DEF StepsOK
    <3> QED
      BY <2>m, <3>1, <3>2, <3>3 DEF Taken
  <2>21. ASSUME NEW r \in Steers,
              \/ ConsumeSteer(r) \/ ReadForSteer(r) \/ WriteSteer(r)
              \/ ConfirmSteer(r)
        PROVE  UNCHANGED <<steps, plan, phase, start, task, cursor>>
    BY <2>21 DEF ConsumeSteer, ReadForSteer, WriteSteer, ConfirmSteer, Deliver, Sender
  <2>22. ASSUME NEW i \in capFiles,
              \/ ConsumeCapability(i)
        PROVE  UNCHANGED <<steps, plan, phase, start, task, cursor>>
    BY <2>22 DEF ConsumeCapability
  <2>23. ASSUME NEW a \in acks,
              \/ ConsumeAck(a)
        PROVE  UNCHANGED <<steps, plan, phase, start, task, cursor>>
    BY <2>23 DEF ConsumeAck
  <2>24. ASSUME NEW k \in Tasks,
              \/ TurnsExceeded(k) \/ Overspend(k)
        PROVE  UNCHANGED <<steps, plan, phase, start, task, cursor>>
    BY <2>24 DEF TurnsExceeded, Overspend, Served
  <2>25. ASSUME NEW i \in proc,
              \/ PublishCapability(i)
        PROVE  UNCHANGED <<steps, plan, phase, start, task, cursor>>
    BY <2>25 DEF PublishCapability
  <2>26. ASSUME NEW i \in proc, NEW r \in Steers,
              \/ TakeSteer(i, r) \/ StartTurn(i, r)
        PROVE  UNCHANGED <<steps, plan, phase, start, task, cursor>>
    BY <2>26 DEF TakeSteer, StartTurn
  <2>27. ASSUME NEW c \in {"stop", "timeout", "interrupt"},
              \/ SendControl(c)
        PROVE  UNCHANGED <<steps, plan, phase, start, task, cursor>>
    BY <2>27 DEF SendControl
  <2>28. ASSUME NEW a \in Appends,
              \/ ReadForAppend(a) \/ FileAppend(a) \/ WriteBackStatus(a)
        PROVE  UNCHANGED <<steps, plan, phase, start, task, cursor>>
    BY <2>28 DEF ReadForAppend, FileAppend, WriteBackStatus, Appender
  <2>29. CASE UNCHANGED <<steps, plan, phase, start, task, cursor>>
    BY <2>29 DEF Taken
  <2> QED
    BY <2>1, <2>2, <2>3, <2>4, <2>5, <2>6, <2>7, <2>8, <2>9, <2>10, <2>11, <2>12,
       <2>13, <2>14, <2>15, <2>16, <2>17, <2>18, <2>19, <2>20, <2>21, <2>22, <2>23,
       <2>24, <2>25, <2>26, <2>27, <2>28, <2>29 DEF Next, RunnerStep, TaskStep,
       ServeInbox, ChildStep, ParentStep, vars
<1> QED
  BY <1>1, <1>2

\* Where the runner is in the list of steps.
LEMMA PlaceFacts ==
  ASSUME PlanOK, TaskOK, StepsOK, AlignInv
  PROVE  /\ Len(steps) \in Nat /\ DOMAIN steps = 1 .. Len(steps)
         /\ Len(task) \in Nat /\ Tasks = 1 .. Len(task)
         /\ phase \in {"top", "group"} =>
              /\ start \in Nat /\ Base \in Nat /\ start <= Base /\ Base <= Len(steps)
              /\ phase = "group" =>
                   /\ Base = start + Taken /\ start + Len(task) <= Base
                   /\ \A k \in Tasks : Child(k) \in 1 .. Base
              /\ phase = "top" => Base = start
<1>1. Len(steps) \in Nat /\ DOMAIN steps = 1 .. Len(steps)
  BY DEF StepsOK
<1>2. Len(task) \in Nat /\ Tasks = 1 .. Len(task) /\ start \in Nat
  BY DEF TaskOK, Tasks
<1>3. phase \in {"top", "group"} => Base \in Nat /\ Base <= Len(steps)
  BY LaidBound DEF AlignInv, PlanOK, StepsOK
<1>4. ASSUME phase = "group"
      PROVE  /\ Base = start + Taken /\ start + Len(task) <= Base /\ start <= Base
             /\ \A k \in Tasks : Child(k) \in 1 .. Base
  <2>1. Base = start + Taken /\ Taken \in Nat /\ Len(task) <= Taken
    BY <1>2, <1>4 DEF Base, Taken
  <2> HIDE DEF Base, Taken
  <2> QED
    BY <1>2, <2>1 DEF Child
<1>5. phase = "top" => Base = start
  BY DEF Base
<1> QED
  BY <1>1, <1>2, <1>3, <1>4, <1>5

-----------------------------------------------------------------------------
(* A run that is complete has run every step.                              *)

\* Nothing has gone wrong so far.
Clean == ~err /\ outcomes \subseteq {"ok", "gate"} /\ Quiet(Breaking \cup {"usage"})

\* The results of the tasks that are over are among those of the run.
ResInv == \A k \in Tasks : Done(k) => task[k].res \in outcomes

\* As long as nothing has gone wrong, what was passed is complete, and the
\* loop is left only at the end of the chain.
DoneInv ==
  Clean =>
    /\ \A i \in 1 .. start : steps[i].st = "complete"
    /\ phase = "group" =>
         /\ Len(task) = 0 => steps[start + 1].st = "complete"
         /\ \A k \in Tasks : Done(k) => steps[Child(k)].st = "complete"
    /\ phase \notin {"top", "group"} => cursor = Len(plan) /\ start = Len(steps)

\* A run is complete only at its end, and if nothing has gone wrong.
EndInv == state = "complete" => phase \in Ended /\ Clean

\* What has gone wrong stays: no step clears an error, a result or a flag.
LEMMA CleanStays ==
  ASSUME [Next]_vars
  PROVE  /\ err => err'
         /\ outcomes \subseteq outcomes' /\ flags \subseteq flags'
<1> DEFINE Grows == (err => err') /\ outcomes \subseteq outcomes' /\ flags \subseteq flags'
<1> SUFFICES Grows
  OBVIOUS
<1> USE DEF loop, report, steering, files, children, callers, parents
<1>1. ASSUME UsageExhausted PROVE Grows
  BY <1>1 DEF UsageExhausted, AtLoopTop
<1>2. ASSUME StartMany PROVE Grows
  BY <1>2 DEF StartMany, AtLoopTop
<1>3. ASSUME StartFan PROVE Grows
  BY <1>3 DEF StartFan, AtLoopTop
<1>4. ASSUME NEW k \in Tasks, RefuseTask(k) PROVE Grows
  BY <1>4 DEF RefuseTask
<1>5. ASSUME NEW k \in Tasks, FinishTask(k) PROVE Grows
  BY <1>5 DEF FinishTask
<1>6. ASSUME GroupDone PROVE Grows
    <2>1. UNCHANGED flags /\ outcomes' \in {outcomes, outcomes \cup {"fail"}}
      BY <1>6 DEF GroupDone
    <2>2. err' = err \/ \E b : err' = (err \/ b)
      BY <1>6 DEF GroupDone
    <2>3. err => err'
      BY <2>2, Zenon
    <2> QED
      BY <2>1, <2>3
<1>7. ASSUME EmptyFanDone PROVE Grows
  BY <1>7 DEF EmptyFanDone
<1>8. ASSUME CloseInbox PROVE Grows
  BY <1>8 DEF CloseInbox
<1>9. ASSUME PublishResult PROVE Grows
    <2>1. UNCHANGED <<flags, outcomes>> /\ (err' = err \/ err' = TRUE)
      BY <1>9 DEF PublishResult
    <2>2. err' = err => (err => err')
      OBVIOUS
    <2> QED
      BY <2>1, <2>2
<1>10. ASSUME ConsumeStop PROVE Grows
  BY <1>10 DEF ConsumeStop, StopRunner, Apply, Served
<1>11. ASSUME ConsumeTimeout PROVE Grows
  BY <1>11 DEF ConsumeTimeout, TimeoutRunner, Apply, Served
<1>12. ASSUME ConsumeInterrupt PROVE Grows
  BY <1>12 DEF ConsumeInterrupt, InterruptRunner, Apply, Served
<1>13. ASSUME DeadlinePasses PROVE Grows
  BY <1>13 DEF DeadlinePasses, TimeoutRunner, Apply, Served
<1>14. ASSUME NEW k \in Tasks, TurnsExceeded(k) PROVE Grows
  BY <1>14 DEF TurnsExceeded, Served
<1>15. ASSUME \/ LeaveLoop \/ StartOne \/ SweepSteers \/ WriteLastStatus
      PROVE  UNCHANGED <<err, outcomes, flags>>
  BY <1>15 DEF LeaveLoop, StartOne, SweepSteers, WriteLastStatus, FlushSteers,
       Deliver, AtLoopTop
<1>16. ASSUME NEW k \in Tasks,
            \/ StartTask(k) \/ Retry(k) \/ ChildEnds(k) \/ Overspend(k)
      PROVE  UNCHANGED <<err, outcomes, flags>>
  BY <1>16 DEF StartTask, Retry, ChildEnds, Overspend, FlushSteers, Deliver
<1>17. ASSUME NEW r \in Steers,
            \/ ConsumeSteer(r) \/ ReadForSteer(r) \/ WriteSteer(r)
            \/ ConfirmSteer(r)
      PROVE  UNCHANGED <<err, outcomes, flags>>
  BY <1>17 DEF ConsumeSteer, ReadForSteer, WriteSteer, ConfirmSteer, Deliver, Sender
<1>18. ASSUME NEW i \in capFiles,
            \/ ConsumeCapability(i)
      PROVE  UNCHANGED <<err, outcomes, flags>>
  BY <1>18 DEF ConsumeCapability
<1>19. ASSUME NEW a \in acks,
            \/ ConsumeAck(a)
      PROVE  UNCHANGED <<err, outcomes, flags>>
  BY <1>19 DEF ConsumeAck
<1>20. ASSUME NEW i \in proc,
            \/ PublishCapability(i)
      PROVE  UNCHANGED <<err, outcomes, flags>>
  BY <1>20 DEF PublishCapability
<1>21. ASSUME NEW i \in proc, NEW r \in Steers,
            \/ TakeSteer(i, r) \/ StartTurn(i, r)
      PROVE  UNCHANGED <<err, outcomes, flags>>
  BY <1>21 DEF TakeSteer, StartTurn
<1>22. ASSUME NEW c \in {"stop", "timeout", "interrupt"},
            \/ SendControl(c)
      PROVE  UNCHANGED <<err, outcomes, flags>>
  BY <1>22 DEF SendControl
<1>23. ASSUME NEW a \in Appends,
            \/ ReadForAppend(a) \/ FileAppend(a) \/ WriteBackStatus(a)
      PROVE  UNCHANGED <<err, outcomes, flags>>
  BY <1>23 DEF ReadForAppend, FileAppend, WriteBackStatus, Appender
<1>24. CASE UNCHANGED <<err, outcomes, flags>>
  BY <1>24
<1> QED
  BY <1>1, <1>2, <1>3, <1>4, <1>5, <1>6, <1>7, <1>8, <1>9, <1>10, <1>11, <1>12, <1>13,
     <1>14, <1>15, <1>16, <1>17, <1>18, <1>19, <1>20, <1>21, <1>22, <1>23, <1>24 DEF
     Next, RunnerStep, TaskStep, ServeInbox, ChildStep, ParentStep, vars

\* A run in which nothing has gone wrong after a step was one before it.
LEMMA CleanBefore ==
  ASSUME [Next]_vars, Clean'
  PROVE  Clean
  BY CleanStays DEF Clean, Quiet

\* ResInv holds in every initial state and is kept by every step.
LEMMA ResInvInductive ==
  /\ Init => ResInv
  /\ TaskOK /\ ResInv /\ [Next]_vars => ResInv'
<1> USE DEF ResInv, Tasks, Done
<1>1. Init => ResInv
  BY DEF Init
<1>2. TaskOK /\ ResInv /\ [Next]_vars => ResInv'
  <2> SUFFICES ASSUME TaskOK, ResInv, [Next]_vars PROVE ResInv'
    OBVIOUS
  <2> USE DEF loop, report, steering, files, children, callers, parents
  <2>1. ASSUME UsageExhausted PROVE ResInv'
    <3>1. task' = task /\ outcomes \subseteq outcomes'
      BY <2>1, CleanStays DEF UsageExhausted
    <3> QED
      BY <3>1
  <2>2. ASSUME StartOne PROVE ResInv'
    <3> DEFINE ts == <<Waiting>>
    <3>1. ts \in Seq(TaskRec) /\ DOMAIN ts = {1} /\ StartStep(1, ts, NewSteps)
      BY <2>2, WaitingFacts DEF StartOne
    <3> HIDE DEF ts
    <3>2. DOMAIN task' = {1} /\ task'[1].pc = "child"
      BY <3>1, StartFacts
    <3> QED
      BY <3>2
  <2>3. ASSUME StartMany PROVE ResInv'
    <3>1. outcomes \subseteq outcomes'
      BY <2>3, CleanStays
    <3>2. task' = task \/ task' = [k \in 1 .. NextGroup.size |-> Waiting]
      BY <2>3 DEF StartMany
    <3>3. CASE task' = task
      BY <3>1, <3>3
    <3>4. CASE task' = [k \in 1 .. NextGroup.size |-> Waiting]
      <4> DEFINE D == 1 .. NextGroup.size
      <4>1. DOMAIN task' = D /\ \A k \in D : task'[k] = Waiting
        BY <3>4
      <4> HIDE DEF D
      <4> QED
        BY <4>1, WaitingFacts
    <3> QED
      BY <3>2, <3>3, <3>4
  <2>4. ASSUME StartFan PROVE ResInv'
    <3>1. outcomes \subseteq outcomes'
      BY <2>4, CleanStays
    <3>2. \/ task' = task \/ task' = <<>>
          \/ \E n \in 1 .. MaxItems : task' = [k \in 1 .. n |-> Waiting]
      BY <2>4 DEF StartFan
    <3> QED
      BY <3>1, <3>2 DEF Waiting
  <2>5. ASSUME NEW k \in Tasks, StartTask(k) PROVE ResInv'
    <3>1. outcomes \subseteq outcomes' /\ DOMAIN task' = DOMAIN task
          /\ \A j \in Tasks \ {k} : task'[j] = task[j]
      BY <2>5, TaskSteps, CleanStays
    <3>2. task'[k].pc = "done" => task'[k].res \in outcomes'
      BY <2>5, StartFacts DEF StartTask, TaskOK
    <3> QED
      BY <3>1, <3>2
  <2>6. ASSUME NEW k \in Tasks, RefuseTask(k) PROVE ResInv'
    <3>1. outcomes \subseteq outcomes' /\ DOMAIN task' = DOMAIN task
          /\ \A j \in Tasks \ {k} : task'[j] = task[j]
      BY <2>6, TaskSteps, CleanStays
    <3>2. task'[k].pc = "done" => task'[k].res \in outcomes'
      <4>1. task[k] \in TaskRec
        BY DEF TaskOK
      <4> QED
        BY <2>6, <4>1 DEF RefuseTask, TaskRec
    <3> QED
      BY <3>1, <3>2
  <2>7. ASSUME NEW k \in Tasks, Retry(k) PROVE ResInv'
    <3>1. outcomes \subseteq outcomes' /\ DOMAIN task' = DOMAIN task
          /\ \A j \in Tasks \ {k} : task'[j] = task[j]
      BY <2>7, TaskSteps, CleanStays
    <3>2. task'[k].pc = "done" => task'[k].res \in outcomes'
      <4>1. task[k] \in TaskRec
        BY DEF TaskOK
      <4> QED
        BY <2>7, <4>1 DEF Retry, TaskRec
    <3> QED
      BY <3>1, <3>2
  <2>8. ASSUME NEW k \in Tasks, FinishTask(k) PROVE ResInv'
    <3>1. outcomes \subseteq outcomes' /\ DOMAIN task' = DOMAIN task
          /\ \A j \in Tasks \ {k} : task'[j] = task[j]
      BY <2>8, TaskSteps, CleanStays
    <3>2. task'[k].pc = "done" => task'[k].res \in outcomes'
      <4>1. task[k] \in TaskRec
        BY DEF TaskOK
      <4> QED
        BY <2>8, <4>1 DEF FinishTask, TaskRec
    <3> QED
      BY <3>1, <3>2
  <2>9. ASSUME GroupDone PROVE ResInv'
    <3>1. task' = task /\ outcomes \subseteq outcomes'
      BY <2>9, CleanStays DEF GroupDone
    <3> QED
      BY <3>1
  <2>10. ASSUME EmptyFanDone PROVE ResInv'
    <3>1. task' = task /\ outcomes \subseteq outcomes'
      BY <2>10, CleanStays DEF EmptyFanDone
    <3> QED
      BY <3>1
  <2>11. ASSUME CloseInbox PROVE ResInv'
    <3>1. task' = task /\ outcomes \subseteq outcomes'
      BY <2>11, CleanStays DEF CloseInbox
    <3> QED
      BY <3>1
  <2>12. ASSUME PublishResult PROVE ResInv'
    <3>1. task' = task /\ outcomes \subseteq outcomes'
      BY <2>12, CleanStays DEF PublishResult
    <3> QED
      BY <3>1
  <2>13. ASSUME ConsumeStop PROVE ResInv'
    <3>1. task' = task /\ outcomes \subseteq outcomes'
      BY <2>13, CleanStays DEF ConsumeStop, Served
    <3> QED
      BY <3>1
  <2>14. ASSUME ConsumeTimeout PROVE ResInv'
    <3>1. task' = task /\ outcomes \subseteq outcomes'
      BY <2>14, CleanStays DEF ConsumeTimeout, Served
    <3> QED
      BY <3>1
  <2>15. ASSUME ConsumeInterrupt PROVE ResInv'
    <3>1. task' = task /\ outcomes \subseteq outcomes'
      BY <2>15, CleanStays DEF ConsumeInterrupt, Served
    <3> QED
      BY <3>1
  <2>16. ASSUME DeadlinePasses PROVE ResInv'
    <3>1. task' = task /\ outcomes \subseteq outcomes'
      BY <2>16, CleanStays DEF DeadlinePasses, Served
    <3> QED
      BY <3>1
  <2>17. ASSUME NEW k \in Tasks, ChildEnds(k) PROVE ResInv'
    <3>1. outcomes \subseteq outcomes' /\ DOMAIN task' = DOMAIN task
          /\ \A j \in Tasks \ {k} : task'[j] = task[j]
      BY <2>17, TaskSteps, CleanStays
    <3>2. task'[k].pc = "done" => task'[k].res \in outcomes'
      <4>1. task[k] \in TaskRec
        BY DEF TaskOK
      <4> QED
        BY <2>17, <4>1 DEF ChildEnds, TaskRec
    <3> QED
      BY <3>1, <3>2
  <2>18. ASSUME NEW k \in Tasks, TurnsExceeded(k) PROVE ResInv'
    <3>1. task' = task /\ outcomes \subseteq outcomes'
      BY <2>18, CleanStays DEF TurnsExceeded, Served
    <3> QED
      BY <3>1
  <2>19. ASSUME \/ LeaveLoop \/ SweepSteers \/ WriteLastStatus
        PROVE  UNCHANGED <<task, outcomes>>
    BY <2>19 DEF LeaveLoop, SweepSteers, WriteLastStatus
  <2>20. ASSUME NEW r \in Steers,
              \/ ConsumeSteer(r) \/ ReadForSteer(r) \/ WriteSteer(r)
              \/ ConfirmSteer(r)
        PROVE  UNCHANGED <<task, outcomes>>
    BY <2>20 DEF ConsumeSteer, ReadForSteer, WriteSteer, ConfirmSteer, Deliver, Sender
  <2>21. ASSUME NEW i \in capFiles,
              \/ ConsumeCapability(i)
        PROVE  UNCHANGED <<task, outcomes>>
    BY <2>21 DEF ConsumeCapability
  <2>22. ASSUME NEW a \in acks,
              \/ ConsumeAck(a)
        PROVE  UNCHANGED <<task, outcomes>>
    BY <2>22 DEF ConsumeAck
  <2>23. ASSUME NEW k \in Tasks,
              \/ Overspend(k)
        PROVE  UNCHANGED <<task, outcomes>>
    BY <2>23 DEF Overspend
  <2>24. ASSUME NEW i \in proc,
              \/ PublishCapability(i)
        PROVE  UNCHANGED <<task, outcomes>>
    BY <2>24 DEF PublishCapability
  <2>25. ASSUME NEW i \in proc, NEW r \in Steers,
              \/ TakeSteer(i, r) \/ StartTurn(i, r)
        PROVE  UNCHANGED <<task, outcomes>>
    BY <2>25 DEF TakeSteer, StartTurn
  <2>26. ASSUME NEW c \in {"stop", "timeout", "interrupt"},
              \/ SendControl(c)
        PROVE  UNCHANGED <<task, outcomes>>
    BY <2>26 DEF SendControl
  <2>27. ASSUME NEW a \in Appends,
              \/ ReadForAppend(a) \/ FileAppend(a) \/ WriteBackStatus(a)
        PROVE  UNCHANGED <<task, outcomes>>
    BY <2>27 DEF ReadForAppend, FileAppend, WriteBackStatus, Appender
  <2>28. CASE UNCHANGED <<task, outcomes>>
    BY <2>28
  <2> QED
    BY <2>1, <2>2, <2>3, <2>4, <2>5, <2>6, <2>7, <2>8, <2>9, <2>10, <2>11, <2>12,
       <2>13, <2>14, <2>15, <2>16, <2>17, <2>18, <2>19, <2>20, <2>21, <2>22, <2>23,
       <2>24, <2>25, <2>26, <2>27, <2>28 DEF Next, RunnerStep, TaskStep, ServeInbox,
       ChildStep, ParentStep, vars
<1> QED
  BY <1>1, <1>2

\* DoneInv holds in every initial state and is kept by every step.
LEMMA DoneInvInductive ==
  /\ Init => DoneInv
  /\ PlanOK /\ TaskOK /\ StepsOK /\ AlignInv /\ ResInv /\ DoneInv /\ [Next]_vars => DoneInv'
<1> USE DEF DoneInv, Tasks, Done, Child
<1>1. Init => DoneInv
  BY DEF Init
<1>2. PlanOK /\ TaskOK /\ StepsOK /\ AlignInv /\ ResInv /\ DoneInv /\ [Next]_vars => DoneInv'
  <2> SUFFICES ASSUME PlanOK, TaskOK, StepsOK, AlignInv, ResInv, DoneInv, [Next]_vars PROVE DoneInv'
    OBVIOUS
  <2> USE DEF loop, report, steering, files, children, callers, parents
  <2> SUFFICES ASSUME Clean' PROVE DoneInv'
    OBVIOUS
  <2>c. Clean
    BY CleanBefore
  <2>d. /\ \A i \in 1 .. start : steps[i].st = "complete"
        /\ phase = "group" =>
             /\ Len(task) = 0 => steps[start + 1].st = "complete"
             /\ \A k \in Tasks : task[k].pc = "done" => steps[start + k].st = "complete"
    BY <2>c DEF Child
  <2>s. /\ phase \in {"top", "group"} =>
             start \in Nat /\ start <= Len(steps) /\ Len(steps) \in Nat
        /\ steps \in Seq(StepRec)
    BY PlaceFacts DEF StepsOK
  <2>g. phase = "group" =>
          /\ start + Len(task) <= Len(steps) /\ Len(task) \in Nat /\ Tasks = 1 .. Len(task)
    BY PlaceFacts
  <2>t. NewSteps \in Seq(StepRec)
    BY NewStepsFacts
  <2>1. ASSUME LeaveLoop PROVE DoneInv'
    <3>1. /\ phase = "top" /\ phase' = "share" /\ UNCHANGED <<steps, start, task, cursor, plan>>
          /\ cursor = Len(plan)
      <4>1. Quiet(Breaking)
        BY <2>c DEF Clean, Quiet
      <4> QED
        BY <2>1, <4>1 DEF LeaveLoop
    <3>2. Laid(steps, plan, start, cursor)
      BY <3>1 DEF AlignInv, Base
    <3>3. start = Len(steps)
      BY <3>1, <3>2, LaidBound DEF StepsOK, PlanOK
    <3> QED
      BY <2>c, <3>1, <3>3
  <2>2. ASSUME UsageExhausted PROVE DoneInv'
    <3>1. ~Clean'
      BY <2>2 DEF UsageExhausted, Clean, Quiet
    <3> QED
      BY <3>1
  <2>3. ASSUME StartOne PROVE DoneInv'
    <3>1. /\ phase = "top" /\ cursor < Len(NewPlan) /\ phase' = "group" /\ start' = start
          /\ StartStep(1, <<Waiting>>, NewSteps) /\ steps' = [NewSteps EXCEPT ![start + 1].st = "running"]
      BY <2>3 DEF StartOne, AtLoopTop, StartStep, Child
    <3>2. DOMAIN task' = {1} /\ task'[1].pc = "child" /\ Len(task') = 1
      <4> DEFINE ts == <<Waiting>>
      <4>1. ts \in Seq(TaskRec) /\ DOMAIN ts = {1} /\ StartStep(1, ts, NewSteps)
        BY <3>1, WaitingFacts
      <4> HIDE DEF ts
      <4>2. task' \in Seq(TaskRec) /\ DOMAIN task' = {1} /\ task'[1].pc = "child"
        BY <4>1, StartFacts
      <4> QED
        BY <4>2
    <3>3. \A i \in 1 .. start : steps'[i].st = "complete"
      <4> SUFFICES ASSUME NEW i \in 1 .. start PROVE steps'[i] = steps[i]
        BY <2>d
      <4>1. i \in 1 .. Len(steps) /\ i \in 1 .. Len(NewSteps) /\ i # start + 1
        <5>1. Len(steps) <= Len(NewSteps) /\ Len(NewSteps) \in Nat
          BY <2>t, NewStepsFacts
        <5> QED
          BY <2>s, <3>1, <5>1
      <4>2. steps'[i] = NewSteps[i]
        <5> HIDE DEF NewSteps
        <5> QED
          BY <2>t, <3>1, <4>1, MarkOne DEF Statuses
      <4> QED
        BY <4>1, <4>2, NewStepsFacts
    <3> QED
      BY <3>1, <3>2, <3>3
  <2>4. ASSUME StartMany PROVE DoneInv'
    <3>1. /\ phase = "top" /\ phase' = "group" /\ start' = start /\ steps' = NewSteps
          /\ task' = [k \in 1 .. NextGroup.size |-> Waiting] /\ NextGroup.size \in Nat \ {0}
      <4>1. "fail" \notin outcomes'
        BY DEF Clean
      <4>2. cursor < Len(NewPlan)
        BY <2>4 DEF StartMany, AtLoopTop
      <4>3. NextGroup.size \in Nat \ {0}
        BY <4>2, NewPlanFacts DEF Group
      <4> QED
        BY <2>4, <4>1, <4>3 DEF StartMany, AtLoopTop
    <3>2. \A k \in DOMAIN task' : task'[k].pc = "wait"
      BY <3>1, WaitingFacts
    <3>3. Len(task') # 0
      BY <3>1
    <3>4. \A i \in 1 .. start : steps'[i].st = "complete"
      BY <2>d, <2>s, <3>1, NewStepsFacts
    <3> QED
      BY <3>1, <3>2, <3>3, <3>4
  <2>5. ASSUME StartFan PROVE DoneInv'
    <3>1. /\ phase = "top" /\ cursor < Len(NewPlan) /\ start' = start /\ Width(NextGroup) = 1
          /\ phase' = "group"
          /\ \/ steps' = Placeholder("complete") /\ task' = <<>>
             \/ \E n \in 1 .. MaxItems : steps' = Splice(n) /\ task' = [k \in 1 .. n |-> Waiting]
      <4>1. "fail" \notin outcomes'
        BY DEF Clean
      <4> QED
        BY <2>5, <4>1 DEF StartFan, AtLoopTop, Width
    <3>2. start \in Nat /\ start + 1 <= Len(NewSteps) /\ start + 1 \in 1 .. Len(NewSteps)
      <4>1. start \in Nat /\ start + Width(NextGroup) <= Len(NewSteps)
            /\ NewSteps \in Seq(StepRec)
        BY <3>1, BeginFacts
      <4> QED
        BY <3>1, <4>1
    <3>3. \A i \in 1 .. start : NewSteps[i].st = "complete"
      BY <2>d, <2>s, <3>1, NewStepsFacts
    <3>4. CASE steps' = Placeholder("complete") /\ task' = <<>>
      <4>1. /\ \A i \in 1 .. start : steps'[i] = NewSteps[i]
            /\ steps'[start + 1].st = "complete"
        <5>1. "complete" \in Statuses
          BY DEF Statuses
        <5>2. \A i \in 1 .. start : i \in 1 .. Len(NewSteps) /\ i # start + 1
          BY <3>2
        <5>3. steps' = [NewSteps EXCEPT ![start + 1].st = "complete"]
          BY <3>4 DEF Placeholder
        <5> HIDE DEF NewSteps
        <5> QED
          BY <2>t, <3>2, <5>1, <5>2, <5>3, MarkOne
      <4>2. DOMAIN task' = {}
        BY <3>4
      <4> QED
        BY <3>1, <3>3, <4>1, <4>2
    <3>5. ASSUME NEW n \in 1 .. MaxItems, steps' = Splice(n), task' = [k \in 1 .. n |-> Waiting]
          PROVE  DoneInv'
      <4>1. n \in Nat \ {0} /\ Len(task') # 0 /\ \A k \in DOMAIN task' : task'[k].pc = "wait"
        BY <3>5, WaitingFacts
      <4>2. \A i \in 1 .. start : steps'[i] = NewSteps[i]
        BY <3>2, <3>5, <4>1, SplicedFacts
      <4> QED
        BY <3>1, <3>3, <4>1, <4>2
    <3> QED
      BY <3>1, <3>4, <3>5
  <2>6. ASSUME NEW k \in Tasks, StartTask(k) PROVE DoneInv'
    <3>1. /\ start' = start /\ phase = "group" /\ phase' = "group" /\ Tasks' = Tasks
          /\ \A j \in Tasks \ {k} : task'[j] = task[j]
      BY <2>6, TaskSteps
    <3>2. steps' = [steps EXCEPT ![start + k].st = "running"] /\ task'[k].pc # "done"
      <4>1. StartStep(k, task, steps)
        BY <2>6 DEF StartTask
      <4>2. task'[k].pc = "child"
        BY <4>1, StartFacts DEF TaskOK
      <4> QED
        BY <4>1, <4>2 DEF StartStep, Child
    <3>3. "running" \in Statuses
      BY DEF Statuses
    <3>4. /\ start \in Nat /\ Tasks = 1 .. Len(task) /\ k \in Tasks /\ Len(task) \in Nat
          /\ start + k \in 1 .. Len(steps)
          /\ \A i \in 1 .. start : i \in 1 .. Len(steps) /\ i # start + k
          /\ \A j \in Tasks \ {k} : start + j \in 1 .. Len(steps) /\ start + j # start + k
      BY <2>g, <2>s, <3>1
    <3>5. /\ \A i \in 1 .. Len(steps) : i # start + k => steps'[i] = steps[i]
          /\ steps'[start + k].st = "running"
      BY <2>s, <3>2, <3>3, <3>4, MarkOne
    <3>6. Len(task') # 0
      <4>1. DOMAIN task' = 1 .. Len(task) /\ Len(task) # 0 /\ task' \in Seq(TaskRec)
        BY <2>6, <3>1, <3>4, TaskSteps DEF Tasks
      <4> QED
        BY <3>4, <4>1
    <3>7. \A i \in 1 .. start : steps'[i].st = "complete"
      BY <2>d, <3>4, <3>5
    <3>8. ASSUME NEW j \in Tasks, task'[j].pc = "done" PROVE steps'[start + j].st = "complete"
      <4>1. CASE j = k
        BY <3>2, <3>5, <3>8, <4>1
      <4>2. CASE j # k
        <5>1. task'[j] = task[j] /\ steps'[start + j] = steps[start + j]
          BY <3>1, <3>4, <3>5, <4>2
        <5> QED
          BY <2>d, <3>1, <3>8, <5>1
      <4> QED
        BY <4>1, <4>2
    <3> QED
      BY <3>1, <3>6, <3>7, <3>8
  <2>7. ASSUME NEW k \in Tasks, RefuseTask(k) PROVE DoneInv'
    <3>1. ~Clean'
      <4>1. Refusal \in outcomes' /\ Refusal \notin {"ok", "gate"}
        BY <2>7 DEF RefuseTask, Refusal
      <4> QED
        BY <4>1 DEF Clean
    <3> QED
      BY <3>1
  <2>8. ASSUME NEW k \in Tasks, Retry(k) PROVE DoneInv'
    <3>1. /\ start' = start /\ phase = "group" /\ phase' = "group" /\ Tasks' = Tasks
          /\ \A j \in Tasks \ {k} : task'[j] = task[j]
      BY <2>8, TaskSteps
    <3>2. task'[k].pc # "done"
      <4>1. task[k] \in TaskRec
        BY DEF TaskOK
      <4> QED
        BY <2>8, <4>1 DEF Retry, TaskRec
    <3>3. steps' = steps
      BY <2>8 DEF Retry
    <3>4. Len(task') # 0
      <4>1. /\ DOMAIN task' = 1 .. Len(task) /\ Len(task) # 0 /\ Len(task) \in Nat
            /\ task' \in Seq(TaskRec)
        BY <2>8, <2>g, <3>1, TaskSteps DEF Tasks
      <4> QED
        BY <4>1
    <3> QED
      BY <2>d, <3>1, <3>2, <3>3, <3>4
  <2>9. ASSUME NEW k \in Tasks, FinishTask(k) PROVE DoneInv'
    <3>1. /\ start' = start /\ phase = "group" /\ phase' = "group" /\ Tasks' = Tasks
          /\ \A j \in Tasks \ {k} : task'[j] = task[j]
      BY <2>9, TaskSteps
    <3>2. steps' = [steps EXCEPT ![start + k].st = "complete"]
      <4>1. PICK res : /\ outcomes' = outcomes \cup {res}
                       /\ steps' = [steps EXCEPT ![Child(k)].st = StatusOf(res)]
        BY <2>9 DEF FinishTask
      <4>2. res \in {"ok", "gate"}
        BY <4>1 DEF Clean
      <4>3. StatusOf(res) = "complete"
        BY <4>2 DEF StatusOf
      <4> QED
        BY <4>1, <4>3 DEF Child
    <3>3. "complete" \in Statuses
      BY DEF Statuses
    <3>4. /\ start \in Nat /\ Tasks = 1 .. Len(task) /\ k \in Tasks /\ Len(task) \in Nat
          /\ start + k \in 1 .. Len(steps)
          /\ \A i \in 1 .. start : i \in 1 .. Len(steps) /\ i # start + k
          /\ \A j \in Tasks \ {k} : start + j \in 1 .. Len(steps) /\ start + j # start + k
      BY <2>g, <2>s, <3>1
    <3>5. /\ \A i \in 1 .. Len(steps) : i # start + k => steps'[i] = steps[i]
          /\ steps'[start + k].st = "complete"
      BY <2>s, <3>2, <3>3, <3>4, MarkOne
    <3>6. Len(task') # 0
      <4>1. DOMAIN task' = 1 .. Len(task) /\ Len(task) # 0 /\ task' \in Seq(TaskRec)
        BY <2>9, <3>1, <3>4, TaskSteps DEF Tasks
      <4> QED
        BY <3>4, <4>1
    <3>7. \A i \in 1 .. start : steps'[i].st = "complete"
      BY <2>d, <3>4, <3>5
    <3>8. ASSUME NEW j \in Tasks, task'[j].pc = "done" PROVE steps'[start + j].st = "complete"
      <4>1. CASE j = k
        BY <3>2, <3>5, <3>8, <4>1
      <4>2. CASE j # k
        <5>1. task'[j] = task[j] /\ steps'[start + j] = steps[start + j]
          BY <3>1, <3>4, <3>5, <4>2
        <5> QED
          BY <2>d, <3>1, <3>8, <5>1
      <4> QED
        BY <4>1, <4>2
    <3> QED
      BY <3>1, <3>6, <3>7, <3>8
  <2>10. ASSUME GroupDone PROVE DoneInv'
    <3>1. /\ phase = "group" /\ task # <<>> /\ \A k \in Tasks : Done(k)
          /\ start' = start + Len(task) /\ UNCHANGED <<steps, task, cursor, plan>>
      BY <2>10 DEF GroupDone, report
    <3>2. Len(task) # 0 /\ Tasks = 1 .. Len(task) /\ Len(task) \in Nat
      BY <3>1, EmptyList DEF TaskOK, Tasks
    <3>3. phase' = "top"
      <4> SUFFICES ASSUME phase' # "top" PROVE FALSE
        OBVIOUS
      <4> DEFINE sound == GroupResults \cap (Failed \cup {"gate"}) = {}
      <4>1. ~err' /\ outcomes' \subseteq {"ok", "gate"}
        BY DEF Clean
      <4>2. err' = (err \/ "gate" \in GroupResults \/ sound)
        BY <2>10 DEF GroupDone
      <4>3. ~sound /\ "gate" \notin GroupResults
        <5> HIDE DEF sound
        <5> QED
          BY <4>1, <4>2, Zenon
      <4>4. \E r \in GroupResults : r \in Failed
        BY <4>3
      <4>5. GroupResults \subseteq outcomes /\ outcomes \subseteq outcomes'
        BY <3>1, CleanStays DEF GroupResults, ResInv, Tasks
      <4> QED
        BY <4>1, <4>4, <4>5 DEF Failed
    <3>4. ASSUME NEW i \in 1 .. start + Len(task) PROVE steps[i].st = "complete"
      <4>1. CASE i <= start
        BY <2>d, <2>s, <3>1, <4>1
      <4>2. CASE i > start
        <5>1. i - start \in Tasks /\ start + (i - start) = i
          BY <2>s, <3>1, <3>2, <4>2
        <5> QED
          BY <2>d, <3>1, <5>1
      <4> QED
        BY <2>s, <3>1, <4>1, <4>2
    <3> QED
      BY <3>1, <3>3, <3>4
  <2>11. ASSUME EmptyFanDone PROVE DoneInv'
    <3>1. /\ phase = "group" /\ task = <<>> /\ phase' = "top" /\ start' = start + 1
          /\ steps' = steps
      <4>1. ~err'
        BY DEF Clean
      <4> QED
        BY <2>11, <4>1 DEF EmptyFanDone, report
    <3>2. Len(task) = 0
      BY <3>1
    <3>3. ASSUME NEW i \in 1 .. start + 1 PROVE steps[i].st = "complete"
      <4>1. start \in Nat
        BY <2>s, <3>1
      <4>2. i \in 1 .. start \/ i = start + 1
        BY <4>1
      <4> QED
        BY <2>d, <3>1, <3>2, <4>2
    <3> QED
      BY <3>1, <3>3
  <2>12. ASSUME CloseInbox PROVE DoneInv'
    <3>1. phase = "share" /\ phase' = "closed" /\ UNCHANGED <<steps, start, task, cursor, plan>>
      BY <2>12 DEF CloseInbox
    <3> QED
      BY <2>c, <3>1
  <2>13. ASSUME SweepSteers PROVE DoneInv'
    <3>1. phase = "closed" /\ phase' = "swept" /\ UNCHANGED <<steps, start, task, cursor, plan>>
      BY <2>13 DEF SweepSteers
    <3> QED
      BY <2>c, <3>1
  <2>14. ASSUME PublishResult PROVE DoneInv'
    <3>1. phase = "swept" /\ phase' = "published" /\ UNCHANGED <<steps, start, task, cursor, plan>>
      BY <2>14 DEF PublishResult
    <3> QED
      BY <2>c, <3>1
  <2>15. ASSUME WriteLastStatus PROVE DoneInv'
    <3>1. phase = "published" /\ phase' = "exited" /\ UNCHANGED <<steps, start, task, cursor, plan>>
      BY <2>15 DEF WriteLastStatus
    <3> QED
      BY <2>c, <3>1
  <2>16. ASSUME ConsumeStop PROVE DoneInv'
    <3>1. \/ UNCHANGED <<steps, phase, start, task, cursor, plan>>
          \/ "stopped" \in flags'
      BY <2>16 DEF ConsumeStop, Served, StopRunner, Apply
    <3>2. "stopped" \notin flags'
      BY DEF Clean, Quiet, Breaking, Ending
    <3> QED
      BY <2>c, <3>1, <3>2
  <2>17. ASSUME ConsumeTimeout PROVE DoneInv'
    <3>1. \/ UNCHANGED <<steps, phase, start, task, cursor, plan>>
          \/ "timedOut" \in flags'
      BY <2>17 DEF ConsumeTimeout, Served, TimeoutRunner, Apply
    <3>2. "timedOut" \notin flags'
      BY DEF Clean, Quiet, Breaking, Ending
    <3> QED
      BY <2>c, <3>1, <3>2
  <2>18. ASSUME ConsumeInterrupt PROVE DoneInv'
    <3>1. \/ UNCHANGED <<steps, phase, start, task, cursor, plan>>
          \/ "interrupted" \in flags'
      BY <2>18 DEF ConsumeInterrupt, Served, InterruptRunner, Apply
    <3>2. "interrupted" \notin flags'
      BY DEF Clean, Quiet, Breaking, Ending
    <3> QED
      BY <2>c, <3>1, <3>2
  <2>19. ASSUME DeadlinePasses PROVE DoneInv'
    <3>1. \/ UNCHANGED <<steps, phase, start, task, cursor, plan>>
          \/ "timedOut" \in flags'
      BY <2>19 DEF DeadlinePasses, Served, TimeoutRunner, Apply
    <3>2. "timedOut" \notin flags'
      BY DEF Clean, Quiet, Breaking, Ending
    <3> QED
      BY <2>c, <3>1, <3>2
  <2>20. ASSUME NEW k \in Tasks, ChildEnds(k) PROVE DoneInv'
    <3>1. /\ start' = start /\ phase = "group" /\ phase' = "group" /\ Tasks' = Tasks
          /\ \A j \in Tasks \ {k} : task'[j] = task[j]
      BY <2>20, TaskSteps
    <3>2. task'[k].pc # "done"
      <4>1. task[k] \in TaskRec
        BY DEF TaskOK
      <4> QED
        BY <2>20, <4>1 DEF ChildEnds, TaskRec
    <3>3. steps' = steps
      BY <2>20 DEF ChildEnds
    <3>4. Len(task') # 0
      <4>1. /\ DOMAIN task' = 1 .. Len(task) /\ Len(task) # 0 /\ Len(task) \in Nat
            /\ task' \in Seq(TaskRec)
        BY <2>20, <2>g, <3>1, TaskSteps DEF Tasks
      <4> QED
        BY <4>1
    <3> QED
      BY <2>d, <3>1, <3>2, <3>3, <3>4
  <2>21. ASSUME NEW r \in Steers,
              \/ ConsumeSteer(r) \/ ReadForSteer(r) \/ WriteSteer(r)
              \/ ConfirmSteer(r)
        PROVE  UNCHANGED <<steps, phase, start, task, cursor, plan>>
    BY <2>21 DEF ConsumeSteer, ReadForSteer, WriteSteer, ConfirmSteer, Deliver, Sender
  <2>22. ASSUME NEW i \in capFiles,
              \/ ConsumeCapability(i)
        PROVE  UNCHANGED <<steps, phase, start, task, cursor, plan>>
    BY <2>22 DEF ConsumeCapability
  <2>23. ASSUME NEW a \in acks,
              \/ ConsumeAck(a)
        PROVE  UNCHANGED <<steps, phase, start, task, cursor, plan>>
    BY <2>23 DEF ConsumeAck
  <2>24. ASSUME NEW k \in Tasks,
              \/ TurnsExceeded(k) \/ Overspend(k)
        PROVE  UNCHANGED <<steps, phase, start, task, cursor, plan>>
    BY <2>24 DEF TurnsExceeded, Overspend, Served
  <2>25. ASSUME NEW i \in proc,
              \/ PublishCapability(i)
        PROVE  UNCHANGED <<steps, phase, start, task, cursor, plan>>
    BY <2>25 DEF PublishCapability
  <2>26. ASSUME NEW i \in proc, NEW r \in Steers,
              \/ TakeSteer(i, r) \/ StartTurn(i, r)
        PROVE  UNCHANGED <<steps, phase, start, task, cursor, plan>>
    BY <2>26 DEF TakeSteer, StartTurn
  <2>27. ASSUME NEW c \in {"stop", "timeout", "interrupt"},
              \/ SendControl(c)
        PROVE  UNCHANGED <<steps, phase, start, task, cursor, plan>>
    BY <2>27 DEF SendControl
  <2>28. ASSUME NEW a \in Appends,
              \/ ReadForAppend(a) \/ FileAppend(a) \/ WriteBackStatus(a)
        PROVE  UNCHANGED <<steps, phase, start, task, cursor, plan>>
    BY <2>28 DEF ReadForAppend, FileAppend, WriteBackStatus, Appender
  <2>29. CASE UNCHANGED <<steps, phase, start, task, cursor, plan>>
    BY <2>c, <2>29
  <2> QED
    BY <2>1, <2>2, <2>3, <2>4, <2>5, <2>6, <2>7, <2>8, <2>9, <2>10, <2>11, <2>12,
       <2>13, <2>14, <2>15, <2>16, <2>17, <2>18, <2>19, <2>20, <2>21, <2>22, <2>23,
       <2>24, <2>25, <2>26, <2>27, <2>28, <2>29 DEF Next, RunnerStep, TaskStep,
       ServeInbox, ChildStep, ParentStep, vars
<1> QED
  BY <1>1, <1>2

\* EndInv holds in every initial state and is kept by every step.
LEMMA EndInvInductive ==
  /\ Init => EndInv
  /\ EndInv /\ [Next]_vars => EndInv'
<1> USE DEF EndInv, Ended, Clean, Quiet
<1>1. Init => EndInv
  BY DEF Init
<1>2. EndInv /\ [Next]_vars => EndInv'
  <2> SUFFICES ASSUME EndInv, [Next]_vars PROVE EndInv'
    OBVIOUS
  <2> USE DEF loop, report, steering, files, children, callers, parents
  <2>1. ASSUME LeaveLoop PROVE EndInv'
    BY <2>1 DEF LeaveLoop
  <2>2. ASSUME UsageExhausted PROVE EndInv'
    BY <2>2 DEF UsageExhausted, AtLoopTop
  <2>3. ASSUME StartOne PROVE EndInv'
    BY <2>3 DEF StartOne, AtLoopTop
  <2>4. ASSUME StartMany PROVE EndInv'
    BY <2>4 DEF StartMany, AtLoopTop
  <2>5. ASSUME StartFan PROVE EndInv'
    BY <2>5 DEF StartFan, AtLoopTop
  <2>6. ASSUME NEW k \in Tasks, RefuseTask(k) PROVE EndInv'
    BY <2>6 DEF RefuseTask, Next1
  <2>7. ASSUME NEW k \in Tasks, FinishTask(k) PROVE EndInv'
    BY <2>7 DEF FinishTask
  <2>8. ASSUME GroupDone PROVE EndInv'
    BY <2>8 DEF GroupDone
  <2>9. ASSUME EmptyFanDone PROVE EndInv'
    BY <2>9 DEF EmptyFanDone
  <2>10. ASSUME CloseInbox PROVE EndInv'
    BY <2>10 DEF CloseInbox, FinalState, Late, Breaking, Ending
  <2>11. ASSUME SweepSteers PROVE EndInv'
    BY <2>11 DEF SweepSteers
  <2>12. ASSUME PublishResult PROVE EndInv'
    BY <2>12 DEF PublishResult
  <2>13. ASSUME WriteLastStatus PROVE EndInv'
    BY <2>13 DEF WriteLastStatus
  <2>14. ASSUME ConsumeStop PROVE EndInv'
    BY <2>14 DEF ConsumeStop, StopRunner, Apply, Served, Listening
  <2>15. ASSUME ConsumeTimeout PROVE EndInv'
    BY <2>15 DEF ConsumeTimeout, TimeoutRunner, Apply, Served, Listening
  <2>16. ASSUME ConsumeInterrupt PROVE EndInv'
    BY <2>16 DEF ConsumeInterrupt, InterruptRunner, Apply, Served, Listening
  <2>17. ASSUME DeadlinePasses PROVE EndInv'
    BY <2>17 DEF DeadlinePasses, TimeoutRunner, Apply, Served, Listening
  <2>18. ASSUME NEW k \in Tasks, TurnsExceeded(k) PROVE EndInv'
    BY <2>18 DEF TurnsExceeded, Served
  <2>19. ASSUME NEW k \in Tasks,
              \/ StartTask(k) \/ Retry(k) \/ ChildEnds(k) \/ Overspend(k)
        PROVE  UNCHANGED <<state, phase, err, outcomes, flags>>
    BY <2>19 DEF StartTask, Retry, ChildEnds, Overspend
  <2>20. ASSUME NEW r \in Steers,
              \/ ConsumeSteer(r) \/ ReadForSteer(r) \/ WriteSteer(r)
              \/ ConfirmSteer(r)
        PROVE  UNCHANGED <<state, phase, err, outcomes, flags>>
    BY <2>20 DEF ConsumeSteer, ReadForSteer, WriteSteer, ConfirmSteer, Sender
  <2>21. ASSUME NEW i \in capFiles,
              \/ ConsumeCapability(i)
        PROVE  UNCHANGED <<state, phase, err, outcomes, flags>>
    BY <2>21 DEF ConsumeCapability
  <2>22. ASSUME NEW a \in acks,
              \/ ConsumeAck(a)
        PROVE  UNCHANGED <<state, phase, err, outcomes, flags>>
    BY <2>22 DEF ConsumeAck
  <2>23. ASSUME NEW i \in proc,
              \/ PublishCapability(i)
        PROVE  UNCHANGED <<state, phase, err, outcomes, flags>>
    BY <2>23 DEF PublishCapability
  <2>24. ASSUME NEW i \in proc, NEW r \in Steers,
              \/ TakeSteer(i, r) \/ StartTurn(i, r)
        PROVE  UNCHANGED <<state, phase, err, outcomes, flags>>
    BY <2>24 DEF TakeSteer, StartTurn
  <2>25. ASSUME NEW c \in {"stop", "timeout", "interrupt"},
              \/ SendControl(c)
        PROVE  UNCHANGED <<state, phase, err, outcomes, flags>>
    BY <2>25 DEF SendControl
  <2>26. ASSUME NEW a \in Appends,
              \/ ReadForAppend(a) \/ FileAppend(a) \/ WriteBackStatus(a)
        PROVE  UNCHANGED <<state, phase, err, outcomes, flags>>
    BY <2>26 DEF ReadForAppend, FileAppend, WriteBackStatus, Appender
  <2>27. CASE UNCHANGED <<state, phase, err, outcomes, flags>>
    BY <2>27
  <2> QED
    BY <2>1, <2>2, <2>3, <2>4, <2>5, <2>6, <2>7, <2>8, <2>9, <2>10, <2>11, <2>12,
       <2>13, <2>14, <2>15, <2>16, <2>17, <2>18, <2>19, <2>20, <2>21, <2>22, <2>23,
       <2>24, <2>25, <2>26, <2>27 DEF Next, RunnerStep, TaskStep, ServeInbox,
       ChildStep, ParentStep, vars
<1> QED
  BY <1>1, <1>2

\* A run that says it is complete has run its whole chain: each of its groups was
\* begun, and each step of the list is complete, those included that were
\* appended to the chain or took the place of a dynamic group's placeholder.
THEOREM CompleteRuns ==
  ASSUME PlanAssumption, BoundsAssumption
  PROVE  Spec => []CompleteRunRanEverything
<1> DEFINE Inv == PlanOK /\ TaskOK /\ StepsOK /\ AlignInv /\ ResInv /\ DoneInv /\ EndInv
<1>1. Init => Inv
  BY PlanOKInductive, TaskOKInductive, StepsOKInductive, AlignInvInductive, ResInvInductive,
     DoneInvInductive, EndInvInductive
<1>2. Inv /\ [Next]_vars => Inv'
  BY PlanOKInductive, TaskOKInductive, StepsOKInductive, AlignInvInductive, ResInvInductive,
     DoneInvInductive, EndInvInductive
<1>3. Inv => CompleteRunRanEverything
  <2> SUFFICES ASSUME StepsOK, DoneInv, EndInv, phase = "exited", state = "complete"
               PROVE  cursor = Len(plan) /\ \A i \in DOMAIN steps : steps[i].st = "complete"
    BY DEF CompleteRunRanEverything
  <2>1. DOMAIN steps = 1 .. Len(steps)
    BY DEF StepsOK
  <2> QED
    BY <2>1 DEF DoneInv, EndInv
<1> QED
  BY <1>1, <1>2, <1>3, PTL DEF Spec

-----------------------------------------------------------------------------
(* Places that are settled.                                                *)

\* What is settled in the list ss stays where it is in the list tt, and settled.
Keeps(ss, tt) ==
  \A i \in DOMAIN ss : Settled(ss, i) =>
    i \in DOMAIN tt /\ tt[i].id = ss[i].id /\ Settled(tt, i)

LEMMA KeepsFacts ==
  /\ \A ss : Keeps(ss, ss)
  /\ \A ss, tt, uu : Keeps(ss, tt) /\ Keeps(tt, uu) => Keeps(ss, uu)
  /\ \A ss : \A i, j \in Nat : Settled(ss, i) /\ j <= i => Settled(ss, j)
  BY DEF Keeps, Settled

\* Marked steps stay settled.
LEMMA MarksKeep ==
  ASSUME NEW ss \in Seq(StepRec), NEW tt, NEW R, Marks(ss, tt, R)
  PROVE  Keeps(ss, tt)
<1>1. DOMAIN ss = 1 .. Len(ss) /\ DOMAIN tt = 1 .. Len(ss) /\ Len(ss) \in Nat
  BY DEF Marks
<1>2. \A i \in 1 .. Len(ss) : tt[i].id = ss[i].id /\ (tt[i] = ss[i] \/ tt[i].st # "pending")
  BY DEF Marks
<1>3. ASSUME NEW i \in 1 .. Len(ss), Settled(ss, i) PROVE Settled(tt, i)
  <2>1. \A j \in 1 .. i : j \in 1 .. Len(ss)
    BY <1>1
  <2> QED
    BY <1>2, <1>3, <2>1 DEF Settled
<1> QED
  BY <1>1, <1>2, <1>3 DEF Keeps

\* The steps beyond the current group are pending, unless the loop will end.
Waits(ss, b) == \A i \in DOMAIN ss : i > b => ss[i].st = "pending"
TailInv == phase \in {"top", "group"} /\ Quiet(Breaking) => Waits(steps, Base)

\* No placeholder that waits is behind what was begun, or a step that runs.
SetInv == phase \in {"top", "group"} => Settled(steps, Base)
RunInv == \A i \in Running(steps) : Settled(steps, i)

\* Appended steps leave what is settled, and what runs, where it is.
LEMMA NewStepsKeep ==
  ASSUME PlanOK, StepsOK
  PROVE  /\ Keeps(steps, NewSteps)
         /\ \A i \in DOMAIN NewSteps : i > Len(steps) => NewSteps[i].st = "pending"
         /\ \A i \in DOMAIN NewSteps : i \in DOMAIN steps \/ i > Len(steps)
         /\ \A i \in DOMAIN steps : i \in DOMAIN NewSteps /\ NewSteps[i] = steps[i]
         /\ DOMAIN steps = 1 .. Len(steps) /\ DOMAIN NewSteps = 1 .. Len(NewSteps)
<1> DEFINE ss == NewSteps
<1>1. /\ ss \in Seq(StepRec) /\ Len(steps) <= Len(ss)
      /\ \A i \in 1 .. Len(steps) : ss[i] = steps[i]
      /\ \A i \in 1 .. Len(ss) : i > Len(steps) => ss[i].st = "pending"
  BY NewStepsFacts
<1>2. steps \in Seq(StepRec)
  BY DEF StepsOK
<1> HIDE DEF ss
<1>3. DOMAIN steps = 1 .. Len(steps) /\ DOMAIN ss = 1 .. Len(ss) /\ Len(steps) \in Nat /\ Len(ss) \in Nat
  BY <1>1, <1>2
<1>4. /\ \A i \in DOMAIN steps : i \in DOMAIN ss /\ ss[i] = steps[i]
      /\ \A i \in DOMAIN ss : i \in DOMAIN steps \/ i > Len(steps)
  BY <1>1, <1>3
<1>5. ASSUME NEW i \in DOMAIN steps, Settled(steps, i) PROVE Settled(ss, i)
  <2>1. \A j \in 1 .. i : j \in DOMAIN steps
    BY <1>3
  <2> QED
    BY <1>4, <1>5, <2>1 DEF Settled
<1> QED
  BY <1>1, <1>3, <1>4, <1>5 DEF Keeps, ss

\* At the top of the loop nothing beyond what was passed has begun.
LEMMA TopFacts ==
  ASSUME PlanOK, TaskOK, StepsOK, AlignInv, TailInv, SetInv, AtLoopTop
  PROVE  /\ phase = "top" /\ cursor < Len(NewPlan) /\ Quiet(Breaking)
         /\ Waits(NewSteps, start) /\ Settled(NewSteps, start)
         /\ start \in Nat /\ start <= Len(NewSteps) /\ start <= Len(steps)
<1>1. phase = "top" /\ cursor < Len(NewPlan) /\ Quiet(Breaking)
  BY DEF AtLoopTop
<1>2. /\ start \in Nat /\ start <= Len(steps) /\ Base = start /\ Len(steps) \in Nat
      /\ DOMAIN steps = 1 .. Len(steps)
  BY <1>1, PlaceFacts
<1>3. Waits(steps, start) /\ Settled(steps, start)
  BY <1>1, <1>2 DEF TailInv, SetInv
<1>4. Waits(NewSteps, start)
  BY <1>3, NewStepsKeep DEF Waits
<1>5. Settled(NewSteps, start)
  <2>1. \A j \in 1 .. start : j \in DOMAIN steps
    BY <1>2
  <2> QED
    BY <1>3, <2>1, NewStepsKeep DEF Settled
<1>6. start <= Len(NewSteps)
  <2>1. Len(steps) <= Len(NewSteps) /\ Len(NewSteps) \in Nat
    BY NewStepsFacts
  <2> QED
    BY <1>2, <2>1
<1> QED
  BY <1>1, <1>2, <1>4, <1>5, <1>6

\* What a group that begins does to the list: what was passed stays, the steps
\* of the group are no waiting placeholders, and what follows waits.
LEMMA GroupBegins ==
  ASSUME PlanOK, TaskOK, StepsOK, AlignInv, TailInv, SetInv,
         StartOne \/ StartMany \/ StartFan, phase' = "group"
  PROVE  /\ Base' \in Nat /\ start <= Base'
         /\ \A i \in 1 .. start : i \in DOMAIN steps /\ steps'[i] = steps[i]
         /\ \A i \in start + 1 .. Base' : steps'[i].id[2] # 0 \/ steps'[i].st # "pending"
         /\ Waits(steps', Base')
<1>1. AtLoopTop
  BY DEF StartOne, StartMany, StartFan
<1>2. /\ phase = "top" /\ cursor < Len(NewPlan) /\ start \in Nat
      /\ start <= Len(NewSteps) /\ start <= Len(steps)
      /\ \A i \in DOMAIN NewSteps : i > start => NewSteps[i].st = "pending"
  BY <1>1, TopFacts DEF Waits
<1>3. /\ NewSteps \in Seq(StepRec) /\ Width(NextGroup) \in Nat \ {0}
      /\ start + Width(NextGroup) <= Len(NewSteps)
      /\ \A k \in 1 .. Width(NextGroup) :
           NewSteps[start + k].id = StepId(NextGroup, cursor + 1, k)
  BY <1>2, BeginFacts
<1>4. /\ DOMAIN NewSteps = 1 .. Len(NewSteps) /\ DOMAIN steps = 1 .. Len(steps)
      /\ Len(NewSteps) \in Nat /\ Len(steps) \in Nat
      /\ \A i \in 1 .. Len(steps) : NewSteps[i] = steps[i]
  BY <1>3, NewStepsKeep, PlaceFacts
<1>5. start' = start
  BY DEF StartOne, StartMany, StartFan
<1>6. CASE StartOne
  <2>1. Base' = start + 1 /\ Width(NextGroup) = 1 /\ NextGroup.kind = "one"
    <3> DEFINE ts == <<Waiting>>
    <3>1. ts \in Seq(TaskRec) /\ DOMAIN ts = {1} /\ StartStep(1, ts, NewSteps)
      BY <1>6, WaitingFacts DEF StartOne
    <3> HIDE DEF ts
    <3>2. task' \in Seq(TaskRec) /\ DOMAIN task' = {1}
      BY <3>1, StartFacts
    <3>3. Len(task') = 1
      BY <3>2
    <3> QED
      BY <1>5, <1>6, <3>3 DEF Base, Taken, StartOne, Width
  <2>2. Marks(NewSteps, steps', {start + 1})
    BY <1>6, BeginningSteps
  <2>3. steps' = [NewSteps EXCEPT ![start + 1].st = "running"]
    BY <1>6 DEF StartOne, StartStep, Child
  <2> DEFINE ss == NewSteps  b == start + 1
  <2>4. /\ \A i \in 1 .. Len(ss) : i # b => steps'[i] = ss[i]
        /\ steps'[b].st = "running"
    <3>1. b \in 1 .. Len(ss) /\ "running" \in Statuses
      BY <1>2, <1>3, <1>4, <2>1 DEF Statuses
    <3> HIDE DEF ss, b
    <3> QED
      BY <1>3, <2>3, <3>1, MarkOne DEF ss, b
  <2>5. DOMAIN steps' = 1 .. Len(ss)
    BY <1>3, <2>2, MarksFacts
  <2> HIDE DEF ss
  <2>6. \A i \in 1 .. start : i \in DOMAIN steps /\ steps'[i] = steps[i]
    BY <1>2, <1>4, <2>4 DEF ss
  <2>7. \A i \in DOMAIN steps' : i > b => steps'[i].st = "pending"
    BY <1>2, <1>4, <2>4, <2>5 DEF ss
  <2> QED
    BY <1>2, <2>1, <2>4, <2>6, <2>7 DEF Waits
<1>7. CASE StartMany
  <2>1. /\ steps' = NewSteps /\ NextGroup.kind = "many" /\ Width(NextGroup) = NextGroup.size
        /\ task' = [k \in 1 .. NextGroup.size |-> Waiting]
    BY <1>7 DEF StartMany, Width
  <2>2. Base' = start + Width(NextGroup)
    <3>1. Len(task') = Width(NextGroup)
      BY <1>3, <2>1
    <3> QED
      BY <1>3, <1>5, <3>1 DEF Base, Taken
  <2> DEFINE w == Width(NextGroup)
  <2>3. ASSUME NEW i \in start + 1 .. start + w PROVE NewSteps[i].id[2] # 0
    <3>1. i - start \in 1 .. w /\ start + (i - start) = i
      BY <1>2, <1>3
    <3>2. NewSteps[i].id = <<cursor + 1, i - start>>
      BY <1>3, <2>1, <3>1 DEF StepId
    <3>3. NewSteps[i].id[2] = i - start
      BY <3>2
    <3> QED
      BY <3>1, <3>3
  <2>4. \A i \in DOMAIN NewSteps : i > start + w => NewSteps[i].st = "pending"
    BY <1>2, <1>3, <1>4
  <2> QED
    BY <1>2, <1>3, <1>4, <2>1, <2>2, <2>3, <2>4 DEF Waits
<1>8. CASE StartFan
  <2>1. Width(NextGroup) = 1
    BY <1>8 DEF StartFan, Width
  <2>2. CASE \E st \in {"complete", "failed"} : steps' = Placeholder(st) /\ task' = <<>>
    <3>1. PICK st \in {"complete", "failed"} : steps' = Placeholder(st) /\ task' = <<>>
      BY <2>2
    <3>2. Base' = start + 1
      <4>1. Len(task') = 0
        BY <3>1
      <4> QED
        BY <1>5, <4>1 DEF Base, Taken
    <3> DEFINE ss == NewSteps  b == start + 1
    <3>3. /\ \A i \in 1 .. Len(ss) : i # b => steps'[i] = ss[i]
          /\ steps'[b].st = st /\ Marks(ss, steps', {})
      <4>1. b \in 1 .. Len(ss) /\ st \in Statuses /\ st # "pending" /\ st # "running"
        BY <1>2, <1>3, <1>4, <2>1 DEF Statuses
      <4>2. steps' = [ss EXCEPT ![b].st = st]
        BY <3>1 DEF Placeholder
      <4>3. ss \in Seq(StepRec)
        BY <1>3
      <4> HIDE DEF ss, b
      <4> DEFINE tt == [ss EXCEPT ![b].st = st]
      <4>4. /\ Marks(ss, tt, {}) /\ tt[b].st = st
            /\ \A i \in 1 .. Len(ss) : i # b => tt[i] = ss[i]
        BY <4>1, <4>3, MarkOne
      <4> HIDE DEF tt
      <4>5. steps' = tt
        BY <4>2 DEF tt
      <4> QED
        BY <4>4, <4>5
    <3>4. DOMAIN steps' = 1 .. Len(ss)
      BY <1>3, <3>3, MarksFacts
    <3> HIDE DEF ss
    <3>5. \A i \in 1 .. start : i \in DOMAIN steps /\ steps'[i] = steps[i]
      BY <1>2, <1>4, <3>3 DEF ss
    <3>6. \A i \in DOMAIN steps' : i > b => steps'[i].st = "pending"
      BY <1>2, <1>4, <3>3, <3>4 DEF ss
    <3> QED
      BY <1>2, <3>2, <3>3, <3>5, <3>6 DEF Waits
  <2>3. ASSUME NEW n \in 1 .. MaxItems, steps' = Splice(n), task' = [k \in 1 .. n |-> Waiting]
        PROVE  /\ Base' = start + n /\ n \in Nat
               /\ \A i \in 1 .. start : i \in DOMAIN steps /\ steps'[i] = steps[i]
               /\ \A i \in start + 1 .. start + n : steps'[i].id[2] # 0
               /\ Waits(steps', start + n)
    <3>1. n \in Nat \ {0} /\ Base' = start + n
      <4>1. n \in Nat \ {0} /\ Len(task') = n
        BY <2>3
      <4> QED
        BY <1>5, <4>1 DEF Base, Taken
    <3> DEFINE ss == NewSteps  tt == Splice(n)  m == Len(ss)
    <3>2. /\ tt \in Seq(StepRec) /\ Len(tt) = m + n - 1
          /\ \A i \in 1 .. start : tt[i] = ss[i]
          /\ \A k \in 1 .. n : tt[start + k] = [id |-> <<cursor + 1, k>>, st |-> "pending"]
          /\ \A i \in start + 2 .. m : tt[i + n - 1] = ss[i]
      BY <1>2, <1>3, <2>1, <3>1, SplicedFacts
    <3>3. m \in Nat /\ start + 1 <= m /\ \A i \in 1 .. m : i > start => ss[i].st = "pending"
      BY <1>2, <1>3, <1>4, <2>1
    <3>4. tt = steps' /\ \A i \in 1 .. start : i \in DOMAIN steps /\ ss[i] = steps[i]
      BY <1>2, <1>4, <2>3
    <3> HIDE DEF ss, tt, m
    <3>5. DOMAIN tt = 1 .. m + n - 1
      BY <3>1, <3>2, <3>3
    <3>6. ASSUME NEW i \in start + 1 .. start + n PROVE tt[i].id[2] # 0
      <4> DEFINE k == i - start
      <4>1. k \in 1 .. n /\ start + k = i
        BY <1>2, <3>1
      <4> HIDE DEF k
      <4>2. tt[i] = [id |-> <<cursor + 1, k>>, st |-> "pending"]
        BY <3>2, <4>1
      <4>3. tt[i].id[2] = k
        BY <4>2
      <4> QED
        BY <4>1, <4>3
    <3>7. ASSUME NEW i \in DOMAIN tt, i > start + n PROVE tt[i].st = "pending"
      <4> DEFINE j == i - n + 1
      <4>1. j \in start + 2 .. m /\ j + n - 1 = i /\ j \in 1 .. m /\ j > start
        <5>1. start \in Nat /\ n \in Nat \ {0} /\ m \in Nat /\ i \in 1 .. m + n - 1
          BY <1>2, <3>1, <3>3, <3>5, <3>7
        <5> QED
          BY <3>7, <5>1
      <4> HIDE DEF j
      <4> QED
        BY <3>2, <3>3, <4>1
    <3> QED
      BY <3>1, <3>2, <3>4, <3>6, <3>7 DEF Waits
  <2>4. \/ \E st \in {"complete", "failed"} : steps' = Placeholder(st) /\ task' = <<>>
        \/ \E n \in 1 .. MaxItems : steps' = Splice(n) /\ task' = [k \in 1 .. n |-> Waiting]
    BY <1>8 DEF StartFan
  <2>5. ASSUME NEW n \in 1 .. MaxItems, steps' = Splice(n), task' = [k \in 1 .. n |-> Waiting]
        PROVE  /\ Base' \in Nat /\ start <= Base'
    BY <1>2, <2>3, <2>5
  <2> QED
    BY <2>2, <2>3, <2>4, <2>5
<1> QED
  BY <1>6, <1>7, <1>8

\* Whatever the next step does, what is settled stays where it is.
LEMMA StepsKept ==
  ASSUME PlanOK, TaskOK, StepsOK, AlignInv, TailInv, SetInv, [Next]_vars
  PROVE  Keeps(steps, steps')
<1> USE DEF loop, report, steering, files, children, callers, parents
<1>a. steps \in Seq(StepRec) /\ NewSteps \in Seq(StepRec) /\ Keeps(steps, NewSteps)
  BY NewStepsFacts, NewStepsKeep DEF StepsOK
<1>b. ASSUME NEW R, Marks(NewSteps, steps', R) PROVE Keeps(steps, steps')
  <2> DEFINE ss == NewSteps
  <2> HIDE DEF ss
  <2>1. Keeps(ss, steps')
    BY <1>a, <1>b, MarksKeep DEF ss
  <2> QED
    BY <1>a, <2>1, KeepsFacts DEF ss
<1>u. UNCHANGED steps => Keeps(steps, steps')
  BY KeepsFacts
<1>1. ASSUME UsageExhausted PROVE Keeps(steps, steps')
    BY <1>1, <1>b, BeginningSteps
<1>2. ASSUME StartOne PROVE Keeps(steps, steps')
    BY <1>2, <1>b, BeginningSteps
<1>3. ASSUME StartMany PROVE Keeps(steps, steps')
    BY <1>3, <1>b, BeginningSteps
<1>4. ASSUME StartFan PROVE Keeps(steps, steps')
    <2>1. CASE \E R : Marks(NewSteps, steps', R)
      BY <1>b, <2>1
    <2>2. CASE phase' = "group" /\ \E n \in 1 .. MaxItems : steps' = Splice(n)
      <3>1. /\ phase = "top" /\ start \in Nat /\ start <= Len(steps) /\ cursor < Len(NewPlan)
            /\ \A i \in DOMAIN NewSteps : i > start => NewSteps[i].st = "pending"
        BY <1>4, TopFacts DEF StartFan, Waits
      <3>2. \A i \in 1 .. start : i \in DOMAIN steps /\ steps'[i] = steps[i]
        BY <1>4, <2>2, GroupBegins
      <3>3. /\ start + 1 <= Len(NewSteps)
            /\ NewSteps[start + 1].id[2] = 0
        <4>1. /\ start + Width(NextGroup) <= Len(NewSteps) /\ Width(NextGroup) = 1
              /\ NewSteps[start + 1].id = StepId(NextGroup, cursor + 1, 1)
              /\ NextGroup.kind = "fan"
          <5>1. NextGroup.kind = "fan" /\ Width(NextGroup) = 1
            BY <1>4 DEF StartFan, Width
          <5> QED
            BY <3>1, <5>1, BeginFacts
        <4>2. NewSteps[start + 1].id = <<cursor + 1, 0>>
          BY <4>1 DEF StepId
        <4> QED
          BY <4>1, <4>2
      <3>4. PICK n \in 1 .. MaxItems : steps' = Splice(n)
        BY <2>2
      <3>5. steps' \in Seq(StepRec) /\ Len(steps') = Len(NewSteps) + n - 1
        <4>1. n \in Nat \ {0}
          OBVIOUS
        <4>2. Splice(n) \in Seq(StepRec) /\ Len(Splice(n)) = Len(NewSteps) + n - 1
          BY <3>1, <3>3, <4>1, SplicedFacts
        <4> QED
          BY <3>4, <4>2
      <3>6. ASSUME NEW i \in DOMAIN steps, Settled(steps, i)
            PROVE  i \in DOMAIN steps' /\ steps'[i].id = steps[i].id /\ Settled(steps', i)
        <4>1. /\ DOMAIN steps = 1 .. Len(steps) /\ Len(steps) \in Nat
              /\ \A j \in DOMAIN steps : j \in DOMAIN NewSteps /\ NewSteps[j] = steps[j]
              /\ DOMAIN NewSteps = 1 .. Len(NewSteps) /\ Len(NewSteps) \in Nat
          BY <1>a, NewStepsKeep
        <4>2. i <= start
          <5> SUFFICES ASSUME i > start PROVE FALSE
            BY <3>1, <4>1
          <5>1. start + 1 \in 1 .. i /\ start + 1 \in DOMAIN steps /\ start + 1 > start
            BY <3>1, <4>1
          <5>2. steps[start + 1].id[2] # 0 \/ steps[start + 1].st # "pending"
            BY <3>6, <5>1 DEF Settled
          <5>3. NewSteps[start + 1] = steps[start + 1] /\ start + 1 \in DOMAIN NewSteps
            BY <4>1, <5>1
          <5> QED
            BY <3>1, <3>3, <5>1, <5>2, <5>3
        <4>3. \A j \in 1 .. i : j \in 1 .. start
          BY <3>1, <4>1, <4>2
        <4>4. Settled(steps', i)
          BY <3>2, <3>6, <4>3 DEF Settled
        <4>5. i \in 1 .. start /\ i \in 1 .. Len(steps')
          <5>1. i \in 1 .. Len(NewSteps) /\ n \in Nat \ {0}
            BY <4>1
          <5>2. i \in 1 .. start
            BY <3>1, <4>1, <4>2
          <5> QED
            BY <3>5, <4>1, <5>1, <5>2
        <4>6. DOMAIN steps' = 1 .. Len(steps')
          BY <3>5
        <4> QED
          BY <3>2, <4>4, <4>5, <4>6
      <3> QED
        BY <3>6 DEF Keeps
    <2> QED
      BY <1>4, <2>1, <2>2, FanSteps
<1>5. ASSUME NEW k \in Tasks, StartTask(k) PROVE Keeps(steps, steps')
    BY <1>5, <1>a, MarkingSteps, MarksKeep DEF Tasks
<1>6. ASSUME NEW k \in Tasks, RefuseTask(k) PROVE Keeps(steps, steps')
    BY <1>6, <1>a, MarkingSteps, MarksKeep DEF Tasks
<1>7. ASSUME NEW k \in Tasks, FinishTask(k) PROVE Keeps(steps, steps')
    BY <1>7, <1>a, MarkingSteps, MarksKeep DEF Tasks
<1>8. ASSUME EmptyFanDone PROVE Keeps(steps, steps')
    BY <1>8, <1>a, MarkingSteps, MarksKeep DEF Tasks
<1>9. ASSUME ConsumeStop PROVE Keeps(steps, steps')
    BY <1>9, <1>a, MarkingSteps, MarksKeep DEF Tasks
<1>10. ASSUME ConsumeTimeout PROVE Keeps(steps, steps')
    BY <1>10, <1>a, MarkingSteps, MarksKeep DEF Tasks
<1>11. ASSUME ConsumeInterrupt PROVE Keeps(steps, steps')
    BY <1>11, <1>a, MarkingSteps, MarksKeep DEF Tasks
<1>12. ASSUME DeadlinePasses PROVE Keeps(steps, steps')
    BY <1>12, <1>a, MarkingSteps, MarksKeep DEF Tasks
<1>13. ASSUME \/ LeaveLoop \/ GroupDone \/ CloseInbox \/ SweepSteers
            \/ PublishResult \/ WriteLastStatus
      PROVE  UNCHANGED steps
  BY <1>13 DEF LeaveLoop, GroupDone, CloseInbox, SweepSteers, PublishResult,
       WriteLastStatus
<1>14. ASSUME NEW k \in Tasks,
            \/ Retry(k) \/ ChildEnds(k) \/ TurnsExceeded(k) \/ Overspend(k)
      PROVE  UNCHANGED steps
  BY <1>14 DEF Retry, ChildEnds, TurnsExceeded, Overspend, Spawn, Served
<1>15. ASSUME NEW r \in Steers,
            \/ ConsumeSteer(r) \/ ReadForSteer(r) \/ WriteSteer(r)
            \/ ConfirmSteer(r)
      PROVE  UNCHANGED steps
  BY <1>15 DEF ConsumeSteer, ReadForSteer, WriteSteer, ConfirmSteer, Deliver, Sender
<1>16. ASSUME NEW i \in capFiles,
            \/ ConsumeCapability(i)
      PROVE  UNCHANGED steps
  BY <1>16 DEF ConsumeCapability
<1>17. ASSUME NEW a \in acks,
            \/ ConsumeAck(a)
      PROVE  UNCHANGED steps
  BY <1>17 DEF ConsumeAck
<1>18. ASSUME NEW i \in proc,
            \/ PublishCapability(i)
      PROVE  UNCHANGED steps
  BY <1>18 DEF PublishCapability
<1>19. ASSUME NEW i \in proc, NEW r \in Steers,
            \/ TakeSteer(i, r) \/ StartTurn(i, r)
      PROVE  UNCHANGED steps
  BY <1>19 DEF TakeSteer, StartTurn
<1>20. ASSUME NEW c \in {"stop", "timeout", "interrupt"},
            \/ SendControl(c)
      PROVE  UNCHANGED steps
  BY <1>20 DEF SendControl
<1>21. ASSUME NEW a \in Appends,
            \/ ReadForAppend(a) \/ FileAppend(a) \/ WriteBackStatus(a)
      PROVE  UNCHANGED steps
  BY <1>21 DEF ReadForAppend, FileAppend, WriteBackStatus, Appender
<1>22. CASE UNCHANGED steps
  BY <1>u, <1>22
<1> QED
  BY <1>1, <1>2, <1>3, <1>4, <1>5, <1>6, <1>7, <1>8, <1>9, <1>10, <1>11, <1>12, <1>13,
     <1>14, <1>15, <1>16, <1>17, <1>18, <1>19, <1>20, <1>21, <1>22 DEF Next,
     RunnerStep, TaskStep, ServeInbox, ChildStep, ParentStep, vars

\* The same for what waits behind the current group, for what was begun and for
\* the steps that run.
LEMMA SetInvInductive ==
  /\ Init => SetInv
  /\ PlanOK /\ TaskOK /\ StepsOK /\ AlignInv /\ TailInv /\ SetInv /\ [Next]_vars => SetInv'
<1> USE DEF SetInv
<1>1. Init => SetInv
  BY DEF Init, Base, Settled
<1>2. PlanOK /\ TaskOK /\ StepsOK /\ AlignInv /\ TailInv /\ SetInv /\ [Next]_vars => SetInv'
  <2> SUFFICES ASSUME PlanOK, TaskOK, StepsOK, AlignInv, TailInv, SetInv, [Next]_vars PROVE SetInv'
    OBVIOUS
  <2> USE DEF loop, report, steering, files, children, callers, parents
  <2>x. ASSUME Base' = Base, phase \in {"top", "group"}
        PROVE  Settled(steps', Base')
    <3>1. Base \in Nat /\ Base <= Len(steps) /\ DOMAIN steps = 1 .. Len(steps)
          /\ Len(steps) \in Nat
      BY <2>x, PlaceFacts
    <3>2. Keeps(steps, steps') /\ Settled(steps, Base)
      BY <2>x, StepsKept
    <3>3. CASE Base = 0
      BY <2>x, <3>3 DEF Settled
    <3>4. CASE Base # 0
      <4>1. Base \in DOMAIN steps
        BY <3>1, <3>4
      <4> QED
        BY <2>x, <3>2, <4>1 DEF Keeps
    <3> QED
      BY <3>3, <3>4
  <2>1. ASSUME LeaveLoop PROVE SetInv'
    <3>1. phase' \notin {"top", "group"}
      BY <2>1 DEF LeaveLoop
    <3> QED
      BY <3>1
  <2>2. ASSUME UsageExhausted PROVE SetInv'
    <3>1. phase' \notin {"top", "group"}
      BY <2>2 DEF UsageExhausted
    <3> QED
      BY <3>1
  <2>3. ASSUME StartOne PROVE SetInv'
    <3>1. phase' = "share" \/ phase' = "group"
      BY <2>3 DEF StartOne
    <3>2. ASSUME phase' = "group" PROVE Settled(steps', Base')
      <4>1. /\ Base' \in Nat /\ start <= Base' /\ start \in Nat
            /\ \A i \in 1 .. start : steps'[i] = steps[i]
            /\ \A i \in start + 1 .. Base' : steps'[i].id[2] # 0 \/ steps'[i].st # "pending"
        BY <2>3, <3>2, GroupBegins DEF TaskOK
      <4>2. phase = "top" /\ Settled(steps, start)
        BY <2>3, PlaceFacts DEF StartOne, AtLoopTop
      <4>3. ASSUME NEW j \in 1 .. Base'
            PROVE  steps'[j].id[2] # 0 \/ steps'[j].st # "pending"
        <5>1. j \in 1 .. start \/ j \in start + 1 .. Base'
          BY <4>1
        <5> QED
          BY <4>1, <4>2, <5>1 DEF Settled
      <4> HIDE DEF Base
      <4> QED
        BY <4>3 DEF Settled
    <3> HIDE DEF Base
    <3> QED
      BY <3>1, <3>2
  <2>4. ASSUME StartMany PROVE SetInv'
    <3>1. phase' = "share" \/ phase' = "group"
      BY <2>4 DEF StartMany
    <3>2. ASSUME phase' = "group" PROVE Settled(steps', Base')
      <4>1. /\ Base' \in Nat /\ start <= Base' /\ start \in Nat
            /\ \A i \in 1 .. start : steps'[i] = steps[i]
            /\ \A i \in start + 1 .. Base' : steps'[i].id[2] # 0 \/ steps'[i].st # "pending"
        BY <2>4, <3>2, GroupBegins DEF TaskOK
      <4>2. phase = "top" /\ Settled(steps, start)
        BY <2>4, PlaceFacts DEF StartMany, AtLoopTop
      <4>3. ASSUME NEW j \in 1 .. Base'
            PROVE  steps'[j].id[2] # 0 \/ steps'[j].st # "pending"
        <5>1. j \in 1 .. start \/ j \in start + 1 .. Base'
          BY <4>1
        <5> QED
          BY <4>1, <4>2, <5>1 DEF Settled
      <4> HIDE DEF Base
      <4> QED
        BY <4>3 DEF Settled
    <3> HIDE DEF Base
    <3> QED
      BY <3>1, <3>2
  <2>5. ASSUME StartFan PROVE SetInv'
    <3>1. phase' = "share" \/ phase' = "group"
      BY <2>5 DEF StartFan
    <3>2. ASSUME phase' = "group" PROVE Settled(steps', Base')
      <4>1. /\ Base' \in Nat /\ start <= Base' /\ start \in Nat
            /\ \A i \in 1 .. start : steps'[i] = steps[i]
            /\ \A i \in start + 1 .. Base' : steps'[i].id[2] # 0 \/ steps'[i].st # "pending"
        BY <2>5, <3>2, GroupBegins DEF TaskOK
      <4>2. phase = "top" /\ Settled(steps, start)
        BY <2>5, PlaceFacts DEF StartFan, AtLoopTop
      <4>3. ASSUME NEW j \in 1 .. Base'
            PROVE  steps'[j].id[2] # 0 \/ steps'[j].st # "pending"
        <5>1. j \in 1 .. start \/ j \in start + 1 .. Base'
          BY <4>1
        <5> QED
          BY <4>1, <4>2, <5>1 DEF Settled
      <4> HIDE DEF Base
      <4> QED
        BY <4>3 DEF Settled
    <3> HIDE DEF Base
    <3> QED
      BY <3>1, <3>2
  <2>6. ASSUME NEW k \in Tasks, StartTask(k) PROVE SetInv'
    <3>1. /\ phase' = phase /\ phase = "group" /\ start' = start /\ Tasks' = Tasks
          /\ task' \in Seq(TaskRec)
      BY <2>6, TaskSteps
    <3>2. Base' = Base
      <4>1. Len(task') = Len(task)
        BY <3>1 DEF TaskOK, Tasks
      <4> QED
        BY <3>1, <4>1 DEF Base, Taken
    <3> QED
      BY <2>x, <3>1, <3>2
  <2>7. ASSUME NEW k \in Tasks, RefuseTask(k) PROVE SetInv'
    <3>1. /\ phase' = phase /\ phase = "group" /\ start' = start /\ Tasks' = Tasks
          /\ task' \in Seq(TaskRec)
      BY <2>7, TaskSteps
    <3>2. Base' = Base
      <4>1. Len(task') = Len(task)
        BY <3>1 DEF TaskOK, Tasks
      <4> QED
        BY <3>1, <4>1 DEF Base, Taken
    <3> QED
      BY <2>x, <3>1, <3>2
  <2>8. ASSUME NEW k \in Tasks, Retry(k) PROVE SetInv'
    <3>1. /\ phase' = phase /\ phase = "group" /\ start' = start /\ Tasks' = Tasks
          /\ task' \in Seq(TaskRec)
      BY <2>8, TaskSteps
    <3>2. Base' = Base
      <4>1. Len(task') = Len(task)
        BY <3>1 DEF TaskOK, Tasks
      <4> QED
        BY <3>1, <4>1 DEF Base, Taken
    <3> QED
      BY <2>x, <3>1, <3>2
  <2>9. ASSUME NEW k \in Tasks, FinishTask(k) PROVE SetInv'
    <3>1. /\ phase' = phase /\ phase = "group" /\ start' = start /\ Tasks' = Tasks
          /\ task' \in Seq(TaskRec)
      BY <2>9, TaskSteps
    <3>2. Base' = Base
      <4>1. Len(task') = Len(task)
        BY <3>1 DEF TaskOK, Tasks
      <4> QED
        BY <3>1, <4>1 DEF Base, Taken
    <3> QED
      BY <2>x, <3>1, <3>2
  <2>10. ASSUME GroupDone PROVE SetInv'
    <3>1. /\ start' = start + Len(task) /\ phase = "group"
          /\ task # <<>> /\ phase' \in {"top", "share"} /\ steps' = steps
      BY <2>10 DEF GroupDone, report
    <3>2. Len(task) # 0
      BY <3>1, EmptyList DEF TaskOK
    <3>3. phase' = "top" => Base' = Base
      BY <3>1, <3>2 DEF Base, Taken
    <3> QED
      BY <2>x, <3>1, <3>3
  <2>11. ASSUME EmptyFanDone PROVE SetInv'
    <3>1. /\ task = <<>> /\ phase = "group"
          /\ \/ phase' = "top" /\ start' = start + 1 /\ steps' = steps
             \/ phase' = "share"
      BY <2>11 DEF EmptyFanDone, report
    <3>2. Len(task) = 0
      BY <3>1
    <3>3. phase' = "top" => Base' = Base
      BY <3>1, <3>2 DEF Base, Taken
    <3> QED
      BY <2>x, <3>1, <3>3
  <2>12. ASSUME CloseInbox PROVE SetInv'
    <3>1. phase' \notin {"top", "group"}
      BY <2>12 DEF CloseInbox
    <3> QED
      BY <3>1
  <2>13. ASSUME SweepSteers PROVE SetInv'
    <3>1. phase' \notin {"top", "group"}
      BY <2>13 DEF SweepSteers
    <3> QED
      BY <3>1
  <2>14. ASSUME PublishResult PROVE SetInv'
    <3>1. phase' \notin {"top", "group"}
      BY <2>14 DEF PublishResult
    <3> QED
      BY <3>1
  <2>15. ASSUME WriteLastStatus PROVE SetInv'
    <3>1. phase' \notin {"top", "group"}
      BY <2>15 DEF WriteLastStatus
    <3> QED
      BY <3>1
  <2>16. ASSUME ConsumeStop PROVE SetInv'
    <3>1. phase' = phase /\ Base' = Base
      BY <2>16 DEF ConsumeStop, Served, Base, Taken
    <3> QED
      BY <2>x, <3>1
  <2>17. ASSUME ConsumeTimeout PROVE SetInv'
    <3>1. phase' = phase /\ Base' = Base
      BY <2>17 DEF ConsumeTimeout, Served, Base, Taken
    <3> QED
      BY <2>x, <3>1
  <2>18. ASSUME ConsumeInterrupt PROVE SetInv'
    <3>1. phase' = phase /\ Base' = Base
      BY <2>18 DEF ConsumeInterrupt, Served, Base, Taken
    <3> QED
      BY <2>x, <3>1
  <2>19. ASSUME DeadlinePasses PROVE SetInv'
    <3>1. phase' = phase /\ Base' = Base
      BY <2>19 DEF DeadlinePasses, Served, Base, Taken
    <3> QED
      BY <2>x, <3>1
  <2>20. ASSUME NEW k \in Tasks, ChildEnds(k) PROVE SetInv'
    <3>1. /\ phase' = phase /\ phase = "group" /\ start' = start /\ Tasks' = Tasks
          /\ task' \in Seq(TaskRec)
      BY <2>20, TaskSteps
    <3>2. Base' = Base
      <4>1. Len(task') = Len(task)
        BY <3>1 DEF TaskOK, Tasks
      <4> QED
        BY <3>1, <4>1 DEF Base, Taken
    <3> QED
      BY <2>x, <3>1, <3>2
  <2>21. ASSUME NEW r \in Steers,
              \/ ConsumeSteer(r) \/ ReadForSteer(r) \/ WriteSteer(r)
              \/ ConfirmSteer(r)
        PROVE  UNCHANGED <<steps, phase, start, task>>
    BY <2>21 DEF ConsumeSteer, ReadForSteer, WriteSteer, ConfirmSteer, Deliver, Sender
  <2>22. ASSUME NEW i \in capFiles,
              \/ ConsumeCapability(i)
        PROVE  UNCHANGED <<steps, phase, start, task>>
    BY <2>22 DEF ConsumeCapability
  <2>23. ASSUME NEW a \in acks,
              \/ ConsumeAck(a)
        PROVE  UNCHANGED <<steps, phase, start, task>>
    BY <2>23 DEF ConsumeAck
  <2>24. ASSUME NEW k \in Tasks,
              \/ TurnsExceeded(k) \/ Overspend(k)
        PROVE  UNCHANGED <<steps, phase, start, task>>
    BY <2>24 DEF TurnsExceeded, Overspend, Served
  <2>25. ASSUME NEW i \in proc,
              \/ PublishCapability(i)
        PROVE  UNCHANGED <<steps, phase, start, task>>
    BY <2>25 DEF PublishCapability
  <2>26. ASSUME NEW i \in proc, NEW r \in Steers,
              \/ TakeSteer(i, r) \/ StartTurn(i, r)
        PROVE  UNCHANGED <<steps, phase, start, task>>
    BY <2>26 DEF TakeSteer, StartTurn
  <2>27. ASSUME NEW c \in {"stop", "timeout", "interrupt"},
              \/ SendControl(c)
        PROVE  UNCHANGED <<steps, phase, start, task>>
    BY <2>27 DEF SendControl
  <2>28. ASSUME NEW a \in Appends,
              \/ ReadForAppend(a) \/ FileAppend(a) \/ WriteBackStatus(a)
        PROVE  UNCHANGED <<steps, phase, start, task>>
    BY <2>28 DEF ReadForAppend, FileAppend, WriteBackStatus, Appender
  <2>29. CASE UNCHANGED <<steps, phase, start, task>>
    BY <2>29 DEF Base, Taken
  <2> QED
    BY <2>1, <2>2, <2>3, <2>4, <2>5, <2>6, <2>7, <2>8, <2>9, <2>10, <2>11, <2>12,
       <2>13, <2>14, <2>15, <2>16, <2>17, <2>18, <2>19, <2>20, <2>21, <2>22, <2>23,
       <2>24, <2>25, <2>26, <2>27, <2>28, <2>29 DEF Next, RunnerStep, TaskStep,
       ServeInbox, ChildStep, ParentStep, vars
<1> QED
  BY <1>1, <1>2

\* TailInv holds in every initial state and is kept by every step.
LEMMA TailInvInductive ==
  ASSUME PlanAssumption
  PROVE  /\ Init => TailInv
         /\ PlanOK /\ TaskOK /\ StepsOK /\ AlignInv /\ SetInv /\ TailInv /\ [Next]_vars => TailInv'
<1> USE PlanAssumption DEF PlanAssumption, TailInv
<1>1. Init => TailInv
  <2> SUFFICES ASSUME Init PROVE Waits(steps, 0) /\ Base = 0
    OBVIOUS
  <2>1. plan \in Seq(Group) /\ steps = LaunchSteps(plan) /\ phase = "top" /\ start = 0
    BY DEF Init, Group
  <2>2. \A i \in DOMAIN LaunchSteps(plan) : LaunchSteps(plan)[i].st = "pending"
    BY <2>1, LaunchFacts
  <2> QED
    BY <2>1, <2>2 DEF Waits, Base
<1>2. PlanOK /\ TaskOK /\ StepsOK /\ AlignInv /\ SetInv /\ TailInv /\ [Next]_vars => TailInv'
  <2> SUFFICES ASSUME PlanOK, TaskOK, StepsOK, AlignInv, SetInv, TailInv, [Next]_vars PROVE TailInv'
    OBVIOUS
  <2> USE DEF loop, report, steering, files, children, callers, parents
  <2> SUFFICES ASSUME Quiet(Breaking)' PROVE TailInv'
    OBVIOUS
  <2>c. Quiet(Breaking)
    BY CleanStays DEF Quiet
  <2>w. phase \in {"top", "group"} => Waits(steps, Base)
    BY <2>c
  <2>x. ASSUME Base' = Base, phase \in {"top", "group"}, steps' = steps
        PROVE  Waits(steps', Base')
    BY <2>w, <2>x DEF Waits
  <2>1. ASSUME LeaveLoop PROVE TailInv'
    <3>1. phase' \notin {"top", "group"}
      BY <2>1 DEF LeaveLoop
    <3> QED
      BY <3>1
  <2>2. ASSUME UsageExhausted PROVE TailInv'
    <3>1. phase' \notin {"top", "group"}
      BY <2>2 DEF UsageExhausted
    <3> QED
      BY <3>1
  <2>3. ASSUME StartOne PROVE TailInv'
    <3>1. phase' = "share" \/ phase' = "group"
      BY <2>3 DEF StartOne
    <3>2. phase' = "group" => Waits(steps', Base')
      BY <2>3, GroupBegins
    <3> HIDE DEF Base
    <3> QED
      BY <3>1, <3>2
  <2>4. ASSUME StartMany PROVE TailInv'
    <3>1. phase' = "share" \/ phase' = "group"
      BY <2>4 DEF StartMany
    <3>2. phase' = "group" => Waits(steps', Base')
      BY <2>4, GroupBegins
    <3> HIDE DEF Base
    <3> QED
      BY <3>1, <3>2
  <2>5. ASSUME StartFan PROVE TailInv'
    <3>1. phase' = "share" \/ phase' = "group"
      BY <2>5 DEF StartFan
    <3>2. phase' = "group" => Waits(steps', Base')
      BY <2>5, GroupBegins
    <3> HIDE DEF Base
    <3> QED
      BY <3>1, <3>2
  <2>6. ASSUME NEW k \in Tasks, StartTask(k) PROVE TailInv'
    <3>1. /\ phase' = phase /\ phase = "group" /\ start' = start /\ Tasks' = Tasks
          /\ task' \in Seq(TaskRec)
      BY <2>6, TaskSteps
    <3>2. Base' = Base
      <4>1. Len(task') = Len(task)
        BY <3>1 DEF TaskOK, Tasks
      <4> QED
        BY <3>1, <4>1 DEF Base, Taken
    <3> DEFINE st == "running"
    <3>4. /\ st \in Statuses /\ st # "pending"
          /\ \/ steps' = steps
             \/ steps' = [steps EXCEPT ![Child(k)].st = st]
      BY <2>6 DEF StartTask, StartStep, Statuses
    <3> HIDE DEF st
    <3>5. ASSUME NEW i \in DOMAIN steps', i > Base PROVE steps'[i].st = "pending"
      <4>1. /\ DOMAIN steps = 1 .. Len(steps) /\ DOMAIN steps' = DOMAIN steps
            /\ Base \in Nat /\ Child(k) \in 1 .. Base
        BY <3>1, <3>4, PlaceFacts
      <4>2. i \in 1 .. Len(steps) /\ i # Child(k)
        BY <3>5, <4>1
      <4> HIDE DEF Base
      <4> DEFINE c == Child(k)
      <4> HIDE DEF c
      <4>3. steps'[i] = steps[i]
        BY <3>4, <4>2, MarkOne DEF StepsOK, c
      <4> QED
        BY <2>w, <3>1, <3>5, <4>1, <4>2, <4>3 DEF Waits
    <3> HIDE DEF Base
    <3> QED
      BY <3>1, <3>2, <3>5 DEF Waits
  <2>7. ASSUME NEW k \in Tasks, RefuseTask(k) PROVE TailInv'
    <3>1. /\ phase' = phase /\ phase = "group" /\ start' = start /\ Tasks' = Tasks
          /\ task' \in Seq(TaskRec)
      BY <2>7, TaskSteps
    <3>2. Base' = Base
      <4>1. Len(task') = Len(task)
        BY <3>1 DEF TaskOK, Tasks
      <4> QED
        BY <3>1, <4>1 DEF Base, Taken
    <3> DEFINE st == "failed"
    <3>4. /\ st \in Statuses /\ st # "pending"
          /\ \/ steps' = steps
             \/ steps' = [steps EXCEPT ![Child(k)].st = st]
      BY <2>7 DEF RefuseTask, Statuses
    <3> HIDE DEF st
    <3>5. ASSUME NEW i \in DOMAIN steps', i > Base PROVE steps'[i].st = "pending"
      <4>1. /\ DOMAIN steps = 1 .. Len(steps) /\ DOMAIN steps' = DOMAIN steps
            /\ Base \in Nat /\ Child(k) \in 1 .. Base
        BY <3>1, <3>4, PlaceFacts
      <4>2. i \in 1 .. Len(steps) /\ i # Child(k)
        BY <3>5, <4>1
      <4> HIDE DEF Base
      <4> DEFINE c == Child(k)
      <4> HIDE DEF c
      <4>3. steps'[i] = steps[i]
        BY <3>4, <4>2, MarkOne DEF StepsOK, c
      <4> QED
        BY <2>w, <3>1, <3>5, <4>1, <4>2, <4>3 DEF Waits
    <3> HIDE DEF Base
    <3> QED
      BY <3>1, <3>2, <3>5 DEF Waits
  <2>8. ASSUME NEW k \in Tasks, Retry(k) PROVE TailInv'
    <3>1. /\ phase' = phase /\ phase = "group" /\ start' = start /\ Tasks' = Tasks
          /\ task' \in Seq(TaskRec)
      BY <2>8, TaskSteps
    <3>2. Base' = Base
      <4>1. Len(task') = Len(task)
        BY <3>1 DEF TaskOK, Tasks
      <4> QED
        BY <3>1, <4>1 DEF Base, Taken
    <3>3. steps' = steps
      BY <2>8 DEF Retry
    <3> HIDE DEF Base
    <3> QED
      BY <2>x, <3>1, <3>2, <3>3
  <2>9. ASSUME NEW k \in Tasks, FinishTask(k) PROVE TailInv'
    <3>1. /\ phase' = phase /\ phase = "group" /\ start' = start /\ Tasks' = Tasks
          /\ task' \in Seq(TaskRec)
      BY <2>9, TaskSteps
    <3>2. Base' = Base
      <4>1. Len(task') = Len(task)
        BY <3>1 DEF TaskOK, Tasks
      <4> QED
        BY <3>1, <4>1 DEF Base, Taken
    <3>3. PICK st \in {"stopped", "paused", "complete", "failed"} :
            steps' = [steps EXCEPT ![Child(k)].st = st]
      <4>1. PICK res : steps' = [steps EXCEPT ![Child(k)].st = StatusOf(res)]
        BY <2>9 DEF FinishTask
      <4> QED
        BY <4>1 DEF StatusOf
    <3>4. /\ st \in Statuses /\ st # "pending"
          /\ \/ steps' = steps
             \/ steps' = [steps EXCEPT ![Child(k)].st = st]
      BY <3>3 DEF Statuses
    <3>5. ASSUME NEW i \in DOMAIN steps', i > Base PROVE steps'[i].st = "pending"
      <4>1. /\ DOMAIN steps = 1 .. Len(steps) /\ DOMAIN steps' = DOMAIN steps
            /\ Base \in Nat /\ Child(k) \in 1 .. Base
        BY <3>1, <3>4, PlaceFacts
      <4>2. i \in 1 .. Len(steps) /\ i # Child(k)
        BY <3>5, <4>1
      <4> HIDE DEF Base
      <4> DEFINE c == Child(k)
      <4> HIDE DEF c
      <4>3. steps'[i] = steps[i]
        BY <3>4, <4>2, MarkOne DEF StepsOK, c
      <4> QED
        BY <2>w, <3>1, <3>5, <4>1, <4>2, <4>3 DEF Waits
    <3> HIDE DEF Base
    <3> QED
      BY <3>1, <3>2, <3>5 DEF Waits
  <2>10. ASSUME GroupDone PROVE TailInv'
    <3>1. /\ start' = start + Len(task) /\ phase = "group"
          /\ task # <<>> /\ phase' \in {"top", "share"} /\ steps' = steps
      BY <2>10 DEF GroupDone, report
    <3>2. Len(task) # 0
      BY <3>1, EmptyList DEF TaskOK
    <3>3. phase' = "top" => Base' = Base
      BY <3>1, <3>2 DEF Base, Taken
    <3> QED
      BY <2>x, <3>1, <3>3
  <2>11. ASSUME EmptyFanDone PROVE TailInv'
    <3>1. /\ task = <<>> /\ phase = "group"
          /\ \/ phase' = "top" /\ start' = start + 1 /\ steps' = steps
             \/ phase' = "share"
      BY <2>11 DEF EmptyFanDone, report
    <3>2. Len(task) = 0
      BY <3>1
    <3>3. phase' = "top" => Base' = Base
      BY <3>1, <3>2 DEF Base, Taken
    <3> QED
      BY <2>x, <3>1, <3>3
  <2>12. ASSUME CloseInbox PROVE TailInv'
    <3>1. phase' \notin {"top", "group"}
      BY <2>12 DEF CloseInbox
    <3> QED
      BY <3>1
  <2>13. ASSUME SweepSteers PROVE TailInv'
    <3>1. phase' \notin {"top", "group"}
      BY <2>13 DEF SweepSteers
    <3> QED
      BY <3>1
  <2>14. ASSUME PublishResult PROVE TailInv'
    <3>1. phase' \notin {"top", "group"}
      BY <2>14 DEF PublishResult
    <3> QED
      BY <3>1
  <2>15. ASSUME WriteLastStatus PROVE TailInv'
    <3>1. phase' \notin {"top", "group"}
      BY <2>15 DEF WriteLastStatus
    <3> QED
      BY <3>1
  <2>16. ASSUME ConsumeStop PROVE TailInv'
    <3>1. \/ UNCHANGED <<steps, phase, start, task>>
          \/ "stopped" \in flags'
      BY <2>16 DEF ConsumeStop, Served, StopRunner, Apply
    <3>2. "stopped" \notin flags'
      BY DEF Quiet, Breaking, Ending
    <3> QED
      BY <2>w, <3>1, <3>2 DEF Base, Taken, Waits
  <2>17. ASSUME ConsumeTimeout PROVE TailInv'
    <3>1. \/ UNCHANGED <<steps, phase, start, task>>
          \/ "timedOut" \in flags'
      BY <2>17 DEF ConsumeTimeout, Served, TimeoutRunner, Apply
    <3>2. "timedOut" \notin flags'
      BY DEF Quiet, Breaking, Ending
    <3> QED
      BY <2>w, <3>1, <3>2 DEF Base, Taken, Waits
  <2>18. ASSUME ConsumeInterrupt PROVE TailInv'
    <3>1. \/ UNCHANGED <<steps, phase, start, task>>
          \/ "interrupted" \in flags'
      BY <2>18 DEF ConsumeInterrupt, Served, InterruptRunner, Apply
    <3>2. "interrupted" \notin flags'
      BY DEF Quiet, Breaking, Ending
    <3> QED
      BY <2>w, <3>1, <3>2 DEF Base, Taken, Waits
  <2>19. ASSUME DeadlinePasses PROVE TailInv'
    <3>1. \/ UNCHANGED <<steps, phase, start, task>>
          \/ "timedOut" \in flags'
      BY <2>19 DEF DeadlinePasses, Served, TimeoutRunner, Apply
    <3>2. "timedOut" \notin flags'
      BY DEF Quiet, Breaking, Ending
    <3> QED
      BY <2>w, <3>1, <3>2 DEF Base, Taken, Waits
  <2>20. ASSUME NEW k \in Tasks, ChildEnds(k) PROVE TailInv'
    <3>1. /\ phase' = phase /\ phase = "group" /\ start' = start /\ Tasks' = Tasks
          /\ task' \in Seq(TaskRec)
      BY <2>20, TaskSteps
    <3>2. Base' = Base
      <4>1. Len(task') = Len(task)
        BY <3>1 DEF TaskOK, Tasks
      <4> QED
        BY <3>1, <4>1 DEF Base, Taken
    <3>3. steps' = steps
      BY <2>20 DEF ChildEnds
    <3> HIDE DEF Base
    <3> QED
      BY <2>x, <3>1, <3>2, <3>3
  <2>21. ASSUME NEW r \in Steers,
              \/ ConsumeSteer(r) \/ ReadForSteer(r) \/ WriteSteer(r)
              \/ ConfirmSteer(r)
        PROVE  UNCHANGED <<steps, phase, start, task>>
    BY <2>21 DEF ConsumeSteer, ReadForSteer, WriteSteer, ConfirmSteer, Deliver, Sender
  <2>22. ASSUME NEW i \in capFiles,
              \/ ConsumeCapability(i)
        PROVE  UNCHANGED <<steps, phase, start, task>>
    BY <2>22 DEF ConsumeCapability
  <2>23. ASSUME NEW a \in acks,
              \/ ConsumeAck(a)
        PROVE  UNCHANGED <<steps, phase, start, task>>
    BY <2>23 DEF ConsumeAck
  <2>24. ASSUME NEW k \in Tasks,
              \/ TurnsExceeded(k) \/ Overspend(k)
        PROVE  UNCHANGED <<steps, phase, start, task>>
    BY <2>24 DEF TurnsExceeded, Overspend, Served
  <2>25. ASSUME NEW i \in proc,
              \/ PublishCapability(i)
        PROVE  UNCHANGED <<steps, phase, start, task>>
    BY <2>25 DEF PublishCapability
  <2>26. ASSUME NEW i \in proc, NEW r \in Steers,
              \/ TakeSteer(i, r) \/ StartTurn(i, r)
        PROVE  UNCHANGED <<steps, phase, start, task>>
    BY <2>26 DEF TakeSteer, StartTurn
  <2>27. ASSUME NEW c \in {"stop", "timeout", "interrupt"},
              \/ SendControl(c)
        PROVE  UNCHANGED <<steps, phase, start, task>>
    BY <2>27 DEF SendControl
  <2>28. ASSUME NEW a \in Appends,
              \/ ReadForAppend(a) \/ FileAppend(a) \/ WriteBackStatus(a)
        PROVE  UNCHANGED <<steps, phase, start, task>>
    BY <2>28 DEF ReadForAppend, FileAppend, WriteBackStatus, Appender
  <2>29. CASE UNCHANGED <<steps, phase, start, task>>
    BY <2>w, <2>29 DEF Base, Taken, Waits
  <2> QED
    BY <2>1, <2>2, <2>3, <2>4, <2>5, <2>6, <2>7, <2>8, <2>9, <2>10, <2>11, <2>12,
       <2>13, <2>14, <2>15, <2>16, <2>17, <2>18, <2>19, <2>20, <2>21, <2>22, <2>23,
       <2>24, <2>25, <2>26, <2>27, <2>28, <2>29 DEF Next, RunnerStep, TaskStep,
       ServeInbox, ChildStep, ParentStep, vars
<1> QED
  BY <1>1, <1>2

\* RunInv holds in every initial state and is kept by every step.
LEMMA RunInvInductive ==
  ASSUME PlanAssumption
  PROVE  /\ Init => RunInv
         /\ PlanOK /\ TaskOK /\ StepsOK /\ AlignInv /\ TailInv /\ SetInv /\ RunInv /\ [Next]_vars => RunInv'
<1> USE PlanAssumption DEF PlanAssumption, RunInv, Running
<1>1. Init => RunInv
  <2> SUFFICES ASSUME Init PROVE \A i \in DOMAIN steps : steps[i].st # "running"
    OBVIOUS
  <2>1. plan \in Seq(Group) /\ steps = LaunchSteps(plan)
    BY DEF Init, Group
  <2> QED
    BY <2>1, LaunchFacts
<1>2. PlanOK /\ TaskOK /\ StepsOK /\ AlignInv /\ TailInv /\ SetInv /\ RunInv /\ [Next]_vars => RunInv'
  <2> SUFFICES ASSUME PlanOK, TaskOK, StepsOK, AlignInv, TailInv, SetInv, RunInv, [Next]_vars PROVE RunInv'
    OBVIOUS
  <2> USE DEF loop, report, steering, files, children, callers, parents
  <2>k. Keeps(steps, steps')
    BY StepsKept
  <2>s. phase' = "group" => Settled(steps', Base')
    <3>1. SetInv'
      BY SetInvInductive
    <3> QED
      BY <3>1 DEF SetInv
  <2>p. steps' \in Seq(StepRec)
    BY StepsOKInductive DEF StepsOK
  <2>d. DOMAIN steps' = 1 .. Len(steps') /\ Len(steps') \in Nat
    BY <2>p
  <2>o. ASSUME NEW i \in DOMAIN steps, steps[i].st = "running" PROVE Settled(steps', i)
    BY <2>k, <2>o DEF Keeps
  <2>m. ASSUME Marks(steps, steps', Own) PROVE RunInv'
    <3> SUFFICES ASSUME NEW i \in 1 .. Len(steps), steps'[i].st = "running"
                 PROVE  Settled(steps', i)
      BY <2>m, MarksFacts DEF StepsOK
    <3>1. DOMAIN steps = 1 .. Len(steps)
      BY PlaceFacts
    <3>2. steps'[i] = steps[i] \/ i \in Own
      BY <2>m DEF Marks
    <3>3. CASE steps'[i] = steps[i]
      BY <2>o, <3>1, <3>3
    <3>4. CASE i \in Own
      <4>1. phase = "group" /\ Base \in Nat /\ i \in 1 .. Base
        BY <3>4, PlaceFacts DEF Own
      <4>2. Settled(steps, i)
        <5>1. i \in Nat /\ i <= Base
          BY <4>1
        <5> QED
          BY <4>1, <5>1, KeepsFacts DEF SetInv
      <4> QED
        BY <2>k, <3>1, <4>2 DEF Keeps
    <3> QED
      BY <3>2, <3>3, <3>4
  <2>n. ASSUME Marks(NewSteps, steps', {}) PROVE RunInv'
    <3> SUFFICES ASSUME NEW i \in DOMAIN steps', steps'[i].st = "running"
                 PROVE  Settled(steps', i)
      OBVIOUS
    <3>1. i \in 1 .. Len(NewSteps) /\ steps'[i] = NewSteps[i]
      <4>1. i \in 1 .. Len(NewSteps)
        BY <2>n, MarksFacts, NewStepsFacts
      <4> QED
        BY <2>n, <4>1 DEF Marks
    <3>2. i \in DOMAIN steps /\ NewSteps[i] = steps[i]
      BY <3>1, NewStepsKeep
    <3> QED
      BY <2>o, <3>1, <3>2
  <2>i. ASSUME NEW b \in Nat, start \in Nat, Settled(steps', b), steps' \in Seq(StepRec),
               \A i \in 1 .. start : i \in DOMAIN steps /\ steps'[i] = steps[i],
               \A i \in DOMAIN steps' : i > b => steps'[i].st = "pending"
        PROVE  RunInv'
    <3> SUFFICES ASSUME NEW i \in DOMAIN steps', steps'[i].st = "running"
                 PROVE  Settled(steps', i)
      OBVIOUS
    <3>1. i \in Nat
      BY <2>d
    <3>2. i <= b
      BY <2>i, <3>1
    <3> QED
      BY <2>i, <3>1, <3>2, KeepsFacts
  <2>1. ASSUME UsageExhausted PROVE RunInv'
    <3>1. phase' # "group"
      BY <2>1 DEF UsageExhausted
    <3>2. Marks(NewSteps, steps', {})
      BY <2>1, <3>1, BeginningSteps
    <3> QED
      BY <2>n, <3>2
  <2>2. ASSUME StartOne PROVE RunInv'
    <3>1. CASE phase' = "group"
      <4>1. /\ Base' \in Nat /\ start <= Base' /\ start \in Nat
            /\ \A i \in 1 .. start : i \in DOMAIN steps /\ steps'[i] = steps[i]
            /\ \A i \in DOMAIN steps' : i > Base' => steps'[i].st = "pending"
        BY <2>2, <3>1, GroupBegins DEF TaskOK, Waits
      <4>2. Settled(steps', Base')
        BY <2>2, <2>s, <3>1
      <4>3. steps' \in Seq(StepRec)
        BY <2>2, <2>p
      <4> HIDE DEF Base
      <4> QED
        BY <2>i, <3>1, <4>1, <4>2, <4>3
    <3>2. CASE phase' # "group"
      <4>1. Marks(NewSteps, steps', {})
        BY <2>2, <3>2, BeginningSteps
      <4> QED
        BY <2>n, <4>1
    <3> QED
      BY <3>1, <3>2
  <2>3. ASSUME StartMany PROVE RunInv'
    <3>1. CASE phase' = "group"
      <4>1. /\ Base' \in Nat /\ start <= Base' /\ start \in Nat
            /\ \A i \in 1 .. start : i \in DOMAIN steps /\ steps'[i] = steps[i]
            /\ \A i \in DOMAIN steps' : i > Base' => steps'[i].st = "pending"
        BY <2>3, <3>1, GroupBegins DEF TaskOK, Waits
      <4>2. Settled(steps', Base')
        BY <2>3, <2>s, <3>1
      <4>3. steps' \in Seq(StepRec)
        BY <2>3, <2>p
      <4> HIDE DEF Base
      <4> QED
        BY <2>i, <3>1, <4>1, <4>2, <4>3
    <3>2. CASE phase' # "group"
      <4>1. Marks(NewSteps, steps', {})
        BY <2>3, <3>2, BeginningSteps
      <4> QED
        BY <2>n, <4>1
    <3> QED
      BY <3>1, <3>2
  <2>4. ASSUME StartFan PROVE RunInv'
    <3>1. CASE phase' = "group"
      <4>1. /\ Base' \in Nat /\ start <= Base' /\ start \in Nat
            /\ \A i \in 1 .. start : i \in DOMAIN steps /\ steps'[i] = steps[i]
            /\ \A i \in DOMAIN steps' : i > Base' => steps'[i].st = "pending"
        BY <2>4, <3>1, GroupBegins DEF TaskOK, Waits
      <4>2. Settled(steps', Base')
        BY <2>4, <2>s, <3>1
      <4>3. steps' \in Seq(StepRec)
        BY <2>4, <2>p
      <4> HIDE DEF Base
      <4> QED
        BY <2>i, <3>1, <4>1, <4>2, <4>3
    <3>2. CASE phase' # "group"
      <4>1. Marks(NewSteps, steps', {})
        BY <2>4, <3>2, FanSteps
      <4> QED
        BY <2>n, <4>1
    <3> QED
      BY <3>1, <3>2
  <2>5. ASSUME NEW k \in Tasks, StartTask(k) PROVE RunInv'
    <3>1. Marks(steps, steps', Own)
      BY <2>5, MarkingSteps DEF Tasks
    <3> QED
      BY <2>m, <3>1
  <2>6. ASSUME NEW k \in Tasks, RefuseTask(k) PROVE RunInv'
    <3>1. Marks(steps, steps', Own)
      BY <2>6, MarkingSteps DEF Tasks
    <3> QED
      BY <2>m, <3>1
  <2>7. ASSUME NEW k \in Tasks, FinishTask(k) PROVE RunInv'
    <3>1. Marks(steps, steps', Own)
      BY <2>7, MarkingSteps DEF Tasks
    <3> QED
      BY <2>m, <3>1
  <2>8. ASSUME EmptyFanDone PROVE RunInv'
    <3>1. Marks(steps, steps', Own)
      BY <2>8, MarkingSteps DEF Tasks
    <3> QED
      BY <2>m, <3>1
  <2>9. ASSUME ConsumeStop PROVE RunInv'
    <3>1. Marks(steps, steps', Own)
      BY <2>9, MarkingSteps DEF Tasks
    <3> QED
      BY <2>m, <3>1
  <2>10. ASSUME ConsumeTimeout PROVE RunInv'
    <3>1. Marks(steps, steps', Own)
      BY <2>10, MarkingSteps DEF Tasks
    <3> QED
      BY <2>m, <3>1
  <2>11. ASSUME ConsumeInterrupt PROVE RunInv'
    <3>1. Marks(steps, steps', Own)
      BY <2>11, MarkingSteps DEF Tasks
    <3> QED
      BY <2>m, <3>1
  <2>12. ASSUME DeadlinePasses PROVE RunInv'
    <3>1. Marks(steps, steps', Own)
      BY <2>12, MarkingSteps DEF Tasks
    <3> QED
      BY <2>m, <3>1
  <2>13. ASSUME \/ LeaveLoop \/ GroupDone \/ CloseInbox \/ SweepSteers
              \/ PublishResult \/ WriteLastStatus
        PROVE  UNCHANGED steps
    BY <2>13 DEF LeaveLoop, GroupDone, CloseInbox, SweepSteers, PublishResult,
         WriteLastStatus
  <2>14. ASSUME NEW k \in Tasks,
              \/ Retry(k) \/ ChildEnds(k) \/ TurnsExceeded(k) \/ Overspend(k)
        PROVE  UNCHANGED steps
    BY <2>14 DEF Retry, ChildEnds, TurnsExceeded, Overspend, Spawn, Served
  <2>15. ASSUME NEW r \in Steers,
              \/ ConsumeSteer(r) \/ ReadForSteer(r) \/ WriteSteer(r)
              \/ ConfirmSteer(r)
        PROVE  UNCHANGED steps
    BY <2>15 DEF ConsumeSteer, ReadForSteer, WriteSteer, ConfirmSteer, Deliver, Sender
  <2>16. ASSUME NEW i \in capFiles,
              \/ ConsumeCapability(i)
        PROVE  UNCHANGED steps
    BY <2>16 DEF ConsumeCapability
  <2>17. ASSUME NEW a \in acks,
              \/ ConsumeAck(a)
        PROVE  UNCHANGED steps
    BY <2>17 DEF ConsumeAck
  <2>18. ASSUME NEW i \in proc,
              \/ PublishCapability(i)
        PROVE  UNCHANGED steps
    BY <2>18 DEF PublishCapability
  <2>19. ASSUME NEW i \in proc, NEW r \in Steers,
              \/ TakeSteer(i, r) \/ StartTurn(i, r)
        PROVE  UNCHANGED steps
    BY <2>19 DEF TakeSteer, StartTurn
  <2>20. ASSUME NEW c \in {"stop", "timeout", "interrupt"},
              \/ SendControl(c)
        PROVE  UNCHANGED steps
    BY <2>20 DEF SendControl
  <2>21. ASSUME NEW a \in Appends,
              \/ ReadForAppend(a) \/ FileAppend(a) \/ WriteBackStatus(a)
        PROVE  UNCHANGED steps
    BY <2>21 DEF ReadForAppend, FileAppend, WriteBackStatus, Appender
  <2>22. CASE UNCHANGED steps
    BY <2>22
  <2> QED
    BY <2>1, <2>2, <2>3, <2>4, <2>5, <2>6, <2>7, <2>8, <2>9, <2>10, <2>11, <2>12,
       <2>13, <2>14, <2>15, <2>16, <2>17, <2>18, <2>19, <2>20, <2>21, <2>22 DEF Next,
       RunnerStep, TaskStep, ServeInbox, ChildStep, ParentStep, vars
<1> QED
  BY <1>1, <1>2

-----------------------------------------------------------------------------
(* What the parents read, and whom their requests reach.                   *)

\* A status that was read or written: what it shows as settled still is, and
\* so is every step it shows running.
Snap(d, ss) ==
  /\ d = [state |-> d.state, steps |-> d.steps, pendingAppends |-> d.pendingAppends]
  /\ d.steps \in Seq(StepRec)
  /\ Keeps(d.steps, ss) /\ \A i \in Running(d.steps) : Settled(d.steps, i)
SnapInv ==
  /\ Snap(disk, steps) /\ DOMAIN append = Appends
  /\ \A a \in Appends :
       /\ append[a] = [pc |-> append[a].pc, read |-> append[a].read]
       /\ append[a].pc \in {"read", "filed"} => Snap(append[a].read, steps)

\* The children a request names are those it means, and stay where they are.
Named(r, f, ss) ==
  f[r].want # {} =>
    /\ f[r].sel # {}
    /\ \A i \in f[r].sel : i \in DOMAIN ss /\ Settled(ss, i) /\ ss[i].id \in f[r].want
NameInv == \A r \in Steers : Named(r, steer, steps)

\* A request that has not been written is nowhere.
SentInv ==
  \A r \in Steers : steer[r].pc \in {"idle", "checked"} =>
    /\ r \notin steerFiles \cup held
    /\ \A q \in inbox \cup queue : q[2] # r
    /\ \A h \in heard : h[1] # r

\* A request that means some children is held only if it names one of them, and
\* is routed to none but those it names.
RouteInv ==
  \A r \in Steers : steer[r].want # {} =>
    /\ r \in held => steer[r].indexed
    /\ \A q \in inbox \cup queue : q[2] = r => q[1] \in steer[r].sel

LEMMA SnapFacts ==
  /\ \A d, ss, tt : Snap(d, ss) /\ Keeps(ss, tt) => Snap(d, tt)
  /\ \A ss \in Seq(StepRec) : (\A i \in Running(ss) : Settled(ss, i)) =>
       \A s, p : Snap([state |-> s, steps |-> ss, pendingAppends |-> p], ss)
  /\ \A d, ss, p : Snap(d, ss) =>
       Snap([d EXCEPT !.pendingAppends = p], ss)
<1>1. ASSUME NEW d, NEW ss, NEW tt, Snap(d, ss), Keeps(ss, tt) PROVE Snap(d, tt)
  BY <1>1, KeepsFacts DEF Snap
<1>2. ASSUME NEW ss \in Seq(StepRec), \A i \in Running(ss) : Settled(ss, i), NEW s, NEW p
      PROVE  Snap([state |-> s, steps |-> ss, pendingAppends |-> p], ss)
  BY <1>2, KeepsFacts DEF Snap
<1>3. ASSUME NEW d, NEW ss, NEW p, Snap(d, ss)
      PROVE  Snap([d EXCEPT !.pendingAppends = p], ss)
  <2> DEFINE e == [d EXCEPT !.pendingAppends = p]
  <2>1. d = [state |-> d.state, steps |-> d.steps, pendingAppends |-> d.pendingAppends]
    BY <1>3 DEF Snap
  <2>2. e = [state |-> e.state, steps |-> e.steps, pendingAppends |-> e.pendingAppends]
        /\ e.steps = d.steps
    BY <2>1
  <2> HIDE DEF e
  <2> QED
    BY <1>3, <2>2 DEF Snap, e
<1> QED
  BY <1>1, <1>2, <1>3

\* A child that starts is sent what was held for it.
LEMMA FlushFacts ==
  ASSUME NEW i, NEW ss, FlushSteers(i, ss)
  PROVE  /\ held' \subseteq held
         /\ \A q \in inbox' : q \in inbox \/
              /\ q[2] \in held /\ q[1] = i
              /\ ~steer[q[2]].indexed \/ steer[q[2]].sel = {i}
<1> DEFINE due == {r \in held : ~steer[r].indexed \/ steer[r].sel = {i}}
<1>1. Deliver(due, {i}, ss) /\ held' = held \ due
  BY DEF FlushSteers
<1>2. inbox' \subseteq inbox \cup {i} \X due
  <2> HIDE DEF due
  <2> QED
    BY <1>1 DEF Deliver
<1> QED
  BY <1>1, <1>2

\* SnapInv holds in every initial state and is kept by every step.
LEMMA SnapInvInductive ==
  ASSUME PlanAssumption
  PROVE  /\ Init => SnapInv
         /\ PlanOK /\ TaskOK /\ StepsOK /\ AlignInv /\ TailInv /\ SetInv /\ RunInv /\ SnapInv /\ [Next]_vars => SnapInv'
<1> USE PlanAssumption DEF PlanAssumption, SnapInv
<1>1. Init => SnapInv
  <2> SUFFICES ASSUME Init PROVE SnapInv
    OBVIOUS
  <2>1. StepsOK /\ RunInv
    BY StepsOKInductive, RunInvInductive
  <2>2. Snap(disk, steps)
    <3>1. steps \in Seq(StepRec) /\ \A i \in Running(steps) : Settled(steps, i)
      BY <2>1 DEF StepsOK, RunInv
    <3>2. disk = [state |-> "running", steps |-> steps, pendingAppends |-> FALSE]
      BY DEF Init
    <3> QED
      BY <3>1, <3>2, SnapFacts
  <2>3. append = [a \in Appends |-> [pc |-> "idle", read |-> <<>>]]
    BY DEF Init
  <2> QED
    BY <2>2, <2>3
<1>2. PlanOK /\ TaskOK /\ StepsOK /\ AlignInv /\ TailInv /\ SetInv /\ RunInv /\ SnapInv /\ [Next]_vars => SnapInv'
  <2> SUFFICES ASSUME PlanOK, TaskOK, StepsOK, AlignInv, TailInv, SetInv, RunInv, SnapInv, [Next]_vars PROVE SnapInv'
    OBVIOUS
  <2> USE DEF loop, report, steering, files, children, callers, parents
  <2>k. Keeps(steps, steps')
    BY StepsKept
  <2>p. steps' \in Seq(StepRec) /\ \A i \in Running(steps') : Settled(steps', i)
    <3>1. StepsOK' /\ RunInv'
      BY StepsOKInductive, RunInvInductive
    <3> QED
      BY <3>1 DEF StepsOK, RunInv
  <2>q. /\ Snap(disk, steps') /\ DOMAIN append = Appends
        /\ \A a \in Appends :
             /\ append[a] = [pc |-> append[a].pc, read |-> append[a].read]
             /\ append[a].pc \in {"read", "filed"} => Snap(append[a].read, steps')
    BY <2>k, SnapFacts
  <2>r. disk' = disk => Snap(disk', steps')
    BY <2>q
  <2>u. disk' = disk /\ append' = append => SnapInv'
    BY <2>q
  <2>w. ASSUME NEW s, append' = append,
               disk' = [state |-> s, steps |-> steps', pendingAppends |-> FALSE]
        PROVE  SnapInv'
    <3>1. Snap(disk', steps')
      BY <2>p, <2>w, SnapFacts
    <3> QED
      BY <2>q, <2>w, <3>1
  <2>1. ASSUME UsageExhausted PROVE SnapInv'
    <3>1. append' = append
      BY <2>1 DEF UsageExhausted
    <3>2. disk' = disk \/ \E s : disk' = [state |-> s, steps |-> steps', pendingAppends |-> FALSE]
      BY <2>1 DEF UsageExhausted, WriteStatus
    <3> QED
      BY <2>u, <2>w, <3>1, <3>2
  <2>2. ASSUME StartOne PROVE SnapInv'
    <3>1. append' = append
      BY <2>2 DEF StartOne
    <3>2. disk' = disk \/ \E s : disk' = [state |-> s, steps |-> steps', pendingAppends |-> FALSE]
      BY <2>2 DEF StartOne, WriteStatus, StartStep
    <3> QED
      BY <2>u, <2>w, <3>1, <3>2
  <2>3. ASSUME StartMany PROVE SnapInv'
    <3>1. append' = append
      BY <2>3 DEF StartMany
    <3>2. disk' = disk \/ \E s : disk' = [state |-> s, steps |-> steps', pendingAppends |-> FALSE]
      BY <2>3 DEF StartMany, WriteStatus
    <3> QED
      BY <2>u, <2>w, <3>1, <3>2
  <2>4. ASSUME StartFan PROVE SnapInv'
    <3>1. append' = append
      BY <2>4 DEF StartFan
    <3>2. disk' = disk \/ \E s : disk' = [state |-> s, steps |-> steps', pendingAppends |-> FALSE]
      BY <2>4 DEF StartFan, WriteStatus
    <3> QED
      BY <2>u, <2>w, <3>1, <3>2
  <2>5. ASSUME NEW k \in Tasks, StartTask(k) PROVE SnapInv'
    <3>1. append' = append
      BY <2>5 DEF StartTask
    <3>2. disk' = disk \/ \E s : disk' = [state |-> s, steps |-> steps', pendingAppends |-> FALSE]
      BY <2>5 DEF StartTask, WriteStatus, StartStep
    <3> QED
      BY <2>u, <2>w, <3>1, <3>2
  <2>6. ASSUME NEW k \in Tasks, RefuseTask(k) PROVE SnapInv'
    <3>1. append' = append
      BY <2>6 DEF RefuseTask
    <3>2. disk' = disk \/ \E s : disk' = [state |-> s, steps |-> steps', pendingAppends |-> FALSE]
      BY <2>6 DEF RefuseTask, WriteStatus
    <3> QED
      BY <2>u, <2>w, <3>1, <3>2
  <2>7. ASSUME NEW k \in Tasks, FinishTask(k) PROVE SnapInv'
    <3>1. append' = append
      BY <2>7 DEF FinishTask
    <3>2. disk' = disk \/ \E s : disk' = [state |-> s, steps |-> steps', pendingAppends |-> FALSE]
      BY <2>7 DEF FinishTask, WriteStatus
    <3> QED
      BY <2>u, <2>w, <3>1, <3>2
  <2>8. ASSUME EmptyFanDone PROVE SnapInv'
    <3>1. append' = append
      BY <2>8 DEF EmptyFanDone
    <3>2. disk' = disk \/ \E s : disk' = [state |-> s, steps |-> steps', pendingAppends |-> FALSE]
      BY <2>8 DEF EmptyFanDone, WriteStatus
    <3> QED
      BY <2>u, <2>w, <3>1, <3>2
  <2>9. ASSUME SweepSteers PROVE SnapInv'
    <3>1. append' = append
      BY <2>9 DEF SweepSteers
    <3>2. disk' = disk \/ \E s : disk' = [state |-> s, steps |-> steps', pendingAppends |-> FALSE]
      BY <2>9 DEF SweepSteers, WriteStatus
    <3> QED
      BY <2>u, <2>w, <3>1, <3>2
  <2>10. ASSUME WriteLastStatus PROVE SnapInv'
    <3>1. append' = append
      BY <2>10 DEF WriteLastStatus
    <3>2. disk' = disk \/ \E s : disk' = [state |-> s, steps |-> steps', pendingAppends |-> FALSE]
      BY <2>10 DEF WriteLastStatus, WriteStatus
    <3> QED
      BY <2>u, <2>w, <3>1, <3>2
  <2>11. ASSUME ConsumeStop PROVE SnapInv'
    <3>1. append' = append
      BY <2>11 DEF ConsumeStop, Served
    <3>2. disk' = disk \/ \E s : disk' = [state |-> s, steps |-> steps', pendingAppends |-> FALSE]
      BY <2>11 DEF ConsumeStop, WriteStatus
    <3> QED
      BY <2>u, <2>w, <3>1, <3>2
  <2>12. ASSUME ConsumeTimeout PROVE SnapInv'
    <3>1. append' = append
      BY <2>12 DEF ConsumeTimeout, Served
    <3>2. disk' = disk \/ \E s : disk' = [state |-> s, steps |-> steps', pendingAppends |-> FALSE]
      BY <2>12 DEF ConsumeTimeout, WriteStatus
    <3> QED
      BY <2>u, <2>w, <3>1, <3>2
  <2>13. ASSUME ConsumeInterrupt PROVE SnapInv'
    <3>1. append' = append
      BY <2>13 DEF ConsumeInterrupt, Served
    <3>2. disk' = disk \/ \E s : disk' = [state |-> s, steps |-> steps', pendingAppends |-> FALSE]
      BY <2>13 DEF ConsumeInterrupt, WriteStatus
    <3> QED
      BY <2>u, <2>w, <3>1, <3>2
  <2>14. ASSUME NEW r \in Steers, ConsumeSteer(r) PROVE SnapInv'
    <3>1. append' = append
      BY <2>14 DEF ConsumeSteer
    <3>2. disk' = disk \/ \E s : disk' = [state |-> s, steps |-> steps', pendingAppends |-> FALSE]
      BY <2>14 DEF ConsumeSteer, WriteStatus
    <3> QED
      BY <2>u, <2>w, <3>1, <3>2
  <2>15. ASSUME NEW i \in capFiles, ConsumeCapability(i) PROVE SnapInv'
    <3>1. append' = append
      BY <2>15 DEF ConsumeCapability
    <3>2. disk' = disk \/ \E s : disk' = [state |-> s, steps |-> steps', pendingAppends |-> FALSE]
      BY <2>15 DEF ConsumeCapability, WriteStatus
    <3> QED
      BY <2>u, <2>w, <3>1, <3>2
  <2>16. ASSUME NEW a \in acks, ConsumeAck(a) PROVE SnapInv'
    <3>1. append' = append
      BY <2>16 DEF ConsumeAck
    <3>2. disk' = disk \/ \E s : disk' = [state |-> s, steps |-> steps', pendingAppends |-> FALSE]
      BY <2>16 DEF ConsumeAck, WriteStatus
    <3> QED
      BY <2>u, <2>w, <3>1, <3>2
  <2>17. ASSUME DeadlinePasses PROVE SnapInv'
    <3>1. append' = append
      BY <2>17 DEF DeadlinePasses, Served
    <3>2. disk' = disk \/ \E s : disk' = [state |-> s, steps |-> steps', pendingAppends |-> FALSE]
      BY <2>17 DEF DeadlinePasses, WriteStatus
    <3> QED
      BY <2>u, <2>w, <3>1, <3>2
  <2>18. ASSUME NEW a \in Appends, ReadForAppend(a) PROVE SnapInv'
    <3>1. disk' = disk /\ append' = [append EXCEPT ![a] = [pc |-> "read", read |-> disk]]
      BY <2>18 DEF ReadForAppend
    <3> QED
      BY <2>q, <2>r, <3>1
  <2>19. ASSUME NEW a \in Appends, FileAppend(a) PROVE SnapInv'
    <3>1. disk' = disk /\ append' = [append EXCEPT ![a].pc = "filed"] /\ append[a].pc = "read"
      BY <2>19 DEF FileAppend
    <3>2. \A b \in Appends : /\ append'[b] = [pc |-> append'[b].pc, read |-> append'[b].read]
                             /\ append'[b].read = append[b].read
                             /\ append'[b].pc = append[b].pc \/ b = a
      BY <2>q, <3>1
    <3> QED
      BY <2>q, <3>1, <3>2
  <2>20. ASSUME NEW a \in Appends, WriteBackStatus(a) PROVE SnapInv'
    <3> DEFINE d == append[a].read
               p == (appendFiles # {})
    <3>1. /\ disk' = [d EXCEPT !.pendingAppends = p] /\ append[a].pc = "filed"
          /\ append' = [append EXCEPT ![a] = [pc |-> "done", read |-> <<>>]]
      BY <2>20 DEF WriteBackStatus
    <3>2. Snap(d, steps')
      BY <2>q, <3>1
    <3> HIDE DEF d, p
    <3>3. Snap(disk', steps')
      BY <3>1, <3>2, SnapFacts
    <3>4. /\ DOMAIN append' = Appends
          /\ \A b \in Appends : /\ append'[b] = [pc |-> append'[b].pc, read |-> append'[b].read]
                                /\ b # a => append'[b] = append[b]
                                /\ b = a => append'[b].pc = "done"
      BY <2>q, <3>1
    <3> QED
      BY <2>q, <3>3, <3>4
  <2>21. ASSUME \/ LeaveLoop \/ GroupDone \/ CloseInbox \/ PublishResult
        PROVE  UNCHANGED <<disk, append>>
    BY <2>21 DEF LeaveLoop, GroupDone, CloseInbox, PublishResult
  <2>22. ASSUME NEW k \in Tasks,
              \/ Retry(k) \/ ChildEnds(k) \/ TurnsExceeded(k) \/ Overspend(k)
        PROVE  UNCHANGED <<disk, append>>
    BY <2>22 DEF Retry, ChildEnds, TurnsExceeded, Overspend, Spawn, Served
  <2>23. ASSUME NEW i \in proc,
              \/ PublishCapability(i)
        PROVE  UNCHANGED <<disk, append>>
    BY <2>23 DEF PublishCapability
  <2>24. ASSUME NEW i \in proc, NEW r \in Steers,
              \/ TakeSteer(i, r) \/ StartTurn(i, r)
        PROVE  UNCHANGED <<disk, append>>
    BY <2>24 DEF TakeSteer, StartTurn
  <2>25. ASSUME NEW c \in {"stop", "timeout", "interrupt"},
              \/ SendControl(c)
        PROVE  UNCHANGED <<disk, append>>
    BY <2>25 DEF SendControl
  <2>26. ASSUME NEW r \in Steers,
              \/ ReadForSteer(r) \/ WriteSteer(r) \/ ConfirmSteer(r)
        PROVE  UNCHANGED <<disk, append>>
    BY <2>26 DEF ReadForSteer, WriteSteer, ConfirmSteer, Sender
  <2>27. CASE UNCHANGED <<disk, append>>
    BY <2>u, <2>27
  <2> QED
    BY <2>1, <2>2, <2>3, <2>4, <2>5, <2>6, <2>7, <2>8, <2>9, <2>10, <2>11, <2>12,
       <2>13, <2>14, <2>15, <2>16, <2>17, <2>18, <2>19, <2>20, <2>21, <2>22, <2>23,
       <2>24, <2>25, <2>26, <2>27 DEF Next, RunnerStep, TaskStep, ServeInbox,
       ChildStep, ParentStep, vars
<1> QED
  BY <1>1, <1>2

\* A request that is read is routed to, or held for, those it names.
LEMMA ReadFacts ==
  ASSUME NEW r \in Steers, ConsumeSteer(r)
  PROVE  /\ r \in steerFiles /\ steerFiles' \subseteq steerFiles
         /\ held' = held \/ held' = held \cup {r}
         /\ r \in held' => r \in held \/ steer[r].indexed \/ steer[r].sel = {}
         /\ \A q \in inbox' : q \in inbox \/
              (q[2] = r /\ (steer[r].sel # {} => q[1] \in steer[r].sel))
         /\ UNCHANGED <<steer, queue, heard>>
<1> DEFINE sel == steer[r].sel
           is == IF sel # {} THEN sel ELSE Running(steps)
           waits == steer[r].indexed /\ \E i \in sel \cap DOMAIN steps : steps[i].st = "pending"
<1>1. /\ r \in steerFiles /\ steerFiles' \subseteq steerFiles
      /\ held' = IF waits \/ is = {} THEN held \cup {r} ELSE held
      /\ Deliver({r}, is, steps) \/ UNCHANGED inbox
      /\ UNCHANGED <<steer, queue, heard>>
  BY DEF ConsumeSteer, children, parents, callers
<1>2. \A q \in inbox' : q \in inbox \/ q \in is \X {r}
  <2> DEFINE at == {i \in is : [j \in is |-> TargetState(steps, j)][i] = "routed"}
  <2>1. inbox' = inbox \/ inbox' = inbox \cup at \X {r}
    BY <1>1 DEF Deliver
  <2>2. at \subseteq is
    OBVIOUS
  <2> HIDE DEF at, is
  <2> QED
    BY <2>1, <2>2
<1>3. /\ waits => steer[r].indexed
      /\ sel # {} => is = sel
  OBVIOUS
<1>4. sel = steer[r].sel
  OBVIOUS
<1> HIDE DEF waits, is, sel
<1> QED
  BY <1>1, <1>2, <1>3, <1>4

\* SentInv holds in every initial state and is kept by every step.
LEMMA SentInvInductive ==
  /\ Init => SentInv
  /\ SteerOK /\ SentInv /\ [Next]_vars => SentInv'
<1> USE DEF SentInv
<1>1. Init => SentInv
  BY DEF Init
<1>2. SteerOK /\ SentInv /\ [Next]_vars => SentInv'
  <2> SUFFICES ASSUME SteerOK, SentInv, [Next]_vars PROVE SentInv'
    OBVIOUS
  <2> USE DEF loop, report, steering, files, children, callers, parents
  <2>1. ASSUME StartOne PROVE SentInv'
    <3>1. \E i, ss : FlushSteers(i, ss)
      BY <2>1 DEF StartOne, StartStep
    <3>2. UNCHANGED <<steer, steerFiles, queue, heard>>
      BY <2>1 DEF StartOne, StartStep, Spawn
    <3> QED
      BY <3>1, <3>2, FlushFacts
  <2>2. ASSUME NEW k \in Tasks, StartTask(k) PROVE SentInv'
    <3>1. \E i, ss : FlushSteers(i, ss)
      BY <2>2 DEF StartTask, StartStep
    <3>2. UNCHANGED <<steer, steerFiles, queue, heard>>
      BY <2>2 DEF StartTask, StartStep, Spawn
    <3> QED
      BY <3>1, <3>2, FlushFacts
  <2>3. ASSUME SweepSteers PROVE SentInv'
    BY <2>3 DEF SweepSteers
  <2>4. ASSUME NEW r \in Steers, ConsumeSteer(r) PROVE SentInv'
    BY <2>4, ReadFacts
  <2>5. ASSUME NEW k \in Tasks, ChildEnds(k) PROVE SentInv'
    BY <2>5 DEF ChildEnds
  <2>6. ASSUME NEW i \in proc, NEW r \in Steers, TakeSteer(i, r) PROVE SentInv'
    BY <2>6 DEF TakeSteer
  <2>7. ASSUME NEW i \in proc, NEW r \in Steers, StartTurn(i, r) PROVE SentInv'
    BY <2>7 DEF StartTurn
  <2>8. ASSUME NEW r \in Steers, ReadForSteer(r) PROVE SentInv'
    <3>1. /\ \A s \in Steers \ {r} : steer'[s] = steer[s]
          /\ steer'[r].pc \in {"idle", "checked"}
          /\ steer'[r].pc \in {"idle", "checked"} => steer[r].pc \in {"idle", "checked"}
          /\ UNCHANGED <<held, inbox, queue, heard>>
          /\ \A s \in Steers \ {r} : s \in steerFiles' => s \in steerFiles
          /\ steer'[r].pc \in {"idle", "checked"} => steerFiles' = steerFiles
      BY <2>8 DEF ReadForSteer, Sender, SteerOK
    <3> QED
      BY <3>1
  <2>9. ASSUME NEW r \in Steers, WriteSteer(r) PROVE SentInv'
    <3>1. /\ \A s \in Steers \ {r} : steer'[s] = steer[s]
          /\ steer'[r].pc \in {"written"}
          /\ steer'[r].pc \in {"idle", "checked"} => steer[r].pc \in {"idle", "checked"}
          /\ UNCHANGED <<held, inbox, queue, heard>>
          /\ \A s \in Steers \ {r} : s \in steerFiles' => s \in steerFiles
          /\ steer'[r].pc \in {"idle", "checked"} => steerFiles' = steerFiles
      BY <2>9 DEF WriteSteer, Sender, SteerOK
    <3> QED
      BY <3>1
  <2>10. ASSUME NEW r \in Steers, ConfirmSteer(r) PROVE SentInv'
    <3>1. /\ \A s \in Steers \ {r} : steer'[s] = steer[s]
          /\ steer'[r].pc \in {"refused", "accepted"}
          /\ steer'[r].pc \in {"idle", "checked"} => steer[r].pc \in {"idle", "checked"}
          /\ UNCHANGED <<held, inbox, queue, heard>>
          /\ \A s \in Steers \ {r} : s \in steerFiles' => s \in steerFiles
          /\ steer'[r].pc \in {"idle", "checked"} => steerFiles' = steerFiles
      BY <2>10 DEF ConfirmSteer, Sender, SteerOK
    <3> QED
      BY <3>1
  <2>11. ASSUME \/ LeaveLoop \/ UsageExhausted \/ StartMany \/ StartFan
              \/ GroupDone \/ EmptyFanDone \/ CloseInbox \/ PublishResult
              \/ WriteLastStatus \/ ConsumeStop \/ ConsumeTimeout
              \/ ConsumeInterrupt \/ DeadlinePasses
        PROVE  UNCHANGED <<steer, steerFiles, held, inbox, queue, heard>>
    BY <2>11 DEF LeaveLoop, UsageExhausted, StartMany, StartFan, GroupDone,
         EmptyFanDone, CloseInbox, PublishResult, WriteLastStatus, ConsumeStop,
         ConsumeTimeout, ConsumeInterrupt, DeadlinePasses, AtLoopTop, StopRunner,
         Apply, Served, TimeoutRunner, InterruptRunner
  <2>12. ASSUME NEW k \in Tasks,
              \/ RefuseTask(k) \/ Retry(k) \/ FinishTask(k) \/ TurnsExceeded(k)
              \/ Overspend(k)
        PROVE  UNCHANGED <<steer, steerFiles, held, inbox, queue, heard>>
    BY <2>12 DEF RefuseTask, Retry, FinishTask, TurnsExceeded, Overspend, Spawn,
         Served
  <2>13. ASSUME NEW i \in capFiles,
              \/ ConsumeCapability(i)
        PROVE  UNCHANGED <<steer, steerFiles, held, inbox, queue, heard>>
    BY <2>13 DEF ConsumeCapability
  <2>14. ASSUME NEW a \in acks,
              \/ ConsumeAck(a)
        PROVE  UNCHANGED <<steer, steerFiles, held, inbox, queue, heard>>
    BY <2>14 DEF ConsumeAck
  <2>15. ASSUME NEW i \in proc,
              \/ PublishCapability(i)
        PROVE  UNCHANGED <<steer, steerFiles, held, inbox, queue, heard>>
    BY <2>15 DEF PublishCapability
  <2>16. ASSUME NEW c \in {"stop", "timeout", "interrupt"},
              \/ SendControl(c)
        PROVE  UNCHANGED <<steer, steerFiles, held, inbox, queue, heard>>
    BY <2>16 DEF SendControl
  <2>17. ASSUME NEW a \in Appends,
              \/ ReadForAppend(a) \/ FileAppend(a) \/ WriteBackStatus(a)
        PROVE  UNCHANGED <<steer, steerFiles, held, inbox, queue, heard>>
    BY <2>17 DEF ReadForAppend, FileAppend, WriteBackStatus, Appender
  <2>18. CASE UNCHANGED <<steer, steerFiles, held, inbox, queue, heard>>
    BY <2>18
  <2> QED
    BY <2>1, <2>2, <2>3, <2>4, <2>5, <2>6, <2>7, <2>8, <2>9, <2>10, <2>11, <2>12,
       <2>13, <2>14, <2>15, <2>16, <2>17, <2>18 DEF Next, RunnerStep, TaskStep,
       ServeInbox, ChildStep, ParentStep, vars
<1> QED
  BY <1>1, <1>2

\* NameInv holds in every initial state and is kept by every step.
LEMMA NameInvInductive ==
  /\ Init => NameInv
  /\ PlanOK /\ TaskOK /\ StepsOK /\ AlignInv /\ TailInv /\ SetInv /\ SnapInv /\ SteerOK /\ NameInv /\ [Next]_vars => NameInv'
<1> USE DEF NameInv, Named
<1>1. Init => NameInv
  BY DEF Init
<1>2. PlanOK /\ TaskOK /\ StepsOK /\ AlignInv /\ TailInv /\ SetInv /\ SnapInv /\ SteerOK /\ NameInv /\ [Next]_vars => NameInv'
  <2> SUFFICES ASSUME PlanOK, TaskOK, StepsOK, AlignInv, TailInv, SetInv, SnapInv, SteerOK, NameInv, [Next]_vars PROVE NameInv'
    OBVIOUS
  <2> USE DEF loop, report, steering, files, children, callers, parents
  <2>k. Keeps(steps, steps')
    BY StepsKept
  <2>u. steer' = steer => NameInv'
    <3> SUFFICES ASSUME NEW r \in Steers, steer' = steer PROVE Named(r, steer, steps')
      OBVIOUS
    <3> QED
      BY <2>k DEF Keeps
  <2>1. ASSUME NEW r \in Steers, ReadForSteer(r) PROVE NameInv'
    <3>1. /\ \A s \in Steers \ {r} : steer'[s] = steer[s]
          /\ UNCHANGED steps /\ steer[r].pc = "idle"
      BY <2>1 DEF ReadForSteer, Sender, SteerOK
    <3>2. \/ \E i \in DOMAIN disk.steps :
               steer'[r] = [pc |-> "checked", sel |-> {i}, indexed |-> TRUE,
                 want |-> IF Settled(disk.steps, i) THEN {disk.steps[i].id} ELSE {}]
          \/ /\ Running(disk.steps) # {}
             /\ steer'[r] = [pc |-> "checked", sel |-> Running(disk.steps), indexed |-> FALSE,
                  want |-> {disk.steps[i].id : i \in Running(disk.steps)}]
          \/ steer'[r] = [steer[r] EXCEPT !.pc = "checked"]
      BY <2>1 DEF ReadForSteer, SteerOK
    <3>3. /\ \A i \in DOMAIN disk.steps : Settled(disk.steps, i) =>
               i \in DOMAIN steps /\ steps[i].id = disk.steps[i].id /\ Settled(steps, i)
          /\ \A i \in Running(disk.steps) : i \in DOMAIN disk.steps /\ Settled(disk.steps, i)
      BY DEF SnapInv, Snap, Keeps, Running
    <3>4. Named(r, steer', steps)
      <4>1. CASE \E i \in DOMAIN disk.steps :
               steer'[r] = [pc |-> "checked", sel |-> {i}, indexed |-> TRUE,
                 want |-> IF Settled(disk.steps, i) THEN {disk.steps[i].id} ELSE {}]
        BY <3>3, <4>1
      <4>2. CASE /\ Running(disk.steps) # {}
                 /\ steer'[r] = [pc |-> "checked", sel |-> Running(disk.steps), indexed |-> FALSE,
                      want |-> {disk.steps[i].id : i \in Running(disk.steps)}]
        <5> DEFINE R == Running(disk.steps)  D == disk.steps
        <5>1. /\ R # {} /\ steer'[r].sel = R /\ steer'[r].want = {D[i].id : i \in R}
          BY <4>2
        <5>2. \A i \in R : i \in DOMAIN steps /\ steps[i].id = D[i].id /\ Settled(steps, i)
          BY <3>3
        <5> HIDE DEF R, D
        <5> QED
          BY <5>1, <5>2
      <4>3. CASE steer'[r] = [steer[r] EXCEPT !.pc = "checked"]
        <5>1. steer'[r].sel = steer[r].sel /\ steer'[r].want = steer[r].want
          BY <4>3 DEF SteerOK
        <5> QED
          BY <5>1
      <4> QED
        BY <3>2, <4>1, <4>2, <4>3
    <3> QED
      BY <3>1, <3>4
  <2>2. ASSUME NEW r \in Steers, WriteSteer(r) PROVE NameInv'
    <3>1. \A s \in Steers : steer'[s].sel = steer[s].sel /\ steer'[s].want = steer[s].want
      BY <2>2 DEF WriteSteer, SteerOK
    <3>2. UNCHANGED steps
      BY <2>2 DEF WriteSteer, Sender
    <3> QED
      BY <3>1, <3>2
  <2>3. ASSUME NEW r \in Steers, ConfirmSteer(r) PROVE NameInv'
    <3>1. \A s \in Steers : steer'[s].sel = steer[s].sel /\ steer'[s].want = steer[s].want
      BY <2>3 DEF ConfirmSteer, SteerOK
    <3>2. UNCHANGED steps
      BY <2>3 DEF ConfirmSteer, Sender
    <3> QED
      BY <3>1, <3>2
  <2>4. ASSUME \/ LeaveLoop \/ UsageExhausted \/ StartOne \/ StartMany
              \/ StartFan \/ GroupDone \/ EmptyFanDone \/ CloseInbox
              \/ SweepSteers \/ PublishResult \/ WriteLastStatus \/ ConsumeStop
              \/ ConsumeTimeout \/ ConsumeInterrupt \/ DeadlinePasses
        PROVE  UNCHANGED steer
    BY <2>4 DEF LeaveLoop, UsageExhausted, StartOne, StartMany, StartFan, GroupDone,
         EmptyFanDone, CloseInbox, SweepSteers, PublishResult, WriteLastStatus,
         ConsumeStop, ConsumeTimeout, ConsumeInterrupt, DeadlinePasses, AtLoopTop,
         StartStep, FlushSteers, Spawn, Deliver, StopRunner, Apply, Served,
         TimeoutRunner, InterruptRunner
  <2>5. ASSUME NEW k \in Tasks,
              \/ StartTask(k) \/ RefuseTask(k) \/ Retry(k) \/ FinishTask(k)
              \/ ChildEnds(k) \/ TurnsExceeded(k) \/ Overspend(k)
        PROVE  UNCHANGED steer
    BY <2>5 DEF StartTask, RefuseTask, Retry, FinishTask, ChildEnds, TurnsExceeded,
         Overspend, StartStep, FlushSteers, Spawn, Deliver, Served
  <2>6. ASSUME NEW r \in Steers,
              \/ ConsumeSteer(r)
        PROVE  UNCHANGED steer
    BY <2>6 DEF ConsumeSteer, Deliver
  <2>7. ASSUME NEW i \in capFiles,
              \/ ConsumeCapability(i)
        PROVE  UNCHANGED steer
    BY <2>7 DEF ConsumeCapability
  <2>8. ASSUME NEW a \in acks,
              \/ ConsumeAck(a)
        PROVE  UNCHANGED steer
    BY <2>8 DEF ConsumeAck
  <2>9. ASSUME NEW i \in proc,
              \/ PublishCapability(i)
        PROVE  UNCHANGED steer
    BY <2>9 DEF PublishCapability
  <2>10. ASSUME NEW i \in proc, NEW r \in Steers,
              \/ TakeSteer(i, r) \/ StartTurn(i, r)
        PROVE  UNCHANGED steer
    BY <2>10 DEF TakeSteer, StartTurn
  <2>11. ASSUME NEW c \in {"stop", "timeout", "interrupt"},
              \/ SendControl(c)
        PROVE  UNCHANGED steer
    BY <2>11 DEF SendControl
  <2>12. ASSUME NEW a \in Appends,
              \/ ReadForAppend(a) \/ FileAppend(a) \/ WriteBackStatus(a)
        PROVE  UNCHANGED steer
    BY <2>12 DEF ReadForAppend, FileAppend, WriteBackStatus, Appender
  <2>13. CASE UNCHANGED steer
    BY <2>u, <2>13
  <2> QED
    BY <2>1, <2>2, <2>3, <2>4, <2>5, <2>6, <2>7, <2>8, <2>9, <2>10, <2>11, <2>12,
       <2>13 DEF Next, RunnerStep, TaskStep, ServeInbox, ChildStep, ParentStep, vars
<1> QED
  BY <1>1, <1>2

\* RouteInv holds in every initial state and is kept by every step.
LEMMA RouteInvInductive ==
  /\ Init => RouteInv
  /\ SteerOK /\ NameInv /\ SentInv /\ RouteInv /\ [Next]_vars => RouteInv'
<1> USE DEF RouteInv
<1>1. Init => RouteInv
  BY DEF Init
<1>2. SteerOK /\ NameInv /\ SentInv /\ RouteInv /\ [Next]_vars => RouteInv'
  <2> SUFFICES ASSUME SteerOK, NameInv, SentInv, RouteInv, [Next]_vars PROVE RouteInv'
    OBVIOUS
  <2> USE DEF loop, report, steering, files, children, callers, parents
  <2>1. ASSUME StartOne PROVE RouteInv'
    <3>1. \E i, ss : FlushSteers(i, ss)
      BY <2>1 DEF StartOne, StartStep
    <3>2. UNCHANGED <<steer, queue>>
      BY <2>1 DEF StartOne, StartStep, Spawn
    <3> QED
      BY <3>1, <3>2, FlushFacts
  <2>2. ASSUME NEW k \in Tasks, StartTask(k) PROVE RouteInv'
    <3>1. \E i, ss : FlushSteers(i, ss)
      BY <2>2 DEF StartTask, StartStep
    <3>2. UNCHANGED <<steer, queue>>
      BY <2>2 DEF StartTask, StartStep, Spawn
    <3> QED
      BY <3>1, <3>2, FlushFacts
  <2>3. ASSUME NEW r \in Steers, ConsumeSteer(r) PROVE RouteInv'
    <3>1. steer[r].want # {} => steer[r].sel # {}
      BY DEF NameInv, Named
    <3> QED
      BY <2>3, <3>1, ReadFacts
  <2>4. ASSUME NEW k \in Tasks, ChildEnds(k) PROVE RouteInv'
    BY <2>4 DEF ChildEnds
  <2>5. ASSUME NEW i \in proc, NEW r \in Steers, TakeSteer(i, r) PROVE RouteInv'
    <3>1. /\ inbox' \subseteq inbox /\ queue' \subseteq queue \cup inbox /\ UNCHANGED <<steer, held>>
      BY <2>5 DEF TakeSteer
    <3> QED
      BY <3>1
  <2>6. ASSUME NEW i \in proc, NEW r \in Steers, StartTurn(i, r) PROVE RouteInv'
    BY <2>6 DEF StartTurn
  <2>7. ASSUME NEW r \in Steers, ReadForSteer(r) PROVE RouteInv'
    <3>1. /\ \A s \in Steers \ {r} : steer'[s] = steer[s]
          /\ UNCHANGED <<held, inbox, queue>> /\ steer[r].pc = "idle"
      BY <2>7 DEF ReadForSteer, Sender, SteerOK
    <3>2. r \notin held /\ \A q \in inbox \cup queue : q[2] # r
      BY <3>1 DEF SentInv
    <3> QED
      BY <3>1, <3>2
  <2>8. ASSUME NEW r \in Steers, WriteSteer(r) PROVE RouteInv'
    <3>1. \A s \in Steers : /\ steer'[s].sel = steer[s].sel /\ steer'[s].want = steer[s].want
                            /\ steer'[s].indexed = steer[s].indexed
      BY <2>8 DEF WriteSteer, SteerOK
    <3>2. UNCHANGED <<held, inbox, queue>>
      BY <2>8 DEF WriteSteer, Sender
    <3> QED
      BY <3>1, <3>2
  <2>9. ASSUME NEW r \in Steers, ConfirmSteer(r) PROVE RouteInv'
    <3>1. \A s \in Steers : /\ steer'[s].sel = steer[s].sel /\ steer'[s].want = steer[s].want
                            /\ steer'[s].indexed = steer[s].indexed
      BY <2>9 DEF ConfirmSteer, SteerOK
    <3>2. UNCHANGED <<held, inbox, queue>>
      BY <2>9 DEF ConfirmSteer, Sender
    <3> QED
      BY <3>1, <3>2
  <2>10. ASSUME \/ LeaveLoop \/ UsageExhausted \/ StartMany \/ StartFan
              \/ GroupDone \/ EmptyFanDone \/ CloseInbox \/ SweepSteers
              \/ PublishResult \/ WriteLastStatus \/ ConsumeStop
              \/ ConsumeTimeout \/ ConsumeInterrupt \/ DeadlinePasses
        PROVE  UNCHANGED <<steer, held, inbox, queue>>
    BY <2>10 DEF LeaveLoop, UsageExhausted, StartMany, StartFan, GroupDone,
         EmptyFanDone, CloseInbox, SweepSteers, PublishResult, WriteLastStatus,
         ConsumeStop, ConsumeTimeout, ConsumeInterrupt, DeadlinePasses, AtLoopTop,
         StopRunner, Apply, Served, TimeoutRunner, InterruptRunner
  <2>11. ASSUME NEW k \in Tasks,
              \/ RefuseTask(k) \/ Retry(k) \/ FinishTask(k) \/ TurnsExceeded(k)
              \/ Overspend(k)
        PROVE  UNCHANGED <<steer, held, inbox, queue>>
    BY <2>11 DEF RefuseTask, Retry, FinishTask, TurnsExceeded, Overspend, Spawn,
         Served
  <2>12. ASSUME NEW i \in capFiles,
              \/ ConsumeCapability(i)
        PROVE  UNCHANGED <<steer, held, inbox, queue>>
    BY <2>12 DEF ConsumeCapability
  <2>13. ASSUME NEW a \in acks,
              \/ ConsumeAck(a)
        PROVE  UNCHANGED <<steer, held, inbox, queue>>
    BY <2>13 DEF ConsumeAck
  <2>14. ASSUME NEW i \in proc,
              \/ PublishCapability(i)
        PROVE  UNCHANGED <<steer, held, inbox, queue>>
    BY <2>14 DEF PublishCapability
  <2>15. ASSUME NEW c \in {"stop", "timeout", "interrupt"},
              \/ SendControl(c)
        PROVE  UNCHANGED <<steer, held, inbox, queue>>
    BY <2>15 DEF SendControl
  <2>16. ASSUME NEW a \in Appends,
              \/ ReadForAppend(a) \/ FileAppend(a) \/ WriteBackStatus(a)
        PROVE  UNCHANGED <<steer, held, inbox, queue>>
    BY <2>16 DEF ReadForAppend, FileAppend, WriteBackStatus, Appender
  <2>17. CASE UNCHANGED <<steer, held, inbox, queue>>
    BY <2>17
  <2> QED
    BY <2>1, <2>2, <2>3, <2>4, <2>5, <2>6, <2>7, <2>8, <2>9, <2>10, <2>11, <2>12,
       <2>13, <2>14, <2>15, <2>16, <2>17 DEF Next, RunnerStep, TaskStep, ServeInbox,
       ChildStep, ParentStep, vars
<1> QED
  BY <1>1, <1>2

\* SteerReachesItsChild holds in every initial state and is kept by every step.
LEMMA SteerReachesItsChildInductive ==
  /\ Init => SteerReachesItsChild
  /\ SteerOK /\ NameInv /\ SentInv /\ RouteInv /\ SteerReachesItsChild /\ [Next]_vars => SteerReachesItsChild'
<1> USE DEF SteerReachesItsChild
<1>1. Init => SteerReachesItsChild
  BY DEF Init
<1>2. SteerOK /\ NameInv /\ SentInv /\ RouteInv /\ SteerReachesItsChild /\ [Next]_vars => SteerReachesItsChild'
  <2> SUFFICES ASSUME SteerOK, NameInv, SentInv, RouteInv, SteerReachesItsChild, [Next]_vars PROVE SteerReachesItsChild'
    OBVIOUS
  <2> USE DEF loop, report, steering, files, children, callers, parents
  <2>1. ASSUME NEW i \in proc, NEW r \in Steers, TakeSteer(i, r) PROVE SteerReachesItsChild'
    <3>1. /\ heard' \subseteq heard \cup {<<r, steps[i].id>>} /\ <<i, r>> \in inbox \cup queue
          /\ UNCHANGED steer
      BY <2>1 DEF TakeSteer
    <3>2. steer[r].want # {} => steps[i].id \in steer[r].want
      BY <3>1 DEF RouteInv, NameInv, Named
    <3> QED
      BY <3>1, <3>2
  <2>2. ASSUME NEW i \in proc, NEW r \in Steers, StartTurn(i, r) PROVE SteerReachesItsChild'
    <3>1. /\ heard' \subseteq heard \cup {<<r, steps[i].id>>} /\ <<i, r>> \in inbox \cup queue
          /\ UNCHANGED steer
      BY <2>2 DEF StartTurn
    <3>2. steer[r].want # {} => steps[i].id \in steer[r].want
      BY <3>1 DEF RouteInv, NameInv, Named
    <3> QED
      BY <3>1, <3>2
  <2>3. ASSUME NEW r \in Steers, ReadForSteer(r) PROVE SteerReachesItsChild'
    <3>1. /\ \A s \in Steers \ {r} : steer'[s] = steer[s]
          /\ UNCHANGED heard /\ steer[r].pc = "idle"
      BY <2>3 DEF ReadForSteer, Sender, SteerOK
    <3>2. \A h \in heard : h[1] # r
      BY <3>1 DEF SentInv
    <3> QED
      BY <3>1, <3>2
  <2>4. ASSUME NEW r \in Steers, WriteSteer(r) PROVE SteerReachesItsChild'
    <3>1. \A s \in Steers : steer'[s].want = steer[s].want
      BY <2>4 DEF WriteSteer, SteerOK
    <3>2. UNCHANGED heard
      BY <2>4 DEF WriteSteer, Sender
    <3> QED
      BY <3>1, <3>2
  <2>5. ASSUME NEW r \in Steers, ConfirmSteer(r) PROVE SteerReachesItsChild'
    <3>1. \A s \in Steers : steer'[s].want = steer[s].want
      BY <2>5 DEF ConfirmSteer, SteerOK
    <3>2. UNCHANGED heard
      BY <2>5 DEF ConfirmSteer, Sender
    <3> QED
      BY <3>1, <3>2
  <2>6. ASSUME \/ LeaveLoop \/ UsageExhausted \/ StartOne \/ StartMany
              \/ StartFan \/ GroupDone \/ EmptyFanDone \/ CloseInbox
              \/ SweepSteers \/ PublishResult \/ WriteLastStatus \/ ConsumeStop
              \/ ConsumeTimeout \/ ConsumeInterrupt \/ DeadlinePasses
        PROVE  UNCHANGED <<steer, heard>>
    BY <2>6 DEF LeaveLoop, UsageExhausted, StartOne, StartMany, StartFan, GroupDone,
         EmptyFanDone, CloseInbox, SweepSteers, PublishResult, WriteLastStatus,
         ConsumeStop, ConsumeTimeout, ConsumeInterrupt, DeadlinePasses, AtLoopTop,
         StartStep, FlushSteers, Spawn, Deliver, StopRunner, Apply, Served,
         TimeoutRunner, InterruptRunner
  <2>7. ASSUME NEW k \in Tasks,
              \/ StartTask(k) \/ RefuseTask(k) \/ Retry(k) \/ FinishTask(k)
              \/ ChildEnds(k) \/ TurnsExceeded(k) \/ Overspend(k)
        PROVE  UNCHANGED <<steer, heard>>
    BY <2>7 DEF StartTask, RefuseTask, Retry, FinishTask, ChildEnds, TurnsExceeded,
         Overspend, StartStep, FlushSteers, Spawn, Deliver, Served
  <2>8. ASSUME NEW r \in Steers,
              \/ ConsumeSteer(r)
        PROVE  UNCHANGED <<steer, heard>>
    BY <2>8 DEF ConsumeSteer, Deliver
  <2>9. ASSUME NEW i \in capFiles,
              \/ ConsumeCapability(i)
        PROVE  UNCHANGED <<steer, heard>>
    BY <2>9 DEF ConsumeCapability
  <2>10. ASSUME NEW a \in acks,
              \/ ConsumeAck(a)
        PROVE  UNCHANGED <<steer, heard>>
    BY <2>10 DEF ConsumeAck
  <2>11. ASSUME NEW i \in proc,
              \/ PublishCapability(i)
        PROVE  UNCHANGED <<steer, heard>>
    BY <2>11 DEF PublishCapability
  <2>12. ASSUME NEW c \in {"stop", "timeout", "interrupt"},
              \/ SendControl(c)
        PROVE  UNCHANGED <<steer, heard>>
    BY <2>12 DEF SendControl
  <2>13. ASSUME NEW a \in Appends,
              \/ ReadForAppend(a) \/ FileAppend(a) \/ WriteBackStatus(a)
        PROVE  UNCHANGED <<steer, heard>>
    BY <2>13 DEF ReadForAppend, FileAppend, WriteBackStatus, Appender
  <2>14. CASE UNCHANGED <<steer, heard>>
    BY <2>14
  <2> QED
    BY <2>1, <2>2, <2>3, <2>4, <2>5, <2>6, <2>7, <2>8, <2>9, <2>10, <2>11, <2>12,
       <2>13, <2>14 DEF Next, RunnerStep, TaskStep, ServeInbox, ChildStep, ParentStep,
       vars
<1> QED
  BY <1>1, <1>2

\* A message reaches only children it was meant for when its sender read the
\* status, although it names them by their places in a list that appended steps
\* and the items of dynamic groups change, and although the status that was read
\* may be an old one that append-step wrote back.
THEOREM SteersReachTheirChildren ==
  ASSUME PlanAssumption, BoundsAssumption
  PROVE  Spec => []SteerReachesItsChild
<1> DEFINE Inv ==
      /\ PlanOK /\ TaskOK /\ StepsOK /\ AlignInv /\ TailInv /\ SetInv /\ RunInv
      /\ SnapInv /\ SteerOK /\ NameInv /\ SentInv /\ RouteInv /\ SteerReachesItsChild
<1>1. Init => Inv
  BY PlanOKInductive, TaskOKInductive, StepsOKInductive, AlignInvInductive,
     TailInvInductive, SetInvInductive, RunInvInductive, SnapInvInductive,
     SteerOKInductive, NameInvInductive, SentInvInductive, RouteInvInductive,
     SteerReachesItsChildInductive
<1>2. Inv /\ [Next]_vars => Inv'
  BY PlanOKInductive, TaskOKInductive, StepsOKInductive, AlignInvInductive,
     TailInvInductive, SetInvInductive, RunInvInductive, SnapInvInductive,
     SteerOKInductive, NameInvInductive, SentInvInductive, RouteInvInductive,
     SteerReachesItsChildInductive
<1> QED
  BY <1>1, <1>2, PTL DEF Spec

-----------------------------------------------------------------------------
(* Types.                                                                  *)

Phases == {"top", "group", "share", "closed", "swept", "published", "exited"}

\* The loop and what it has collected.
LoopKinds == phase \in Phases /\ outcomes \subseteq Results

\* What the runner reports of itself.
ReportKinds ==
  /\ state \in {"running", "paused", "failed", "stopped", "complete"}
  /\ flags \subseteq Breaking \cup {"usage"}

\* The yes-or-no variables.
Switches == spent \in BOOLEAN /\ err \in BOOLEAN

TroubleOK == trouble \in 0 .. MaxTrouble

\* A task that waits to be tried again has an attempt left.
TryInv ==
  \A k \in Tasks : /\ task[k].try <= MaxAttempts
                   /\ task[k].pc = "retrying" => task[k].try < MaxAttempts

\* Requests and control files are those the parents have sent.
InboxKinds ==
  /\ known \subseteq Steers /\ held \subseteq Steers /\ steerFiles \subseteq Steers
  /\ control \subseteq asked /\ asked \subseteq {"stop", "timeout", "interrupt"}
  /\ appendFiles \subseteq Appends

\* The runner is somewhere in the chain, and in the list of steps.
PositionInv == cursor \in 0 .. Len(plan) /\ start \in 0 .. Len(steps)

\* The child of a task that is under way runs.
ChildInv == phase = "group" => \A k \in Tasks : task[k].pc = "child" => Child(k) \in proc

\* Whatever names a child names a place in the list of steps, and only a child
\* that runs has been told something or has messages queued.
PlacesInv ==
  /\ capFiles \subseteq DOMAIN steps /\ deaf \subseteq capFiles
  /\ told \subseteq proc \X Breaking /\ queue \subseteq proc \X Steers
  /\ inbox \subseteq (DOMAIN steps) \X Steers
  /\ acks \subseteq [req : Steers, child : DOMAIN steps,
                    state : {"queued", "delivered", "failed"}]

\* LoopKinds holds in every initial state and is kept by every step.
LEMMA LoopKindsInductive ==
  /\ Init => LoopKinds
  /\ TaskOK /\ LoopKinds /\ [Next]_vars => LoopKinds'
<1> USE DEF LoopKinds, Phases, Results, Failed
<1>1. Init => LoopKinds
  BY DEF Init
<1>2. TaskOK /\ LoopKinds /\ [Next]_vars => LoopKinds'
  <2> SUFFICES ASSUME TaskOK, LoopKinds, [Next]_vars PROVE LoopKinds'
    OBVIOUS
  <2> USE DEF loop, report, steering, files, children, callers, parents
  <2>1. ASSUME LeaveLoop PROVE LoopKinds'
    BY <2>1 DEF LeaveLoop
  <2>2. ASSUME UsageExhausted PROVE LoopKinds'
    BY <2>2 DEF UsageExhausted, AtLoopTop
  <2>3. ASSUME StartOne PROVE LoopKinds'
    BY <2>3 DEF StartOne, StartStep, FlushSteers, Spawn, Deliver, AtLoopTop
  <2>4. ASSUME StartMany PROVE LoopKinds'
    BY <2>4 DEF StartMany, AtLoopTop
  <2>5. ASSUME StartFan PROVE LoopKinds'
    BY <2>5 DEF StartFan, AtLoopTop
  <2>6. ASSUME NEW k \in Tasks, RefuseTask(k) PROVE LoopKinds'
    <3>1. Refusal \in Results
      BY DEF Refusal
    <3>2. outcomes' = outcomes \cup {Refusal} /\ phase' = phase
      BY <2>6 DEF RefuseTask
    <3> QED
      BY <3>1, <3>2
  <2>7. ASSUME NEW k \in Tasks, FinishTask(k) PROVE LoopKinds'
    <3>1. task[k].res \in Results
      <4> HIDE DEF LoopKinds, Results
      <4>1. task \in Seq(TaskRec) /\ k \in DOMAIN task
        BY DEF TaskOK, Tasks
      <4> HIDE DEF TaskRec
      <4>2. task[k] \in TaskRec
        BY <4>1
      <4> QED
        BY <4>2 DEF TaskRec
    <3>2. \E res \in Verdicts(task[k].res) : outcomes' = outcomes \cup {res}
      BY <2>7 DEF FinishTask
    <3>3. Verdicts(task[k].res) \subseteq Results
      BY <3>1 DEF Verdicts
    <3>4. phase' = phase
      BY <2>7 DEF FinishTask
    <3> QED
      BY <3>2, <3>3, <3>4
  <2>8. ASSUME GroupDone PROVE LoopKinds'
    BY <2>8 DEF GroupDone
  <2>9. ASSUME EmptyFanDone PROVE LoopKinds'
    BY <2>9 DEF EmptyFanDone
  <2>10. ASSUME CloseInbox PROVE LoopKinds'
    BY <2>10 DEF CloseInbox
  <2>11. ASSUME SweepSteers PROVE LoopKinds'
    BY <2>11 DEF SweepSteers
  <2>12. ASSUME PublishResult PROVE LoopKinds'
    BY <2>12 DEF PublishResult
  <2>13. ASSUME WriteLastStatus PROVE LoopKinds'
    BY <2>13 DEF WriteLastStatus
  <2>14. ASSUME NEW k \in Tasks,
              \/ StartTask(k) \/ Retry(k) \/ ChildEnds(k) \/ TurnsExceeded(k)
              \/ Overspend(k)
        PROVE  UNCHANGED <<phase, outcomes>>
    BY <2>14 DEF StartTask, Retry, ChildEnds, TurnsExceeded, Overspend, StartStep,
         FlushSteers, Spawn, Deliver, Served
  <2>15. ASSUME \/ ConsumeStop \/ ConsumeTimeout \/ ConsumeInterrupt
              \/ DeadlinePasses
        PROVE  UNCHANGED <<phase, outcomes>>
    BY <2>15 DEF ConsumeStop, ConsumeTimeout, ConsumeInterrupt, DeadlinePasses,
         StopRunner, Apply, Served, TimeoutRunner, InterruptRunner
  <2>16. ASSUME NEW r \in Steers,
              \/ ConsumeSteer(r) \/ ReadForSteer(r) \/ WriteSteer(r)
              \/ ConfirmSteer(r)
        PROVE  UNCHANGED <<phase, outcomes>>
    BY <2>16 DEF ConsumeSteer, ReadForSteer, WriteSteer, ConfirmSteer, Deliver, Sender
  <2>17. ASSUME NEW i \in capFiles,
              \/ ConsumeCapability(i)
        PROVE  UNCHANGED <<phase, outcomes>>
    BY <2>17 DEF ConsumeCapability
  <2>18. ASSUME NEW a \in acks,
              \/ ConsumeAck(a)
        PROVE  UNCHANGED <<phase, outcomes>>
    BY <2>18 DEF ConsumeAck
  <2>19. ASSUME NEW i \in proc,
              \/ PublishCapability(i)
        PROVE  UNCHANGED <<phase, outcomes>>
    BY <2>19 DEF PublishCapability
  <2>20. ASSUME NEW i \in proc, NEW r \in Steers,
              \/ TakeSteer(i, r) \/ StartTurn(i, r)
        PROVE  UNCHANGED <<phase, outcomes>>
    BY <2>20 DEF TakeSteer, StartTurn
  <2>21. ASSUME NEW c \in {"stop", "timeout", "interrupt"},
              \/ SendControl(c)
        PROVE  UNCHANGED <<phase, outcomes>>
    BY <2>21 DEF SendControl
  <2>22. ASSUME NEW a \in Appends,
              \/ ReadForAppend(a) \/ FileAppend(a) \/ WriteBackStatus(a)
        PROVE  UNCHANGED <<phase, outcomes>>
    BY <2>22 DEF ReadForAppend, FileAppend, WriteBackStatus, Appender
  <2>23. CASE UNCHANGED <<phase, outcomes>>
    BY <2>23
  <2> QED
    BY <2>1, <2>2, <2>3, <2>4, <2>5, <2>6, <2>7, <2>8, <2>9, <2>10, <2>11, <2>12,
       <2>13, <2>14, <2>15, <2>16, <2>17, <2>18, <2>19, <2>20, <2>21, <2>22, <2>23 DEF
       Next, RunnerStep, TaskStep, ServeInbox, ChildStep, ParentStep, vars
<1> QED
  BY <1>1, <1>2

\* ReportKinds holds in every initial state and is kept by every step.
LEMMA ReportKindsInductive ==
  /\ Init => ReportKinds
  /\ ReportKinds /\ [Next]_vars => ReportKinds'
<1> USE DEF ReportKinds, Breaking, Ending
<1>1. Init => ReportKinds
  BY DEF Init
<1>2. ReportKinds /\ [Next]_vars => ReportKinds'
  <2> SUFFICES ASSUME ReportKinds, [Next]_vars PROVE ReportKinds'
    OBVIOUS
  <2> USE DEF loop, report, steering, files, children, callers, parents
  <2>1. ASSUME UsageExhausted PROVE ReportKinds'
    BY <2>1 DEF UsageExhausted, AtLoopTop
  <2>2. ASSUME StartFan PROVE ReportKinds'
    BY <2>2 DEF StartFan, AtLoopTop
  <2>3. ASSUME NEW k \in Tasks, RefuseTask(k) PROVE ReportKinds'
    BY <2>3 DEF RefuseTask
  <2>4. ASSUME EmptyFanDone PROVE ReportKinds'
    BY <2>4 DEF EmptyFanDone
  <2>5. ASSUME CloseInbox PROVE ReportKinds'
    BY <2>5 DEF CloseInbox, Late, FinalState
  <2>6. ASSUME PublishResult PROVE ReportKinds'
    BY <2>6 DEF PublishResult
  <2>7. ASSUME ConsumeStop PROVE ReportKinds'
    BY <2>7 DEF ConsumeStop, StopRunner, Apply, Served
  <2>8. ASSUME ConsumeTimeout PROVE ReportKinds'
    BY <2>8 DEF ConsumeTimeout, TimeoutRunner, Apply, Served
  <2>9. ASSUME ConsumeInterrupt PROVE ReportKinds'
    BY <2>9 DEF ConsumeInterrupt, InterruptRunner, Apply, Served
  <2>10. ASSUME DeadlinePasses PROVE ReportKinds'
    BY <2>10 DEF DeadlinePasses, TimeoutRunner, Apply, Served
  <2>11. ASSUME NEW k \in Tasks, TurnsExceeded(k) PROVE ReportKinds'
    BY <2>11 DEF TurnsExceeded, Served
  <2>12. ASSUME \/ LeaveLoop \/ StartOne \/ StartMany \/ GroupDone \/ SweepSteers
              \/ WriteLastStatus
        PROVE  UNCHANGED <<state, flags>>
    BY <2>12 DEF LeaveLoop, StartOne, StartMany, GroupDone, SweepSteers,
         WriteLastStatus, StartStep, FlushSteers, Spawn, Deliver, AtLoopTop
  <2>13. ASSUME NEW k \in Tasks,
              \/ StartTask(k) \/ Retry(k) \/ FinishTask(k) \/ ChildEnds(k)
              \/ Overspend(k)
        PROVE  UNCHANGED <<state, flags>>
    BY <2>13 DEF StartTask, Retry, FinishTask, ChildEnds, Overspend, StartStep,
         FlushSteers, Spawn, Deliver
  <2>14. ASSUME NEW r \in Steers,
              \/ ConsumeSteer(r) \/ ReadForSteer(r) \/ WriteSteer(r)
              \/ ConfirmSteer(r)
        PROVE  UNCHANGED <<state, flags>>
    BY <2>14 DEF ConsumeSteer, ReadForSteer, WriteSteer, ConfirmSteer, Deliver, Sender
  <2>15. ASSUME NEW i \in capFiles,
              \/ ConsumeCapability(i)
        PROVE  UNCHANGED <<state, flags>>
    BY <2>15 DEF ConsumeCapability
  <2>16. ASSUME NEW a \in acks,
              \/ ConsumeAck(a)
        PROVE  UNCHANGED <<state, flags>>
    BY <2>16 DEF ConsumeAck
  <2>17. ASSUME NEW i \in proc,
              \/ PublishCapability(i)
        PROVE  UNCHANGED <<state, flags>>
    BY <2>17 DEF PublishCapability
  <2>18. ASSUME NEW i \in proc, NEW r \in Steers,
              \/ TakeSteer(i, r) \/ StartTurn(i, r)
        PROVE  UNCHANGED <<state, flags>>
    BY <2>18 DEF TakeSteer, StartTurn
  <2>19. ASSUME NEW c \in {"stop", "timeout", "interrupt"},
              \/ SendControl(c)
        PROVE  UNCHANGED <<state, flags>>
    BY <2>19 DEF SendControl
  <2>20. ASSUME NEW a \in Appends,
              \/ ReadForAppend(a) \/ FileAppend(a) \/ WriteBackStatus(a)
        PROVE  UNCHANGED <<state, flags>>
    BY <2>20 DEF ReadForAppend, FileAppend, WriteBackStatus, Appender
  <2>21. CASE UNCHANGED <<state, flags>>
    BY <2>21
  <2> QED
    BY <2>1, <2>2, <2>3, <2>4, <2>5, <2>6, <2>7, <2>8, <2>9, <2>10, <2>11, <2>12,
       <2>13, <2>14, <2>15, <2>16, <2>17, <2>18, <2>19, <2>20, <2>21 DEF Next,
       RunnerStep, TaskStep, ServeInbox, ChildStep, ParentStep, vars
<1> QED
  BY <1>1, <1>2

\* TroubleOK holds in every initial state and is kept by every step.
LEMMA TroubleOKInductive ==
  ASSUME BoundsAssumption
  PROVE  /\ Init => TroubleOK
         /\ TroubleOK /\ [Next]_vars => TroubleOK'
<1> USE BoundsAssumption DEF BoundsAssumption, TroubleOK, BoundsAssumption, Trouble, Charge
<1>1. Init => TroubleOK
  BY DEF Init
<1>2. TroubleOK /\ [Next]_vars => TroubleOK'
  <2> SUFFICES ASSUME TroubleOK, [Next]_vars PROVE TroubleOK'
    OBVIOUS
  <2> USE DEF loop, report, steering, files, children, callers, parents
  <2>1. ASSUME StartMany PROVE TroubleOK'
    BY <2>1 DEF StartMany, AtLoopTop
  <2>2. ASSUME StartFan PROVE TroubleOK'
    BY <2>2 DEF StartFan, AtLoopTop
  <2>3. ASSUME NEW k \in Tasks, FinishTask(k) PROVE TroubleOK'
    BY <2>3 DEF FinishTask
  <2>4. ASSUME GroupDone PROVE TroubleOK'
    BY <2>4 DEF GroupDone
  <2>5. ASSUME EmptyFanDone PROVE TroubleOK'
    BY <2>5 DEF EmptyFanDone
  <2>6. ASSUME PublishResult PROVE TroubleOK'
    <3>1. UNCHANGED trouble \/ Trouble
      BY <2>6 DEF PublishResult
    <3> QED
      BY <3>1
  <2>7. ASSUME DeadlinePasses PROVE TroubleOK'
    BY <2>7 DEF DeadlinePasses, TimeoutRunner, Apply, Served
  <2>8. ASSUME NEW k \in Tasks, ChildEnds(k) PROVE TroubleOK'
    BY <2>8 DEF ChildEnds
  <2>9. ASSUME NEW k \in Tasks, TurnsExceeded(k) PROVE TroubleOK'
    BY <2>9 DEF TurnsExceeded, Served
  <2>10. ASSUME NEW k \in Tasks, Overspend(k) PROVE TroubleOK'
    BY <2>10 DEF Overspend
  <2>11. ASSUME NEW c \in {"stop", "timeout", "interrupt"}, SendControl(c) PROVE TroubleOK'
    BY <2>11 DEF SendControl
  <2>12. ASSUME NEW r \in Steers, ReadForSteer(r) PROVE TroubleOK'
    BY <2>12 DEF ReadForSteer, Sender
  <2>13. ASSUME NEW a \in Appends, ReadForAppend(a) PROVE TroubleOK'
    BY <2>13 DEF ReadForAppend, Appender
  <2>14. ASSUME \/ LeaveLoop \/ UsageExhausted \/ StartOne \/ CloseInbox
              \/ SweepSteers \/ WriteLastStatus \/ ConsumeStop
              \/ ConsumeTimeout \/ ConsumeInterrupt
        PROVE  UNCHANGED trouble
    BY <2>14 DEF LeaveLoop, UsageExhausted, StartOne, CloseInbox, SweepSteers,
         WriteLastStatus, ConsumeStop, ConsumeTimeout, ConsumeInterrupt, AtLoopTop,
         StartStep, FlushSteers, Spawn, Deliver, StopRunner, Apply, Served,
         TimeoutRunner, InterruptRunner
  <2>15. ASSUME NEW k \in Tasks,
              \/ StartTask(k) \/ RefuseTask(k) \/ Retry(k)
        PROVE  UNCHANGED trouble
    BY <2>15 DEF StartTask, RefuseTask, Retry, StartStep, FlushSteers, Spawn, Deliver
  <2>16. ASSUME NEW r \in Steers,
              \/ ConsumeSteer(r) \/ WriteSteer(r) \/ ConfirmSteer(r)
        PROVE  UNCHANGED trouble
    BY <2>16 DEF ConsumeSteer, WriteSteer, ConfirmSteer, Deliver, Sender
  <2>17. ASSUME NEW i \in capFiles,
              \/ ConsumeCapability(i)
        PROVE  UNCHANGED trouble
    BY <2>17 DEF ConsumeCapability
  <2>18. ASSUME NEW a \in acks,
              \/ ConsumeAck(a)
        PROVE  UNCHANGED trouble
    BY <2>18 DEF ConsumeAck
  <2>19. ASSUME NEW i \in proc,
              \/ PublishCapability(i)
        PROVE  UNCHANGED trouble
    BY <2>19 DEF PublishCapability
  <2>20. ASSUME NEW i \in proc, NEW r \in Steers,
              \/ TakeSteer(i, r) \/ StartTurn(i, r)
        PROVE  UNCHANGED trouble
    BY <2>20 DEF TakeSteer, StartTurn
  <2>21. ASSUME NEW a \in Appends,
              \/ FileAppend(a) \/ WriteBackStatus(a)
        PROVE  UNCHANGED trouble
    BY <2>21 DEF FileAppend, WriteBackStatus, Appender
  <2>22. CASE UNCHANGED trouble
    BY <2>22
  <2> QED
    BY <2>1, <2>2, <2>3, <2>4, <2>5, <2>6, <2>7, <2>8, <2>9, <2>10, <2>11, <2>12,
       <2>13, <2>14, <2>15, <2>16, <2>17, <2>18, <2>19, <2>20, <2>21, <2>22 DEF Next,
       RunnerStep, TaskStep, ServeInbox, ChildStep, ParentStep, vars
<1> QED
  BY <1>1, <1>2

\* InboxKinds holds in every initial state and is kept by every step.
LEMMA InboxKindsInductive ==
  /\ Init => InboxKinds
  /\ InboxKinds /\ [Next]_vars => InboxKinds'
<1> USE DEF InboxKinds
<1>1. Init => InboxKinds
  BY DEF Init
<1>2. InboxKinds /\ [Next]_vars => InboxKinds'
  <2> SUFFICES ASSUME InboxKinds, [Next]_vars PROVE InboxKinds'
    OBVIOUS
  <2> USE DEF loop, report, steering, files, children, callers, parents
  <2>1. ASSUME UsageExhausted PROVE InboxKinds'
    BY <2>1 DEF UsageExhausted, AtLoopTop
  <2>2. ASSUME StartOne PROVE InboxKinds'
    BY <2>2 DEF StartOne, StartStep, FlushSteers, Spawn, Deliver, AtLoopTop
  <2>3. ASSUME StartMany PROVE InboxKinds'
    BY <2>3 DEF StartMany, AtLoopTop
  <2>4. ASSUME StartFan PROVE InboxKinds'
    BY <2>4 DEF StartFan, AtLoopTop
  <2>5. ASSUME NEW k \in Tasks, StartTask(k) PROVE InboxKinds'
    BY <2>5 DEF StartTask, StartStep, FlushSteers, Spawn, Deliver
  <2>6. ASSUME SweepSteers PROVE InboxKinds'
    BY <2>6 DEF SweepSteers
  <2>7. ASSUME ConsumeStop PROVE InboxKinds'
    BY <2>7 DEF ConsumeStop, StopRunner, Apply, Served
  <2>8. ASSUME ConsumeTimeout PROVE InboxKinds'
    BY <2>8 DEF ConsumeTimeout, TimeoutRunner, Apply, Served
  <2>9. ASSUME ConsumeInterrupt PROVE InboxKinds'
    BY <2>9 DEF ConsumeInterrupt, InterruptRunner, Apply, Served
  <2>10. ASSUME NEW r \in Steers, ConsumeSteer(r) PROVE InboxKinds'
    BY <2>10 DEF ConsumeSteer, Deliver
  <2>11. ASSUME NEW c \in {"stop", "timeout", "interrupt"}, SendControl(c) PROVE InboxKinds'
    BY <2>11 DEF SendControl
  <2>12. ASSUME NEW r \in Steers, WriteSteer(r) PROVE InboxKinds'
    BY <2>12 DEF WriteSteer, Sender
  <2>13. ASSUME NEW r \in Steers, ConfirmSteer(r) PROVE InboxKinds'
    BY <2>13 DEF ConfirmSteer, Sender
  <2>14. ASSUME NEW a \in Appends, FileAppend(a) PROVE InboxKinds'
    BY <2>14 DEF FileAppend, Appender
  <2>15. ASSUME \/ LeaveLoop \/ GroupDone \/ EmptyFanDone \/ CloseInbox
              \/ PublishResult \/ WriteLastStatus \/ DeadlinePasses
        PROVE  UNCHANGED <<known, held, steerFiles, control, asked, appendFiles>>
    BY <2>15 DEF LeaveLoop, GroupDone, EmptyFanDone, CloseInbox, PublishResult,
         WriteLastStatus, DeadlinePasses, TimeoutRunner, Apply, Served
  <2>16. ASSUME NEW k \in Tasks,
              \/ RefuseTask(k) \/ Retry(k) \/ FinishTask(k) \/ ChildEnds(k)
              \/ TurnsExceeded(k) \/ Overspend(k)
        PROVE  UNCHANGED <<known, held, steerFiles, control, asked, appendFiles>>
    BY <2>16 DEF RefuseTask, Retry, FinishTask, ChildEnds, TurnsExceeded, Overspend,
         Spawn, Served
  <2>17. ASSUME NEW i \in capFiles,
              \/ ConsumeCapability(i)
        PROVE  UNCHANGED <<known, held, steerFiles, control, asked, appendFiles>>
    BY <2>17 DEF ConsumeCapability
  <2>18. ASSUME NEW a \in acks,
              \/ ConsumeAck(a)
        PROVE  UNCHANGED <<known, held, steerFiles, control, asked, appendFiles>>
    BY <2>18 DEF ConsumeAck
  <2>19. ASSUME NEW i \in proc,
              \/ PublishCapability(i)
        PROVE  UNCHANGED <<known, held, steerFiles, control, asked, appendFiles>>
    BY <2>19 DEF PublishCapability
  <2>20. ASSUME NEW i \in proc, NEW r \in Steers,
              \/ TakeSteer(i, r) \/ StartTurn(i, r)
        PROVE  UNCHANGED <<known, held, steerFiles, control, asked, appendFiles>>
    BY <2>20 DEF TakeSteer, StartTurn
  <2>21. ASSUME NEW r \in Steers,
              \/ ReadForSteer(r)
        PROVE  UNCHANGED <<known, held, steerFiles, control, asked, appendFiles>>
    BY <2>21 DEF ReadForSteer, Sender
  <2>22. ASSUME NEW a \in Appends,
              \/ ReadForAppend(a) \/ WriteBackStatus(a)
        PROVE  UNCHANGED <<known, held, steerFiles, control, asked, appendFiles>>
    BY <2>22 DEF ReadForAppend, WriteBackStatus, Appender
  <2>23. CASE UNCHANGED <<known, held, steerFiles, control, asked, appendFiles>>
    BY <2>23
  <2> QED
    BY <2>1, <2>2, <2>3, <2>4, <2>5, <2>6, <2>7, <2>8, <2>9, <2>10, <2>11, <2>12,
       <2>13, <2>14, <2>15, <2>16, <2>17, <2>18, <2>19, <2>20, <2>21, <2>22, <2>23 DEF
       Next, RunnerStep, TaskStep, ServeInbox, ChildStep, ParentStep, vars
<1> QED
  BY <1>1, <1>2

\* TryInv holds in every initial state and is kept by every step.
LEMMA TryInvInductive ==
  ASSUME BoundsAssumption
  PROVE  /\ Init => TryInv
         /\ TaskOK /\ TryInv /\ [Next]_vars => TryInv'
<1> USE BoundsAssumption DEF BoundsAssumption, TryInv
<1>1. Init => TryInv
  BY DEF Init, Tasks
<1>2. TaskOK /\ TryInv /\ [Next]_vars => TryInv'
  <2> SUFFICES ASSUME TaskOK, TryInv, [Next]_vars PROVE TryInv'
    OBVIOUS
  <2> USE DEF loop, report, steering, files, children, callers, parents
  <2>k. ASSUME NEW k \in Tasks PROVE task[k] \in TaskRec
    <3>1. task \in Seq(TaskRec) /\ k \in DOMAIN task
      BY DEF TaskOK, Tasks
    <3> HIDE DEF TaskRec
    <3> QED
      BY <3>1
  <2>t. Tasks = DOMAIN task /\ MaxAttempts \in Nat \ {0}
    BY DEF Tasks, BoundsAssumption
  <2>u. ASSUME NEW k \in Tasks, NEW new,
               task' = [task EXCEPT ![k] = new], new.try <= MaxAttempts,
               new.pc = "retrying" => new.try < MaxAttempts
        PROVE  TryInv'
    <3>1. DOMAIN task' = DOMAIN task /\ task'[k] = new
          /\ \A j \in DOMAIN task \ {k} : task'[j] = task[j]
      BY <2>t, <2>u
    <3> QED
      BY <2>t, <2>u, <3>1 DEF Tasks
  <2>1. ASSUME StartOne PROVE TryInv'
    <3>1. task' = [<<Waiting>> EXCEPT ![1].pc = "child", ![1].try = 1]
      BY <2>1 DEF StartOne, StartStep
    <3> DEFINE ts == <<Waiting>>
    <3>2. DOMAIN ts = {1} /\ ts[1] = [pc |-> "wait", try |-> 0, res |-> "none"]
      BY DEF Waiting
    <3>3. task' = [ts EXCEPT ![1].pc = "child", ![1].try = 1]
      BY <3>1
    <3> HIDE DEF ts
    <3>4. DOMAIN task' = {1} /\ task'[1] = [ts[1] EXCEPT !.pc = "child", !.try = 1]
      BY <3>2, <3>3
    <3>5. task'[1].pc = "child" /\ task'[1].try = 1
      BY <3>2, <3>4
    <3>6. 1 <= MaxAttempts
      BY <2>t
    <3>7. \A k \in Tasks' : task'[k].pc = "child" /\ task'[k].try = 1
      BY <3>4, <3>5 DEF Tasks
    <3> QED
      BY <3>6, <3>7
  <2>2. ASSUME StartMany PROVE TryInv'
    <3>1. task' = task \/ task' = [k \in 1 .. NextGroup.size |-> Waiting]
      BY <2>2 DEF StartMany
    <3>2. ASSUME task' = [k \in 1 .. NextGroup.size |-> Waiting] PROVE TryInv'
      <4>1. \A k \in DOMAIN task' : task'[k] = Waiting
        BY <3>2
      <4> QED
        BY <2>t, <4>1 DEF Tasks, Waiting
    <3> QED
      BY <3>1, <3>2 DEF Tasks
  <2>3. ASSUME StartFan PROVE TryInv'
    <3>1. task' = task \/ task' = <<>> \/ \E n \in 1 .. MaxItems : task' = [k \in 1 .. n |-> Waiting]
      BY <2>3 DEF StartFan
    <3>2. ASSUME NEW n \in 1 .. MaxItems, task' = [k \in 1 .. n |-> Waiting] PROVE TryInv'
      <4>1. \A k \in DOMAIN task' : task'[k] = Waiting
        BY <3>2
      <4> QED
        BY <2>t, <4>1 DEF Tasks, Waiting
    <3> QED
      BY <3>1, <3>2 DEF Tasks
  <2>4. ASSUME NEW k \in Tasks, StartTask(k) PROVE TryInv'
    <3> DEFINE new == [task[k] EXCEPT !.pc = "child", !.try = 1]
    <3>1. task' = [task EXCEPT ![k] = new]
      BY <2>4 DEF StartTask, StartStep
    <3>2. new.pc = "child" /\ new.try = 1
      BY <2>k DEF TaskRec
    <3> HIDE DEF new
    <3>3. new.try <= MaxAttempts
      BY <2>t, <3>2
    <3>4. new.pc # "retrying"
      BY <3>2
    <3> HIDE DEF TryInv
    <3> QED
      BY <2>u, <3>1, <3>3, <3>4
  <2>5. ASSUME NEW k \in Tasks, RefuseTask(k) PROVE TryInv'
    <3> DEFINE new == [task[k] EXCEPT !.pc = "done", !.res = Refusal]
    <3>1. task' = [task EXCEPT ![k] = new]
      BY <2>5 DEF RefuseTask
    <3>2. new.pc = "done" /\ new.try = task[k].try
      BY <2>k DEF TaskRec
    <3> HIDE DEF new
    <3> QED
      BY <2>t, <2>u, <3>1, <3>2
  <2>6. ASSUME NEW k \in Tasks, Retry(k) PROVE TryInv'
    <3> DEFINE new == [task[k] EXCEPT !.pc = "child", !.try = task[k].try + 1]
               old == [task[k] EXCEPT !.pc = "judging"]
    <3>1. task' = [task EXCEPT ![k] = new] \/ task' = [task EXCEPT ![k] = old]
      BY <2>6 DEF Retry
    <3>2. new.pc = "child" /\ new.try = task[k].try + 1 /\ old.pc = "judging"
          /\ old.try = task[k].try /\ task[k].try \in Nat
      BY <2>k DEF TaskRec
    <3>3. task[k].try < MaxAttempts
      BY <2>6 DEF Retry
    <3> HIDE DEF new, old
    <3>4. new.try <= MaxAttempts /\ old.try <= MaxAttempts
      BY <2>t, <3>2, <3>3
    <3> QED
      BY <2>t, <2>u, <3>1, <3>2, <3>4
  <2>7. ASSUME NEW k \in Tasks, FinishTask(k) PROVE TryInv'
    <3>1. PICK res \in Verdicts(task[k].res) : task' = [task EXCEPT ![k].pc = "done", ![k].res = res]
      BY <2>7 DEF FinishTask
    <3> DEFINE new == [task[k] EXCEPT !.pc = "done", !.res = res]
    <3>2. new.pc = "done" /\ new.try = task[k].try
      BY <2>k DEF TaskRec
    <3>3. task' = [task EXCEPT ![k] = new]
      BY <3>1
    <3> HIDE DEF new
    <3> QED
      BY <2>t, <2>u, <3>2, <3>3
  <2>8. ASSUME NEW k \in Tasks, ChildEnds(k) PROVE TryInv'
    <3>1. PICK how \in Endings(Child(k)) :
            task' = [task EXCEPT ![k].pc = IF how = "retry" /\ MayRetry(k) THEN "retrying" ELSE "judging",
                                 ![k].res = IF how = "retry" THEN "fail" ELSE how]
      BY <2>8 DEF ChildEnds
    <3> DEFINE p == IF how = "retry" /\ MayRetry(k) THEN "retrying" ELSE "judging"
               res == IF how = "retry" THEN "fail" ELSE how
               new == [task[k] EXCEPT !.pc = p, !.res = res]
    <3>2. task' = [task EXCEPT ![k] = new]
      BY <3>1
    <3>3. p = "retrying" => task[k].try < MaxAttempts
      BY DEF MayRetry
    <3> HIDE DEF p, res
    <3>4. new.pc = p /\ new.try = task[k].try
      BY <2>k DEF TaskRec
    <3> HIDE DEF new
    <3> QED
      BY <2>t, <2>u, <3>2, <3>3, <3>4
  <2>9. ASSUME \/ LeaveLoop \/ UsageExhausted \/ GroupDone \/ EmptyFanDone
              \/ CloseInbox \/ SweepSteers \/ PublishResult \/ WriteLastStatus
              \/ ConsumeStop \/ ConsumeTimeout \/ ConsumeInterrupt
              \/ DeadlinePasses
        PROVE  UNCHANGED <<task>>
    BY <2>9 DEF LeaveLoop, UsageExhausted, GroupDone, EmptyFanDone, CloseInbox,
         SweepSteers, PublishResult, WriteLastStatus, ConsumeStop, ConsumeTimeout,
         ConsumeInterrupt, DeadlinePasses, AtLoopTop, StopRunner, Apply, Served,
         TimeoutRunner, InterruptRunner
  <2>10. ASSUME NEW r \in Steers,
              \/ ConsumeSteer(r) \/ ReadForSteer(r) \/ WriteSteer(r)
              \/ ConfirmSteer(r)
        PROVE  UNCHANGED <<task>>
    BY <2>10 DEF ConsumeSteer, ReadForSteer, WriteSteer, ConfirmSteer, Deliver, Sender
  <2>11. ASSUME NEW i \in capFiles,
              \/ ConsumeCapability(i)
        PROVE  UNCHANGED <<task>>
    BY <2>11 DEF ConsumeCapability
  <2>12. ASSUME NEW a \in acks,
              \/ ConsumeAck(a)
        PROVE  UNCHANGED <<task>>
    BY <2>12 DEF ConsumeAck
  <2>13. ASSUME NEW k \in Tasks,
              \/ TurnsExceeded(k) \/ Overspend(k)
        PROVE  UNCHANGED <<task>>
    BY <2>13 DEF TurnsExceeded, Overspend, Served
  <2>14. ASSUME NEW i \in proc,
              \/ PublishCapability(i)
        PROVE  UNCHANGED <<task>>
    BY <2>14 DEF PublishCapability
  <2>15. ASSUME NEW i \in proc, NEW r \in Steers,
              \/ TakeSteer(i, r) \/ StartTurn(i, r)
        PROVE  UNCHANGED <<task>>
    BY <2>15 DEF TakeSteer, StartTurn
  <2>16. ASSUME NEW c \in {"stop", "timeout", "interrupt"},
              \/ SendControl(c)
        PROVE  UNCHANGED <<task>>
    BY <2>16 DEF SendControl
  <2>17. ASSUME NEW a \in Appends,
              \/ ReadForAppend(a) \/ FileAppend(a) \/ WriteBackStatus(a)
        PROVE  UNCHANGED <<task>>
    BY <2>17 DEF ReadForAppend, FileAppend, WriteBackStatus, Appender
  <2>18. CASE UNCHANGED <<task>>
    BY <2>18 DEF Tasks
  <2> QED
    BY <2>1, <2>2, <2>3, <2>4, <2>5, <2>6, <2>7, <2>8, <2>9, <2>10, <2>11, <2>12,
       <2>13, <2>14, <2>15, <2>16, <2>17, <2>18 DEF Next, RunnerStep, TaskStep,
       ServeInbox, ChildStep, ParentStep, vars
<1> QED
  BY <1>1, <1>2

\* The list of steps never gets shorter: places stay places.
LEMMA PlacesStay ==
  ASSUME PlanOK, TaskOK, StepsOK, AlignInv, [Next]_vars
  PROVE  Len(steps) <= Len(steps') /\ DOMAIN steps \subseteq DOMAIN steps'
<1> SUFFICES \E n \in Nat : Len(steps) <= n /\ DOMAIN steps' = 1 .. n /\ Len(steps') = n
  BY DEF StepsOK
<1> USE DEF loop, report, steering, files, children, callers, parents
<1>s. /\ steps \in Seq(StepRec) /\ Len(steps) \in Nat
      /\ DOMAIN steps = 1 .. Len(steps)
  BY DEF StepsOK
<1>n. NewSteps \in Seq(StepRec) /\ Len(steps) <= Len(NewSteps) /\ Len(NewSteps) \in Nat
  BY NewStepsFacts
<1>m. ASSUME NEW ss \in Seq(StepRec), Len(steps) <= Len(ss), NEW R, Marks(ss, steps', R)
      PROVE  \E n \in Nat : Len(steps) <= n /\ DOMAIN steps' = 1 .. n /\ Len(steps') = n
  <2>1. steps' \in Seq(StepRec) /\ Len(steps') = Len(ss)
    BY <1>m DEF Marks
  <2>2. Len(ss) \in Nat /\ DOMAIN steps' = 1 .. Len(steps')
    BY <2>1
  <2> HIDE DEF StepRec
  <2> QED
    BY <1>m, <2>1, <2>2
<1> DEFINE Goal == \E n \in Nat : Len(steps) <= n /\ DOMAIN steps' = 1 .. n /\ Len(steps') = n
<1>g. \A R : Marks(steps, steps', R) \/ Marks(NewSteps, steps', R) => Goal
  BY <1>s, <1>n, <1>m
<1>u. ASSUME UNCHANGED steps PROVE Goal
  <2>1. /\ Len(steps') = Len(steps) /\ DOMAIN steps' = 1 .. Len(steps)
        /\ Len(steps) <= Len(steps)
    BY <1>s, <1>u
  <2> QED
    BY <1>s, <2>1
<1> HIDE DEF Goal
<1>1. ASSUME UsageExhausted PROVE Goal
  BY <1>1, <1>g, BeginningSteps
<1>2. ASSUME StartOne PROVE Goal
  BY <1>2, <1>g, BeginningSteps
<1>3. ASSUME StartMany PROVE Goal
  BY <1>3, <1>g, BeginningSteps
<1>4. ASSUME StartFan PROVE Goal
  <2>1. CASE \E R : Marks(NewSteps, steps', R)
    BY <1>g, <2>1
  <2>2. CASE \E n \in 1 .. MaxItems : steps' = Splice(n)
    <3>1. PICK n \in Nat \ {0} : steps' = Splice(n)
      BY <2>2
    <3>2. phase = "top" /\ cursor < Len(NewPlan) /\ NextGroup.kind = "fan"
      BY <1>4 DEF StartFan, AtLoopTop
    <3>3. start \in Nat /\ start + Width(NextGroup) <= Len(NewSteps)
      BY <3>2, BeginFacts
    <3>4. Width(NextGroup) = 1
      BY <3>2 DEF Width
    <3>5. start + 1 <= Len(NewSteps)
      BY <3>3, <3>4
    <3>6. Splice(n) \in Seq(StepRec) /\ Len(Splice(n)) = Len(NewSteps) + n - 1
      BY <3>3, <3>5, SplicedFacts
    <3>7. steps' \in Seq(StepRec) /\ Len(steps') = Len(NewSteps) + n - 1
      BY <3>1, <3>6
    <3>8. Len(steps') \in Nat /\ Len(steps) <= Len(steps')
      BY <1>n, <1>s, <3>7
    <3>9. DOMAIN steps' = 1 .. Len(steps')
      BY <3>7
    <3> QED
      BY <3>8, <3>9 DEF Goal
  <2> QED
    BY <1>4, <2>1, <2>2, FanSteps
<1>5. ASSUME NEW k \in Tasks, StartTask(k) PROVE Goal
  BY <1>5, <1>g, MarkingSteps
<1>6. ASSUME NEW k \in Tasks, RefuseTask(k) PROVE Goal
  BY <1>6, <1>g, MarkingSteps
<1>7. ASSUME NEW k \in Tasks, FinishTask(k) PROVE Goal
  BY <1>7, <1>g, MarkingSteps
<1>8. ASSUME EmptyFanDone PROVE Goal
  BY <1>8, <1>g, MarkingSteps
<1>9. ASSUME ConsumeStop PROVE Goal
  BY <1>9, <1>g, MarkingSteps
<1>10. ASSUME ConsumeTimeout PROVE Goal
  BY <1>10, <1>g, MarkingSteps
<1>11. ASSUME ConsumeInterrupt PROVE Goal
  BY <1>11, <1>g, MarkingSteps
<1>12. ASSUME DeadlinePasses PROVE Goal
  BY <1>12, <1>g, MarkingSteps
<1>13. ASSUME \/ LeaveLoop \/ GroupDone \/ CloseInbox \/ SweepSteers
            \/ PublishResult \/ WriteLastStatus
      PROVE  UNCHANGED steps
  BY <1>13 DEF LeaveLoop, GroupDone, CloseInbox, SweepSteers, PublishResult,
       WriteLastStatus
<1>14. ASSUME NEW k \in Tasks,
            \/ Retry(k) \/ ChildEnds(k) \/ TurnsExceeded(k) \/ Overspend(k)
      PROVE  UNCHANGED steps
  BY <1>14 DEF Retry, ChildEnds, TurnsExceeded, Overspend, Spawn, Served
<1>15. ASSUME NEW r \in Steers,
            \/ ConsumeSteer(r) \/ ReadForSteer(r) \/ WriteSteer(r)
            \/ ConfirmSteer(r)
      PROVE  UNCHANGED steps
  BY <1>15 DEF ConsumeSteer, ReadForSteer, WriteSteer, ConfirmSteer, Deliver, Sender
<1>16. ASSUME NEW i \in capFiles,
            \/ ConsumeCapability(i)
      PROVE  UNCHANGED steps
  BY <1>16 DEF ConsumeCapability
<1>17. ASSUME NEW a \in acks,
            \/ ConsumeAck(a)
      PROVE  UNCHANGED steps
  BY <1>17 DEF ConsumeAck
<1>18. ASSUME NEW i \in proc,
            \/ PublishCapability(i)
      PROVE  UNCHANGED steps
  BY <1>18 DEF PublishCapability
<1>19. ASSUME NEW i \in proc, NEW r \in Steers,
            \/ TakeSteer(i, r) \/ StartTurn(i, r)
      PROVE  UNCHANGED steps
  BY <1>19 DEF TakeSteer, StartTurn
<1>20. ASSUME NEW c \in {"stop", "timeout", "interrupt"},
            \/ SendControl(c)
      PROVE  UNCHANGED steps
  BY <1>20 DEF SendControl
<1>21. ASSUME NEW a \in Appends,
            \/ ReadForAppend(a) \/ FileAppend(a) \/ WriteBackStatus(a)
      PROVE  UNCHANGED steps
  BY <1>21 DEF ReadForAppend, FileAppend, WriteBackStatus, Appender
<1>22. ASSUME UNCHANGED steps PROVE Goal
  BY <1>u, <1>22
<1>q. Goal
  BY <1>1, <1>2, <1>3, <1>4, <1>5, <1>6, <1>7, <1>8, <1>9, <1>10, <1>11, <1>12, <1>13,
     <1>14, <1>15, <1>16, <1>17, <1>18, <1>19, <1>20, <1>21, <1>22 DEF Next,
     RunnerStep, TaskStep, ServeInbox, ChildStep, ParentStep, vars
<1> QED
  BY <1>q DEF Goal

\* PositionInv holds in every initial state and is kept by every step.
LEMMA PositionInvInductive ==
  ASSUME PlanAssumption
  PROVE  /\ Init => PositionInv
         /\ PlanOK /\ TaskOK /\ StepsOK /\ AlignInv /\ PositionInv /\ [Next]_vars => PositionInv'
<1> USE PlanAssumption DEF PlanAssumption, PositionInv
<1>1. Init => PositionInv
  <2> SUFFICES ASSUME Init PROVE PositionInv
    OBVIOUS
  <2>1. PlanOK /\ StepsOK /\ AlignInv /\ phase = "top" /\ start = 0
    BY PlanOKInductive, StepsOKInductive, AlignInvInductive DEF Init
  <2>2. start \in Nat /\ start <= Len(steps) /\ cursor \in 0 .. Len(plan) /\ Len(steps) \in Nat
    BY <2>1, LaidBound DEF PlanOK, StepsOK, AlignInv, Base
  <2> QED
    BY <2>2
<1>2. PlanOK /\ TaskOK /\ StepsOK /\ AlignInv /\ PositionInv /\ [Next]_vars => PositionInv'
  <2> SUFFICES ASSUME PlanOK, TaskOK, StepsOK, AlignInv, PositionInv, [Next]_vars PROVE PositionInv'
    OBVIOUS
  <2> USE DEF loop, report, steering, files, children, callers, parents
  <2>s. /\ Len(steps) \in Nat /\ Len(steps') \in Nat /\ Len(steps) <= Len(steps')
        /\ Len(plan) \in Nat /\ start \in Nat /\ cursor \in Nat
    <3>1. StepsOK'
      BY StepsOKInductive
    <3>2. Len(steps) <= Len(steps')
      BY PlacesStay
    <3> QED
      BY <3>1, <3>2 DEF StepsOK, PlanOK, TaskOK
  <2>k. start' = start => start' \in 0 .. Len(steps')
    BY <2>s
  <2>p. AtLoopTop => Len(plan') \in Nat /\ Len(plan) <= Len(plan') /\ cursor + 1 <= Len(plan')
    <3> SUFFICES ASSUME AtLoopTop PROVE /\ Len(plan') \in Nat /\ Len(plan) <= Len(plan')
                                        /\ cursor + 1 <= Len(plan')
      OBVIOUS
    <3>1. plan' = NewPlan /\ cursor < Len(NewPlan)
      BY DEF AtLoopTop
    <3>2. NewPlan \in Seq(Group) /\ Len(plan) <= Len(NewPlan)
      BY NewStepsFacts
    <3>3. Len(NewPlan) \in Nat
      BY <3>2
    <3> QED
      BY <2>s, <3>1, <3>2, <3>3
  <2>g. phase = "group" => start + Taken <= Len(steps) /\ Taken \in Nat /\ start + Len(task) <= Len(steps)
        /\ Len(task) \in Nat
    BY PlaceFacts DEF Taken
  <2>1. ASSUME UsageExhausted PROVE PositionInv'
    <3>1. AtLoopTop /\ start' = start /\ cursor' \in {cursor, cursor + 1}
      BY <2>1 DEF UsageExhausted
    <3> QED
      BY <2>s, <2>k, <2>p, <3>1
  <2>2. ASSUME StartOne PROVE PositionInv'
    <3>1. AtLoopTop /\ start' = start /\ cursor' \in {cursor, cursor + 1}
      BY <2>2 DEF StartOne
    <3> QED
      BY <2>s, <2>k, <2>p, <3>1
  <2>3. ASSUME StartMany PROVE PositionInv'
    <3>1. AtLoopTop /\ start' = start /\ cursor' \in {cursor, cursor + 1}
      BY <2>3 DEF StartMany
    <3> QED
      BY <2>s, <2>k, <2>p, <3>1
  <2>4. ASSUME StartFan PROVE PositionInv'
    <3>1. AtLoopTop /\ start' = start /\ cursor' \in {cursor, cursor + 1}
      BY <2>4 DEF StartFan
    <3> QED
      BY <2>s, <2>k, <2>p, <3>1
  <2>5. ASSUME NEW k \in Tasks, StartTask(k) PROVE PositionInv'
    <3>1. UNCHANGED <<cursor, plan, start>>
      BY <2>5 DEF StartTask, StartStep, FlushSteers, Spawn, Deliver
    <3> QED
      BY <2>s, <2>k, <3>1
  <2>6. ASSUME NEW k \in Tasks, RefuseTask(k) PROVE PositionInv'
    <3>1. UNCHANGED <<cursor, plan, start>>
      BY <2>6 DEF RefuseTask
    <3> QED
      BY <2>s, <2>k, <3>1
  <2>7. ASSUME NEW k \in Tasks, FinishTask(k) PROVE PositionInv'
    <3>1. UNCHANGED <<cursor, plan, start>>
      BY <2>7 DEF FinishTask
    <3> QED
      BY <2>s, <2>k, <3>1
  <2>8. ASSUME GroupDone PROVE PositionInv'
    <3>1. UNCHANGED <<cursor, plan, steps>> /\ start' = start + Len(task) /\ phase = "group"
      BY <2>8 DEF GroupDone
    <3> QED
      BY <2>s, <2>g, <3>1
  <2>9. ASSUME EmptyFanDone PROVE PositionInv'
    <3>1. UNCHANGED <<cursor, plan>> /\ start' \in {start, start + 1} /\ phase = "group" /\ task = <<>>
      BY <2>9 DEF EmptyFanDone
    <3>2. Taken = 1
      BY <3>1 DEF Taken
    <3> QED
      BY <2>s, <2>g, <2>k, <3>1, <3>2
  <2>10. ASSUME ConsumeStop PROVE PositionInv'
    <3>1. UNCHANGED <<cursor, plan, start>>
      BY <2>10 DEF ConsumeStop, StopRunner, Apply, Served
    <3> QED
      BY <2>s, <2>k, <3>1
  <2>11. ASSUME ConsumeTimeout PROVE PositionInv'
    <3>1. UNCHANGED <<cursor, plan, start>>
      BY <2>11 DEF ConsumeTimeout, TimeoutRunner, Apply, Served
    <3> QED
      BY <2>s, <2>k, <3>1
  <2>12. ASSUME ConsumeInterrupt PROVE PositionInv'
    <3>1. UNCHANGED <<cursor, plan, start>>
      BY <2>12 DEF ConsumeInterrupt, InterruptRunner, Apply, Served
    <3> QED
      BY <2>s, <2>k, <3>1
  <2>13. ASSUME DeadlinePasses PROVE PositionInv'
    <3>1. UNCHANGED <<cursor, plan, start>>
      BY <2>13 DEF DeadlinePasses, TimeoutRunner, Apply, Served
    <3> QED
      BY <2>s, <2>k, <3>1
  <2>14. ASSUME \/ LeaveLoop \/ CloseInbox \/ SweepSteers \/ PublishResult
              \/ WriteLastStatus
        PROVE  UNCHANGED <<cursor, start, plan, steps>>
    BY <2>14 DEF LeaveLoop, CloseInbox, SweepSteers, PublishResult, WriteLastStatus
  <2>15. ASSUME NEW k \in Tasks,
              \/ Retry(k) \/ ChildEnds(k) \/ TurnsExceeded(k) \/ Overspend(k)
        PROVE  UNCHANGED <<cursor, start, plan, steps>>
    BY <2>15 DEF Retry, ChildEnds, TurnsExceeded, Overspend, Spawn, Served
  <2>16. ASSUME NEW r \in Steers,
              \/ ConsumeSteer(r) \/ ReadForSteer(r) \/ WriteSteer(r)
              \/ ConfirmSteer(r)
        PROVE  UNCHANGED <<cursor, start, plan, steps>>
    BY <2>16 DEF ConsumeSteer, ReadForSteer, WriteSteer, ConfirmSteer, Deliver, Sender
  <2>17. ASSUME NEW i \in capFiles,
              \/ ConsumeCapability(i)
        PROVE  UNCHANGED <<cursor, start, plan, steps>>
    BY <2>17 DEF ConsumeCapability
  <2>18. ASSUME NEW a \in acks,
              \/ ConsumeAck(a)
        PROVE  UNCHANGED <<cursor, start, plan, steps>>
    BY <2>18 DEF ConsumeAck
  <2>19. ASSUME NEW i \in proc,
              \/ PublishCapability(i)
        PROVE  UNCHANGED <<cursor, start, plan, steps>>
    BY <2>19 DEF PublishCapability
  <2>20. ASSUME NEW i \in proc, NEW r \in Steers,
              \/ TakeSteer(i, r) \/ StartTurn(i, r)
        PROVE  UNCHANGED <<cursor, start, plan, steps>>
    BY <2>20 DEF TakeSteer, StartTurn
  <2>21. ASSUME NEW c \in {"stop", "timeout", "interrupt"},
              \/ SendControl(c)
        PROVE  UNCHANGED <<cursor, start, plan, steps>>
    BY <2>21 DEF SendControl
  <2>22. ASSUME NEW a \in Appends,
              \/ ReadForAppend(a) \/ FileAppend(a) \/ WriteBackStatus(a)
        PROVE  UNCHANGED <<cursor, start, plan, steps>>
    BY <2>22 DEF ReadForAppend, FileAppend, WriteBackStatus, Appender
  <2>23. CASE UNCHANGED <<cursor, start, plan, steps>>
    BY <2>23
  <2> QED
    BY <2>1, <2>2, <2>3, <2>4, <2>5, <2>6, <2>7, <2>8, <2>9, <2>10, <2>11, <2>12,
       <2>13, <2>14, <2>15, <2>16, <2>17, <2>18, <2>19, <2>20, <2>21, <2>22, <2>23 DEF
       Next, RunnerStep, TaskStep, ServeInbox, ChildStep, ParentStep, vars
<1> QED
  BY <1>1, <1>2

\* A task that is under way after one of these steps has a process.
LEMMA ChildSteps ==
  ASSUME TaskOK, NEW k \in Tasks,
         StartTask(k) \/ RefuseTask(k) \/ Retry(k) \/ FinishTask(k) \/ ChildEnds(k)
  PROVE  task'[k].pc = "child" => Child(k) \in proc'
<1>r. task[k] \in TaskRec /\ k \in DOMAIN task /\ task \in Seq(TaskRec)
  <2>1. task \in Seq(TaskRec) /\ k \in DOMAIN task
    BY DEF TaskOK, Tasks
  <2> HIDE DEF TaskRec
  <2> QED
    BY <2>1
<1>u. ASSUME NEW new, task' = [task EXCEPT ![k] = new] PROVE task'[k] = new
  BY <1>r, <1>u
<1>1. CASE StartTask(k)
  <2>1. StartStep(k, task, steps)
    BY <1>1 DEF StartTask
  <2> QED
    BY <1>r, <2>1, StartFacts
<1>2. CASE RefuseTask(k)
  <2> DEFINE new == [task[k] EXCEPT !.pc = "done", !.res = Refusal]
  <2>1. task' = [task EXCEPT ![k] = new]
    BY <1>2 DEF RefuseTask
  <2>2. new.pc = "done"
    BY <1>r DEF TaskRec
  <2> HIDE DEF new
  <2> QED
    BY <1>u, <2>1, <2>2
<1>3. CASE Retry(k)
  <2> DEFINE new == [task[k] EXCEPT !.pc = "judging"]
  <2>1. task' = [task EXCEPT ![k] = new] \/ proc' = proc \cup {Child(k)}
    BY <1>3 DEF Retry, Spawn
  <2>2. new.pc = "judging"
    BY <1>r DEF TaskRec
  <2> HIDE DEF new
  <2> QED
    BY <1>u, <2>1, <2>2
<1>4. CASE FinishTask(k)
  <2>1. PICK res : task' = [task EXCEPT ![k].pc = "done", ![k].res = res]
    BY <1>4 DEF FinishTask
  <2> DEFINE new == [task[k] EXCEPT !.pc = "done", !.res = res]
  <2>2. task' = [task EXCEPT ![k] = new]
    BY <2>1
  <2>3. new.pc = "done"
    BY <1>r DEF TaskRec
  <2> HIDE DEF new
  <2> QED
    BY <1>u, <2>2, <2>3
<1>5. CASE ChildEnds(k)
  <2>0. PICK p \in {"retrying", "judging"} :
          \E res : task' = [task EXCEPT ![k].pc = p, ![k].res = res]
    BY <1>5 DEF ChildEnds
  <2>1. PICK res : task' = [task EXCEPT ![k].pc = p, ![k].res = res]
    BY <2>0
  <2> DEFINE new == [task[k] EXCEPT !.pc = p, !.res = res]
  <2>2. task' = [task EXCEPT ![k] = new]
    BY <2>1
  <2>3. new.pc = p
    BY <1>r DEF TaskRec
  <2> HIDE DEF new
  <2> QED
    BY <1>u, <2>1, <2>2, <2>3
<1> QED
  BY <1>1, <1>2, <1>3, <1>4, <1>5

\* ChildInv holds in every initial state and is kept by every step.
LEMMA ChildInvInductive ==
  /\ Init => ChildInv
  /\ TaskOK /\ ChildInv /\ [Next]_vars => ChildInv'
<1> USE DEF ChildInv
<1>1. Init => ChildInv
  BY DEF Init
<1>2. TaskOK /\ ChildInv /\ [Next]_vars => ChildInv'
  <2> SUFFICES ASSUME TaskOK, ChildInv, [Next]_vars PROVE ChildInv'
    OBVIOUS
  <2> USE DEF loop, report, steering, files, children, callers, parents
  <2>t. start \in Nat /\ \A j \in Tasks : j \in Nat
    BY DEF TaskOK, Tasks
  <2>1. ASSUME LeaveLoop PROVE ChildInv'
    BY <2>1 DEF LeaveLoop
  <2>2. ASSUME UsageExhausted PROVE ChildInv'
    BY <2>2 DEF UsageExhausted, AtLoopTop
  <2>3. ASSUME StartOne PROVE ChildInv'
    <3>1. StartStep(1, <<Waiting>>, NewSteps) /\ start' = start
      BY <2>3 DEF StartOne
    <3>2. <<Waiting>> \in Seq(TaskRec) /\ DOMAIN <<Waiting>> = {1}
      BY WaitingFacts
    <3>3. Tasks' = {1} /\ proc' = proc \cup {Child(1)}
      <4> DEFINE ts == <<Waiting>>
      <4>1. ts \in Seq(TaskRec) /\ DOMAIN ts = {1} /\ StartStep(1, ts, NewSteps)
        BY <3>1, <3>2
      <4> HIDE DEF ts
      <4>2. 1 \in DOMAIN ts
        BY <4>1
      <4>3. DOMAIN task' = DOMAIN ts /\ proc' = proc \cup {Child(1)}
        BY <4>1, <4>2, StartFacts
      <4> QED
        BY <4>1, <4>3 DEF Tasks
    <3> QED
      BY <3>1, <3>3 DEF Child
  <2>4. ASSUME StartMany PROVE ChildInv'
    <3>1. phase' = "group" => \A k \in Tasks' : task'[k].pc = "wait"
      BY <2>4 DEF StartMany, Tasks, Waiting
    <3> QED
      BY <3>1
  <2>5. ASSUME StartFan PROVE ChildInv'
    <3>1. phase' = "group" => \A k \in Tasks' : task'[k].pc = "wait"
      BY <2>5 DEF StartFan, Tasks, Waiting
    <3> QED
      BY <3>1
  <2>6. ASSUME NEW k \in Tasks, StartTask(k) PROVE ChildInv'
    <3>1. /\ Tasks' = Tasks /\ start' = start /\ phase' = phase /\ phase = "group"
          /\ \A j \in Tasks \ {k} : task'[j] = task[j]
          /\ proc \ {Child(k)} \subseteq proc'
      BY <2>6, TaskSteps
    <3>2. task'[k].pc = "child" => Child(k) \in proc'
      BY <2>6, ChildSteps
    <3>3. ASSUME NEW j \in Tasks, task'[j].pc = "child" PROVE start' + j \in proc'
      <4>1. CASE j = k
        BY <3>1, <3>2, <3>3, <4>1 DEF Child
      <4>2. CASE j # k
        <5>1. start + j \in proc
          BY <3>1, <3>3, <4>2 DEF Child
        <5>2. start + j # start + k
          BY <2>t, <4>2
        <5> QED
          BY <3>1, <5>1, <5>2 DEF Child
      <4> QED
        BY <4>1, <4>2
    <3> QED
      BY <3>1, <3>3 DEF Child
  <2>7. ASSUME NEW k \in Tasks, RefuseTask(k) PROVE ChildInv'
    <3>1. /\ Tasks' = Tasks /\ start' = start /\ phase' = phase /\ phase = "group"
          /\ \A j \in Tasks \ {k} : task'[j] = task[j]
          /\ proc \ {Child(k)} \subseteq proc'
      BY <2>7, TaskSteps
    <3>2. task'[k].pc = "child" => Child(k) \in proc'
      BY <2>7, ChildSteps
    <3>3. ASSUME NEW j \in Tasks, task'[j].pc = "child" PROVE start' + j \in proc'
      <4>1. CASE j = k
        BY <3>1, <3>2, <3>3, <4>1 DEF Child
      <4>2. CASE j # k
        <5>1. start + j \in proc
          BY <3>1, <3>3, <4>2 DEF Child
        <5>2. start + j # start + k
          BY <2>t, <4>2
        <5> QED
          BY <3>1, <5>1, <5>2 DEF Child
      <4> QED
        BY <4>1, <4>2
    <3> QED
      BY <3>1, <3>3 DEF Child
  <2>8. ASSUME NEW k \in Tasks, Retry(k) PROVE ChildInv'
    <3>1. /\ Tasks' = Tasks /\ start' = start /\ phase' = phase /\ phase = "group"
          /\ \A j \in Tasks \ {k} : task'[j] = task[j]
          /\ proc \ {Child(k)} \subseteq proc'
      BY <2>8, TaskSteps
    <3>2. task'[k].pc = "child" => Child(k) \in proc'
      BY <2>8, ChildSteps
    <3>3. ASSUME NEW j \in Tasks, task'[j].pc = "child" PROVE start' + j \in proc'
      <4>1. CASE j = k
        BY <3>1, <3>2, <3>3, <4>1 DEF Child
      <4>2. CASE j # k
        <5>1. start + j \in proc
          BY <3>1, <3>3, <4>2 DEF Child
        <5>2. start + j # start + k
          BY <2>t, <4>2
        <5> QED
          BY <3>1, <5>1, <5>2 DEF Child
      <4> QED
        BY <4>1, <4>2
    <3> QED
      BY <3>1, <3>3 DEF Child
  <2>9. ASSUME NEW k \in Tasks, FinishTask(k) PROVE ChildInv'
    <3>1. /\ Tasks' = Tasks /\ start' = start /\ phase' = phase /\ phase = "group"
          /\ \A j \in Tasks \ {k} : task'[j] = task[j]
          /\ proc \ {Child(k)} \subseteq proc'
      BY <2>9, TaskSteps
    <3>2. task'[k].pc = "child" => Child(k) \in proc'
      BY <2>9, ChildSteps
    <3>3. ASSUME NEW j \in Tasks, task'[j].pc = "child" PROVE start' + j \in proc'
      <4>1. CASE j = k
        BY <3>1, <3>2, <3>3, <4>1 DEF Child
      <4>2. CASE j # k
        <5>1. start + j \in proc
          BY <3>1, <3>3, <4>2 DEF Child
        <5>2. start + j # start + k
          BY <2>t, <4>2
        <5> QED
          BY <3>1, <5>1, <5>2 DEF Child
      <4> QED
        BY <4>1, <4>2
    <3> QED
      BY <3>1, <3>3 DEF Child
  <2>10. ASSUME GroupDone PROVE ChildInv'
    BY <2>10 DEF GroupDone
  <2>11. ASSUME EmptyFanDone PROVE ChildInv'
    BY <2>11 DEF EmptyFanDone
  <2>12. ASSUME CloseInbox PROVE ChildInv'
    BY <2>12 DEF CloseInbox
  <2>13. ASSUME SweepSteers PROVE ChildInv'
    BY <2>13 DEF SweepSteers
  <2>14. ASSUME PublishResult PROVE ChildInv'
    BY <2>14 DEF PublishResult
  <2>15. ASSUME WriteLastStatus PROVE ChildInv'
    BY <2>15 DEF WriteLastStatus
  <2>16. ASSUME NEW k \in Tasks, ChildEnds(k) PROVE ChildInv'
    <3>1. /\ Tasks' = Tasks /\ start' = start /\ phase' = phase /\ phase = "group"
          /\ \A j \in Tasks \ {k} : task'[j] = task[j]
          /\ proc \ {Child(k)} \subseteq proc'
      BY <2>16, TaskSteps
    <3>2. task'[k].pc = "child" => Child(k) \in proc'
      BY <2>16, ChildSteps
    <3>3. ASSUME NEW j \in Tasks, task'[j].pc = "child" PROVE start' + j \in proc'
      <4>1. CASE j = k
        BY <3>1, <3>2, <3>3, <4>1 DEF Child
      <4>2. CASE j # k
        <5>1. start + j \in proc
          BY <3>1, <3>3, <4>2 DEF Child
        <5>2. start + j # start + k
          BY <2>t, <4>2
        <5> QED
          BY <3>1, <5>1, <5>2 DEF Child
      <4> QED
        BY <4>1, <4>2
    <3> QED
      BY <3>1, <3>3 DEF Child
  <2>17. ASSUME \/ ConsumeStop \/ ConsumeTimeout \/ ConsumeInterrupt
              \/ DeadlinePasses
        PROVE  UNCHANGED <<phase, task, start, proc>>
    BY <2>17 DEF ConsumeStop, ConsumeTimeout, ConsumeInterrupt, DeadlinePasses,
         StopRunner, Apply, Served, TimeoutRunner, InterruptRunner
  <2>18. ASSUME NEW r \in Steers,
              \/ ConsumeSteer(r) \/ ReadForSteer(r) \/ WriteSteer(r)
              \/ ConfirmSteer(r)
        PROVE  UNCHANGED <<phase, task, start, proc>>
    BY <2>18 DEF ConsumeSteer, ReadForSteer, WriteSteer, ConfirmSteer, Deliver, Sender
  <2>19. ASSUME NEW i \in capFiles,
              \/ ConsumeCapability(i)
        PROVE  UNCHANGED <<phase, task, start, proc>>
    BY <2>19 DEF ConsumeCapability
  <2>20. ASSUME NEW a \in acks,
              \/ ConsumeAck(a)
        PROVE  UNCHANGED <<phase, task, start, proc>>
    BY <2>20 DEF ConsumeAck
  <2>21. ASSUME NEW k \in Tasks,
              \/ TurnsExceeded(k) \/ Overspend(k)
        PROVE  UNCHANGED <<phase, task, start, proc>>
    BY <2>21 DEF TurnsExceeded, Overspend, Served
  <2>22. ASSUME NEW i \in proc,
              \/ PublishCapability(i)
        PROVE  UNCHANGED <<phase, task, start, proc>>
    BY <2>22 DEF PublishCapability
  <2>23. ASSUME NEW i \in proc, NEW r \in Steers,
              \/ TakeSteer(i, r) \/ StartTurn(i, r)
        PROVE  UNCHANGED <<phase, task, start, proc>>
    BY <2>23 DEF TakeSteer, StartTurn
  <2>24. ASSUME NEW c \in {"stop", "timeout", "interrupt"},
              \/ SendControl(c)
        PROVE  UNCHANGED <<phase, task, start, proc>>
    BY <2>24 DEF SendControl
  <2>25. ASSUME NEW a \in Appends,
              \/ ReadForAppend(a) \/ FileAppend(a) \/ WriteBackStatus(a)
        PROVE  UNCHANGED <<phase, task, start, proc>>
    BY <2>25 DEF ReadForAppend, FileAppend, WriteBackStatus, Appender
  <2>26. CASE UNCHANGED <<phase, task, start, proc>>
    BY <2>26 DEF Tasks, Child
  <2> QED
    BY <2>1, <2>2, <2>3, <2>4, <2>5, <2>6, <2>7, <2>8, <2>9, <2>10, <2>11, <2>12,
       <2>13, <2>14, <2>15, <2>16, <2>17, <2>18, <2>19, <2>20, <2>21, <2>22, <2>23,
       <2>24, <2>25, <2>26 DEF Next, RunnerStep, TaskStep, ServeInbox, ChildStep,
       ParentStep, vars
<1> QED
  BY <1>1, <1>2

\* A message is routed to a place in the list of steps.
LEMMA DeliverPlaces ==
  ASSUME NEW rs \in SUBSET Steers, NEW is, NEW ss, Deliver(rs, is, ss)
  PROVE  inbox' \subseteq inbox \cup (DOMAIN ss) \X Steers
<1> DEFINE f == [i \in is |-> TargetState(ss, i)]
           to == {i \in is : f[i] = "routed"}
<1>1. to \subseteq DOMAIN ss
  BY DEF TargetState
<1>2. inbox' = inbox \cup to \X rs
  BY DEF Deliver
<1> HIDE DEF to
<1> QED
  BY <1>1, <1>2

\* PlacesInv holds in every initial state and is kept by every step.
LEMMA PlacesInvInductive ==
  /\ Init => PlacesInv
  /\ PlanOK /\ TaskOK /\ StepsOK /\ AlignInv /\ ProcInv /\ ChildInv /\ InboxKinds /\ PlacesInv /\ [Next]_vars => PlacesInv'
<1> USE DEF PlacesInv
<1>1. Init => PlacesInv
  BY DEF Init
<1>2. PlanOK /\ TaskOK /\ StepsOK /\ AlignInv /\ ProcInv /\ ChildInv /\ InboxKinds /\ PlacesInv /\ [Next]_vars => PlacesInv'
  <2> SUFFICES ASSUME PlanOK, TaskOK, StepsOK, AlignInv, ProcInv, ChildInv, InboxKinds, PlacesInv, [Next]_vars PROVE PlacesInv'
    OBVIOUS
  <2> USE DEF loop, report, steering, files, children, callers, parents
  <2>t. /\ capFiles \subseteq DOMAIN steps /\ deaf \subseteq capFiles
        /\ told \subseteq proc \X Breaking /\ queue \subseteq proc \X Steers
        /\ inbox \subseteq (DOMAIN steps) \X Steers
    OBVIOUS
  <2>a. \A a \in acks : /\ a = [req |-> a.req, child |-> a.child, state |-> a.state]
                        /\ a.req \in Steers /\ a.child \in DOMAIN steps
                        /\ a.state \in {"queued", "delivered", "failed"}
    OBVIOUS
  <2> HIDE DEF PlacesInv
  <2>d. DOMAIN steps \subseteq DOMAIN steps'
    BY PlacesStay
  <2>p. proc \subseteq DOMAIN steps
    <3> SUFFICES ASSUME NEW i \in proc PROVE i \in DOMAIN steps
      OBVIOUS
    <3>1. PICK k \in Tasks : i = Child(k) /\ phase = "group"
      BY DEF ProcInv
    <3>2. Child(k) \in 1 .. Base /\ Base \in Nat /\ Base <= Len(steps) /\ Len(steps) \in Nat
          /\ DOMAIN steps = 1 .. Len(steps)
      BY <3>1, PlaceFacts
    <3> QED
      BY <3>1, <3>2
  <2>k. acks \subseteq [req : Steers, child : DOMAIN steps', state : {"queued", "delivered", "failed"}]
    BY <2>a, <2>d
  <2>i. inbox \subseteq (DOMAIN steps') \X Steers
    BY <2>t, <2>d
  <2>c. ASSUME /\ capFiles' = capFiles /\ deaf' = deaf
               /\ told' \subseteq proc' \X Breaking /\ queue' \subseteq proc' \X Steers
               /\ inbox' \subseteq (DOMAIN steps') \X Steers
               /\ acks' = acks
        PROVE  PlacesInv'
    <3>1. capFiles' \subseteq DOMAIN steps' /\ deaf' \subseteq capFiles'
      BY <2>t, <2>d, <2>c
    <3>2. acks' \subseteq [req : Steers, child : DOMAIN steps', state : {"queued", "delivered", "failed"}]
      BY <2>k, <2>c
    <3> QED
      BY <2>c, <3>1, <3>2 DEF PlacesInv
  <2>u. ASSUME UNCHANGED <<capFiles, deaf, told, queue, inbox, acks, proc>> PROVE PlacesInv'
    <3>1. told' \subseteq proc' \X Breaking /\ queue' \subseteq proc' \X Steers
          /\ inbox' \subseteq (DOMAIN steps') \X Steers
      BY <2>t, <2>i, <2>u
    <3> QED
      BY <2>c, <2>u, <3>1
  <2>n. ASSUME NEW i \in proc, NEW r \in Steers, NEW s \in {"queued", "delivered", "failed"}
        PROVE  [req |-> r, child |-> i, state |-> s] \in
                 [req : Steers, child : DOMAIN steps', state : {"queued", "delivered", "failed"}]
    BY <2>d, <2>p
  <2>1. ASSUME UsageExhausted PROVE PlacesInv'
    <3>1. UNCHANGED <<capFiles, deaf, told, queue, inbox, acks, proc>>
      BY <2>1 DEF UsageExhausted, AtLoopTop
    <3> QED
      BY <2>u, <3>1
  <2>2. ASSUME StartOne PROVE PlacesInv'
    <3>1. StartStep(1, <<Waiting>>, NewSteps) /\ UNCHANGED <<capFiles, acks>>
      BY <2>2 DEF StartOne
    <3> DEFINE i == Child(1)
    <3>2. /\ FlushSteers(i, steps') /\ Spawn(i)
      BY <3>1 DEF StartStep
    <3> HIDE DEF i
    <3>3. deaf' = deaf /\ Deliver({r \in held : ~steer[r].indexed \/ steer[r].sel = {i}}, {i}, steps')
      BY <3>2 DEF FlushSteers
    <3>4. inbox' \subseteq inbox \cup (DOMAIN steps') \X Steers
      <4>1. {r \in held : ~steer[r].indexed \/ steer[r].sel = {i}} \in SUBSET Steers
        BY DEF InboxKinds
      <4> QED
        BY <3>3, <4>1, DeliverPlaces
    <3>5. proc' = proc \cup {i} /\ queue' = queue
          /\ told' = told \cup {i} \X (flags \cap {"interrupted", "timedOut", "stopped"})
      BY <3>2 DEF Spawn
    <3>6. told' \subseteq proc' \X Breaking
      BY <2>t, <3>5 DEF Breaking, Ending
    <3>7. queue' \subseteq proc' \X Steers
      BY <2>t, <3>5
    <3>8. inbox' \subseteq (DOMAIN steps') \X Steers
      BY <2>t, <2>d, <3>4
    <3>9. UNCHANGED <<capFiles, deaf, acks>>
      BY <3>1, <3>3
    <3> QED
      BY <2>c, <3>6, <3>7, <3>8, <3>9
  <2>3. ASSUME StartMany PROVE PlacesInv'
    <3>1. UNCHANGED <<capFiles, deaf, told, queue, inbox, acks, proc>>
      BY <2>3 DEF StartMany, AtLoopTop
    <3> QED
      BY <2>u, <3>1
  <2>4. ASSUME StartFan PROVE PlacesInv'
    <3>1. UNCHANGED <<capFiles, deaf, told, queue, inbox, acks, proc>>
      BY <2>4 DEF StartFan, AtLoopTop
    <3> QED
      BY <2>u, <3>1
  <2>5. ASSUME NEW k \in Tasks, StartTask(k) PROVE PlacesInv'
    <3>1. StartStep(k, task, steps) /\ UNCHANGED <<capFiles, acks>>
      BY <2>5 DEF StartTask
    <3> DEFINE i == Child(k)
    <3>2. /\ FlushSteers(i, steps') /\ Spawn(i)
      BY <3>1 DEF StartStep
    <3> HIDE DEF i
    <3>3. deaf' = deaf /\ Deliver({r \in held : ~steer[r].indexed \/ steer[r].sel = {i}}, {i}, steps')
      BY <3>2 DEF FlushSteers
    <3>4. inbox' \subseteq inbox \cup (DOMAIN steps') \X Steers
      <4>1. {r \in held : ~steer[r].indexed \/ steer[r].sel = {i}} \in SUBSET Steers
        BY DEF InboxKinds
      <4> QED
        BY <3>3, <4>1, DeliverPlaces
    <3>5. proc' = proc \cup {i} /\ queue' = queue
          /\ told' = told \cup {i} \X (flags \cap {"interrupted", "timedOut", "stopped"})
      BY <3>2 DEF Spawn
    <3>6. told' \subseteq proc' \X Breaking
      BY <2>t, <3>5 DEF Breaking, Ending
    <3>7. queue' \subseteq proc' \X Steers
      BY <2>t, <3>5
    <3>8. inbox' \subseteq (DOMAIN steps') \X Steers
      BY <2>t, <2>d, <3>4
    <3>9. UNCHANGED <<capFiles, deaf, acks>>
      BY <3>1, <3>3
    <3> QED
      BY <2>c, <3>6, <3>7, <3>8, <3>9
  <2>6. ASSUME NEW k \in Tasks, RefuseTask(k) PROVE PlacesInv'
    <3>1. UNCHANGED <<capFiles, deaf, told, queue, inbox, acks, proc>>
      BY <2>6 DEF RefuseTask
    <3> QED
      BY <2>u, <3>1
  <2>7. ASSUME NEW k \in Tasks, Retry(k) PROVE PlacesInv'
    <3> DEFINE i == Child(k)
    <3>1. /\ UNCHANGED <<capFiles, deaf, inbox, acks, queue>>
          /\ \/ UNCHANGED <<proc, told>>
             \/ /\ proc' = proc \cup {i}
                /\ told' = told \cup {i} \X (flags \cap {"interrupted", "timedOut", "stopped"})
      BY <2>7 DEF Retry, Spawn
    <3> HIDE DEF i
    <3>2. told' \subseteq proc' \X Breaking
      BY <2>t, <3>1 DEF Breaking, Ending
    <3>3. queue' \subseteq proc' \X Steers
      BY <2>t, <3>1
    <3> QED
      BY <2>c, <2>i, <3>1, <3>2, <3>3
  <2>8. ASSUME NEW k \in Tasks, FinishTask(k) PROVE PlacesInv'
    <3>1. UNCHANGED <<capFiles, deaf, told, queue, inbox, acks, proc>>
      BY <2>8 DEF FinishTask
    <3> QED
      BY <2>u, <3>1
  <2>9. ASSUME EmptyFanDone PROVE PlacesInv'
    <3>1. UNCHANGED <<capFiles, deaf, told, queue, inbox, acks, proc>>
      BY <2>9 DEF EmptyFanDone
    <3> QED
      BY <2>u, <3>1
  <2>10. ASSUME ConsumeStop PROVE PlacesInv'
    <3>1. /\ UNCHANGED <<capFiles, deaf, queue, inbox, acks, proc>>
          /\ told' = told \/ told' = told \cup proc \X {"stopped"}
      BY <2>10 DEF ConsumeStop, StopRunner, Apply, Served
    <3>2. told' \subseteq proc' \X Breaking
      BY <2>t, <3>1 DEF Breaking, Ending
    <3> QED
      BY <2>t, <2>c, <2>i, <3>1, <3>2
  <2>11. ASSUME ConsumeTimeout PROVE PlacesInv'
    <3>1. /\ UNCHANGED <<capFiles, deaf, queue, inbox, acks, proc>>
          /\ told' = told \/ told' = told \cup proc \X {"timedOut"}
      BY <2>11 DEF ConsumeTimeout, TimeoutRunner, Apply, Served
    <3>2. told' \subseteq proc' \X Breaking
      BY <2>t, <3>1 DEF Breaking, Ending
    <3> QED
      BY <2>t, <2>c, <2>i, <3>1, <3>2
  <2>12. ASSUME ConsumeInterrupt PROVE PlacesInv'
    <3>1. /\ UNCHANGED <<capFiles, deaf, queue, inbox, acks, proc>>
          /\ told' = told \/ told' = told \cup proc \X {"interrupted"}
      BY <2>12 DEF ConsumeInterrupt, InterruptRunner, Apply, Served
    <3>2. told' \subseteq proc' \X Breaking
      BY <2>t, <3>1 DEF Breaking, Ending
    <3> QED
      BY <2>t, <2>c, <2>i, <3>1, <3>2
  <2>13. ASSUME NEW r \in Steers, ConsumeSteer(r) PROVE PlacesInv'
    <3>1. UNCHANGED <<capFiles, deaf, told, queue, acks, proc, steps>>
      BY <2>13 DEF ConsumeSteer
    <3>2. inbox' = inbox \/ \E is : Deliver({r}, is, steps)
      BY <2>13 DEF ConsumeSteer
    <3>3. inbox' \subseteq inbox \cup (DOMAIN steps) \X Steers
      BY <3>2, DeliverPlaces
    <3>4. inbox' \subseteq (DOMAIN steps') \X Steers
      BY <2>t, <3>1, <3>3
    <3>5. told' \subseteq proc' \X Breaking /\ queue' \subseteq proc' \X Steers
      BY <2>t, <3>1
    <3> QED
      BY <2>c, <3>1, <3>4, <3>5
  <2>14. ASSUME NEW i \in capFiles, ConsumeCapability(i) PROVE PlacesInv'
    <3>1. UNCHANGED <<capFiles, told, queue, inbox, acks, proc, steps>> /\ deaf' = deaf \cup {i}
      BY <2>14 DEF ConsumeCapability
    <3>2. capFiles' \subseteq DOMAIN steps' /\ deaf' \subseteq capFiles'
      BY <2>t, <3>1
    <3>3. told' \subseteq proc' \X Breaking /\ queue' \subseteq proc' \X Steers
          /\ inbox' \subseteq (DOMAIN steps') \X Steers
      BY <2>t, <3>1
    <3>4. acks' \subseteq [req : Steers, child : DOMAIN steps', state : {"queued", "delivered", "failed"}]
      BY <2>k, <3>1
    <3> QED
      BY <3>2, <3>3, <3>4 DEF PlacesInv
  <2>15. ASSUME NEW a \in acks, ConsumeAck(a) PROVE PlacesInv'
    <3>1. UNCHANGED <<capFiles, deaf, told, queue, inbox, proc, steps>> /\ acks' = acks \ {a}
      BY <2>15 DEF ConsumeAck
    <3>2. capFiles' \subseteq DOMAIN steps' /\ deaf' \subseteq capFiles'
      BY <2>t, <3>1
    <3>3. told' \subseteq proc' \X Breaking /\ queue' \subseteq proc' \X Steers
          /\ inbox' \subseteq (DOMAIN steps') \X Steers
      BY <2>t, <3>1
    <3>4. acks' \subseteq [req : Steers, child : DOMAIN steps', state : {"queued", "delivered", "failed"}]
      BY <2>k, <3>1
    <3> QED
      BY <3>2, <3>3, <3>4 DEF PlacesInv
  <2>16. ASSUME DeadlinePasses PROVE PlacesInv'
    <3>1. /\ UNCHANGED <<capFiles, deaf, queue, inbox, acks, proc>>
          /\ told' = told \/ told' = told \cup proc \X {"timedOut"}
      BY <2>16 DEF DeadlinePasses, TimeoutRunner, Apply, Served
    <3>2. told' \subseteq proc' \X Breaking
      BY <2>t, <3>1 DEF Breaking, Ending
    <3> QED
      BY <2>t, <2>c, <2>i, <3>1, <3>2
  <2>17. ASSUME NEW k \in Tasks, ChildEnds(k) PROVE PlacesInv'
    <3> DEFINE i == Child(k)
               new == {[req |-> q[2], child |-> i, state |-> "failed"] : q \in queue \cap ({i} \X Steers)}
    <3>1. /\ UNCHANGED <<capFiles, deaf, inbox, steps>>
          /\ proc' = proc \ {i} /\ told' = told \ {i} \X Breaking /\ queue' = queue \ ({i} \X Steers)
          /\ acks' = acks \cup new \/ acks' = acks
      BY <2>17 DEF ChildEnds
    <3>2. i \in DOMAIN steps'
      <4>1. phase = "group"
        BY <2>17 DEF ChildEnds
      <4>2. Child(k) \in 1 .. Base /\ Base \in Nat /\ Base <= Len(steps) /\ Len(steps) \in Nat
            /\ DOMAIN steps = 1 .. Len(steps)
        BY <4>1, PlaceFacts
      <4> QED
        BY <2>d, <4>2
    <3> HIDE DEF i
    <3>3. new \subseteq [req : Steers, child : DOMAIN steps', state : {"queued", "delivered", "failed"}]
      <4> SUFFICES ASSUME NEW q \in queue \cap ({i} \X Steers)
                   PROVE  [req |-> q[2], child |-> i, state |-> "failed"] \in
                            [req : Steers, child : DOMAIN steps', state : {"queued", "delivered", "failed"}]
        OBVIOUS
      <4>1. q[2] \in Steers
        OBVIOUS
      <4> QED
        BY <3>2, <4>1
    <3> HIDE DEF new
    <3>4. acks' \subseteq [req : Steers, child : DOMAIN steps', state : {"queued", "delivered", "failed"}]
      BY <2>k, <3>1, <3>3
    <3>5. told' \subseteq proc' \X Breaking
      BY <2>t, <3>1
    <3>6. queue' \subseteq proc' \X Steers
      BY <2>t, <3>1
    <3>7. capFiles' \subseteq DOMAIN steps' /\ deaf' \subseteq capFiles' /\ inbox' \subseteq (DOMAIN steps') \X Steers
      BY <2>t, <3>1
    <3> QED
      BY <3>4, <3>5, <3>6, <3>7 DEF PlacesInv
  <2>18. ASSUME NEW k \in Tasks, TurnsExceeded(k) PROVE PlacesInv'
    <3>1. /\ UNCHANGED <<capFiles, deaf, queue, inbox, acks, proc>>
          /\ told' = told \cup {<<Child(k), "turnBudget">>}
          /\ phase = "group" /\ task[k].pc = "child"
      BY <2>18 DEF TurnsExceeded, Served
    <3>2. Child(k) \in proc
      BY <3>1 DEF ChildInv
    <3>3. told' \subseteq proc' \X Breaking
      BY <2>t, <3>1, <3>2 DEF Breaking
    <3>4. queue' \subseteq proc' \X Steers /\ inbox' \subseteq (DOMAIN steps') \X Steers
      BY <2>t, <2>i, <3>1
    <3> QED
      BY <2>c, <3>1, <3>3, <3>4
  <2>19. ASSUME NEW i \in proc, PublishCapability(i) PROVE PlacesInv'
    <3>1. UNCHANGED <<deaf, told, queue, inbox, acks, proc, steps>> /\ capFiles' = capFiles \cup {i}
      BY <2>19 DEF PublishCapability
    <3>2. capFiles' \subseteq DOMAIN steps' /\ deaf' \subseteq capFiles'
      BY <2>t, <2>p, <3>1
    <3>3. told' \subseteq proc' \X Breaking /\ queue' \subseteq proc' \X Steers
          /\ inbox' \subseteq (DOMAIN steps') \X Steers
      BY <2>t, <3>1
    <3>4. acks' \subseteq [req : Steers, child : DOMAIN steps', state : {"queued", "delivered", "failed"}]
      BY <2>k, <3>1
    <3> QED
      BY <3>2, <3>3, <3>4 DEF PlacesInv
  <2>20. ASSUME NEW i \in proc, NEW r \in Steers, TakeSteer(i, r) PROVE PlacesInv'
    <3>1. /\ UNCHANGED <<capFiles, deaf, told, proc, steps>>
          /\ inbox' \subseteq inbox
          /\ queue' \subseteq queue \cup {<<i, r>>}
          /\ \E s \in {"queued", "delivered", "failed"} :
               acks' = acks \cup {[req |-> r, child |-> i, state |-> s]}
      BY <2>20 DEF TakeSteer
    <3>2. capFiles' \subseteq DOMAIN steps' /\ deaf' \subseteq capFiles'
          /\ inbox' \subseteq (DOMAIN steps') \X Steers
      BY <2>t, <3>1
    <3>3. told' \subseteq proc' \X Breaking /\ queue' \subseteq proc' \X Steers
      BY <2>t, <3>1
    <3>4. acks' \subseteq [req : Steers, child : DOMAIN steps', state : {"queued", "delivered", "failed"}]
      BY <2>k, <2>n, <3>1
    <3> QED
      BY <3>2, <3>3, <3>4 DEF PlacesInv
  <2>21. ASSUME NEW i \in proc, NEW r \in Steers, StartTurn(i, r) PROVE PlacesInv'
    <3>1. /\ UNCHANGED <<capFiles, deaf, told, proc, steps>>
          /\ inbox' \subseteq inbox
          /\ queue' \subseteq queue \cup {<<i, r>>}
          /\ \E s \in {"queued", "delivered", "failed"} :
               acks' = acks \cup {[req |-> r, child |-> i, state |-> s]}
      BY <2>21 DEF StartTurn
    <3>2. capFiles' \subseteq DOMAIN steps' /\ deaf' \subseteq capFiles'
          /\ inbox' \subseteq (DOMAIN steps') \X Steers
      BY <2>t, <3>1
    <3>3. told' \subseteq proc' \X Breaking /\ queue' \subseteq proc' \X Steers
      BY <2>t, <3>1
    <3>4. acks' \subseteq [req : Steers, child : DOMAIN steps', state : {"queued", "delivered", "failed"}]
      BY <2>k, <2>n, <3>1
    <3> QED
      BY <3>2, <3>3, <3>4 DEF PlacesInv
  <2>22. ASSUME \/ LeaveLoop \/ GroupDone \/ CloseInbox \/ SweepSteers
              \/ PublishResult \/ WriteLastStatus
        PROVE  UNCHANGED <<capFiles, deaf, told, queue, inbox, acks, proc, steps>>
    BY <2>22 DEF LeaveLoop, GroupDone, CloseInbox, SweepSteers, PublishResult,
         WriteLastStatus
  <2>23. ASSUME NEW k \in Tasks,
              \/ Overspend(k)
        PROVE  UNCHANGED <<capFiles, deaf, told, queue, inbox, acks, proc, steps>>
    BY <2>23 DEF Overspend
  <2>24. ASSUME NEW c \in {"stop", "timeout", "interrupt"},
              \/ SendControl(c)
        PROVE  UNCHANGED <<capFiles, deaf, told, queue, inbox, acks, proc, steps>>
    BY <2>24 DEF SendControl
  <2>25. ASSUME NEW r \in Steers,
              \/ ReadForSteer(r) \/ WriteSteer(r) \/ ConfirmSteer(r)
        PROVE  UNCHANGED <<capFiles, deaf, told, queue, inbox, acks, proc, steps>>
    BY <2>25 DEF ReadForSteer, WriteSteer, ConfirmSteer, Sender
  <2>26. ASSUME NEW a \in Appends,
              \/ ReadForAppend(a) \/ FileAppend(a) \/ WriteBackStatus(a)
        PROVE  UNCHANGED <<capFiles, deaf, told, queue, inbox, acks, proc, steps>>
    BY <2>26 DEF ReadForAppend, FileAppend, WriteBackStatus, Appender
  <2>27. CASE UNCHANGED <<capFiles, deaf, told, queue, inbox, acks, proc, steps>>
    BY <2>u, <2>27
  <2> QED
    BY <2>1, <2>2, <2>3, <2>4, <2>5, <2>6, <2>7, <2>8, <2>9, <2>10, <2>11, <2>12,
       <2>13, <2>14, <2>15, <2>16, <2>17, <2>18, <2>19, <2>20, <2>21, <2>22, <2>23,
       <2>24, <2>25, <2>26, <2>27 DEF Next, RunnerStep, TaskStep, ServeInbox,
       ChildStep, ParentStep, vars
<1> QED
  BY <1>1, <1>2

\* Switches holds in every initial state and is kept by every step.
LEMMA SwitchesInductive ==
  /\ Init => Switches
  /\ Switches /\ [Next]_vars => Switches'
<1> USE DEF Switches
<1>1. Init => Switches
  BY DEF Init
<1>2. Switches /\ [Next]_vars => Switches'
  <2> SUFFICES ASSUME Switches, [Next]_vars PROVE Switches'
    OBVIOUS
  <2> USE DEF loop, report, steering, files, children, callers, parents
  <2>1. ASSUME UsageExhausted PROVE Switches'
    <3>1. UNCHANGED spent /\ (err' = err \/ err' = TRUE)
      BY <2>1 DEF UsageExhausted
    <3> QED
      BY <3>1
  <2>2. ASSUME StartFan PROVE Switches'
    <3>1. UNCHANGED spent /\ (err' = err \/ err' = TRUE)
      BY <2>2 DEF StartFan
    <3> QED
      BY <3>1
  <2>3. ASSUME GroupDone PROVE Switches'
    <3> DEFINE sound == GroupResults \cap (Failed \cup {"gate"}) = {}
    <3>1. UNCHANGED spent /\ (UNCHANGED err \/ err' = (err \/ "gate" \in GroupResults \/ sound))
      BY <2>3 DEF GroupDone
    <3> HIDE DEF sound
    <3> QED
      BY <3>1
  <2>4. ASSUME EmptyFanDone PROVE Switches'
    <3>1. UNCHANGED spent /\ (err' = err \/ err' = TRUE)
      BY <2>4 DEF EmptyFanDone
    <3> QED
      BY <3>1
  <2>5. ASSUME PublishResult PROVE Switches'
    <3>1. UNCHANGED spent /\ (err' = err \/ err' = TRUE)
      BY <2>5 DEF PublishResult
    <3> QED
      BY <3>1
  <2>6. ASSUME ConsumeStop PROVE Switches'
    <3>1. UNCHANGED spent /\ (err' = err \/ err' = TRUE)
      BY <2>6 DEF ConsumeStop, StopRunner, Apply, Served
    <3> QED
      BY <3>1
  <2>7. ASSUME ConsumeTimeout PROVE Switches'
    <3>1. UNCHANGED spent /\ (err' = err \/ err' = TRUE)
      BY <2>7 DEF ConsumeTimeout, TimeoutRunner, Apply, Served
    <3> QED
      BY <3>1
  <2>8. ASSUME DeadlinePasses PROVE Switches'
    <3>1. UNCHANGED spent /\ (err' = err \/ err' = TRUE)
      BY <2>8 DEF DeadlinePasses, TimeoutRunner, Apply, Served
    <3> QED
      BY <3>1
  <2>9. ASSUME NEW k \in Tasks, TurnsExceeded(k) PROVE Switches'
    <3>1. UNCHANGED spent /\ (err' = err \/ err' = TRUE)
      BY <2>9 DEF TurnsExceeded, Served
    <3> QED
      BY <3>1
  <2>10. ASSUME NEW k \in Tasks, Overspend(k) PROVE Switches'
    <3>1. spent' = TRUE /\ UNCHANGED err
      BY <2>10 DEF Overspend
    <3> QED
      BY <3>1
  <2>11. ASSUME \/ LeaveLoop \/ StartOne \/ StartMany \/ CloseInbox
              \/ SweepSteers \/ WriteLastStatus \/ ConsumeInterrupt
        PROVE  UNCHANGED <<spent, err>>
    BY <2>11 DEF LeaveLoop, StartOne, StartMany, CloseInbox, SweepSteers,
         WriteLastStatus, ConsumeInterrupt, StartStep, FlushSteers, Spawn, Deliver,
         AtLoopTop, InterruptRunner, Apply, Served
  <2>12. ASSUME NEW k \in Tasks,
              \/ StartTask(k) \/ RefuseTask(k) \/ Retry(k) \/ FinishTask(k)
              \/ ChildEnds(k)
        PROVE  UNCHANGED <<spent, err>>
    BY <2>12 DEF StartTask, RefuseTask, Retry, FinishTask, ChildEnds, StartStep,
         FlushSteers, Spawn, Deliver
  <2>13. ASSUME NEW r \in Steers,
              \/ ConsumeSteer(r) \/ ReadForSteer(r) \/ WriteSteer(r)
              \/ ConfirmSteer(r)
        PROVE  UNCHANGED <<spent, err>>
    BY <2>13 DEF ConsumeSteer, ReadForSteer, WriteSteer, ConfirmSteer, Deliver, Sender
  <2>14. ASSUME NEW i \in capFiles,
              \/ ConsumeCapability(i)
        PROVE  UNCHANGED <<spent, err>>
    BY <2>14 DEF ConsumeCapability
  <2>15. ASSUME NEW a \in acks,
              \/ ConsumeAck(a)
        PROVE  UNCHANGED <<spent, err>>
    BY <2>15 DEF ConsumeAck
  <2>16. ASSUME NEW i \in proc,
              \/ PublishCapability(i)
        PROVE  UNCHANGED <<spent, err>>
    BY <2>16 DEF PublishCapability
  <2>17. ASSUME NEW i \in proc, NEW r \in Steers,
              \/ TakeSteer(i, r) \/ StartTurn(i, r)
        PROVE  UNCHANGED <<spent, err>>
    BY <2>17 DEF TakeSteer, StartTurn
  <2>18. ASSUME NEW c \in {"stop", "timeout", "interrupt"},
              \/ SendControl(c)
        PROVE  UNCHANGED <<spent, err>>
    BY <2>18 DEF SendControl
  <2>19. ASSUME NEW a \in Appends,
              \/ ReadForAppend(a) \/ FileAppend(a) \/ WriteBackStatus(a)
        PROVE  UNCHANGED <<spent, err>>
    BY <2>19 DEF ReadForAppend, FileAppend, WriteBackStatus, Appender
  <2>20. CASE UNCHANGED <<spent, err>>
    BY <2>20
  <2> QED
    BY <2>1, <2>2, <2>3, <2>4, <2>5, <2>6, <2>7, <2>8, <2>9, <2>10, <2>11, <2>12,
       <2>13, <2>14, <2>15, <2>16, <2>17, <2>18, <2>19, <2>20 DEF Next, RunnerStep,
       TaskStep, ServeInbox, ChildStep, ParentStep, vars
<1> QED
  BY <1>1, <1>2

\* What the invariants say of the single variables makes up the type invariant.
LEMMA KindsGiveTypes ==
  ASSUME BoundsAssumption, PlanOK, TaskOK, StepsOK, AlignInv, ProcInv, ChildInv, TryInv,
         LoopKinds, ReportKinds, Switches, TroubleOK, InboxKinds, LedgerOK, PositionInv,
         PlacesInv
  PROVE  TypeOK
<1>1. \A k \in DOMAIN task :
        /\ task[k].pc \in {"wait", "child", "retrying", "judging", "done"}
        /\ task[k].try \in 0 .. MaxAttempts /\ task[k].res \in Results
  <2> SUFFICES ASSUME NEW k \in DOMAIN task
               PROVE  /\ task[k].pc \in {"wait", "child", "retrying", "judging", "done"}
                      /\ task[k].try \in 0 .. MaxAttempts /\ task[k].res \in Results
    OBVIOUS
  <2>1. task \in Seq(TaskRec)
    BY DEF TaskOK
  <2>2. task[k] \in TaskRec
    <3> HIDE DEF TaskRec
    <3> QED
      BY ONLY <2>1, k \in DOMAIN task
  <2>3. task[k].try <= MaxAttempts
    BY DEF TryInv, Tasks
  <2>4. /\ task[k].pc \in {"wait", "child", "retrying", "judging", "done"}
        /\ task[k].try \in Nat /\ task[k].res \in Results
    BY ONLY <2>2 DEF TaskRec
  <2> QED
    BY <2>3, <2>4, BoundsAssumption DEF BoundsAssumption
<1>2. \A i \in DOMAIN steps : steps[i].st \in Statuses
  <2> SUFFICES ASSUME NEW i \in DOMAIN steps PROVE steps[i].st \in Statuses
    OBVIOUS
  <2>1. steps \in Seq(StepRec)
    BY DEF StepsOK
  <2>2. steps[i] \in StepRec
    <3> HIDE DEF StepRec
    <3> QED
      BY ONLY <2>1, i \in DOMAIN steps
  <2> QED
    BY ONLY <2>2 DEF StepRec
<1>3. proc \subseteq DOMAIN steps
  <2> SUFFICES ASSUME NEW i \in proc PROVE i \in DOMAIN steps
    OBVIOUS
  <2>1. PICK k \in Tasks : i = Child(k) /\ phase = "group"
    BY DEF ProcInv
  <2>2. Child(k) \in 1 .. Base /\ Base \in Nat /\ Base <= Len(steps) /\ Len(steps) \in Nat
        /\ DOMAIN steps = 1 .. Len(steps)
    BY <2>1, PlaceFacts
  <2> HIDE DEF Base, Child
  <2> QED
    BY <2>1, <2>2
<1>4. err \in BOOLEAN /\ spent \in BOOLEAN
  BY DEF Switches
<1>5. cursor \in 0 .. Len(plan) /\ start \in 0 .. Len(steps) /\ trouble \in 0 .. MaxTrouble
  BY DEF PositionInv, TroubleOK
<1>6. /\ phase \in {"top", "group", "share", "closed", "swept", "published", "exited"}
      /\ state \in {"running", "paused", "failed", "stopped", "complete"}
      /\ flags \subseteq Breaking \cup {"usage"} /\ outcomes \subseteq Results
  BY DEF LoopKinds, ReportKinds, Phases
<1>7. /\ known \subseteq Steers /\ held \subseteq Steers
      /\ control \subseteq asked /\ asked \subseteq {"stop", "timeout", "interrupt"}
      /\ steerFiles \subseteq Steers /\ appendFiles \subseteq Appends
  BY DEF InboxKinds
<1>8. /\ deaf \subseteq capFiles /\ capFiles \subseteq DOMAIN steps
      /\ told \subseteq proc \X Breaking /\ queue \subseteq proc \X Steers
      /\ inbox \subseteq (DOMAIN steps) \X Steers
      /\ acks \subseteq [req : Steers, child : DOMAIN steps,
                        state : {"queued", "delivered", "failed"}]
  BY DEF PlacesInv
<1>9. \A r \in Steers : \A i \in DOMAIN ledger[r] : ledger[r][i] \in TargetStates
  BY DEF LedgerOK
<1> QED
  BY ONLY <1>1, <1>2, <1>3, <1>4, <1>5, <1>6, <1>7, <1>8, <1>9 DEF TypeOK

\* Every variable always holds a value of its kind: the runner stays within its
\* chain and its list of steps, a task is tried at most MaxAttempts times, and
\* whatever names a child names one of the list, also when a group appended or
\* put in the place of its placeholder has moved the list meanwhile.
THEOREM TypeCorrect ==
  ASSUME PlanAssumption, BoundsAssumption
  PROVE  Spec => []TypeOK
<1> DEFINE Loop == PlanOK /\ TaskOK /\ StepsOK /\ AlignInv /\ ProcInv /\ ChildInv /\ TryInv
           Kinds == LoopKinds /\ ReportKinds /\ Switches /\ TroubleOK /\ InboxKinds
           Inv == Loop /\ Kinds /\ LedgerOK /\ PositionInv /\ PlacesInv
<1>1. Init => Inv
  BY PlanOKInductive, TaskOKInductive, StepsOKInductive, AlignInvInductive,
     ProcInvInductive, ChildInvInductive, TryInvInductive, LoopKindsInductive,
     ReportKindsInductive, SwitchesInductive, TroubleOKInductive, InboxKindsInductive,
     LedgerOKInductive, PositionInvInductive, PlacesInvInductive
<1>2. Inv /\ [Next]_vars => Inv'
  BY PlanOKInductive, TaskOKInductive, StepsOKInductive, AlignInvInductive,
     ProcInvInductive, ChildInvInductive, TryInvInductive, LoopKindsInductive,
     ReportKindsInductive, SwitchesInductive, TroubleOKInductive, InboxKindsInductive,
     LedgerOKInductive, PositionInvInductive, PlacesInvInductive
<1>3. Inv => TypeOK
  BY KindsGiveTypes
<1>4. Spec => []Inv
  <2> HIDE DEF Inv
  <2> QED
    BY <1>1, <1>2, PTL DEF Spec
<1> QED
  BY <1>3, <1>4, PTL

=============================================================================
