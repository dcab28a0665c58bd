---------------------------- MODULE MCRuns_proofs ----------------------------
(***************************************************************************)
(* Proofs about a session with one run, in the background or in the        *)
(* foreground (MCRuns): the invariants of RunControl and of ForegroundRun  *)
(* hold together, for the run that is there and for the one that is over.  *)
(***************************************************************************)
EXTENDS MCRuns, RunControl_proofs, ForegroundRun_proofs

\* The invariants of the background run from which its theorems follow, and
\* those of the foreground run.
LoopInv ==
  /\ PlanOK /\ TaskOK /\ StepsOK /\ AlignInv /\ ProcInv /\ ChildInv /\ TryInv
  /\ LoopKinds /\ ReportKinds /\ Switches /\ TroubleOK /\ InboxKinds
  /\ PositionInv /\ PlacesInv /\ EveryChildIsTold
EndsInv == ResInv /\ DoneInv /\ EndInv
SteersInv ==
  /\ SteerOK /\ ClosedInv /\ FiledInv /\ LedgerOK /\ SweptInv
  /\ TailInv /\ SetInv /\ RunInv /\ SnapInv /\ NameInv /\ SentInv /\ RouteInv
  /\ SteerReachesItsChild
BgInv == LoopInv /\ EndsInv /\ SteersInv
RunsInv == BgInv /\ FgTypeInv /\ FgInv

-----------------------------------------------------------------------------
(* The run that is over satisfies the invariants.                          *)

\* The chain of the background run that is over, and its only step.
LEMMA OverFacts ==
  ASSUME BackgroundOver
  PROVE  /\ plan \in Seq(Group) /\ Len(plan) = 1
         /\ steps \in Seq(StepRec) /\ Len(steps) = 1 /\ DOMAIN steps = {1}
         /\ steps[1].st = "complete"
         /\ task \in Seq(TaskRec) /\ Len(task) = 1 /\ DOMAIN task = {1}
         /\ task[1].pc = "done" /\ task[1].try = 1 /\ task[1].res = "ok"
<1>1. One \in Group
  BY DEF One, Group
<1>2. [id |-> <<1, 1>>, st |-> "complete"] \in StepRec
  BY DEF StepRec, Statuses
<1>3. [pc |-> "done", try |-> 1, res |-> "ok"] \in TaskRec
  BY DEF TaskRec, Results
<1>4. plan = <<One>>
  BY DEF BackgroundOver
<1>5. steps = <<[id |-> <<1, 1>>, st |-> "complete"]>>
  BY DEF BackgroundOver
<1>6. task = <<[pc |-> "done", try |-> 1, res |-> "ok"]>>
  BY DEF BackgroundOver
<1>7. plan \in Seq(Group) /\ Len(plan) = 1
  <2> HIDE DEF One, Group
  <2> QED
    BY ONLY <1>1, <1>4
<1>8. steps \in Seq(StepRec) /\ Len(steps) = 1 /\ DOMAIN steps = {1}
  <2> HIDE DEF StepRec
  <2> QED
    BY ONLY <1>2, <1>5
<1>9. task \in Seq(TaskRec) /\ Len(task) = 1 /\ DOMAIN task = {1}
  <2> HIDE DEF TaskRec
  <2> QED
    BY ONLY <1>3, <1>6
<1>10. steps[1].st = "complete"
  BY ONLY <1>5
<1>11. task[1].pc = "done" /\ task[1].try = 1 /\ task[1].res = "ok"
  BY ONLY <1>6
<1> QED
  BY ONLY <1>7, <1>8, <1>9, <1>10, <1>11

\* The run that is over satisfies what is said of the loop and of the kinds.
LEMMA OverLoop ==
  ASSUME BoundsAssumption, BackgroundOver
  PROVE  LoopInv
<1>1. /\ phase = "exited" /\ cursor = 1 /\ start = 1 /\ outcomes = {"ok"} /\ proc = {}
      /\ state = "complete" /\ flags = {} /\ trouble = 0
      /\ known = {} /\ held = {} /\ steerFiles = {} /\ control = {} /\ asked = {}
      /\ appendFiles = {} /\ capFiles = {} /\ deaf = {} /\ told = {} /\ queue = {}
      /\ inbox = {} /\ acks = {}
  BY DEF BackgroundOver
<1>2. spent \in BOOLEAN /\ err \in BOOLEAN
  BY DEF BackgroundOver
<1>3. PlanOK
  <2>1. IsFiniteSet({})
    BY FS_EmptySet
  <2> QED
    BY <1>1, <2>1, OverFacts DEF PlanOK
<1>4. TaskOK /\ StepsOK
  BY <1>1, OverFacts DEF TaskOK, StepsOK
<1>5. AlignInv /\ ProcInv /\ ChildInv /\ EveryChildIsTold
  BY <1>1 DEF AlignInv, ProcInv, ChildInv, EveryChildIsTold
<1>6. TryInv
  BY OverFacts, BoundsAssumption DEF BoundsAssumption, TryInv, Tasks
<1>7. LoopKinds /\ ReportKinds /\ Switches
  BY <1>1, <1>2 DEF LoopKinds, ReportKinds, Switches, Phases, Results
<1>8. TroubleOK /\ InboxKinds /\ PlacesInv
  BY <1>1, BoundsAssumption DEF BoundsAssumption, TroubleOK, InboxKinds, PlacesInv
<1>9. PositionInv
  <2>1. cursor = 1 /\ start = 1 /\ Len(plan) = 1 /\ Len(steps) = 1
    BY <1>1, OverFacts
  <2> QED
    BY ONLY <2>1 DEF PositionInv
<1> QED
  BY <1>3, <1>4, <1>5, <1>6, <1>7, <1>8, <1>9 DEF LoopInv

\* It is complete, and has run its chain.
LEMMA OverEnds ==
  ASSUME BackgroundOver
  PROVE  EndsInv
<1>1. phase = "exited" /\ cursor = 1 /\ start = 1 /\ outcomes = {"ok"} /\ flags = {} /\ ~err
  BY DEF BackgroundOver
<1>2. ResInv
  BY <1>1, OverFacts DEF ResInv, Tasks
<1>3. DoneInv
  BY <1>1, OverFacts DEF DoneInv
<1>4. EndInv
  BY <1>1 DEF EndInv, Ended, Clean, Quiet
<1> QED
  BY <1>2, <1>3, <1>4 DEF EndsInv

\* Nothing was asked of it.
LEMMA OverSteers ==
  ASSUME BackgroundOver
  PROVE  SteersInv
<1>1. /\ phase = "exited" /\ closed = TRUE /\ held = {} /\ steerFiles = {} /\ inbox = {}
      /\ queue = {} /\ heard = {} /\ acks = {}
  BY DEF BackgroundOver
<1>2. steer = [s \in Steers |-> [pc |-> "idle", sel |-> {}, indexed |-> FALSE, want |-> {}]]
  BY DEF BackgroundOver
<1>3. /\ DOMAIN steer = Steers
      /\ \A r \in Steers :
           steer[r] = [pc |-> "idle", sel |-> {}, indexed |-> FALSE, want |-> {}]
  BY ONLY <1>2
<1>4. \A r \in Steers : steer[r].pc = "idle" /\ steer[r].want = {}
  BY ONLY <1>3
<1>5. SteerOK
  BY <1>3 DEF SteerOK
<1>6. ClosedInv
  BY <1>1 DEF ClosedInv, Ended
<1>7. DOMAIN ledger = Steers /\ \A r \in Steers : DOMAIN ledger[r] = {}
  BY DEF BackgroundOver
<1>8. FiledInv /\ LedgerOK /\ SweptInv
  BY <1>1, <1>4, <1>7 DEF FiledInv, LedgerOK, SweptInv
<1>9. TailInv /\ SetInv
  BY <1>1 DEF TailInv, SetInv
<1>10. RunInv
  BY OverFacts DEF RunInv, Running
<1>11. SnapInv
  <2>1. disk = [state |-> "complete", steps |-> steps, pendingAppends |-> FALSE]
    BY DEF BackgroundOver
  <2>2. Snap(disk, steps)
    <3>1. disk.steps = steps /\ disk.state = "complete" /\ disk.pendingAppends = FALSE
      BY ONLY <2>1
    <3>2. Keeps(steps, steps)
      BY KeepsFacts
    <3>3. steps \in Seq(StepRec)
      BY OverFacts
    <3>4. \A i \in Running(steps) : Settled(steps, i)
      BY <1>10 DEF RunInv
    <3> HIDE DEF StepRec
    <3> QED
      BY ONLY <2>1, <3>1, <3>2, <3>3, <3>4 DEF Snap
  <2>3. append = [a \in Appends |-> [pc |-> "idle", read |-> <<>>]]
    BY DEF BackgroundOver
  <2>4. /\ DOMAIN append = Appends
        /\ \A a \in Appends : append[a] = [pc |-> "idle", read |-> <<>>]
    BY ONLY <2>3
  <2> QED
    BY ONLY <2>2, <2>4 DEF SnapInv
<1>12. NameInv /\ RouteInv
  BY <1>4 DEF NameInv, Named, RouteInv
<1>13. SentInv
  BY <1>1 DEF SentInv
<1>14. SteerReachesItsChild
  BY <1>1, <1>4 DEF SteerReachesItsChild
<1> QED
  BY <1>5, <1>6, <1>8, <1>9, <1>10, <1>11, <1>12, <1>13, <1>14 DEF SteersInv

\* The foreground run that is over satisfies the invariants of its module.
LEMMA OverForeground ==
  ASSUME LaunchesAssumption, ForegroundOver
  PROVE  FgTypeInv /\ FgInv
<1>1. /\ aborted \in BOOLEAN /\ signal \in BOOLEAN /\ worked \in BOOLEAN
      /\ paused \in BOOLEAN /\ late \in BOOLEAN /\ registered \in BOOLEAN
      /\ attention \in BOOLEAN /\ history \in BOOLEAN
  BY DEF ForegroundOver
<1>2. FgTypeInv
  BY <1>1, LaunchesAssumption DEF LaunchesAssumption, FgTypeInv, FgTypeOK, LaunchBound, ForegroundOver
<1>3. FgInv
  BY DEF FgInv, CallMatchesHandover, NoAttemptAfterQuestion, NothingToldEarly,
         SettledIsTold, QuestionsAreOfTheChild, QuestionStaysAnswerable, ForegroundOver
<1> QED
  BY <1>2, <1>3

-----------------------------------------------------------------------------
(* Every behaviour of the session satisfies the invariants.                *)

\* A step of the session is a step of one run, and the other stays as it is.
LEMMA StepOfEach ==
  [RunsNext]_<<vars, fgVars>> => [Next]_vars /\ [FgNext]_fgVars
  BY DEF RunsNext

\* The invariants of the background run are inductive together.
LEMMA BackgroundInductive ==
  ASSUME PlanAssumption, BoundsAssumption
  PROVE  /\ Init => BgInv
         /\ BgInv /\ [Next]_vars => BgInv'
<1>1. /\ Init => LoopInv
      /\ BgInv /\ [Next]_vars => LoopInv'
  BY PlanOKInductive, TaskOKInductive, StepsOKInductive, AlignInvInductive,
     ProcInvInductive, ChildInvInductive, TryInvInductive, LoopKindsInductive,
     ReportKindsInductive, SwitchesInductive, TroubleOKInductive, InboxKindsInductive,
     PositionInvInductive, PlacesInvInductive, EveryChildIsToldInductive
     DEF BgInv, LoopInv, EndsInv, SteersInv
<1>2. /\ Init => EndsInv
      /\ BgInv /\ [Next]_vars => EndsInv'
  BY ResInvInductive, DoneInvInductive, EndInvInductive DEF BgInv, LoopInv, EndsInv
<1>3. /\ Init => SteersInv
      /\ BgInv /\ [Next]_vars => SteersInv'
  BY SteerOKInductive, ClosedInvInductive, FiledInvInductive, LedgerOKInductive,
     SweptInvInductive, TailInvInductive, SetInvInductive, RunInvInductive,
     SnapInvInductive, NameInvInductive, SentInvInductive, RouteInvInductive,
     SteerReachesItsChildInductive DEF BgInv, LoopInv, SteersInv
<1> QED
  BY <1>1, <1>2, <1>3 DEF BgInv

\* Every behaviour of the session satisfies the invariants in every state.
LEMMA RunsInvariant ==
  ASSUME PlanAssumption, BoundsAssumption, LaunchesAssumption
  PROVE  RunsSpec => []RunsInv
<1>1. RunsInit => RunsInv
  <2>1. ASSUME Init, ForegroundOver PROVE RunsInv
    BY <2>1, BackgroundInductive, OverForeground DEF RunsInv
  <2>2. ASSUME FgInit, BackgroundOver PROVE RunsInv
    BY <2>2, OverLoop, OverEnds, OverSteers, FgTypeInvInductive, FgInvInductive
       DEF RunsInv, BgInv
  <2> QED
    BY <2>1, <2>2 DEF RunsInit
<1>2. RunsInv /\ [RunsNext]_<<vars, fgVars>> => RunsInv'
  BY StepOfEach, BackgroundInductive, FgTypeInvInductive, FgInvInductive DEF RunsInv
<1> QED
  BY <1>1, <1>2, PTL DEF RunsSpec

\* What the invariants of the background run say of its properties.
LEMMA BgGives ==
  ASSUME BoundsAssumption, BgInv
  PROVE  /\ TypeOK
         /\ AcceptedSteerIsSettled /\ EveryChildIsTold
         /\ CompleteRunRanEverything /\ SteerReachesItsChild
<1> USE DEF BgInv, LoopInv, EndsInv, SteersInv
<1>1. TypeOK
  BY KindsGiveTypes
<1>2. AcceptedSteerIsSettled
  BY DEF SweptInv, AcceptedSteerIsSettled, Ended
<1>3. CompleteRunRanEverything
  <2> SUFFICES ASSUME phase = "exited", state = "complete"
               PROVE  cursor = Len(plan) /\ \A i \in DOMAIN steps : steps[i].st = "complete"
    BY DEF CompleteRunRanEverything
  <2>1. DOMAIN steps = 1 .. Len(steps)
    BY DEF StepsOK
  <2> QED
    BY <2>1 DEF DoneInv, EndInv
<1>4. EveryChildIsTold /\ SteerReachesItsChild
  OBVIOUS
<1> QED
  BY <1>1, <1>2, <1>3, <1>4

\* Type correctness of the session: whichever of the two runs it has, the
\* variables of both hold values of their kinds.
THEOREM RunsTypeCorrect ==
  ASSUME PlanAssumption, BoundsAssumption, LaunchesAssumption
  PROVE  RunsSpec => []RunsTypeOK
<1>1. RunsInv => RunsTypeOK
  BY BgGives DEF RunsInv, RunsTypeOK, FgTypeInv
<1> QED
  BY RunsInvariant, <1>1, PTL

\* What a background run promises holds in a session whose run is in the
\* foreground too, and the other way round: a committed steering request is
\* settled at the end and reaches the child it names, every child is told of a
\* stop, a complete run ran everything, an end is told once and a question that
\* was shown can be answered.
THEOREM RunsKeepTheirPromises ==
  ASSUME PlanAssumption, BoundsAssumption, LaunchesAssumption
  PROVE  RunsSpec =>
           [](/\ AcceptedSteerIsSettled /\ EveryChildIsTold
              /\ CompleteRunRanEverything /\ SteerReachesItsChild
              /\ ToldExactlyOnce /\ QuestionStaysAnswerable)
<1> DEFINE Promises ==
      /\ AcceptedSteerIsSettled /\ EveryChildIsTold
      /\ CompleteRunRanEverything /\ SteerReachesItsChild
      /\ ToldExactlyOnce /\ QuestionStaysAnswerable
<1>1. RunsInv => Promises
  <2> SUFFICES ASSUME RunsInv PROVE Promises
    OBVIOUS
  <2>1. ToldExactlyOnce /\ QuestionStaysAnswerable
    BY DEF RunsInv, FgInv, CallMatchesHandover, NothingToldEarly, SettledIsTold, ToldExactlyOnce
  <2> QED
    BY <2>1, BgGives DEF RunsInv
<1> QED
  BY RunsInvariant, <1>1, PTL

\* In every session no child process is started after a stop, and no handover is
\* taken back.
THEOREM RunsTakeNothingBack ==
  ASSUME PlanAssumption, BoundsAssumption, LaunchesAssumption
  PROVE  RunsSpec => NoChildAfterStop /\ HandoverIsFinal
<1>1. RunsInv => FgInv
  BY DEF RunsInv
<1>2. RunsInv /\ [RunsNext]_<<vars, fgVars>> =>
        /\ [~Quiet(Ending) => proc' \subseteq proc]_vars
        /\ [handover # "none" =>
              /\ handover' = handover /\ signal' = signal
              /\ handover = "question" => launches' = launches]_fgVars
  BY <1>1, StepOfEach, StepAfterStop, StepAfterHandover
<1> QED
  BY RunsInvariant, <1>2, PTL DEF RunsSpec, NoChildAfterStop, HandoverIsFinal
=============================================================================
