------------------------ MODULE ForegroundRun_proofs ------------------------
(***************************************************************************)
(* Proofs about the foreground run: type correctness, that the end of a    *)
(* run is told exactly once, that a handover is final, and that a question *)
(* the session was shown stays answerable.  All four follow from one       *)
(* inductive invariant, FgInv, whose parts say how the three actors'       *)
(* states hang together: the call with the handover, the memory of the     *)
(* runtime with the end of the pipeline, the files with the questions.     *)
(***************************************************************************)
EXTENDS ForegroundRun, TLAPS

-----------------------------------------------------------------------------
(* The inductive invariant.                                                *)

\* Another process may only follow while the bound is not reached.
LaunchBound == pipeline \in {"next", "delay"} => launches < MaxLaunches

FgTypeInv == FgTypeOK /\ LaunchBound

\* The call has its receipt exactly when the run was handed over, its result
\* only when the run is settled.
CallMatchesHandover ==
  /\ call = "receipt" <=> handover # "none"
  /\ call = "result" => pipeline = "settled"

\* A run handed over for a question is not tried again.
NoAttemptAfterQuestion ==
  handover = "question" => pipeline \notin {"next", "delay"}

\* Nobody is told, and nothing remembers an end, before the run is settled;
\* a run that was not handed over has no completion event.
NothingToldEarly ==
  /\ completions <= 1
  /\ pipeline # "settled" => completions = 0 /\ ~history /\ remembered # "done"
  /\ handover = "none" => completions = 0

\* What the settlement of a run that was handed over leaves behind.
SettledIsTold ==
  handover # "none" /\ pipeline = "settled" => completions = 1 \/ home # "same"

\* A child asks while it runs, and a file is there only for what was asked.
QuestionsAreOfTheChild ==
  \A q \in Questions :
    /\ ask[q] = "waiting" => pipeline = "child"
    /\ q \in requests \cup seen => ask[q] # "unasked"

FgInv ==
  /\ CallMatchesHandover /\ NoAttemptAfterQuestion /\ NothingToldEarly
  /\ SettledIsTold /\ QuestionsAreOfTheChild /\ QuestionStaysAnswerable

-----------------------------------------------------------------------------
(* Type correctness.                                                       *)

\* The Boolean variables, whose types are proved apart.
Flags ==
  /\ aborted \in BOOLEAN /\ signal \in BOOLEAN /\ worked \in BOOLEAN
  /\ paused \in BOOLEAN /\ late \in BOOLEAN /\ registered \in BOOLEAN
  /\ attention \in BOOLEAN /\ history \in BOOLEAN

\* The flags stay Boolean.
LEMMA FlagsInductive ==
  /\ FgInit => Flags
  /\ Flags /\ [FgNext]_fgVars => Flags'
<1>1. FgInit => Flags
  BY DEF FgInit, Flags
<1>2. Flags /\ [FgNext]_fgVars => Flags'
  <2> SUFFICES ASSUME Flags, [FgNext]_fgVars PROVE Flags'
    OBVIOUS
  <2> USE DEF Flags, caller, run, memory, questions
  <2>1. CASE PipelineStep
    <3>1. CASE LaunchAttempt
      BY <3>1 DEF LaunchAttempt
    <3>2. CASE JudgeAttempt
      BY <3>2 DEF JudgeAttempt
    <3>3. CASE EndDelay
      BY <3>3 DEF EndDelay
    <3>4. CASE SettleRun
      BY <3>4 DEF SettleRun, SettleAttached, SettleDetached, WriteHistory
    <3>5. CASE ReturnResult
      BY <3>5 DEF ReturnResult
    <3> QED
      BY <2>1, <3>1, <3>2, <3>3, <3>4, <3>5 DEF PipelineStep
  <2>2. CASE ProcessCloses
    BY <2>2 DEF ProcessCloses
  <2>3. CASE AbortCall \/ InterruptRun \/ DeadlineReached \/ TurnsRunOut
    BY <2>3 DEF AbortCall, InterruptRun, DeadlineReached, TurnsRunOut
  <2>4. CASE DetachByUser
    BY <2>4 DEF DetachByUser, HandOver
  <2>5. ASSUME NEW q \in Questions, AskSupervisor(q) PROVE Flags'
    BY <2>5 DEF AskSupervisor
  <2>6. ASSUME NEW q \in Questions, Expire(q) \/ TakeReply(q) \/ GiveUpAsking(q)
        PROVE  Flags'
    BY <2>6 DEF Expire, TakeReply, GiveUpAsking
  <2>7. ASSUME NEW q \in Questions, PollRequest(q) PROVE Flags'
    BY <2>7 DEF PollRequest, Announce, HandOver
  <2>8. ASSUME NEW q \in Questions, ReplyTo(q) PROVE Flags'
    BY <2>8 DEF ReplyTo
  <2>9. CASE RefreshPending \/ NeedsAttention \/ BeginWait \/ EndWait \/ GiveUpWait
    BY <2>9 DEF RefreshPending, NeedsAttention, BeginWait, EndWait, GiveUpWait
  <2>10. CASE LeaveSession \/ ResumeSession \/ RewriteHistory
    BY <2>10 DEF LeaveSession, ResumeSession, RewriteHistory
  <2>11. CASE UNCHANGED fgVars
    BY <2>11 DEF fgVars
  <2> QED
    BY <2>1, <2>2, <2>3, <2>4, <2>5, <2>6, <2>7, <2>8, <2>9, <2>10, <2>11
       DEF FgNext, Poll
<1> QED
  BY <1>1, <1>2

\* FgTypeInv holds in every initial state and is kept by every step.
LEMMA FgTypeInvInductive ==
  ASSUME LaunchesAssumption
  PROVE  /\ FgInit => FgTypeInv
         /\ FgTypeInv /\ [FgNext]_fgVars => FgTypeInv'
<1> USE LaunchesAssumption DEF LaunchesAssumption
<1> DEFINE Kinds ==
      /\ call \in {"open", "receipt", "result"}
      /\ handover \in {"none", "question", "user"}
      /\ pipeline \in {"next", "child", "closed", "delay", "accept", "settled"}
      /\ launches \in 0 .. MaxLaunches
      /\ ends \subseteq {"abort", "interrupt", "timeout", "turns"}
      /\ verdict \in {"none", "ok", "fail", "mutated", "paused", "timedOut", "turns"}
      /\ home \in {"same", "away", "back"}
      /\ remembered \in {"none", "detached", "done"}
      /\ completions \in Nat /\ wait \in {"no", "blocked"}
      /\ ask \in [Questions -> {"unasked", "waiting", "answered", "gaveUp", "gone"}]
      /\ requests \subseteq Questions /\ replies \subseteq Questions
      /\ expired \subseteq Questions /\ pending \subseteq Questions
      /\ seen \subseteq Questions
      /\ LaunchBound
<1>f. /\ FgTypeInv <=> Flags /\ Kinds
      /\ FgTypeInv' <=> Flags' /\ Kinds'
  BY Zenon DEF FgTypeInv, FgTypeOK, Flags, Kinds
<1> USE DEF LaunchBound
<1>1. FgInit => Kinds
  BY DEF FgInit
<1>2. Kinds /\ [FgNext]_fgVars => Kinds'
  <2> SUFFICES ASSUME Kinds, [FgNext]_fgVars PROVE Kinds'
    OBVIOUS
  <2> USE DEF caller, run, memory, questions
  <2>1. CASE LaunchAttempt
    <3>1. launches < MaxLaunches /\ launches \in Nat
      BY <2>1 DEF LaunchAttempt
    <3>2. ends' \subseteq {"abort", "interrupt", "timeout", "turns"}
      BY <2>1 DEF LaunchAttempt
    <3>3. pipeline' \in {"accept", "child"} /\ launches' \in {launches, launches + 1}
      BY <2>1 DEF LaunchAttempt
    <3>4. UNCHANGED <<caller, verdict, paused, late, home, memory, wait, questions>>
      BY <2>1 DEF LaunchAttempt
    <3> QED
      BY <3>1, <3>2, <3>3, <3>4
  <2>2. CASE ProcessCloses
    BY <2>2 DEF ProcessCloses, Verdict
  <2>3. CASE JudgeAttempt
    BY <2>3 DEF JudgeAttempt, NextAttempt
  <2>4. CASE EndDelay
    BY <2>4 DEF EndDelay
  <2>5. CASE SettleRun
    BY <2>5 DEF SettleRun, SettleAttached, SettleDetached
  <2>6. CASE ReturnResult
    BY <2>6 DEF ReturnResult
  <2>7. CASE AbortCall
    <3>1. ends' \in {ends, ends \cup {"abort"}}
      BY <2>7 DEF AbortCall, EndProcess
    <3>2. UNCHANGED <<call, handover, pipeline, launches, worked, verdict, paused, late,
                      home, memory, wait, questions>>
      BY <2>7 DEF AbortCall
    <3> QED
      BY <3>1, <3>2
  <2>8. CASE InterruptRun
    BY <2>8 DEF InterruptRun, EndProcess
  <2>9. CASE DeadlineReached
    BY <2>9 DEF DeadlineReached, EndProcess
  <2>10. CASE TurnsRunOut
    BY <2>10 DEF TurnsRunOut, EndProcess
  <2>11. CASE DetachByUser
    BY <2>11 DEF DetachByUser, MayDetach, HandOver
  <2>12. ASSUME NEW q \in Questions, AskSupervisor(q) PROVE Kinds'
    BY <2>12 DEF AskSupervisor
  <2>13. ASSUME NEW q \in Questions, Expire(q) PROVE Kinds'
    BY <2>13 DEF Expire
  <2>14. ASSUME NEW q \in Questions, TakeReply(q) PROVE Kinds'
    BY <2>14 DEF TakeReply
  <2>15. ASSUME NEW q \in Questions, GiveUpAsking(q) PROVE Kinds'
    BY <2>15 DEF GiveUpAsking
  <2>16. ASSUME NEW q \in Questions, PollRequest(q) PROVE Kinds'
    BY <2>16 DEF PollRequest, StillPending, RunInactive, Refreshed, Dropped,
                Announce, MayDetach, HandOver
  <2>17. ASSUME NEW q \in Questions, ReplyTo(q) PROVE Kinds'
    BY <2>17 DEF ReplyTo, StillPending, RunInactive, Refreshed, Dropped
  <2>18. CASE RefreshPending
    BY <2>18 DEF RefreshPending, StillPending, RunInactive, Refreshed, Dropped
  <2>19. CASE NeedsAttention
    BY <2>19 DEF NeedsAttention
  <2>20. CASE BeginWait
    BY <2>20 DEF BeginWait
  <2>21. CASE EndWait
    BY <2>21 DEF EndWait
  <2>22. CASE GiveUpWait
    BY <2>22 DEF GiveUpWait
  <2>23. CASE LeaveSession
    BY <2>23 DEF LeaveSession
  <2>24. CASE ResumeSession
    BY <2>24 DEF ResumeSession
  <2>25. CASE RewriteHistory
    BY <2>25 DEF RewriteHistory
  <2>26. CASE UNCHANGED fgVars
    BY <2>26 DEF fgVars
  <2> QED
    BY <2>1, <2>2, <2>3, <2>4, <2>5, <2>6, <2>7, <2>8, <2>9, <2>10, <2>11, <2>12, <2>13, <2>14, <2>15, <2>16, <2>17, <2>18, <2>19, <2>20, <2>21, <2>22, <2>23, <2>24, <2>25, <2>26 DEF FgNext, PipelineStep, Poll
<1> HIDE DEF Kinds
<1> QED
  BY <1>1, <1>2, <1>f, FlagsInductive

-----------------------------------------------------------------------------
(* The invariant is inductive: one step per action.                        *)

\* FgInv holds in every initial state and is kept by every step.
LEMMA FgInvInductive ==
  ASSUME LaunchesAssumption
  PROVE  /\ FgInit => FgInv
         /\ FgTypeInv /\ FgInv /\ [FgNext]_fgVars => FgInv'
<1> USE DEF FgInv, CallMatchesHandover, NoAttemptAfterQuestion, NothingToldEarly,
            SettledIsTold, QuestionsAreOfTheChild, QuestionStaysAnswerable
<1>1. FgInit => FgInv
  BY DEF FgInit
<1>2. FgTypeInv /\ FgInv /\ [FgNext]_fgVars => FgInv'
  <2> SUFFICES ASSUME FgTypeInv, FgInv, [FgNext]_fgVars PROVE FgInv'
    OBVIOUS
  <2> USE DEF caller, run, memory, questions
  <2>t. /\ ask \in [Questions -> {"unasked", "waiting", "answered", "gaveUp", "gone"}]
        /\ call \in {"open", "receipt", "result"}
        /\ completions \in Nat
        /\ requests \subseteq Questions /\ seen \subseteq Questions
    BY DEF FgTypeInv, FgTypeOK
  <2>1. CASE LaunchAttempt
    BY <2>t, <2>1 DEF LaunchAttempt
  <2>2. CASE ProcessCloses
    BY <2>t, <2>2 DEF ProcessCloses, Verdict
  <2>3. CASE JudgeAttempt
    BY <2>t, <2>3 DEF JudgeAttempt, NextAttempt
  <2>4. CASE EndDelay
    BY <2>t, <2>4 DEF EndDelay
  <2>5. CASE SettleRun
    <3>1. SettleAttached => UNCHANGED <<completions, registered>>
      BY DEF SettleAttached
    <3>2. SettleDetached => completions' \in {completions, completions + 1}
      BY DEF SettleDetached
    <3> QED
      BY <2>t, <2>5, <3>1, <3>2 DEF SettleRun, SettleAttached, SettleDetached
  <2>6. CASE ReturnResult
    BY <2>t, <2>6 DEF ReturnResult
  <2>7. CASE AbortCall
    BY <2>t, <2>7 DEF AbortCall, EndProcess
  <2>8. CASE InterruptRun
    BY <2>t, <2>8 DEF InterruptRun, EndProcess
  <2>9. CASE DeadlineReached
    BY <2>t, <2>9 DEF DeadlineReached, EndProcess
  <2>10. CASE TurnsRunOut
    BY <2>t, <2>10 DEF TurnsRunOut, EndProcess
  <2>11. CASE DetachByUser
    BY <2>t, <2>11 DEF DetachByUser, MayDetach, HandOver
  <2>12. ASSUME NEW q \in Questions, AskSupervisor(q) PROVE FgInv'
    BY <2>t, <2>12 DEF AskSupervisor
  <2>13. ASSUME NEW q \in Questions, Expire(q) PROVE FgInv'
    BY <2>t, <2>13 DEF Expire
  <2>14. ASSUME NEW q \in Questions, TakeReply(q) PROVE FgInv'
    BY <2>t, <2>14 DEF TakeReply
  <2>15. ASSUME NEW q \in Questions, GiveUpAsking(q) PROVE FgInv'
    BY <2>t, <2>15 DEF GiveUpAsking
  <2>16. ASSUME NEW q \in Questions, PollRequest(q) PROVE FgInv'
    BY <2>t, <2>16 DEF PollRequest, StillPending, RunInactive, Refreshed, Dropped,
                Announce, MayDetach, HandOver
  <2>17. ASSUME NEW q \in Questions, ReplyTo(q) PROVE FgInv'
    BY <2>t, <2>17 DEF ReplyTo, StillPending, RunInactive, Refreshed, Dropped
  <2>18. CASE RefreshPending
    BY <2>t, <2>18 DEF RefreshPending, StillPending, RunInactive, Refreshed, Dropped
  <2>19. CASE NeedsAttention
    BY <2>t, <2>19 DEF NeedsAttention
  <2>20. CASE BeginWait
    BY <2>t, <2>20 DEF BeginWait
  <2>21. CASE EndWait
    BY <2>t, <2>21 DEF EndWait
  <2>22. CASE GiveUpWait
    BY <2>t, <2>22 DEF GiveUpWait
  <2>23. CASE LeaveSession
    BY <2>t, <2>23 DEF LeaveSession
  <2>24. CASE ResumeSession
    BY <2>t, <2>24 DEF ResumeSession
  <2>25. CASE RewriteHistory
    BY <2>t, <2>25 DEF RewriteHistory
  <2>26. CASE UNCHANGED fgVars
    BY <2>t, <2>26 DEF fgVars
  <2> QED
    BY <2>1, <2>2, <2>3, <2>4, <2>5, <2>6, <2>7, <2>8, <2>9, <2>10, <2>11, <2>12, <2>13, <2>14, <2>15, <2>16, <2>17, <2>18, <2>19, <2>20, <2>21, <2>22, <2>23, <2>24, <2>25, <2>26 DEF FgNext, PipelineStep, Poll
<1> QED
  BY <1>1, <1>2

\* Every behaviour satisfies FgTypeInv and FgInv in every state.
LEMMA FgInvariant == LaunchesAssumption => (FgSpec => [](FgTypeInv /\ FgInv))
<1> SUFFICES ASSUME LaunchesAssumption PROVE FgSpec => [](FgTypeInv /\ FgInv)
  OBVIOUS
<1> QED
  BY FgTypeInvInductive, FgInvInductive, PTL DEF FgSpec

\* Type correctness: every variable of a foreground run keeps a value of its
\* kind, however many questions are asked and processes may be launched.
THEOREM FgTypeCorrect == LaunchesAssumption => (FgSpec => []FgTypeOK)
<1> SUFFICES ASSUME LaunchesAssumption PROVE FgSpec => []FgTypeOK
  OBVIOUS
<1>1. FgTypeInv => FgTypeOK
  BY DEF FgTypeInv
<1> QED
  BY FgInvariant, <1>1, PTL

\* The end of the run is told exactly once: by the result of the call or, once
\* the call has its receipt, by one completion event (SettleRun), unless the
\* session was left before, whatever the order of handover, end, leaving and
\* resuming; and no session holds a run for finished that goes on, although the
\* history file may lose or regain it at any time.
THEOREM EndToldOnce == LaunchesAssumption => (FgSpec => []ToldExactlyOnce)
<1> SUFFICES ASSUME LaunchesAssumption PROVE FgSpec => []ToldExactlyOnce
  OBVIOUS
<1>1. FgInv => ToldExactlyOnce
  BY DEF FgInv, CallMatchesHandover, NothingToldEarly, SettledIsTold, ToldExactlyOnce
<1> QED
  BY FgInvariant, <1>1, PTL

\* What the session was shown and the child still waits for can be answered:
\* no reply to another question, poll, handover, or leaving and resuming of
\* the session loses it.
THEOREM ShownStaysAnswerable == LaunchesAssumption => (FgSpec => []QuestionStaysAnswerable)
<1> SUFFICES ASSUME LaunchesAssumption PROVE FgSpec => []QuestionStaysAnswerable
  OBVIOUS
<1>1. FgInv => QuestionStaysAnswerable
  BY DEF FgInv
<1> QED
  BY FgInvariant, <1>1, PTL

\* No step of a state that satisfies FgInv takes a handover back.
LEMMA StepAfterHandover ==
  FgInv /\ [FgNext]_fgVars =>
    [handover # "none" =>
       /\ handover' = handover /\ signal' = signal
       /\ handover = "question" => launches' = launches]_fgVars
<1> DEFINE Final ==
      handover # "none" =>
        /\ handover' = handover /\ signal' = signal
        /\ handover = "question" => launches' = launches
<1>1. FgInv /\ [FgNext]_fgVars => [Final]_fgVars
  <2> SUFFICES ASSUME FgInv, FgNext, handover # "none" PROVE Final
    OBVIOUS
  <2> USE DEF caller, run, memory, questions
  <2>1. CASE LaunchAttempt
    BY <2>1 DEF LaunchAttempt, FgInv, NoAttemptAfterQuestion
  <2>2. CASE ProcessCloses \/ JudgeAttempt \/ EndDelay \/ SettleRun \/ ReturnResult
    BY <2>2 DEF ProcessCloses, JudgeAttempt, EndDelay, SettleRun, ReturnResult
  <2>3. CASE AbortCall \/ InterruptRun \/ DeadlineReached \/ TurnsRunOut \/ DetachByUser
    BY <2>3 DEF AbortCall, InterruptRun, DeadlineReached, TurnsRunOut, DetachByUser, MayDetach
  <2>4. ASSUME NEW q \in Questions, PollRequest(q) PROVE Final
    BY <2>4 DEF PollRequest, Announce, MayDetach
  <2>5. ASSUME NEW q \in Questions,
               AskSupervisor(q) \/ Expire(q) \/ TakeReply(q) \/ GiveUpAsking(q) \/ ReplyTo(q)
        PROVE  Final
    BY <2>5 DEF AskSupervisor, Expire, TakeReply, GiveUpAsking, ReplyTo
  <2>6. CASE \/ RefreshPending \/ NeedsAttention \/ BeginWait \/ EndWait \/ GiveUpWait
             \/ LeaveSession \/ ResumeSession \/ RewriteHistory
    BY <2>6 DEF RefreshPending, NeedsAttention, BeginWait, EndWait, GiveUpWait,
                LeaveSession, ResumeSession, RewriteHistory
  <2> QED
    BY <2>1, <2>2, <2>3, <2>4, <2>5, <2>6 DEF FgNext, PipelineStep, Poll
<1> QED
  BY <1>1

\* After a handover nothing takes it back: no second reason, no abort passed
\* on to the run, and, after a question, no other process (NextAttempt).
THEOREM HandoverStands == LaunchesAssumption => (FgSpec => HandoverIsFinal)
  BY FgInvariant, StepAfterHandover, PTL DEF FgSpec, HandoverIsFinal
=============================================================================
