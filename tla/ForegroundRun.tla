---------------------------- MODULE ForegroundRun ----------------------------
(***************************************************************************)
(* One foreground run: a subagent call that keeps its parent waiting       *)
(* (src/runs/foreground/execution.ts, subagent-executor.ts) until the run  *)
(* ends or is handed over to go on by itself, because the user asks for it *)
(* or because the child asks its supervisor, the parent, a question        *)
(* (src/intercom/native-supervisor-channel.ts) that a parent blocked in    *)
(* the call could never answer.  After a handover the parent may wait for  *)
(* the run (subagent-wait.ts) and its session may be left and resumed.     *)
(*                                                                         *)
(* The parent's runtime is single-threaded: an action of it is one stretch *)
(* of its code between two awaits.  Publishing a receipt, remembering the  *)
(* run and returning from the call happen without a turn of the event loop *)
(* in between and are one action.  The child meets the parent in its       *)
(* process and in the request and reply files.                             *)
(***************************************************************************)
EXTENDS Naturals

CONSTANTS
  Questions,    \* what the children of the run may ask
  MaxLaunches   \* processes the run may start: startup retries and fallbacks

ASSUME LaunchesAssumption == MaxLaunches \in Nat \ {0}

VARIABLES
  call,         \* the parent's tool call: "open", then "receipt" or "result"
  handover,     \* detachedReason: "none", "question", "user"
  aborted,      \* the parent aborted its turn (options.signal)
  signal        \* the abort was passed on to the run (originController)
caller == <<call, handover, aborted, signal>>

VARIABLES
  pipeline,     \* "next", "child", "closed", "delay", "accept", "settled"
  launches,     \* processes started
  ends,         \* why the present process is being ended
  worked,       \* the present process has shown activity
  verdict,      \* how it ended, until that is judged
  paused,       \* the run was interrupted (interruptSignal)
  late          \* the deadline has passed
run == <<pipeline, launches, ends, worked, verdict, paused, late>>

VARIABLES
  home,         \* the session's runtime: "same", "away", "back" (a new one)
  registered,   \* foregroundControls has the run
  remembered,   \* foregroundRuns: "none", "detached", "done"
  attention,    \* the remembered child needs attention
  history,      \* the history file has the run
  completions,  \* completion events for the session
  wait          \* subagent_wait: "no", "blocked"
memory == <<registered, remembered, attention, history, completions>>

VARIABLES
  ask,          \* per question: "unasked", "waiting", "answered", "gaveUp", "gone"
  requests,     \* request files
  replies,      \* reply files
  expired,      \* questions past their deadline
  pending,      \* requests the parent may reply to
  seen          \* requests the runtime has taken note of (seenFiles)
questions == <<ask, requests, replies, expired, pending, seen>>

fgVars == <<caller, run, home, memory, wait, questions>>

-----------------------------------------------------------------------------
FgInit ==
  /\ call = "open" /\ handover = "none"
  /\ aborted \in BOOLEAN /\ signal = aborted
  /\ pipeline = "next" /\ launches = 0 /\ ends = {} /\ worked = FALSE
  /\ verdict = "none" /\ paused = FALSE /\ late = FALSE
  /\ home = "same" /\ registered = TRUE /\ remembered = "none"
  /\ attention = FALSE /\ history = FALSE /\ completions = 0 /\ wait = "no"
  /\ ask = [q \in Questions |-> "unasked"]
  /\ requests = {} /\ replies = {} /\ expired = {} /\ pending = {} /\ seen = {}

\* A reason to end the present process, if there is one and no reason in
\* "unless" came first.
EndProcess(reason, unless) ==
  ends' = IF pipeline = "child" /\ ends \cap unless = {} THEN ends \cup {reason}
          ELSE ends

-----------------------------------------------------------------------------
(* The pipeline of attempts.                                               *)

\* Nothing is launched after the deadline.  A new process is told at once of
\* an abort or an interrupt that came before it.
LaunchAttempt ==
  /\ pipeline = "next"
  /\ IF late
     THEN pipeline' = "accept" /\ UNCHANGED <<launches, ends, worked>>
     ELSE /\ pipeline' = "child" /\ launches' = launches + 1 /\ worked' = FALSE
          /\ ends' = (IF signal THEN {"abort"} ELSE {})
                       \cup (IF paused THEN {"interrupt"} ELSE {})
  /\ UNCHANGED <<caller, verdict, paused, late, home, memory, wait, questions>>

\* What a process that ends leaves behind.  Whoever waited for an answer in it
\* is gone; the request file stays.
Verdict ==
  IF "interrupt" \in ends THEN {"paused"}
  ELSE IF "timeout" \in ends THEN {"timedOut"}
  ELSE IF "turns" \in ends THEN {"turns"}
  ELSE {"ok", "fail", "mutated"}

ProcessCloses ==
  /\ pipeline = "child" /\ pipeline' = "closed"
  /\ verdict' \in Verdict /\ ends' = {}
  /\ ask' = [q \in Questions |-> IF ask[q] = "waiting" THEN "gone" ELSE ask[q]]
  /\ UNCHANGED <<caller, launches, worked, paused, late, home, memory, wait, requests,
                 replies, expired, pending, seen>>

\* Mutant of NextAttempt: the handover does not end the attempts.
NextAttemptAnyway ==
  /\ verdict = "fail" /\ launches < MaxLaunches
  /\ pipeline' \in {"next"} \cup (IF worked THEN {} ELSE {"delay"})

\* Only a failed attempt is followed by another, never once the run was handed
\* over for a question: the next model at once, or the same one after a delay
\* if the process had not got to work.
NextAttempt ==
  /\ verdict = "fail" /\ handover # "question" /\ launches < MaxLaunches
  /\ pipeline' \in {"next"} \cup (IF worked THEN {} ELSE {"delay"})

JudgeAttempt ==
  /\ pipeline = "closed" /\ verdict' = "none" /\ worked' = FALSE
  /\ NextAttempt \/ pipeline' = "accept"
  /\ UNCHANGED <<caller, launches, ends, paused, late, home, memory, wait,
                 questions>>

\* An abort or an interrupt cuts the delay short and ends the attempts.
EndDelay ==
  /\ pipeline = "delay"
  /\ pipeline' = IF signal \/ paused THEN "accept" ELSE "next"
  /\ UNCHANGED <<caller, launches, ends, worked, verdict, paused, late, home, memory,
                 wait, questions>>

\* The history file is written as well as it goes: an error is only logged.
WriteHistory == history' \in {history, TRUE}

\* Mutant of SettleAttached: the terminal callback does not ask whether the
\* run was handed over.
SettleAlways ==
  /\ handover = "none" /\ remembered' = "done" /\ WriteHistory
  /\ completions' = completions + 1 /\ UNCHANGED <<registered, attention>>

\* Acceptance was evaluated, or failed with an exception.  The result of a run
\* that was not handed over goes to the call; that of one that was goes to the
\* history file and, in the runtime that started it, to the session.
SettleAttached ==
  /\ handover = "none"
  /\ \/ remembered' = "done" /\ WriteHistory
     \/ UNCHANGED <<remembered, history>>
  /\ UNCHANGED <<registered, attention, completions>>

SettleDetached ==
  /\ handover # "none" /\ WriteHistory /\ UNCHANGED attention
  /\ IF home = "same"
     THEN remembered' = "done" /\ completions' = completions + 1 /\ registered' = FALSE
     ELSE UNCHANGED <<remembered, completions, registered>>

SettleRun ==
  /\ pipeline = "accept" /\ pipeline' = "settled"
  /\ SettleAttached \/ SettleDetached
  /\ UNCHANGED <<caller, launches, ends, worked, verdict, paused, late, home, wait,
                 questions>>

\* The executor's finally removes the control: the child is finished.
ReturnResult ==
  /\ call = "open" /\ pipeline = "settled"
  /\ call' = "result" /\ registered' = FALSE
  /\ UNCHANGED <<handover, aborted, signal, run, home, remembered, attention, history,
                 completions, wait, questions>>

-----------------------------------------------------------------------------
(* What reaches into the run.                                              *)

\* An abort of the parent's turn is passed on until the run is handed over.
AbortCall ==
  /\ ~aborted /\ aborted' = TRUE /\ pipeline # "settled"
  /\ IF handover = "none" THEN signal' = TRUE /\ EndProcess("abort", {})
                          ELSE UNCHANGED <<signal, ends>>
  /\ UNCHANGED <<call, handover, pipeline, launches, worked, verdict, paused, late,
                 home, memory, wait, questions>>

InterruptRun ==
  /\ registered /\ pipeline # "settled" /\ ~paused
  /\ paused' = TRUE /\ EndProcess("interrupt", {"timeout"})
  /\ UNCHANGED <<caller, pipeline, launches, worked, verdict, late, home, memory, wait,
                 questions>>

DeadlineReached ==
  /\ ~late /\ pipeline # "settled"
  /\ late' = TRUE /\ EndProcess("timeout", {"interrupt"})
  /\ UNCHANGED <<caller, pipeline, launches, worked, verdict, paused, home, memory,
                 wait, questions>>

TurnsRunOut ==
  /\ pipeline = "child" /\ ends \cap {"timeout", "turns", "interrupt"} = {}
  /\ EndProcess("turns", {})
  /\ UNCHANGED <<caller, pipeline, launches, worked, verdict, paused, late, home,
                 memory, wait, questions>>

\* A run can be handed over while a process runs, once, and not after an abort.
MayDetach == pipeline = "child" /\ handover = "none" /\ ~signal

\* The receipt is published, the run remembered as detached, with the activity
\* its progress shows, and the call returns; the control stays for the child.
HandOver(reason) ==
  /\ handover' = reason /\ call' = "receipt"
  /\ remembered' = "detached" /\ attention' \in BOOLEAN

DetachByUser ==
  /\ registered /\ MayDetach /\ HandOver("user")
  /\ UNCHANGED <<aborted, signal, run, home, registered, history, completions, wait,
                 questions>>

-----------------------------------------------------------------------------
(* The child asks, the parent answers.                                     *)

AskSupervisor(q) ==
  /\ pipeline = "child" /\ ask[q] = "unasked"
  /\ \A p \in Questions : ask[p] # "waiting"
  /\ ask' = [ask EXCEPT ![q] = "waiting"]
  /\ requests' = requests \cup {q} /\ worked' = TRUE
  /\ UNCHANGED <<caller, pipeline, launches, ends, verdict, paused, late, home, memory,
                 wait, replies, expired, pending, seen>>

Expire(q) ==
  /\ ask[q] # "unasked" /\ q \notin expired
  /\ q \in requests \/ ask[q] = "waiting"
  /\ expired' = expired \cup {q}
  /\ UNCHANGED <<caller, run, home, memory, wait, ask, requests, replies, pending, seen>>

\* The child looks for the reply until the deadline; one that is filed after
\* its last look is lost.
TakeReply(q) ==
  /\ ask[q] = "waiting" /\ q \in replies /\ q \notin expired
  /\ ask' = [ask EXCEPT ![q] = "answered"]
  /\ UNCHANGED <<caller, run, home, memory, wait, requests, replies, expired, pending,
                 seen>>

GiveUpAsking(q) ==
  /\ ask[q] = "waiting" /\ q \in expired
  /\ ask' = [ask EXCEPT ![q] = "gaveUp"] /\ requests' = requests \ {q}
  /\ UNCHANGED <<caller, run, home, memory, wait, replies, expired, pending, seen>>

\* A request is dropped when its file is gone, it was answered or has expired,
\* or its run is known to be over.
RunInactive == ~registered /\ remembered = "done"
StillPending(q) == q \in requests /\ q \notin replies \cup expired /\ ~RunInactive
Refreshed == {q \in pending : StillPending(q)}
Dropped == pending \ Refreshed

RefreshPending ==
  /\ home # "away" /\ Dropped # {}
  /\ pending' = Refreshed /\ requests' = requests \ Dropped
  /\ UNCHANGED <<caller, run, home, memory, wait, ask, replies, expired, seen>>

\* Mutant of Announce: only the first process of the run can be handed over.
AnnounceFirst ==
  \/ /\ remembered = "detached" /\ attention' = TRUE
     /\ UNCHANGED <<call, handover, remembered>>
  \/ MayDetach /\ launches = 1 /\ HandOver("question")
  \/ /\ remembered # "detached" /\ ~(MayDetach /\ launches = 1)
     /\ UNCHANGED <<call, handover, remembered, attention>>

\* A run remembered as detached is marked as needing attention; one whose call
\* is still open is handed over.
Announce ==
  \/ /\ remembered = "detached" /\ attention' = TRUE
     /\ UNCHANGED <<call, handover, remembered>>
  \/ MayDetach /\ HandOver("question")
  \/ /\ remembered # "detached" /\ ~MayDetach
     /\ UNCHANGED <<call, handover, remembered, attention>>

PollRequest(q) ==
  /\ home # "away" /\ q \in requests \ seen
  /\ seen' = seen \cup {q}
  /\ IF StillPending(q)
     THEN pending' = Refreshed \cup {q} /\ requests' = requests \ Dropped /\ Announce
     ELSE /\ pending' = Refreshed /\ requests' = requests \ (Dropped \cup {q})
          /\ UNCHANGED <<call, handover, remembered, attention>>
  /\ UNCHANGED <<aborted, signal, run, home, registered, history, completions, wait, ask,
                 replies, expired>>

\* The parent replies, when neither the call nor a wait blocks it.  The last
\* reply takes the attention back, unless another tool is the reason for it.
ReplyTo(q) ==
  /\ call # "open" /\ wait = "no" /\ home # "away" /\ q \in Refreshed
  /\ replies' = replies \cup {q}
  /\ pending' = Refreshed \ {q} /\ requests' = requests \ (Dropped \cup {q})
  /\ \/ attention' = (attention /\ (remembered # "detached" \/ pending' # {}))
     \/ UNCHANGED attention
  /\ UNCHANGED <<caller, run, home, registered, remembered, history, completions, wait,
                 ask, expired, seen>>

-----------------------------------------------------------------------------
(* The parent waits, and its session is left and resumed.                  *)

\* A control event of an idle or stuck child.
NeedsAttention ==
  /\ pipeline = "child" /\ remembered = "detached"
  /\ ~attention /\ attention' = TRUE
  /\ UNCHANGED <<caller, run, home, registered, remembered, history, completions, wait,
                 questions>>

BeginWait ==
  /\ call = "receipt" /\ remembered = "detached" /\ wait = "no" /\ wait' = "blocked"
  /\ UNCHANGED <<caller, run, home, memory, questions>>

EndWait ==
  /\ wait = "blocked" /\ wait' = "no"
  /\ attention \/ remembered # "detached"
  /\ UNCHANGED <<caller, run, home, memory, questions>>

\* The wait is aborted or times out.
GiveUpWait ==
  /\ wait = "blocked" /\ wait' = "no"
  /\ UNCHANGED <<caller, run, home, memory, questions>>

\* Mutant of LeaveSession: the files taken note of are not forgotten.
LeaveKeepingSeen ==
  /\ home = "same" /\ call # "open" /\ wait = "no"
  /\ home' = "away" /\ registered' = FALSE /\ remembered' = "none"
  /\ attention' = FALSE /\ pending' = {}
  /\ UNCHANGED <<caller, run, history, completions, wait, ask, requests, replies,
                 expired, seen>>

\* A runtime that ends leaves a child that was handed over to itself: its
\* closures write to a state no session reads.
LeaveSession ==
  /\ home = "same" /\ call # "open" /\ wait = "no"
  /\ home' = "away" /\ registered' = FALSE /\ remembered' = "none"
  /\ attention' = FALSE /\ pending' = {} /\ seen' = {}
  /\ UNCHANGED <<caller, run, history, completions, wait, ask, requests, replies,
                 expired>>

\* The new runtime knows of the run what the history file says.
ResumeSession ==
  /\ home = "away" /\ home' = "back"
  /\ remembered' = IF history THEN "done" ELSE "none"
  /\ UNCHANGED <<caller, run, registered, attention, history, completions, wait,
                 questions>>

\* The file is shared by all sessions and rewritten as a whole without a lock:
\* a process that read it earlier drops the run from it, and the runtime that
\* remembers the run puts it back when it writes the file for another one.
RewriteHistory ==
  /\ pipeline = "settled"
  /\ history \/ remembered = "done" \/ handover # "none"
  /\ history' = ~history
  /\ UNCHANGED <<caller, run, home, registered, remembered, attention, completions, wait,
                 questions>>

-----------------------------------------------------------------------------
PipelineStep ==
  LaunchAttempt \/ JudgeAttempt \/ EndDelay \/ SettleRun \/ ReturnResult
Poll == RefreshPending \/ \E q \in Questions : PollRequest(q)

FgNext ==
  \/ PipelineStep \/ Poll \/ ProcessCloses
  \/ AbortCall \/ InterruptRun \/ DeadlineReached \/ TurnsRunOut \/ DetachByUser
  \/ \E q \in Questions :
       AskSupervisor(q) \/ Expire(q) \/ TakeReply(q) \/ GiveUpAsking(q) \/ ReplyTo(q)
  \/ NeedsAttention \/ BeginWait \/ EndWait \/ GiveUpWait
  \/ LeaveSession \/ ResumeSession \/ RewriteHistory

FgSpec == FgInit /\ [][FgNext]_fgVars

\* The event loop goes on, the request directory is polled and a wait looks at
\* the remembered run again and again.  Nothing is assumed of the child, of
\* the user or of the clock.
FgFairness == WF_fgVars(PipelineStep) /\ WF_fgVars(Poll) /\ WF_fgVars(EndWait)
FgLiveSpec == FgSpec /\ FgFairness

-----------------------------------------------------------------------------
(* Properties.                                                             *)

\* Every variable holds a value of its kind.
FgTypeOK ==
  /\ call \in {"open", "receipt", "result"}
  /\ handover \in {"none", "question", "user"}
  /\ aborted \in BOOLEAN /\ signal \in BOOLEAN
  /\ pipeline \in {"next", "child", "closed", "delay", "accept", "settled"}
  /\ launches \in 0 .. MaxLaunches
  /\ ends \subseteq {"abort", "interrupt", "timeout", "turns"}
  /\ worked \in BOOLEAN /\ paused \in BOOLEAN /\ late \in BOOLEAN
  /\ verdict \in {"none", "ok", "fail", "mutated", "paused", "timedOut", "turns"}
  /\ home \in {"same", "away", "back"}
  /\ registered \in BOOLEAN /\ attention \in BOOLEAN /\ history \in BOOLEAN
  /\ remembered \in {"none", "detached", "done"}
  /\ completions \in Nat /\ wait \in {"no", "blocked"}
  /\ ask \in [Questions -> {"unasked", "waiting", "answered", "gaveUp", "gone"}]
  /\ requests \subseteq Questions /\ replies \subseteq Questions
  /\ expired \subseteq Questions /\ pending \subseteq Questions
  /\ seen \subseteq Questions

\* The parent is told of the end of the run exactly once: by the result of its
\* call, or, when the call returned a receipt, by one completion event, unless
\* the session was left before the run ended.  The completion, the receipt, the
\* callback and the session's end meet in any order.  No session, that which
\* resumes it and reads the history file included, holds a run for finished
\* that goes on.
ToldExactlyOnce ==
  /\ call = "result" => completions = 0
  /\ completions <= 1
  /\ call = "receipt" /\ pipeline = "settled" => completions = 1 \/ home # "same"
  /\ history \/ remembered = "done" => pipeline = "settled"

\* A handover is final: the abort of a turn that has its receipt no longer
\* reaches the run, no second reason replaces the first, and a run handed over
\* for a question starts no other process.
HandoverIsFinal ==
  [][handover # "none" =>
       /\ handover' = handover /\ signal' = signal
       /\ handover = "question" => launches' = launches]_fgVars

\* A question a child still waits on, once the parent's session was shown it,
\* can be answered: it is pending and its file is there, also after a reply to
\* another question, a handover, or in the runtime that resumes the session.
QuestionStaysAnswerable ==
  \A q \in seen \ (expired \cup replies) :
    ask[q] = "waiting" => q \in pending /\ q \in requests

Blocked == call = "open" \/ wait = "blocked"
Asking(q) == ask[q] = "waiting" /\ q \notin expired

\* A new question does not find its supervisor blocked for good, be it in the
\* call that waits for the very child that asks, in any of its attempts, or in
\* a wait after a handover.  A wait begun after the question was shown, before
\* it was answered, is excepted: it lasts until the question expires.
QuestionFreesParent ==
  (Blocked /\ \E q \in Questions \ seen : Asking(q))
    ~> (~Blocked \/ signal \/ \A q \in Questions : ~Asking(q))
=============================================================================
