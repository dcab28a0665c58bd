------------------------------- MODULE MCRuns -------------------------------
(***************************************************************************)
(* Instances of RunControl and ForegroundRun for TLC: a session that has   *)
(* one run, either in the background or in the foreground.  They share no  *)
(* state, so the run that is not there is at rest: a background run that   *)
(* is over, a foreground run that is over and whose session was left.      *)
(***************************************************************************)
EXTENDS RunControl, ForegroundRun, TLC

Parallel == [kind |-> "many", size |-> 2]
Dynamic == [kind |-> "fan", size |-> 1]

Chains == {<<Parallel>>, <<Dynamic, One>>}
\* The step behind the group, in the chain or appended, cannot be steered.
OldStep == {<<2, 1>>}

BackgroundOver ==
  /\ phase = "exited" /\ plan = <<One>> /\ cursor = 1 /\ start = 1
  /\ task = <<[pc |-> "done", try |-> 1, res |-> "ok"]>>
  /\ outcomes = {"ok"} /\ spent = FALSE
  /\ steps = <<[id |-> <<1, 1>>, st |-> "complete"]>>
  /\ state = "complete" /\ err = FALSE /\ flags = {}
  /\ known = {} /\ ledger = [s \in Steers |-> <<>>] /\ held = {} /\ deaf = {}
  /\ disk = [state |-> "complete", steps |-> steps, pendingAppends |-> FALSE]
  /\ control = {} /\ steerFiles = {} /\ appendFiles = {}
  /\ inbox = {} /\ capFiles = {} /\ acks = {}
  /\ closed = TRUE /\ result = "complete"
  /\ proc = {} /\ told = {} /\ queue = {} /\ heard = {}
  /\ asked = {} /\ trouble = 0
  /\ steer = [s \in Steers |-> [pc |-> "idle", sel |-> {}, indexed |-> FALSE, want |-> {}]]
  /\ append = [c \in Appends |-> [pc |-> "idle", read |-> <<>>]]

ForegroundOver ==
  /\ call = "result" /\ handover = "none" /\ aborted = FALSE /\ signal = FALSE
  /\ pipeline = "settled" /\ launches = 1 /\ ends = {} /\ worked = FALSE
  /\ verdict = "none" /\ paused = FALSE /\ late = FALSE
  /\ home = "back" /\ registered = FALSE /\ remembered = "none"
  /\ attention = FALSE /\ history = FALSE /\ completions = 0 /\ wait = "no"
  /\ ask = [q \in Questions |-> "unasked"]
  /\ requests = {} /\ replies = {} /\ expired = {} /\ pending = {} /\ seen = {}

RunsInit == (Init /\ ForegroundOver) \/ (FgInit /\ BackgroundOver)
RunsNext == (Next /\ UNCHANGED fgVars) \/ (FgNext /\ UNCHANGED vars)
RunsSpec == RunsInit /\ [][RunsNext]_<<vars, fgVars>> /\ Fairness /\ FgFairness

\* What is left out to keep the state space small.  A step is appended to the
\* chain that has none behind its group.  Questions are numbers here, and differ
\* in nothing else: it is enough to have them asked in order; the one asked first
\* may expire.  No step that is assumed to be fair is affected.
Smaller ==
  /\ append' # append => plan # <<Dynamic, One>>
  /\ \A q \in Questions : ask'[q] # "unasked" =>
       \A p \in Questions : p < q => ask'[p] # "unasked"
  /\ expired' \subseteq {1}

\* Every variable of both modules holds a value of its kind.
RunsTypeOK == TypeOK /\ FgTypeOK
=============================================================================
