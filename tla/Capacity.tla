------------------------------ MODULE Capacity ------------------------------
(***************************************************************************)
(* What the cap on active runs promises, whatever the processes that share *)
(* a session do: a slot is charged to one run at a time; a run that was    *)
(* reported as started keeps its slot while it runs; a slot marked started *)
(* is given up only for a run that is over, or to one that resumes it.     *)
(***************************************************************************)
CONSTANTS Slots, Runs, None

VARIABLES
  charge,     \* charge[s]: the run slot s is charged to, or None
  started,    \* slots whose run is recorded as started
  accepted,   \* runs whose launch was reported as started
  running,    \* runs whose status says running
  over        \* runs with a final status and a process-terminal proof

vars == <<charge, started, accepted, running, over>>

Init ==
  /\ charge = [s \in Slots |-> None]
  /\ started = {} /\ accepted = {} /\ running = {} /\ over = {}

Unlaunched(r) == r \notin running \cup accepted

\* A run is charged before it is started, to a free slot ...
Charge(s, r) ==
  /\ charge[s] = None /\ Unlaunched(r)
  /\ charge' = [charge EXCEPT ![s] = r]
  /\ UNCHANGED <<started, accepted, running, over>>

\* ... or to the slot of the run that it resumes, which runs no more.
HandOver(s, r) ==
  /\ charge[s] \in Runs \ running /\ Unlaunched(r)
  /\ charge' = [charge EXCEPT ![s] = r]
  /\ started' = started \ {s}
  /\ UNCHANGED <<accepted, running, over>>

\* A launch that was not reported gives its slot up, or to a run that runs no
\* more: the one it was to resume.
TakeBack(s) ==
  /\ charge[s] \in Runs \ accepted /\ s \notin started
  /\ \/ charge' = [charge EXCEPT ![s] = None] /\ UNCHANGED started
     \/ /\ \E before \in Runs \ running : charge' = [charge EXCEPT ![s] = before]
        /\ started' \in {started, started \cup {s}}
  /\ UNCHANGED <<accepted, running, over>>

\* A launch that succeeded is recorded, and reported.
Confirm(s) ==
  /\ charge[s] \in Runs
  /\ started' \in {started, started \cup {s}}
  /\ accepted' \in {accepted, accepted \cup {charge[s]}}
  /\ UNCHANGED <<charge, running, over>>

Release(s) ==
  /\ charge[s] \in over
  /\ charge' = [charge EXCEPT ![s] = None]
  /\ started' = started \ {s}
  /\ UNCHANGED <<accepted, running, over>>

\* A run starts once, and is over for good.
StartRun(r) ==
  /\ Unlaunched(r) /\ r \notin over
  /\ running' = running \cup {r}
  /\ UNCHANGED <<charge, started, accepted, over>>

EndRun(r) ==
  /\ running' = running \ {r}
  /\ over' \in {over, over \cup {r}}
  /\ UNCHANGED <<charge, started, accepted>>

Next ==
  \/ \E s \in Slots : TakeBack(s) \/ Confirm(s) \/ Release(s)
  \/ \E s \in Slots, r \in Runs : Charge(s, r) \/ HandOver(s, r)
  \/ \E r \in Runs : StartRun(r) \/ EndRun(r)

Spec == Init /\ [][Next]_vars
=============================================================================
