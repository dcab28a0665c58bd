------------------------------ MODULE Delivery ------------------------------
(***************************************************************************)
(* What the delivery of results promises the session of background runs:   *)
(* an end is shown only when its result is there or was told; a run is     *)
(* told of from a result, and not again as long as the session's runtime   *)
(* remembers it; and a result goes away only after the run was told of.    *)
(***************************************************************************)
CONSTANT Runs           \* the background runs of the session

VARIABLES
  over,         \* the runs whose status shows that they are over
  filed,        \* the runs with a result on disk
  told,         \* the runs the session was told of
  remembered    \* those the present runtime remembers to have told

delivery == <<over, filed, told, remembered>>

Init ==
  /\ over \in SUBSET Runs /\ filed = over
  /\ told = {} /\ remembered = {}

FileResult(r) ==
  /\ filed' = filed \cup {r}
  /\ UNCHANGED <<over, told, remembered>>

ShowEnd(r) ==
  /\ r \in filed \cup told
  /\ over' = over \cup {r}
  /\ UNCHANGED <<filed, told, remembered>>

\* One message about the runs of a group.
Tell(group) ==
  /\ group \subseteq filed \ remembered
  /\ told' = told \cup group /\ remembered' = remembered \cup group
  /\ UNCHANGED <<over, filed>>

RemoveResult(r) ==
  /\ r \in told
  /\ filed' = filed \ {r}
  /\ UNCHANGED <<over, told, remembered>>

\* Some of it expires, or all of it is lost with the runtime.
Forget(group) ==
  /\ remembered' = remembered \ group
  /\ UNCHANGED <<over, filed, told>>

Next ==
  \/ \E r \in Runs : FileResult(r) \/ ShowEnd(r) \/ RemoveResult(r)
  \/ \E group \in SUBSET Runs : Tell(group) \/ Forget(group)

Spec == Init /\ [][Next]_delivery
=============================================================================
