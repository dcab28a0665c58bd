---------------------------- MODULE SessionLock ----------------------------
(***************************************************************************)
(* What the lease on a session file promises: a runner acquires it only    *)
(* while no runner believes it holds it, and stops holding it only by its  *)
(* own doing, a release or its death.  Nobody takes it from a live holder, *)
(* for then the next one would acquire beside it.                          *)
(***************************************************************************)
CONSTANT Runners        \* the runner processes that try to revive the session

VARIABLE holders        \* the runners that hold the session

Init == holders = {}

Acquire(r) ==
  /\ holders = {}
  /\ holders' = {r}

GiveUp(r) ==
  /\ holders = {r}
  /\ holders' = {}

Next == \E r \in Runners : Acquire(r) \/ GiveUp(r)

Spec == Init /\ [][Next]_holders
=============================================================================
