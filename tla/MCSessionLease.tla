--------------------------- MODULE MCSessionLease ---------------------------
(***************************************************************************)
(* Instances of SessionLease for TLC.                                      *)
(***************************************************************************)
EXTENDS SessionLease, TLC

OneHost == [r \in Runners |-> "here"]

Symmetric == Permutations(Runners)

Anywhere         == Control \ {"dead", "gone"}
OnlyAfterRelease == {"done"}

\* MCSessionLease takes every step but the one that breaks the lease.
RightRename(r) == MoveToTombstone(r) /\ ~RenameAfterRelease

NextButRename ==
  \E r \in Runners :
    OtherStep(r) \/ RightRename(r) \/ WriterExit(r) \/ Die(r)

SpecButRename == Init /\ [][NextButRename]_vars
=============================================================================
