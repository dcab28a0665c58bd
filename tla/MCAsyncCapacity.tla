-------------------------- MODULE MCAsyncCapacity --------------------------
(***************************************************************************)
(* Instances of AsyncCapacity for TLC.                                     *)
(***************************************************************************)
EXTENDS AsyncCapacity, TLC

Symmetric == Permutations(Parents) \cup Permutations(Runs)

\* Two parents: whatever the first launch came to, its parent is done with it
\* or crashed when the second begins.  The second may race with the third and
\* with any number of refreshes, and so may the first with refreshes.
PairsOfOperations ==
  Cardinality(used) = 1 /\ used' # used =>
    \A p \in Parents : pc[p] \in {"idle", "crashed"}

\* One parent, checked for liveness, hence without symmetry: run ids are
\* numbers here, but random names in the code, so nothing is lost when they are
\* given out in order.  No step that is assumed to be fair gives one out.
InOrder == \A r \in used' : \A q \in Runs : q < r => q \in used'
=============================================================================
