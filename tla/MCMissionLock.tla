--------------------------- MODULE MCMissionLock ---------------------------
(***************************************************************************)
(* Instances of MissionLock for TLC.                                       *)
(***************************************************************************)
EXTENDS MissionLock, TLC

CONSTANTS mortal

LiveOnes  == Processes \ {mortal}
Symmetric == Permutations(LiveOnes)

OneMortal == {mortal}
=============================================================================
