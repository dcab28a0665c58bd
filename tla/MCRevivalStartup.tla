-------------------------- MODULE MCRevivalStartup --------------------------
(***************************************************************************)
(* Instances of RevivalStartup for TLC.                                    *)
(***************************************************************************)
EXTENDS RevivalStartup
=============================================================================
