-------------------------- MODULE MCResultDelivery --------------------------
(***************************************************************************)
(* Instances of ResultDelivery for TLC.                                    *)
(***************************************************************************)
EXTENDS ResultDelivery

=============================================================================
