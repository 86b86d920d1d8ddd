-------------------------- MODULE MCCloudEvents --------------------------
(***************************************************************************)
(* The instance of CloudEvents that TLC checks: two pages compete for the  *)
(* notes of two transactions, and one transaction can be pushed twice.     *)
(***************************************************************************)
EXTENDS CloudEvents
=============================================================================
