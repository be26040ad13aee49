---------------------------- MODULE MCReadiness ----------------------------
(* The finite instance of Readiness that TLC checks.                       *)
EXTENDS Readiness
=============================================================================
