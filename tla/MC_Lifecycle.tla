----------------------------- MODULE MC_Lifecycle -----------------------------
(* The bounded instance of Lifecycle that TLC checks.                      *)
EXTENDS Lifecycle
=============================================================================
