------------------------------ MODULE MC_Process ------------------------------
(* The bounded instance of Process that TLC checks.                        *)
EXTENDS Process
=============================================================================
