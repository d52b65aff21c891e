-------------------------- MODULE MC_CircuitBreaker --------------------------
(* The bounded instance of CircuitBreaker that TLC checks.                 *)
EXTENDS CircuitBreaker
=============================================================================
