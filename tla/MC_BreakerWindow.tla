--------------------------- MODULE MC_BreakerWindow ---------------------------
(* The bounded instance of BreakerWindow that TLC checks.                  *)
EXTENDS BreakerWindow
=============================================================================
