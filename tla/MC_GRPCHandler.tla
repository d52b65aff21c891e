---------------------------- MODULE MC_GRPCHandler ----------------------------
(* The bounded instance of GRPCHandler that TLC checks.                    *)
EXTENDS GRPCHandler, TLC

Interchangeable == Permutations(Calls)
=============================================================================
