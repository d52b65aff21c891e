------------------------------- MODULE Balancer -------------------------------
(* internal/router/balancer.go and filterHealthy of router.go: the choice  *)
(* of one endpoint out of a listing, as functions of the listing and of    *)
(* the shared counter.  Integers keep their widths: weights are added in   *)
(* uint32, the counter is a uint64.                                        *)
EXTENDS Integers, Sequences, Functions

CONSTANTS
  WeightMod,      \* 2^32
  CounterMod      \* 2^64

ASSUME WidthAssumption == WeightMod \in Nat \ {0} /\ CounterMod \in Nat \ {0}

(* MISTAKE: the health flag is not looked at.                              *)
filterNothing(endpoints) == endpoints

(* The loop of filterHealthy: what it has kept of the first i endpoints.   *)
filterHealthy(endpoints) ==
  LET result[i \in 0 .. Len(endpoints)] ==
        IF i = 0 THEN <<>>
        ELSE IF endpoints[i].healthy THEN Append(result[i - 1], endpoints[i])
        ELSE result[i - 1]
  IN  result[Len(endpoints)]

(* The loops of Select: the weights of the first i endpoints, added up.    *)
RunningWeight(endpoints) ==
  LET current[i \in 0 .. Len(endpoints)] ==
        IF i = 0 THEN 0 ELSE (current[i - 1] + endpoints[i].weight) % WeightMod
  IN  current

TotalWeight(endpoints) == RunningWeight(endpoints)[Len(endpoints)]

(* The counter moves on for every selection that has a weight to go by.    *)
NextCounter(endpoints, counter) ==
  IF TotalWeight(endpoints) = 0 THEN counter ELSE (counter + 1) % CounterMod

(* The first endpoint whose running weight passes the position; a listing  *)
(* whose weights add up to nothing yields its first endpoint.              *)
Select(endpoints, counter) ==
  LET pos == counter % TotalWeight(endpoints)
      hits == {i \in DOMAIN endpoints : pos < RunningWeight(endpoints)[i]}
  IN  IF TotalWeight(endpoints) = 0 \/ hits = {} THEN endpoints[1]
      ELSE endpoints[CHOOSE i \in hits : \A j \in hits : i <= j]
=============================================================================
