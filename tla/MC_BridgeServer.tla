---------------------------- MODULE MC_BridgeServer ----------------------------
(* The bounded instance of BridgeServer that TLC checks: two services on   *)
(* one address, so that calls of two protocols share a breaker; one slot's *)
(* requests go out over gRPC, or to a node registered with a protocol the  *)
(* bridge does not have, the other's over HTTP.                            *)
EXTENDS BridgeServer, TLC

As(protocol) == [addr |-> "n1", weight |-> 1, healthy |-> TRUE, protocol |-> protocol]

MCListings ==
  <<"G">> :> {<<As("GRPC")>>, <<As("TCP")>>} @@ <<"H">> :> {<<As("HTTP")>>}

MCSends == "r1" :> {<<"G", "m">>} @@ "r2" :> {<<"H", "m">>}
=============================================================================
