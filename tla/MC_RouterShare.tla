---------------------------- MODULE MC_RouterShare ----------------------------
(* The bounded instance of RouterShare that TLC checks: a service whose    *)
(* nodes differ in weight and may all be down, and one whose weights may   *)
(* overflow to a sum of zero.                                              *)
EXTENDS RouterShare, TLC

Node(a, w, h) == [addr |-> a, weight |-> w, healthy |-> h]

Two == {<<Node("a1", 2, TRUE), Node("a2", 1, TRUE)>>,
        <<Node("a1", 2, FALSE), Node("a2", 1, FALSE)>>}

Even == {<<Node("b1", 1, TRUE), Node("b0", 0, TRUE), Node("b2", 1, TRUE)>>,
         <<Node("b1", 7, TRUE), Node("b2", 1, TRUE)>>}

MCListings == (<<"A">> :> Two) @@ (<<"B">> :> Even)

Interchangeable == Permutations(Requests)

MCTargets == {<<"A", "m">>, <<"B">>, <<"", "A", "m">>}
=============================================================================
