---------------------------- MODULE MC_Application ----------------------------
(* The bounded instance of Application that TLC checks: a configuration    *)
(* whose last entry takes the name of the first, and one with an entry     *)
(* that lacks its service; one goroutine calls by short names, the other   *)
(* by a full method or by a name nobody has configured.                    *)
EXTENDS Application, TLC

Entry(name, target, service) == [name |-> name, target |-> target, service |-> service]

MCConfigs ==
  {<<Entry("a", "t1", "S"), Entry("b", "t2", "U"), Entry("a", "t2", "U")>>,
   <<Entry("b", "t2", ""), Entry("a", "", "S")>>}

MCOptions == <<[to |-> "a", idle |-> 10], [to |-> "all", idle |-> 20], [to |-> "default", idle |-> 40]>>

MCServes == "t1" :> {"S"} @@ "t2" :> {"U"}

RetryUpTo(attempts, first, most) ==
  [MaxAttempts |-> attempts, InitialBackoff |-> first, MaxBackoff |-> most,
   BackoffMultiplier |-> 2, RetryableCodes |-> {"Unavailable"}]

Thrice == RetryUpTo(3, 1, 1)
Twice == RetryUpTo(2, 1, 1)
Once == RetryUpTo(1, 1, 0)
NoRetries == RetryUpTo(0, 0, 0)

MCRetryConfigs == {Thrice, Twice, Once, NoRetries}

MCPlans ==
  "g1" :> {[name |-> "a", given |-> "", retry |-> Thrice]} @@
  "g2" :> {[name |-> "b", given |-> "U", retry |-> Once],
           [name |-> "c", given |-> "", retry |-> Twice],
           [name |-> "b", given |-> "U", retry |-> NoRetries]}
=============================================================================
