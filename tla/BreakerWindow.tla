----------------------------- MODULE BreakerWindow -----------------------------
(* CircuitBreaker seen from the endpoint: what came back from it during    *)
(* the current statistics window, the results the breaker does not count   *)
(* (their request was admitted in an earlier window) included.             *)
EXTENDS CircuitBreaker

VARIABLE answered    \* endpoint -> results since the breaker's last reset

NoAnswer == [ok |-> 0, failed |-> 0]

WindowInit == Init /\ answered = [e \in Endpoints |-> NoAnswer]

(* A breaker is reset when a request finds its window over, or on a change *)
(* of state.                                                               *)
Reset(e) == cb[e].timer = 0 \/ cb'[e].state # cb[e].state

Answer(c, ok) ==
  LET e == call[c].ep
      before == IF cb[e].timer = 0 THEN NoAnswer ELSE answered[e]
  IN  /\ AfterRequest(c, ok)
      /\ answered' = [answered EXCEPT ![e] =
           IF CurrentState(cb[e]).state # cb'[e].state THEN NoAnswer
           ELSE IF ok THEN [before EXCEPT !.ok = @ + 1]
           ELSE [before EXCEPT !.failed = @ + 1]]

Enter(c) ==
  /\ BeforeRequest(c)
  /\ answered' = [answered EXCEPT ![call[c].ep] = IF Reset(call[c].ep) THEN NoAnswer ELSE @]

WindowNext ==
  \/ \E c \in Calls, ok \in BOOLEAN : Answer(c, ok)
  \/ \E c \in Calls : Enter(c)
  \/ /\ \/ \E c \in Calls, e \in Endpoints : Load(c, e)
        \/ \E c \in Calls : LoadOrStore(c)
        \/ Tick
     /\ UNCHANGED answered

WindowSpec == WindowInit /\ [][WindowNext]_<<vars, answered>>

(* interval is the statistics period and failure_ratio the failure rate    *)
(* that trips the breaker (config.go:70-72, bridge.yaml:34-36): a period   *)
(* in which MinRequests calls or more came back from an endpoint, every    *)
(* one of them failed, does not leave its breaker closed.                  *)
TripsOnFailures ==
  \A e \in Endpoints :
     answered[e].failed >= MinRequests /\ answered[e].ok = 0 => cb[e].state # "closed"
=============================================================================
