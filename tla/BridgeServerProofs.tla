--------------------------- MODULE BridgeServerProofs ---------------------------
(* The bridge keeps its contract, and gives back what it takes from its    *)
(* breakers, for any requests, nodes, configuration and number of retries. *)
EXTENDS BridgeServer, FiniteSetTheorems, TLAPS

(* What the three parts of a request's state have to do with each other:   *)
(* its route t, its call c and its job j.                                  *)
Together(t, c, j) ==
  /\ t \in [pc : {"idle", "listed", "routed", "failed"}, service : {t.service},
            healthy : {t.healthy}, ep : {t.ep}]
  /\ c \in [pc : {"idle", "missing", "ready", "running"}, ep : {c.ep}, held : {c.held}]
  /\ j \in Job
  /\ j.pc = "free" <=> t.pc = "idle"
  /\ j.pc \in {"routing", "streaming"} => t.pc \in {"listed", "routed"}
  /\ j.pc = "calling" => t.pc = "routed" /\ Factory(t.ep.protocol)
  /\ j.pc = "unrouted" => t.pc = "failed"
  /\ j.pc \in Answers \ {"unrouted"} => t.pc = "routed"
  /\ c.pc # "idle" <=> j.pc = "calling"
  /\ j.ran \subseteq 1 .. j.sent
  /\ j.sent > 0 =>
       /\ j.sent <= IF t.ep.protocol = "HTTP" THEN 1 + RetryCount ELSE 1
       /\ c.pc = "running" \/ j.pc \in {"ok", "unavailable", "internal"}

Requesting ==
  /\ route = [r \in Requests |-> route[r]]
  /\ call = [r \in Requests |-> call[r]]
  /\ job \in [Requests -> Job]
  /\ \A r \in Requests : Together(route[r], call[r], job[r])

(* Who has a place in a breaker is running a call of its node.             *)
IsBreaker(b) ==
  b \in [state : {b.state}, requests : {b.requests}, successes : {b.successes},
         failures : {b.failures}, live : {b.live}, timer : {b.timer}]

Placed ==
  /\ cb = [e \in Endpoints |-> cb[e]]
  /\ \A e \in Endpoints :
       /\ IsBreaker(cb[e])
       /\ \A r \in cb[e].live : r \in Requests /\ call[r].pc = "running" /\ call[r].ep = e

IInv == Requesting /\ Placed

-----------------------------------------------------------------------------
(* Requests.                                                               *)

LEMMA RequestingAtStart == Init => Requesting
<1> SUFFICES ASSUME Init PROVE Requesting
  OBVIOUS
<1>1. NoJob \in Job
  BY DEF NoJob, Job, Tries
<1>2. Together(R!NoRoute, B!Idle, NoJob)
  BY <1>1 DEF Together, R!NoRoute, B!Idle, NoJob, Answers
<1>3. /\ route = [r \in Requests |-> R!NoRoute]
      /\ call = [r \in Requests |-> B!Idle]
      /\ job = [r \in Requests |-> NoJob]
  BY DEF Init, R!RouterInit, B!Init
<1>4. QED
  BY <1>1, <1>2, <1>3 DEF Requesting

(* The step of a request touches its own state and nobody else's.          *)
LEMMA OwnStep ==
  ASSUME Requesting, NEW r \in Requests, NEW t, NEW c, NEW j, Together(t, c, j),
         route' = [route EXCEPT ![r] = t],
         call' = [call EXCEPT ![r] = c],
         job' = [job EXCEPT ![r] = j]
  PROVE  Requesting'
<1>1. j \in Job
  BY DEF Together
<1>2. /\ route' = [q \in Requests |-> route'[q]]
      /\ call' = [q \in Requests |-> call'[q]]
      /\ job' \in [Requests -> Job]
  BY <1>1 DEF Requesting
<1>3. ASSUME NEW q \in Requests PROVE Together(route'[q], call'[q], job'[q])
  <2>1. CASE q = r
    <3>1. route'[q] = t /\ call'[q] = c /\ job'[q] = j
      BY <2>1 DEF Requesting
    <3>2. QED
      BY <3>1
  <2>2. CASE q # r
    <3>1. route'[q] = route[q] /\ call'[q] = call[q] /\ job'[q] = job[q]
      BY <2>2 DEF Requesting
    <3>2. QED
      BY <3>1 DEF Requesting
  <2>3. QED
    BY <2>1, <2>2
<1>4. QED
  BY <1>2, <1>3 DEF Requesting

(* What a step leaves alone it may be said to set to what it is.           *)
LEMMA Unchanged ==
  ASSUME Requesting, NEW r \in Requests
  PROVE  /\ route = [route EXCEPT ![r] = route[r]]
         /\ call = [call EXCEPT ![r] = call[r]]
         /\ job = [job EXCEPT ![r] = job[r]]
         /\ Together(route[r], call[r], job[r])
BY DEF Requesting

(* One step per action: t, c and j are the request's route, call and job   *)
(* after it.                                                               *)
LEMMA RequestingKept == Requesting /\ [Next]_vars => Requesting'
<1> SUFFICES ASSUME Requesting, [Next]_vars PROVE Requesting'
  OBVIOUS
<1>1. ASSUME NEW r \in Requests, NEW target, Receive(r, target) PROVE Requesting'
  <2> DEFINE t == [pc |-> "listed", service |-> R!parseTarget(target).service,
                   healthy |-> R!filterHealthy(registry[R!parseTarget(target).service]),
                   ep |-> NoEndpoint]
             c == call[r]
             j == [job[r] EXCEPT !.pc = "routing"]
  <2>1. Together(route[r], call[r], job[r])
    BY Unchanged
  <2>2. Together(t, c, j)
    BY <1>1, <2>1 DEF Receive, R!GetServices, Step, breaking, Together, Job, Tries, Busy,
       Answers
  <2>3. /\ route' = [route EXCEPT ![r] = t]
        /\ call' = [call EXCEPT ![r] = c]
        /\ job' = [job EXCEPT ![r] = j]
    BY <1>1, Unchanged DEF Receive, R!GetServices, Step, breaking
  <2>4. QED
    BY <2>2, <2>3, OwnStep
<1>2. ASSUME NEW r \in Requests, NEW target, ReceiveStream(r, target) PROVE Requesting'
  <2> DEFINE t == [pc |-> "listed", service |-> R!parseTarget(target).service,
                   healthy |-> R!filterHealthy(registry[R!parseTarget(target).service]),
                   ep |-> NoEndpoint]
             c == call[r]
             j == [job[r] EXCEPT !.pc = "streaming"]
  <2>1. Together(route[r], call[r], job[r])
    BY Unchanged
  <2>2. Together(t, c, j)
    BY <1>2, <2>1 DEF ReceiveStream, R!GetServices, Step, breaking, Together, Job, Tries,
       Busy, Answers
  <2>3. /\ route' = [route EXCEPT ![r] = t]
        /\ call' = [call EXCEPT ![r] = c]
        /\ job' = [job EXCEPT ![r] = j]
    BY <1>2, Unchanged DEF ReceiveStream, R!GetServices, Step, breaking
  <2>4. QED
    BY <2>2, <2>3, OwnStep
<1>3. ASSUME NEW r \in Requests, NEW target, RouteError(r, target) PROVE Requesting'
  <2> DEFINE t == [R!NoRoute EXCEPT !.pc = "failed"]
             c == call[r]
             j == [job[r] EXCEPT !.pc = "unrouted", !.gone = FALSE]
  <2>1. Together(route[r], call[r], job[r])
    BY Unchanged
  <2>2. Together(t, c, j)
    BY <1>3, <2>1 DEF RouteError, R!RouteFails, R!NoRoute, breaking, Answer, ChainUnaryServer,
       RecoveryInterceptor, Together, Job, Tries, Busy, Answers
  <2>3. /\ route' = [route EXCEPT ![r] = t]
        /\ call' = [call EXCEPT ![r] = c]
        /\ job' = [job EXCEPT ![r] = j]
    BY <1>3, Unchanged DEF RouteError, R!RouteFails, R!NoRoute, breaking, Answer,
       ChainUnaryServer, RecoveryInterceptor
  <2>4. QED
    BY <2>2, <2>3, OwnStep
<1>4. ASSUME NEW r \in Requests, Pick(r) PROVE Requesting'
  <2> DEFINE t == [route[r] EXCEPT !.pc = "routed", !.ep = R!Select(route[r].healthy, counter)]
             c == call[r]
             j == job[r]
  <2>1. Together(route[r], call[r], job[r])
    BY Unchanged
  <2>2. Together(t, c, j)
    BY <1>4, <2>1 DEF Pick, R!Pick, breaking, Together, Job, Tries, Busy, Answers
  <2>3. /\ route' = [route EXCEPT ![r] = t]
        /\ call' = [call EXCEPT ![r] = c]
        /\ job' = [job EXCEPT ![r] = j]
    BY <1>4, Unchanged DEF Pick, R!Pick, breaking
  <2>4. QED
    BY <2>2, <2>3, OwnStep
<1>5. ASSUME NEW r \in Requests, Unsupported(r) PROVE Requesting'
  <2> DEFINE t == route[r]
             c == call[r]
             j == [job[r] EXCEPT !.pc = "invalid", !.gone = FALSE]
  <2>1. Together(route[r], call[r], job[r])
    BY Unchanged
  <2>2. Together(t, c, j)
    BY <1>5, <2>1 DEF Unsupported, routing, breaking, Answer, ChainUnaryServer,
       RecoveryInterceptor, Together, Job, Tries, Busy, Answers
  <2>3. /\ route' = [route EXCEPT ![r] = t]
        /\ call' = [call EXCEPT ![r] = c]
        /\ job' = [job EXCEPT ![r] = j]
    BY <1>5, Unchanged DEF Unsupported, routing, breaking, Answer, ChainUnaryServer,
       RecoveryInterceptor
  <2>4. QED
    BY <2>2, <2>3, OwnStep
<1>6. ASSUME NEW r \in Requests, NEW ms, GetBreaker(r, ms) PROVE Requesting'
  <2> DEFINE t == route[r]
             c == [pc |-> IF breakers[Node(r).addr] = None THEN "missing" ELSE "ready",
                   ep |-> Node(r).addr, held |-> breakers[Node(r).addr]]
             j == [job[r] EXCEPT !.pc = "calling", !.gone = @ \/ CallTimeout(ms) = 0]
  <2>1. Together(route[r], call[r], job[r])
    BY Unchanged
  <2>2. Together(t, c, j)
    BY <1>6, <2>1 DEF GetBreaker, Node, B!Load, routing, Together, Job, Tries, Busy, Answers
  <2>3. /\ route' = [route EXCEPT ![r] = t]
        /\ call' = [call EXCEPT ![r] = c]
        /\ job' = [job EXCEPT ![r] = j]
    BY <1>6, Unchanged DEF GetBreaker, B!Load, routing
  <2>4. QED
    BY <2>2, <2>3, OwnStep
<1>7. ASSUME NEW r \in Requests, StoreBreaker(r) PROVE Requesting'
  <2> DEFINE t == route[r]
             c == [call[r] EXCEPT !.pc = "ready", !.held = breakers'[call[r].ep]]
             j == job[r]
  <2>1. Together(route[r], call[r], job[r])
    BY Unchanged
  <2>2. Together(t, c, j)
    BY <1>7, <2>1 DEF StoreBreaker, B!LoadOrStore, routing, Together, Job, Tries, Busy, Answers
  <2>3. /\ route' = [route EXCEPT ![r] = t]
        /\ call' = [call EXCEPT ![r] = c]
        /\ job' = [job EXCEPT ![r] = j]
    BY <1>7, Unchanged DEF StoreBreaker, B!LoadOrStore, routing
  <2>4. QED
    BY <2>2, <2>3, OwnStep
<1>8. ASSUME NEW r \in Requests, Admit(r) PROVE Requesting'
  <2> DEFINE t == route[r]
             c == [call[r] EXCEPT !.pc = "running"]
             j == job[r]
  <2>1. Together(route[r], call[r], job[r])
    BY Unchanged
  <2>2. Together(t, c, j)
    BY <1>8, <2>1 DEF Admit, B!Admit, routing, Together, Job, Tries, Busy, Answers
  <2>3. /\ route' = [route EXCEPT ![r] = t]
        /\ call' = [call EXCEPT ![r] = c]
        /\ job' = [job EXCEPT ![r] = j]
    BY <1>8, Unchanged DEF Admit, B!Admit, routing
  <2>4. QED
    BY <2>2, <2>3, OwnStep
<1>9. ASSUME NEW r \in Requests, Shed(r) PROVE Requesting'
  <2> DEFINE t == route[r]
             c == B!Idle
             j == [job[r] EXCEPT !.pc = "shed", !.gone = FALSE]
  <2>1. Together(route[r], call[r], job[r])
    BY Unchanged
  <2>2. Together(t, c, j)
    BY <1>9, <2>1 DEF Shed, B!Reject, B!Idle, routing, Answer, ChainUnaryServer,
       RecoveryInterceptor, Together, Job, Tries, Busy, Answers
  <2>3. /\ route' = [route EXCEPT ![r] = t]
        /\ call' = [call EXCEPT ![r] = c]
        /\ job' = [job EXCEPT ![r] = j]
    BY <1>9, Unchanged DEF Shed, B!Reject, B!Idle, routing, Answer, ChainUnaryServer,
       RecoveryInterceptor
  <2>4. QED
    BY <2>2, <2>3, OwnStep
<1>10. ASSUME NEW r \in Requests, Send(r) PROVE Requesting'
  <2> DEFINE t == route[r]
             c == call[r]
             j == [job[r] EXCEPT !.sent = @ + 1]
  <2>1. Together(route[r], call[r], job[r])
    BY Unchanged
  <2>2. Together(t, c, j)
    <3>1. job[r].sent \in Nat /\ job[r].sent < Limit(r) /\ call[r].pc = "running"
      BY <1>10, <2>1, BridgeAssumption DEF Send, Running, Together, Job, Tries, BridgeAssumption
    <3>2. job[r].sent + 1 \in Tries
      BY <3>1, BridgeAssumption DEF Limit, Tries, BridgeAssumption
    <3>3. j \in Job /\ j.pc = job[r].pc /\ j.ran = job[r].ran /\ j.sent = job[r].sent + 1
      BY <2>1, <3>2 DEF Together, Job
    <3>4. j.ran \subseteq 1 .. j.sent
      BY <2>1, <3>1, <3>3 DEF Together
    <3>5. j.sent <= IF t.ep.protocol = "HTTP" THEN 1 + RetryCount ELSE 1
      BY <3>1, <3>3, BridgeAssumption DEF Limit, Node, BridgeAssumption
    <3>6. QED
      BY <2>1, <3>1, <3>3, <3>4, <3>5 DEF Together
  <2>3. /\ route' = [route EXCEPT ![r] = t]
        /\ call' = [call EXCEPT ![r] = c]
        /\ job' = [job EXCEPT ![r] = j]
    BY <1>10, Unchanged DEF Send, Running, Limit, Node, routing, breaking
  <2>4. QED
    BY <2>2, <2>3, OwnStep
<1>11. ASSUME NEW r \in Requests, NEW try, NodeRuns(r, try) PROVE Requesting'
  <2> DEFINE t == route[r]
             c == call[r]
             j == [job[r] EXCEPT !.ran = @ \cup {try}]
  <2>1. Together(route[r], call[r], job[r])
    BY Unchanged
  <2>2. Together(t, c, j)
    <3>1. try \in 1 .. job[r].sent /\ job[r].sent \in {0} \cup Tries
      BY <1>11, <2>1 DEF NodeRuns, Together, Job
    <3>2. try \in Tries
      BY <3>1, BridgeAssumption DEF Tries, BridgeAssumption
    <3>3. j \in Job /\ j.pc = job[r].pc /\ j.sent = job[r].sent /\ j.ran = job[r].ran \cup {try}
      BY <2>1, <3>2 DEF Together, Job
    <3>4. QED
      BY <2>1, <3>1, <3>3 DEF Together
  <2>3. /\ route' = [route EXCEPT ![r] = t]
        /\ call' = [call EXCEPT ![r] = c]
        /\ job' = [job EXCEPT ![r] = j]
    BY <1>11, Unchanged DEF NodeRuns, routing, breaking
  <2>4. QED
    BY <2>2, <2>3, OwnStep
<1>12. ASSUME NEW r \in Requests, Reply(r) PROVE Requesting'
  <2> DEFINE t == route[r]
             c == B!Idle
             j == [job[r] EXCEPT !.pc = "ok", !.gone = FALSE]
  <2>1. Together(route[r], call[r], job[r])
    BY Unchanged
  <2>2. Together(t, c, j)
    BY <1>12, <2>1 DEF Reply, Running, B!AfterRequest, B!Idle, routing, Answer,
       ChainUnaryServer, RecoveryInterceptor, Together, Job, Tries, Busy, Answers
  <2>3. /\ route' = [route EXCEPT ![r] = t]
        /\ call' = [call EXCEPT ![r] = c]
        /\ job' = [job EXCEPT ![r] = j]
    BY <1>12, Unchanged DEF Reply, Running, B!AfterRequest, B!Idle, routing, Answer,
       ChainUnaryServer, RecoveryInterceptor
  <2>4. QED
    BY <2>2, <2>3, OwnStep
<1>13. ASSUME NEW r \in Requests, CallFails(r) PROVE Requesting'
  <2> DEFINE t == route[r]
             c == B!Idle
             j == [job[r] EXCEPT !.pc = "unavailable", !.gone = FALSE]
  <2>1. Together(route[r], call[r], job[r])
    BY Unchanged
  <2>2. Together(t, c, j)
    BY <1>13, <2>1 DEF CallFails, Running, B!AfterRequest, B!Idle, routing, Answer,
       ChainUnaryServer, RecoveryInterceptor, Together, Job, Tries, Busy, Answers
  <2>3. /\ route' = [route EXCEPT ![r] = t]
        /\ call' = [call EXCEPT ![r] = c]
        /\ job' = [job EXCEPT ![r] = j]
    BY <1>13, Unchanged DEF CallFails, Running, B!AfterRequest, B!Idle, routing, Answer,
       ChainUnaryServer, RecoveryInterceptor
  <2>4. QED
    BY <2>2, <2>3, OwnStep
<1>14. ASSUME NEW r \in Requests, Panic(r) PROVE Requesting'
  <2> DEFINE t == route[r]
             c == B!Idle
             j == [job[r] EXCEPT !.pc = "internal", !.gone = FALSE]
  <2>1. Together(route[r], call[r], job[r])
    BY Unchanged
  <2>2. Together(t, c, j)
    BY <1>14, <2>1 DEF Panic, Running, B!AfterRequest, B!Idle, routing, Answer,
       ChainUnaryServer, RecoveryInterceptor, Together, Job, Tries, Busy, Answers
  <2>3. /\ route' = [route EXCEPT ![r] = t]
        /\ call' = [call EXCEPT ![r] = c]
        /\ job' = [job EXCEPT ![r] = j]
    BY <1>14, Unchanged DEF Panic, Running, B!AfterRequest, B!Idle, routing, Answer,
       ChainUnaryServer, RecoveryInterceptor
  <2>4. QED
    BY <2>2, <2>3, OwnStep
<1>15. ASSUME NEW r \in Requests, Unimplemented(r) PROVE Requesting'
  <2> DEFINE t == route[r]
             c == call[r]
             j == [job[r] EXCEPT !.pc = "unimplemented", !.gone = FALSE]
  <2>1. Together(route[r], call[r], job[r])
    BY Unchanged
  <2>2. Together(t, c, j)
    BY <1>15, <2>1 DEF Unimplemented, routing, breaking, Answer, ChainUnaryServer,
       RecoveryInterceptor, Together, Job, Tries, Busy, Answers
  <2>3. /\ route' = [route EXCEPT ![r] = t]
        /\ call' = [call EXCEPT ![r] = c]
        /\ job' = [job EXCEPT ![r] = j]
    BY <1>15, Unchanged DEF Unimplemented, routing, breaking, Answer, ChainUnaryServer,
       RecoveryInterceptor
  <2>4. QED
    BY <2>2, <2>3, OwnStep
<1>16. ASSUME NEW r \in Requests, HangUp(r) PROVE Requesting'
  <2> DEFINE t == route[r]
             c == call[r]
             j == [job[r] EXCEPT !.gone = TRUE]
  <2>1. Together(route[r], call[r], job[r])
    BY Unchanged
  <2>2. Together(t, c, j)
    BY <1>16, <2>1 DEF HangUp, routing, breaking, Together, Job, Tries, Busy, Answers
  <2>3. /\ route' = [route EXCEPT ![r] = t]
        /\ call' = [call EXCEPT ![r] = c]
        /\ job' = [job EXCEPT ![r] = j]
    BY <1>16, Unchanged DEF HangUp, routing, breaking
  <2>4. QED
    BY <2>2, <2>3, OwnStep
<1>17. ASSUME NEW r \in Requests, Return(r) PROVE Requesting'
  <2> DEFINE t == R!NoRoute
             c == call[r]
             j == NoJob
  <2>1. Together(route[r], call[r], job[r])
    BY Unchanged
  <2>2. Together(t, c, j)
    <3>1. call[r].pc = "idle"
      BY <1>17, <2>1 DEF Return, Answered, Together, Answers
    <3>2. NoJob \in Job
      BY DEF NoJob, Job, Tries
    <3>3. QED
      BY <2>1, <3>1, <3>2 DEF Together, R!NoRoute, NoJob, Answers
  <2>3. /\ route' = [route EXCEPT ![r] = t]
        /\ call' = [call EXCEPT ![r] = c]
        /\ job' = [job EXCEPT ![r] = j]
    BY <1>17, Unchanged DEF Return, Answered, R!Leave, R!NoRoute, NoJob, breaking
  <2>4. QED
    BY <2>2, <2>3, OwnStep
<1>18. CASE UNCHANGED <<route, call, job>>
  BY <1>18 DEF Requesting
<1>19. QED
  BY <1>1, <1>2, <1>3, <1>4, <1>5, <1>6, <1>7, <1>8, <1>9, <1>10, <1>11, <1>12, <1>13, <1>14,
     <1>15, <1>16, <1>17, <1>18
     DEF Next, Publish, R!Publish, Tick, B!Tick, breaking, routing, vars

-----------------------------------------------------------------------------
(* Places.  A breaker's operations give places to nobody but the request   *)
(* they let through, and take them from the one whose result comes in.     *)

LEMMA PlacesOf ==
  ASSUME NEW b, IsBreaker(b), NEW r
  PROVE  /\ IsBreaker(B!CurrentState(b))
         /\ B!CurrentState(b).live \subseteq b.live
         /\ IsBreaker(B!OnRequest(b, r))
         /\ B!OnRequest(b, r).live = b.live \cup {r}
         /\ \A ok \in BOOLEAN : /\ IsBreaker(B!Result(b, r, ok))
                               /\ B!Result(b, r, ok).live \subseteq b.live \ {r}
<1>1. \A s : IsBreaker(B!NewGeneration(s)) /\ B!NewGeneration(s).live = {}
  BY DEF B!NewGeneration, B!Cleared, IsBreaker
<1>2. IsBreaker(B!CurrentState(b)) /\ B!CurrentState(b).live \subseteq b.live
  BY <1>1 DEF B!CurrentState
<1>3. IsBreaker(B!OnRequest(b, r)) /\ B!OnRequest(b, r).live = b.live \cup {r}
  BY DEF B!OnRequest, IsBreaker
<1>4. ASSUME NEW ok \in BOOLEAN
      PROVE  IsBreaker(B!Result(b, r, ok)) /\ B!Result(b, r, ok).live \subseteq b.live \ {r}
  <2> DEFINE left == [b EXCEPT !.live = @ \ {r}]
  <2>1. IsBreaker(left) /\ left.live = b.live \ {r}
    BY DEF IsBreaker
  <2>2. IsBreaker(B!OnSuccess(left)) /\ B!OnSuccess(left).live \subseteq left.live
    <3> DEFINE s == [left EXCEPT !.successes = @ + 1]
    <3>1. IsBreaker(s) /\ s.live = left.live
      BY <2>1 DEF IsBreaker
    <3>2. QED
      BY <3>1, <1>1 DEF B!OnSuccess
  <2>3. IsBreaker(B!OnFailure(left)) /\ B!OnFailure(left).live \subseteq left.live
    <3> DEFINE f == [left EXCEPT !.failures = @ + 1]
    <3>1. IsBreaker(f) /\ f.live = left.live
      BY <2>1 DEF IsBreaker
    <3>2. QED
      BY <3>1, <1>1 DEF B!OnFailure
  <2>4. CASE r \notin b.live
    BY <2>4 DEF B!Result
  <2>5. CASE r \in b.live
    <3>1. B!Result(b, r, ok) = IF ok THEN B!OnSuccess(left) ELSE B!OnFailure(left)
      BY <2>5 DEF B!Result
    <3>2. QED
      BY <3>1, <2>1, <2>2, <2>3
  <2>6. QED
    BY <2>4, <2>5
<1>5. QED
  BY <1>2, <1>3, <1>4

(* A step of one request at one breaker.                                   *)
LEMMA OwnBreaker ==
  ASSUME Requesting, Placed, NEW r \in Requests, NEW e, NEW b, NEW c,
         cb' = [cb EXCEPT ![e] = b],
         call' = [call EXCEPT ![r] = c],
         e \in Endpoints =>
           /\ IsBreaker(b)
           /\ b.live \subseteq cb[e].live \cup {r}
           /\ r \in b.live => c.pc = "running" /\ c.ep = e,
         \A f \in Endpoints : r \in cb[f].live => f = e
  PROVE  Placed'
<1>1. cb' = [f \in Endpoints |-> cb'[f]]
  BY DEF Placed
<1>2. \A q \in Requests : call'[q] = IF q = r THEN c ELSE call[q]
  BY DEF Requesting
<1>3. ASSUME NEW f \in Endpoints
      PROVE  /\ IsBreaker(cb'[f])
             /\ \A q \in cb'[f].live : /\ q \in Requests
                                      /\ call'[q].pc = "running"
                                      /\ call'[q].ep = f
  <2>1. CASE f = e
    <3>1. cb'[f] = b
      BY <2>1 DEF Placed
    <3>2. QED
      BY <2>1, <3>1, <1>2 DEF Placed
  <2>2. CASE f # e
    <3>1. cb'[f] = cb[f]
      BY <2>2 DEF Placed
    <3>2. r \notin cb[f].live
      BY <2>2
    <3>3. IsBreaker(cb'[f])
      BY <3>1 DEF Placed
    <3>4. QED
      BY <3>1, <3>2, <3>3, <1>2 DEF Placed
  <2>3. QED
    BY <2>1, <2>2
<1>4. QED
  BY <1>1, <1>3 DEF Placed

(* Only a running request has a place, and in its own node's breaker.      *)
LEMMA PlaceOf ==
  ASSUME Placed, NEW r, NEW f \in Endpoints, r \in cb[f].live
  PROVE  call[r].pc = "running" /\ call[r].ep = f
BY DEF Placed

LEMMA PlacedAtStart == Init => Placed
BY DEF Init, B!Init, B!Cleared, Placed, IsBreaker

(* One step per action that touches a breaker or a call.                   *)
LEMMA PlacedKept == Requesting /\ Placed /\ [Next]_vars => Placed'
<1> SUFFICES ASSUME Requesting, Placed, [Next]_vars PROVE Placed'
  OBVIOUS
<1>1. ASSUME NEW r \in Requests, NEW ms, GetBreaker(r, ms) PROVE Placed'
  <2> DEFINE c == [pc |-> IF breakers[Node(r).addr] = None THEN "missing" ELSE "ready",
                   ep |-> Node(r).addr, held |-> breakers[Node(r).addr]]
  <2>1. /\ cb' = cb
        /\ call' = [call EXCEPT ![r] = c]
        /\ call[r].pc = "idle"
    BY <1>1 DEF GetBreaker, B!Load
  <2>2. \A f \in Endpoints : r \notin cb[f].live
    BY <2>1, PlaceOf
  <2>3. \A q \in Requests : q # r => call'[q] = call[q]
    BY <2>1 DEF Requesting
  <2>4. QED
    BY <2>1, <2>2, <2>3 DEF Placed
<1>2. ASSUME NEW r \in Requests, StoreBreaker(r) PROVE Placed'
  <2> DEFINE e == call[r].ep
             b == IF breakers[e] = None THEN B!NewGeneration("closed") ELSE cb[e]
             c == [call[r] EXCEPT !.pc = "ready", !.held = breakers'[e]]
  <2>1. cb' = [cb EXCEPT ![e] = b] /\ call' = [call EXCEPT ![r] = c]
    BY <1>2, Unchanged DEF StoreBreaker, B!LoadOrStore
  <2>2. \A f \in Endpoints : r \notin cb[f].live
    BY <1>2, PlaceOf DEF StoreBreaker, B!LoadOrStore
  <2>3. e \in Endpoints => IsBreaker(b) /\ b.live \subseteq cb[e].live
    BY DEF Placed, IsBreaker, B!NewGeneration, B!Cleared
  <2>4. QED
    BY <2>1, <2>2, <2>3, OwnBreaker
<1>3. ASSUME NEW r \in Requests, Admit(r) PROVE Placed'
  <2> DEFINE e == call[r].ep
             now == B!CurrentState(cb[e])
             b == B!OnRequest(now, r)
             c == [call[r] EXCEPT !.pc = "running"]
  <2>1. cb' = [cb EXCEPT ![e] = b] /\ call' = [call EXCEPT ![r] = c]
    BY <1>3, Unchanged DEF Admit, B!Admit
  <2>2. \A f \in Endpoints : r \notin cb[f].live
    BY <1>3, PlaceOf DEF Admit, B!Admit
  <2>3. e \in Endpoints => /\ IsBreaker(b)
                          /\ b.live \subseteq cb[e].live \cup {r}
                          /\ c.pc = "running" /\ c.ep = e
    <3>1. e \in Endpoints => IsBreaker(now) /\ now.live \subseteq cb[e].live
      BY PlacesOf DEF Placed
    <3> HIDE DEF now
    <3>2. c.pc = "running" /\ c.ep = e
      BY Unchanged DEF Together
    <3>3. QED
      BY <3>1, <3>2, PlacesOf
  <2>4. QED
    BY <2>1, <2>2, <2>3, OwnBreaker
<1>4. ASSUME NEW r \in Requests, Shed(r) PROVE Placed'
  <2> DEFINE e == call[r].ep
             b == B!CurrentState(cb[e])
             c == B!Idle
  <2>1. cb' = [cb EXCEPT ![e] = b] /\ call' = [call EXCEPT ![r] = c]
    BY <1>4, Unchanged DEF Shed, B!Reject
  <2>2. \A f \in Endpoints : r \notin cb[f].live
    BY <1>4, PlaceOf DEF Shed, B!Reject
  <2>3. e \in Endpoints => IsBreaker(b) /\ b.live \subseteq cb[e].live
    BY PlacesOf DEF Placed
  <2>4. QED
    BY <2>1, <2>2, <2>3, OwnBreaker
<1>5. ASSUME NEW r \in Requests, Reply(r) PROVE Placed'
  <2> DEFINE e == call[r].ep
             now == B!CurrentState(cb[e])
             b == B!Result(now, r, TRUE)
             c == B!Idle
  <2>1. cb' = [cb EXCEPT ![e] = b] /\ call' = [call EXCEPT ![r] = c]
    BY <1>5, Unchanged DEF Reply, B!AfterRequest
  <2>2. \A f \in Endpoints : r \in cb[f].live => f = e
    BY PlaceOf
  <2>3. e \in Endpoints => IsBreaker(b) /\ b.live \subseteq cb[e].live \ {r}
    <3>1. e \in Endpoints => IsBreaker(now) /\ now.live \subseteq cb[e].live
      BY PlacesOf DEF Placed
    <3> HIDE DEF now
    <3>2. QED
      BY <3>1, PlacesOf
  <2>4. QED
    BY <2>1, <2>2, <2>3, OwnBreaker
<1>6. ASSUME NEW r \in Requests, CallFails(r) PROVE Placed'
  <2> DEFINE e == call[r].ep
             now == B!CurrentState(cb[e])
             b == B!Result(now, r, FALSE)
             c == B!Idle
  <2>1. cb' = [cb EXCEPT ![e] = b] /\ call' = [call EXCEPT ![r] = c]
    BY <1>6, Unchanged DEF CallFails, B!AfterRequest
  <2>2. \A f \in Endpoints : r \in cb[f].live => f = e
    BY PlaceOf
  <2>3. e \in Endpoints => IsBreaker(b) /\ b.live \subseteq cb[e].live \ {r}
    <3>1. e \in Endpoints => IsBreaker(now) /\ now.live \subseteq cb[e].live
      BY PlacesOf DEF Placed
    <3> HIDE DEF now
    <3>2. QED
      BY <3>1, PlacesOf
  <2>4. QED
    BY <2>1, <2>2, <2>3, OwnBreaker
<1>7. ASSUME NEW r \in Requests, Panic(r) PROVE Placed'
  <2> DEFINE e == call[r].ep
             now == B!CurrentState(cb[e])
             b == B!Result(now, r, FALSE)
             c == B!Idle
  <2>1. cb' = [cb EXCEPT ![e] = b] /\ call' = [call EXCEPT ![r] = c]
    BY <1>7, Unchanged DEF Panic, B!AfterRequest
  <2>2. \A f \in Endpoints : r \in cb[f].live => f = e
    BY PlaceOf
  <2>3. e \in Endpoints => IsBreaker(b) /\ b.live \subseteq cb[e].live \ {r}
    <3>1. e \in Endpoints => IsBreaker(now) /\ now.live \subseteq cb[e].live
      BY PlacesOf DEF Placed
    <3> HIDE DEF now
    <3>2. QED
      BY <3>1, PlacesOf
  <2>4. QED
    BY <2>1, <2>2, <2>3, OwnBreaker
<1>8. CASE Tick
  <2>1. /\ cb' = [e \in Endpoints |-> [cb[e] EXCEPT !.timer = IF @ > 0 THEN @ - 1 ELSE @]]
        /\ call' = call
    BY <1>8 DEF Tick, B!Tick
  <2>2. \A e \in Endpoints : IsBreaker(cb'[e]) /\ cb'[e].live = cb[e].live
    BY <2>1 DEF Placed, IsBreaker
  <2>3. cb' = [e \in Endpoints |-> cb'[e]]
    BY <2>1
  <2>4. QED
    BY <2>1, <2>2, <2>3 DEF Placed
<1>9. CASE UNCHANGED <<cb, call>>
  BY <1>9 DEF Placed
<1>10. QED
  BY <1>1, <1>2, <1>3, <1>4, <1>5, <1>6, <1>7, <1>8, <1>9
     DEF Next, Receive, RouteError, Pick, Unsupported, Send, NodeRuns, ReceiveStream,
         Unimplemented, HangUp, Return, Publish, breaking, vars

LEMMA Inductive == Spec => []IInv
<1>1. Init => IInv
  BY RequestingAtStart, PlacedAtStart DEF IInv
<1>2. IInv /\ [Next]_vars => IInv'
  BY RequestingKept, PlacedKept DEF IInv
<1>3. QED
  BY <1>1, <1>2, PTL DEF Spec

-----------------------------------------------------------------------------
(* The two invariants, from IInv.                                          *)

(* However its requests interleave, end and are abandoned, and whatever    *)
(* the retries of the HTTP client are, the state of the bridge keeps its   *)
(* type: no node runs what was not sent, nothing is sent too often.        *)
THEOREM BridgeTypes == Spec => []TypeOK
<1>1. IInv => TypeOK
  <2> SUFFICES ASSUME IInv, NEW r \in Requests
               PROVE  /\ job[r].ran \subseteq 1 .. job[r].sent
                      /\ job[r].sent > 0 => job[r].sent <= Limit(r)
    BY DEF IInv, Requesting, TypeOK
  <2>1. Together(route[r], call[r], job[r])
    BY Unchanged DEF IInv
  <2>2. QED
    BY <2>1 DEF Together, Limit, Node
<1>2. QED
  BY <1>1, Inductive, PTL

(* An answered request has no place in any breaker: a half-open breaker    *)
(* waits for no probe that nobody runs (server.go:95-137).                 *)
THEOREM PlacesReturned == Spec => []PlaceReturned
<1>1. IInv => PlaceReturned
  <2> SUFFICES ASSUME IInv, NEW r \in Requests
               PROVE  /\ (call[r].pc # "idle") = (job[r].pc = "calling")
                      /\ Answered(r) => \A e \in Endpoints : r \notin cb[e].live
    BY DEF PlaceReturned
  <2>1. Together(route[r], call[r], job[r])
    BY Unchanged DEF IInv
  <2>2. (call[r].pc # "idle") = (job[r].pc = "calling")
    BY <2>1 DEF Together
  <2>3. Answered(r) => call[r].pc # "running"
    BY <2>2 DEF Answered, Answers
  <2>4. QED
    BY <2>2, <2>3, PlaceOf DEF IInv
<1>2. QED
  BY <1>1, Inductive, PTL

-----------------------------------------------------------------------------
(* The contract.                                                           *)

(* The step of a request changes how that request looks, and no other.     *)
OthersKeep(r) ==
  \A q \in Requests \ {r} :
     Phases'[q] = Phases[q] /\ Kinds'[q] = Kinds[q] /\ Runs'[q] = Runs[q]

LookingAs(r, t, j) ==
  /\ OthersKeep(r)
  /\ Phases[r] = PhaseOf(job[r]) /\ Phases'[r] = PhaseOf(j)
  /\ Kinds[r] = KindOf(route[r], job[r]) /\ Kinds'[r] = KindOf(t, j)
  /\ Runs[r] = Cardinality(job[r].ran) /\ Runs'[r] = Cardinality(j.ran)

LEMMA Looks ==
  ASSUME Requesting, NEW r \in Requests, NEW t, NEW j,
         route' = [route EXCEPT ![r] = t],
         job' = [job EXCEPT ![r] = j]
  PROVE  LookingAs(r, t, j)
<1>1. /\ \A q \in Requests \ {r} : route'[q] = route[q] /\ job'[q] = job[q]
      /\ route'[r] = t /\ job'[r] = j
  BY DEF Requesting
<1>2. OthersKeep(r)
  BY <1>1 DEF OthersKeep, Phases, Kinds, Runs
<1>3. QED
  BY <1>1, <1>2 DEF LookingAs, Phases, Kinds, Runs

(* A step of one request in the terms of the contract.                     *)
LEMMA Changes ==
  ASSUME NEW r \in Requests, OthersKeep(r)
  PROVE  /\ Phases' = [Phases EXCEPT ![r] = Phases'[r]]
         /\ Kinds' = [Kinds EXCEPT ![r] = Kinds'[r]]
         /\ Runs' = [Runs EXCEPT ![r] = Runs'[r]]
         /\ Phases'[r] = Phases[r] => Phases' = Phases
         /\ Kinds'[r] = Kinds[r] => Kinds' = Kinds
         /\ Runs'[r] = Runs[r] => Runs' = Runs
<1>1. /\ Phases = [q \in Requests |-> Phases[q]] /\ Phases' = [q \in Requests |-> Phases'[q]]
      /\ Kinds = [q \in Requests |-> Kinds[q]] /\ Kinds' = [q \in Requests |-> Kinds'[q]]
      /\ Runs = [q \in Requests |-> Runs[q]] /\ Runs' = [q \in Requests |-> Runs'[q]]
  BY DEF Phases, Kinds, Runs
<1>2. /\ Phases' = [Phases EXCEPT ![r] = Phases'[r]]
      /\ Phases'[r] = Phases[r] => Phases' = Phases
  BY <1>1 DEF OthersKeep
<1>3. /\ Kinds' = [Kinds EXCEPT ![r] = Kinds'[r]]
      /\ Kinds'[r] = Kinds[r] => Kinds' = Kinds
  BY <1>1 DEF OthersKeep
<1>4. /\ Runs' = [Runs EXCEPT ![r] = Runs'[r]]
      /\ Runs'[r] = Runs[r] => Runs' = Runs
  BY <1>1 DEF OthersKeep
<1>5. QED
  BY <1>2, <1>3, <1>4

(* Three kinds of step that change nothing but the phase.                  *)
LEMMA Accepted ==
  ASSUME NEW r \in Requests, OthersKeep(r), Kinds'[r] = Kinds[r], Runs'[r] = Runs[r],
         Phases[r] = "free", Phases'[r] = "open"
  PROVE  Contract!Accept(r)
BY Changes DEF Contract!Accept

LEMMA Refused ==
  ASSUME NEW r \in Requests, OthersKeep(r), Kinds'[r] = Kinds[r], Runs'[r] = Runs[r],
         Phases[r] \in {"free", "open"}, Kinds[r] = NotSent, Phases'[r] = "refused"
  PROVE  Contract!Refuse(r)
BY Changes DEF Contract!Refuse, Contract!NotSent, NotSent

LEMMA Failed ==
  ASSUME NEW r \in Requests, OthersKeep(r), Kinds'[r] = Kinds[r], Runs'[r] = Runs[r],
         Phases[r] = "open", Phases'[r] = "failed"
  PROVE  Contract!Fail(r)
BY Changes DEF Contract!Fail

(* A request that is not with its node has not been sent.                  *)
LEMMA KindAtRest ==
  ASSUME Requesting, NEW r \in Requests,
         job[r].pc \in {"free", "routing", "streaming", "unrouted", "invalid", "shed",
            "unimplemented"}
         \/ call[r].pc \in {"missing", "ready"}
  PROVE  job[r].sent = 0 /\ KindOf(route[r], job[r]) = NotSent
<1>1. Together(route[r], call[r], job[r]) /\ job[r].sent \in Nat
  BY Unchanged, BridgeAssumption DEF Together, Job, Tries, BridgeAssumption
<1>2. ~(job[r].sent > 0)
  BY <1>1 DEF Together
<1>3. QED
  BY <1>1, <1>2 DEF KindOf

(* Every step of the bridge is one of the contract, or none.               *)
LEMMA StepsContract ==
  Requesting /\ [Next]_vars => [Contract!ContractNext]_(Contract!contractVars)
<1> SUFFICES ASSUME Requesting, [Next]_vars
             PROVE  [Contract!ContractNext]_(Contract!contractVars)
  OBVIOUS
<1>1. ASSUME NEW r \in Requests, NEW target, Receive(r, target) PROVE Contract!Accept(r)
  <2> DEFINE t == [pc |-> "listed", service |-> R!parseTarget(target).service,
                   healthy |-> R!filterHealthy(registry[R!parseTarget(target).service]),
                   ep |-> NoEndpoint]
             j == [job[r] EXCEPT !.pc = "routing"]
  <2>1. route' = [route EXCEPT ![r] = t] /\ job' = [job EXCEPT ![r] = j]
    BY <1>1, Unchanged DEF Receive, R!GetServices, Step
  <2>2. PhaseOf(job[r]) = "free" /\ KindOf(route[r], job[r]) = NotSent /\ job[r].sent = 0
    BY <1>1, Unchanged, KindAtRest DEF Receive, R!GetServices, Step, Together, Answers, Busy,
       PhaseOf
  <2>3. PhaseOf(j) = "open" /\ KindOf(t, j) = KindOf(route[r], job[r]) /\ j.ran = job[r].ran
    BY <2>1, <2>2, Looks, Unchanged DEF PhaseOf, KindOf, Node, Busy, Together, Job
  <2> HIDE DEF t, j
  <2>4. LookingAs(r, t, j)
    BY <2>1, Looks
  <2>5. QED
    BY <2>2, <2>3, <2>4, Accepted DEF LookingAs
<1>2. ASSUME NEW r \in Requests, NEW target, ReceiveStream(r, target) PROVE Contract!Accept(r)
  <2> DEFINE t == [pc |-> "listed", service |-> R!parseTarget(target).service,
                   healthy |-> R!filterHealthy(registry[R!parseTarget(target).service]),
                   ep |-> NoEndpoint]
             j == [job[r] EXCEPT !.pc = "streaming"]
  <2>1. route' = [route EXCEPT ![r] = t] /\ job' = [job EXCEPT ![r] = j]
    BY <1>2, Unchanged DEF ReceiveStream, R!GetServices, Step
  <2>2. PhaseOf(job[r]) = "free" /\ KindOf(route[r], job[r]) = NotSent /\ job[r].sent = 0
    BY <1>2, Unchanged, KindAtRest DEF ReceiveStream, R!GetServices, Step, Together, Answers,
       Busy, PhaseOf
  <2>3. PhaseOf(j) = "open" /\ KindOf(t, j) = KindOf(route[r], job[r]) /\ j.ran = job[r].ran
    BY <2>1, <2>2, Looks, Unchanged DEF PhaseOf, KindOf, Node, Busy, Together, Job
  <2> HIDE DEF t, j
  <2>4. LookingAs(r, t, j)
    BY <2>1, Looks
  <2>5. QED
    BY <2>2, <2>3, <2>4, Accepted DEF LookingAs
<1>3. ASSUME NEW r \in Requests, NEW target, RouteError(r, target) PROVE Contract!Refuse(r)
  <2> DEFINE t == [R!NoRoute EXCEPT !.pc = "failed"]
             j == [job[r] EXCEPT !.pc = "unrouted", !.gone = FALSE]
  <2>1. route' = [route EXCEPT ![r] = t] /\ job' = [job EXCEPT ![r] = j]
    BY <1>3, Unchanged DEF RouteError, R!RouteFails, Answer, ChainUnaryServer,
       RecoveryInterceptor
  <2>2. PhaseOf(job[r]) = "free" /\ KindOf(route[r], job[r]) = NotSent /\ job[r].sent = 0
    BY <1>3, Unchanged, KindAtRest DEF RouteError, R!RouteFails, Answer, ChainUnaryServer,
       RecoveryInterceptor, Together, Answers, Busy, PhaseOf
  <2>3. PhaseOf(j) = "refused" /\ KindOf(t, j) = KindOf(route[r], job[r]) /\ j.ran = job[r].ran
    BY <2>1, <2>2, Looks, Unchanged DEF PhaseOf, KindOf, Node, Busy, Together, Job
  <2> HIDE DEF t, j
  <2>4. LookingAs(r, t, j)
    BY <2>1, Looks
  <2>5. QED
    BY <2>2, <2>3, <2>4, Refused DEF LookingAs
<1>4. ASSUME NEW r \in Requests, Unsupported(r) PROVE Contract!Refuse(r)
  <2> DEFINE t == route[r]
             j == [job[r] EXCEPT !.pc = "invalid", !.gone = FALSE]
  <2>1. route' = [route EXCEPT ![r] = t] /\ job' = [job EXCEPT ![r] = j]
    BY <1>4, Unchanged DEF Unsupported, routing, Answer, ChainUnaryServer, RecoveryInterceptor
  <2>2. PhaseOf(job[r]) = "open" /\ KindOf(route[r], job[r]) = NotSent /\ job[r].sent = 0
    BY <1>4, Unchanged, KindAtRest DEF Unsupported, routing, Answer, ChainUnaryServer,
       RecoveryInterceptor, Together, Answers, Busy, PhaseOf
  <2>3. PhaseOf(j) = "refused" /\ KindOf(t, j) = KindOf(route[r], job[r]) /\ j.ran = job[r].ran
    BY <2>1, <2>2, Looks, Unchanged DEF PhaseOf, KindOf, Node, Busy, Together, Job
  <2> HIDE DEF t, j
  <2>4. LookingAs(r, t, j)
    BY <2>1, Looks
  <2>5. QED
    BY <2>2, <2>3, <2>4, Refused DEF LookingAs
<1>5. ASSUME NEW r \in Requests, Shed(r) PROVE Contract!Refuse(r)
  <2> DEFINE t == route[r]
             j == [job[r] EXCEPT !.pc = "shed", !.gone = FALSE]
  <2>1. route' = [route EXCEPT ![r] = t] /\ job' = [job EXCEPT ![r] = j]
    BY <1>5, Unchanged DEF Shed, B!Reject, routing, Answer, ChainUnaryServer,
       RecoveryInterceptor
  <2>2. PhaseOf(job[r]) = "open" /\ KindOf(route[r], job[r]) = NotSent /\ job[r].sent = 0
    BY <1>5, Unchanged, KindAtRest DEF Shed, B!Reject, routing, Answer, ChainUnaryServer,
       RecoveryInterceptor, Together, Answers, Busy, PhaseOf
  <2>3. PhaseOf(j) = "refused" /\ KindOf(t, j) = KindOf(route[r], job[r]) /\ j.ran = job[r].ran
    BY <2>1, <2>2, Looks, Unchanged DEF PhaseOf, KindOf, Node, Busy, Together, Job
  <2> HIDE DEF t, j
  <2>4. LookingAs(r, t, j)
    BY <2>1, Looks
  <2>5. QED
    BY <2>2, <2>3, <2>4, Refused DEF LookingAs
<1>6. ASSUME NEW r \in Requests, Unimplemented(r) PROVE Contract!Refuse(r)
  <2> DEFINE t == route[r]
             j == [job[r] EXCEPT !.pc = "unimplemented", !.gone = FALSE]
  <2>1. route' = [route EXCEPT ![r] = t] /\ job' = [job EXCEPT ![r] = j]
    BY <1>6, Unchanged DEF Unimplemented, routing, Answer, ChainUnaryServer, RecoveryInterceptor
  <2>2. PhaseOf(job[r]) = "open" /\ KindOf(route[r], job[r]) = NotSent /\ job[r].sent = 0
    BY <1>6, Unchanged, KindAtRest DEF Unimplemented, routing, Answer, ChainUnaryServer,
       RecoveryInterceptor, Together, Answers, Busy, PhaseOf
  <2>3. PhaseOf(j) = "refused" /\ KindOf(t, j) = KindOf(route[r], job[r]) /\ j.ran = job[r].ran
    BY <2>1, <2>2, Looks, Unchanged DEF PhaseOf, KindOf, Node, Busy, Together, Job
  <2> HIDE DEF t, j
  <2>4. LookingAs(r, t, j)
    BY <2>1, Looks
  <2>5. QED
    BY <2>2, <2>3, <2>4, Refused DEF LookingAs
<1>7. ASSUME NEW r \in Requests, CallFails(r) PROVE Contract!Fail(r)
  <2> DEFINE t == route[r]
             j == [job[r] EXCEPT !.pc = "unavailable", !.gone = FALSE]
  <2>1. route' = [route EXCEPT ![r] = t] /\ job' = [job EXCEPT ![r] = j]
    BY <1>7, Unchanged DEF CallFails, B!AfterRequest, routing, Answer, ChainUnaryServer,
       RecoveryInterceptor
  <2>2. PhaseOf(job[r]) = "open"
    BY <1>7, Unchanged DEF CallFails, Running, B!AfterRequest, routing, Answer,
       ChainUnaryServer, RecoveryInterceptor, Together, Answers, Busy, PhaseOf
  <2>3. PhaseOf(j) = "failed" /\ KindOf(t, j) = KindOf(route[r], job[r]) /\ j.ran = job[r].ran
    BY <2>1, <2>2, Looks, Unchanged DEF PhaseOf, KindOf, Node, Busy, Together, Job
  <2> HIDE DEF t, j
  <2>4. LookingAs(r, t, j)
    BY <2>1, Looks
  <2>5. QED
    BY <2>2, <2>3, <2>4, Failed DEF LookingAs
<1>8. ASSUME NEW r \in Requests, Panic(r) PROVE Contract!Fail(r)
  <2> DEFINE t == route[r]
             j == [job[r] EXCEPT !.pc = "internal", !.gone = FALSE]
  <2>1. route' = [route EXCEPT ![r] = t] /\ job' = [job EXCEPT ![r] = j]
    BY <1>8, Unchanged DEF Panic, B!AfterRequest, routing, Answer, ChainUnaryServer,
       RecoveryInterceptor
  <2>2. PhaseOf(job[r]) = "open"
    BY <1>8, Unchanged DEF Panic, Running, B!AfterRequest, routing, Answer, ChainUnaryServer,
       RecoveryInterceptor, Together, Answers, Busy, PhaseOf
  <2>3. PhaseOf(j) = "failed" /\ KindOf(t, j) = KindOf(route[r], job[r]) /\ j.ran = job[r].ran
    BY <2>1, <2>2, Looks, Unchanged DEF PhaseOf, KindOf, Node, Busy, Together, Job
  <2> HIDE DEF t, j
  <2>4. LookingAs(r, t, j)
    BY <2>1, Looks
  <2>5. QED
    BY <2>2, <2>3, <2>4, Failed DEF LookingAs
<1>9. ASSUME NEW r \in Requests, Pick(r) PROVE UNCHANGED Contract!contractVars
  <2> DEFINE t == [route[r] EXCEPT !.pc = "routed", !.ep = R!Select(route[r].healthy, counter)]
             j == job[r]
  <2>1. route' = [route EXCEPT ![r] = t] /\ job' = [job EXCEPT ![r] = j]
    BY <1>9, Unchanged DEF Pick, R!Pick
  <2>2. PhaseOf(j) = PhaseOf(job[r]) /\ KindOf(t, j) = KindOf(route[r],
     job[r]) /\ j.ran = job[r].ran
    BY <1>9, <2>1, Looks, Unchanged, KindAtRest DEF Pick, R!Pick, PhaseOf, KindOf, Node, Busy,
       Answers, Together, Job
  <2> HIDE DEF t, j
  <2>3. LookingAs(r, t, j)
    BY <2>1, Looks
  <2>4. QED
    BY <2>2, <2>3, Changes DEF LookingAs, Contract!contractVars
<1>10. ASSUME NEW r \in Requests, NEW ms, GetBreaker(r, ms)
       PROVE UNCHANGED Contract!contractVars
  <2> DEFINE t == route[r]
             j == [job[r] EXCEPT !.pc = "calling", !.gone = @ \/ CallTimeout(ms) = 0]
  <2>1. route' = [route EXCEPT ![r] = t] /\ job' = [job EXCEPT ![r] = j]
    BY <1>10, Unchanged DEF GetBreaker, routing
  <2>2. PhaseOf(j) = PhaseOf(job[r]) /\ KindOf(t, j) = KindOf(route[r],
     job[r]) /\ j.ran = job[r].ran
    BY <1>10, <2>1, Looks, Unchanged DEF GetBreaker, routing, PhaseOf, KindOf, Node, Busy,
       Answers, Together, Job
  <2> HIDE DEF t, j
  <2>3. LookingAs(r, t, j)
    BY <2>1, Looks
  <2>4. QED
    BY <2>2, <2>3, Changes DEF LookingAs, Contract!contractVars
<1>11. ASSUME NEW r \in Requests, HangUp(r) PROVE UNCHANGED Contract!contractVars
  <2> DEFINE t == route[r]
             j == [job[r] EXCEPT !.gone = TRUE]
  <2>1. route' = [route EXCEPT ![r] = t] /\ job' = [job EXCEPT ![r] = j]
    BY <1>11, Unchanged DEF HangUp, routing
  <2>2. PhaseOf(j) = PhaseOf(job[r]) /\ KindOf(t, j) = KindOf(route[r],
     job[r]) /\ j.ran = job[r].ran
    BY <1>11, <2>1, Looks, Unchanged DEF HangUp, routing, PhaseOf, KindOf, Node, Busy,
       Answers, Together, Job
  <2> HIDE DEF t, j
  <2>3. LookingAs(r, t, j)
    BY <2>1, Looks
  <2>4. QED
    BY <2>2, <2>3, Changes DEF LookingAs, Contract!contractVars
<1>12. ASSUME NEW r \in Requests, Send(r)
       PROVE  [\E k \in {Once, Retried} : Contract!Dispatch(r, k)]_(Contract!contractVars)
  <2> DEFINE t == route[r]
             j == [job[r] EXCEPT !.sent = @ + 1]
  <2>1. route' = [route EXCEPT ![r] = t] /\ job' = [job EXCEPT ![r] = j]
    BY <1>12, Unchanged DEF Send, routing
  <2>2. Together(route[r], call[r], job[r])
    BY Unchanged
  <2>3. job[r].sent \in Nat /\ job[r].pc = "calling"
    BY <1>12, <2>2, BridgeAssumption DEF Send, Running, Together, Job, Tries, BridgeAssumption
  <2>4. j.sent = job[r].sent + 1 /\ j.pc = job[r].pc /\ j.ran = job[r].ran
    BY <2>2 DEF Together, Job
  <2>5. PhaseOf(job[r]) = "open" /\ PhaseOf(j) = PhaseOf(job[r])
    BY <2>3, <2>4 DEF PhaseOf, Busy
  <2>6. KindOf(t, j) = IF Node(r).protocol = "HTTP" THEN Retried ELSE Once
    BY <2>3, <2>4 DEF KindOf, Node
  <2> HIDE DEF t, j
  <2>7. LookingAs(r, t, j)
    BY <2>1, Looks
  <2>8. CASE job[r].sent = 0
    <3>1. KindOf(route[r], job[r]) = NotSent
      BY <2>8 DEF KindOf
    <3>2. Contract!Dispatch(r, KindOf(t, j))
      BY <2>7, <2>4, <2>5, <3>1, Changes
         DEF LookingAs, Contract!Dispatch, Contract!NotSent, NotSent
    <3>3. KindOf(t, j) \in {Once, Retried}
      BY <2>6
    <3>4. QED
      BY <3>2, <3>3
  <2>9. CASE job[r].sent # 0
    <3>1. KindOf(t, j) = KindOf(route[r], job[r])
      BY <2>6, <2>9 DEF KindOf, Node
    <3>2. QED
      BY <2>7, <2>4, <2>5, <3>1, Changes DEF LookingAs, Contract!contractVars
  <2>10. QED
    BY <2>8, <2>9
<1>13. ASSUME NEW r \in Requests, NEW try, NodeRuns(r, try) PROVE Contract!Perform(r)
  <2> DEFINE t == route[r]
             j == [job[r] EXCEPT !.ran = @ \cup {try}]
  <2>1. route' = [route EXCEPT ![r] = t] /\ job' = [job EXCEPT ![r] = j]
    BY <1>13, Unchanged DEF NodeRuns, routing
  <2>2. Together(route[r], call[r], job[r])
    BY Unchanged
  <2>3. /\ job[r].sent \in Nat /\ try \in 1 .. job[r].sent
        /\ try \notin job[r].ran /\ job[r].ran \subseteq 1 .. job[r].sent
    BY <1>13, <2>2, BridgeAssumption DEF NodeRuns, Together, Job, Tries, BridgeAssumption
  <2>4. j.sent = job[r].sent /\ j.pc = job[r].pc /\ j.ran = job[r].ran \cup {try}
    BY <2>2 DEF Together, Job
  <2>5. PhaseOf(j) = PhaseOf(job[r]) /\ KindOf(t, j) = KindOf(route[r], job[r])
    BY <2>4 DEF PhaseOf, KindOf
  <2>6. IsFiniteSet(1 .. job[r].sent) /\ Cardinality(1 .. job[r].sent) = job[r].sent
    <3> DEFINE n == job[r].sent
    <3>1. n \in Int /\ 1 \in Int /\ n >= 0
      BY <2>3
    <3> HIDE DEF n
    <3>2. IsFiniteSet(1 .. n) /\ Cardinality(1 .. n) = n
      BY <3>1, FS_Interval
    <3>3. QED
      BY <3>2 DEF n
  <2>7. IsFiniteSet(job[r].ran) /\ Cardinality(job[r].ran) \in Nat
    BY <2>3, <2>6, FS_Subset, FS_CardinalityType
  <2>8. /\ Cardinality(j.ran) = Cardinality(job[r].ran) + 1
        /\ IsFiniteSet(j.ran)
    BY <2>3, <2>4, <2>7, FS_AddElement
  <2>9. Cardinality(j.ran) <= job[r].sent
    <3>1. j.ran \subseteq 1 .. job[r].sent
      BY <2>3, <2>4
    <3>2. QED
      BY <3>1, <2>6, FS_Subset
  <2> HIDE DEF t, j
  <2>10. LookingAs(r, t, j)
    BY <2>1, Looks
  <2>11. job[r].sent <= Kinds[r].limit
    <3>1. job[r].sent > 0
      BY <2>3
    <3>2. job[r].sent <= IF route[r].ep.protocol = "HTTP" THEN 1 + RetryCount ELSE 1
      BY <2>2, <3>1 DEF Together
    <3>3. Kinds[r] = IF route[r].ep.protocol = "HTTP" THEN Retried ELSE Once
      BY <2>10, <2>3, <3>1 DEF LookingAs, KindOf
    <3>4. QED
      BY <3>2, <3>3 DEF Retried, Once
  <2>12. Kinds[r].limit \in Nat
    BY <2>10, BridgeAssumption
       DEF LookingAs, KindOf, NotSent, Once, Retried, BridgeAssumption
  <2>13. Cardinality(job[r].ran) < Kinds[r].limit
    BY <2>3, <2>7, <2>8, <2>9, <2>11, <2>12
  <2>14. QED
    BY <2>10, <2>5, <2>8, <2>13, Changes DEF LookingAs, Contract!Perform
<1>14. ASSUME NEW r \in Requests, Reply(r) PROVE Contract!Succeed(r)
  <2> DEFINE t == route[r]
             j == [job[r] EXCEPT !.pc = "ok", !.gone = FALSE]
  <2>1. route' = [route EXCEPT ![r] = t] /\ job' = [job EXCEPT ![r] = j]
    BY <1>14, Unchanged DEF Reply, routing, Answer, ChainUnaryServer, RecoveryInterceptor
  <2>2. Together(route[r], call[r], job[r])
    BY Unchanged
  <2>3. /\ job[r].sent \in Nat /\ job[r].sent > 0 /\ job[r].pc = "calling"
        /\ Node(r).protocol = "GRPC" => job[r].sent \in job[r].ran
    BY <1>14, <2>2, BridgeAssumption DEF Reply, Running, Together, Job, Tries, BridgeAssumption
  <2>4. j.sent = job[r].sent /\ j.pc = "ok" /\ j.ran = job[r].ran
    BY <2>2 DEF Together, Job
  <2>5. PhaseOf(job[r]) = "open" /\ PhaseOf(j) = "ok" /\ KindOf(t, j) = KindOf(route[r], job[r])
    BY <2>3, <2>4 DEF PhaseOf, KindOf, Busy
  <2> HIDE DEF t, j
  <2>6. LookingAs(r, t, j)
    BY <2>1, Looks
  <2>7. CASE Node(r).protocol = "HTTP"
    <3>1. KindOf(route[r], job[r]) = Retried
      BY <2>3, <2>7 DEF KindOf, Node
    <3>2. QED
      BY <2>6, <2>4, <2>5, <3>1, Changes DEF LookingAs, Contract!Succeed, Retried
  <2>8. CASE Node(r).protocol = "GRPC"
    <3>1. KindOf(route[r], job[r]) = Once
      BY <2>3, <2>8 DEF KindOf, Node
    <3>2. job[r].sent = 1
      BY <2>2, <2>3, <2>8 DEF Together, Node
    <3>3. job[r].ran = {1}
      BY <2>2, <2>3, <2>8, <3>2 DEF Together
    <3>4. Cardinality(job[r].ran) = 1
      BY <3>3, FS_Singleton
    <3>5. QED
      BY <2>6, <2>4, <2>5, <3>1, <3>4, Changes DEF LookingAs, Contract!Succeed
  <2>9. QED
    BY <2>2, <2>3, <2>7, <2>8 DEF Together, Factory, Node
<1>15. ASSUME NEW r \in Requests, Return(r) PROVE Contract!Forget(r)
  <2> DEFINE t == R!NoRoute
             j == NoJob
  <2>1. route' = [route EXCEPT ![r] = t] /\ job' = [job EXCEPT ![r] = j]
    BY <1>15, Unchanged DEF Return, R!Leave
  <2>2. PhaseOf(job[r]) \in {"ok", "failed", "refused"}
    BY <1>15 DEF Return, Answered, Answers, PhaseOf, Busy
  <2>3. PhaseOf(j) = "free" /\ KindOf(t, j) = NotSent /\ j.ran = {}
    BY DEF PhaseOf, KindOf, NoJob, Busy
  <2>4. Cardinality(j.ran) = 0
    BY <2>3, FS_EmptySet
  <2> HIDE DEF t, j
  <2>5. LookingAs(r, t, j)
    BY <2>1, Looks
  <2>6. QED
    BY <2>2, <2>3, <2>4, <2>5, Changes
       DEF LookingAs, Contract!Forget, Contract!NotSent, NotSent
<1>16. CASE UNCHANGED <<route, job>>
  BY <1>16 DEF Contract!contractVars, Phases, Kinds, Runs
<1>17. QED
  BY <1>1, <1>2, <1>3, <1>4, <1>5, <1>6, <1>7, <1>8, <1>9, <1>10, <1>11, <1>12, <1>13, <1>14,
     <1>15, <1>16
     DEF Next, StoreBreaker, Admit, Publish, R!Publish, Tick, routing, vars,
        Contract!ContractNext

(* The answers mean what RequestContract says (server.go:74-137): whatever *)
(* requests, nodes and breakers do, one that was refused never ran, one    *)
(* sent over gRPC ran at most once, and one that succeeded over gRPC did.  *)
THEOREM BridgeKeepsContract == Spec => KeepsContract
<1>1. Init => Contract!ContractInit
  BY FS_EmptySet DEF Init, R!RouterInit, NoJob, Busy, Contract!ContractInit, Phases, Kinds,
     Runs, PhaseOf, KindOf, Contract!NotSent, NotSent
<1>2. IInv /\ [Next]_vars => [Contract!ContractNext]_(Contract!contractVars)
  BY StepsContract DEF IInv
<1>3. QED
  BY <1>1, <1>2, Inductive, PTL DEF Spec, KeepsContract, Contract!ContractSpec

-----------------------------------------------------------------------------
(* The parts: what is proved of the router and of the breakers by          *)
(* themselves holds of the bridge they are put together in.                *)
RP == INSTANCE RouterProofs WITH
  Targets <- UNION {Sends[r] : r \in Requests}, MaxPicks <- 0, picks <- <<>>
BP == INSTANCE CircuitBreakerProofs WITH Calls <- Requests
CP == INSTANCE RequestContractProofs WITH
  Sendings <- {Once, Retried}, phase <- Phases, kind <- Kinds, runs <- Runs

LEMMA RouterAssumes == RP!WidthAssumption /\ RP!ListingAssumption
BY RoutingAssumption DEF RP!WidthAssumption, RP!ListingAssumption, RP!Range, RP!IsInjective

LEMMA BreakerAssumes == BP!BreakerAssumption
<1>1. None \notin Requests /\ None \notin Endpoints /\ IsFiniteSet(Requests)
  BY BreakingAssumption
<1>2. /\ HalfOpenMax \in Nat /\ Interval \in Nat /\ Timeout \in Nat /\ FailureNum \in Nat
      /\ MaxWindow \in Nat /\ DefaultTimeout \in Nat \ {0} /\ FailureDen \in Nat \ {0}
  BY BreakingAssumption
<1>3. QED
  BY <1>1, <1>2 DEF BP!BreakerAssumption, BP!IsFiniteSet, IsFiniteSet

LEMMA SameFilter ==
  ASSUME NEW nodes
  PROVE  R!filterHealthy(nodes) = RP!filterHealthy(nodes)
BY DEF R!filterHealthy, RP!filterHealthy

LEMMA SameBalancer ==
  ASSUME NEW nodes, NEW c
  PROVE  /\ R!Select(nodes, c) = RP!Select(nodes, c)
         /\ R!NextCounter(nodes, c) = RP!NextCounter(nodes, c)
BY DEF R!Select, RP!Select, R!TotalWeight, RP!TotalWeight,
       R!RunningWeight, RP!RunningWeight, R!NextCounter, RP!NextCounter

(* Every step of the bridge is a step of its router, or none.              *)
LEMMA StepsRouter == [Next]_vars => [RP!RouterNext]_(RP!routerVars)
<1> DEFINE Targets == UNION {Sends[r] : r \in Requests}
<1>1. ASSUME NEW r \in Requests, NEW target \in Sends[r], R!GetServices(r, target)
      PROVE  RP!RouterNext
  <2>1. target \in Targets /\ RP!GetServices(r, target)
    BY <1>1, SameFilter
       DEF R!GetServices, RP!GetServices, R!parseTarget, RP!parseTarget, R!Known, RP!Known
  <2>2. QED
    BY <2>1 DEF RP!RouterNext
<1>2. ASSUME NEW r \in Requests, NEW target \in Sends[r], R!RouteFails(r, target)
      PROVE  RP!RouterNext
  <2>1. target \in Targets /\ RP!RouteFails(r, target)
    BY <1>2 DEF R!RouteFails, RP!RouteFails, R!NoRoute, RP!NoRoute
  <2>2. QED
    BY <2>1 DEF RP!RouterNext
<1>3. ASSUME NEW r \in Requests, R!Pick(r)
      PROVE  RP!RouterNext
  BY <1>3, SameBalancer DEF R!Pick, RP!Pick, RP!RouterNext
<1>4. ASSUME NEW r \in Requests, R!Leave(r)
      PROVE  RP!RouterNext
  BY <1>4 DEF R!Leave, RP!Leave, R!NoRoute, RP!NoRoute, RP!RouterNext
<1>5. ASSUME NEW s \in DOMAIN Listings, NEW listing \in Listings[s], R!Publish(s, listing)
      PROVE  RP!RouterNext
  BY <1>5 DEF R!Publish, RP!Publish, RP!RouterNext
<1>6. CASE UNCHANGED routing
  BY <1>6 DEF routing, RP!routerVars
<1>7. QED
  BY <1>1, <1>2, <1>3, <1>4, <1>5, <1>6
     DEF Next, Receive, RouteError, Pick, Unsupported, GetBreaker, StoreBreaker, Admit, Shed,
         Send, NodeRuns, Reply, CallFails, Panic, ReceiveStream, Unimplemented, HangUp, Return,
         Publish, Tick, vars, routing

LEMMA RouterInductive == Spec => []RP!RouterInv
<1>1. Init => RP!RouterInit
  BY DEF Init, R!RouterInit, RP!RouterInit, R!NoRoute, RP!NoRoute
<1>2. RP!RouterInit => RP!RouterInv
  BY RouterAssumes, RP!RouterInitInv
<1>3. RP!RouterInv /\ [RP!RouterNext]_(RP!routerVars) => RP!RouterInv'
  BY RouterAssumes, RP!RouterStepInv
<1>4. QED
  BY <1>1, <1>2, <1>3, StepsRouter, PTL DEF Spec

(* A breaker is asked only for an address that discovery has listed.       *)
LEMMA NodeHasAddress ==
  ASSUME RP!RouterInv, NEW r \in Requests, route[r].pc = "routed"
  PROVE  Node(r).addr \in Endpoints
<1>1. /\ RP!Snapshot(route[r].service, route[r].healthy)
      /\ route[r].ep \in RP!Range(route[r].healthy)
  BY DEF RP!RouterInv, RP!SoundRoute
<1>2. PICK listing \in Listings[route[r].service] : route[r].ep \in RP!Range(listing)
  BY <1>1, RouterAssumes, RP!Snapshots
<1>3. QED
  BY <1>1, <1>2, RoutingAssumption DEF RP!Snapshot, RP!Range, Node

LEMMA StepsBreaker == RP!RouterInv /\ [Next]_vars => [B!Next]_(B!vars)
<1> SUFFICES ASSUME RP!RouterInv, [Next]_vars PROVE [B!Next]_(B!vars)
  OBVIOUS
<1>1. ASSUME NEW r \in Requests, NEW ms, GetBreaker(r, ms) PROVE B!Next
  BY <1>1, NodeHasAddress DEF GetBreaker, B!Next
<1>2. ASSUME NEW r \in Requests, B!AfterRequest(r, TRUE) \/ B!AfterRequest(r, FALSE)
      PROVE B!Next
  BY <1>2 DEF B!Next
<1>3. ASSUME NEW r \in Requests, B!LoadOrStore(r) \/ B!Admit(r) \/ B!Reject(r) PROVE B!Next
  BY <1>3 DEF B!Next
<1>4. CASE B!Tick
  BY <1>4 DEF B!Next
<1>5. CASE UNCHANGED breaking
  BY <1>5 DEF breaking, B!vars
<1>6. QED
  BY <1>1, <1>2, <1>3, <1>4, <1>5
     DEF Next, Receive, RouteError, Pick, Unsupported, StoreBreaker, Admit, Shed,
         Send, NodeRuns, Reply, CallFails, Panic, ReceiveStream, Unimplemented, HangUp, Return,
         Publish, Tick, vars

(* CallUnary drives every breaker as CircuitBreakerManager.Execute does    *)
(* (server.go:95-137): what is true of breakers by themselves is true of   *)
(* them in the bridge.                                                     *)
THEOREM BridgeUsesBreaker == Spec => UsesBreaker
<1>1. Init => B!Init
  BY DEF Init
<1>2. QED
  BY <1>1, RouterInductive, StepsBreaker, PTL DEF Spec, UsesBreaker, B!Spec

LEMMA SameBreakers ==
  /\ B!Spec <=> BP!Spec
  /\ BP!SharedBreaker <=> B!SharedBreaker
  /\ BP!Accounting <=> B!Accounting
  /\ BP!Shielded <=> B!Shielded
  /\ BP!NeverWedged <=> B!NeverWedged
<1>1. B!Init <=> BP!Init
  BY DEF B!Init, BP!Init, B!Idle, BP!Idle, B!Cleared, BP!Cleared, B!Never, BP!Never
<1>2. [B!Next]_(B!vars) <=> [BP!Next]_(BP!vars)
  BY DEF B!Next, BP!Next, B!vars, BP!vars, B!Load, BP!Load, B!LoadOrStore, BP!LoadOrStore,
         B!Admit, BP!Admit, B!Reject, BP!Reject, B!AfterRequest, BP!AfterRequest,
         B!Tick, BP!Tick, B!CurrentState, BP!CurrentState, B!Result, BP!Result,
         B!OnRequest, BP!OnRequest, B!OnSuccess, BP!OnSuccess, B!OnFailure, BP!OnFailure,
         B!Rejects, BP!Rejects, B!NewGeneration, BP!NewGeneration, B!Cleared, BP!Cleared,
         B!ReadyToTrip, BP!ReadyToTrip, B!Idle, BP!Idle, B!MaxRequests, BP!MaxRequests,
         B!OpenPeriod, BP!OpenPeriod, B!ClosedPeriod, BP!ClosedPeriod, B!Never, BP!Never,
         B!MinRequests, BP!MinRequests
<1>3. B!Spec <=> BP!Spec
  BY <1>1, <1>2, PTL DEF B!Spec, BP!Spec
<1>4. BP!SharedBreaker <=> B!SharedBreaker
  BY DEF BP!SharedBreaker, B!SharedBreaker
<1>5. (BP!Accounting <=> B!Accounting) /\ (BP!Shielded <=> B!Shielded)
  BY DEF BP!Accounting, B!Accounting, BP!Shielded, B!Shielded, BP!MaxRequests, B!MaxRequests,
         BP!Cardinality, B!Cardinality, BP!IsFiniteSet, B!IsFiniteSet
<1>6. BP!NeverWedged <=> B!NeverWedged
  BY DEF BP!NeverWedged, B!NeverWedged, BP!Rejects, B!Rejects, BP!MaxRequests, B!MaxRequests
<1>7. QED
  BY <1>3, <1>4, <1>5, <1>6

(* A call is sent, and counted, to a node that its service listed, and     *)
(* that was healthy in that listing (router.go:70-87).                     *)
THEOREM BridgeRoutesToHealthy ==
  Spec => [](\A r \in Requests : route[r].pc = "routed" =>
               /\ route[r].service \in DOMAIN Listings /\ Node(r).healthy
               /\ \E listing \in Listings[route[r].service] :
                    \E i \in DOMAIN listing : listing[i] = Node(r))
<1> DEFINE Healthy(r) ==
             /\ route[r].service \in DOMAIN Listings /\ Node(r).healthy
             /\ \E listing \in Listings[route[r].service] :
                  \E i \in DOMAIN listing : listing[i] = Node(r)
<1>1. ASSUME RP!RouterInv, NEW r \in Requests, route[r].pc = "routed" PROVE Healthy(r)
  <2>1. /\ RP!Snapshot(route[r].service, route[r].healthy)
        /\ route[r].ep \in RP!Range(route[r].healthy)
    BY <1>1 DEF RP!RouterInv, RP!SoundRoute
  <2>2. /\ route[r].ep.healthy
        /\ \E listing \in Listings[route[r].service] : route[r].ep \in RP!Range(listing)
    BY <2>1, RouterAssumes, RP!Snapshots
  <2>3. QED
    BY <2>1, <2>2 DEF RP!Snapshot, RP!Range, Node
<1>2. RP!RouterInv => \A r \in Requests : route[r].pc = "routed" => Healthy(r)
  BY <1>1
<1>3. QED
  BY <1>2, RouterInductive, PTL

(* In the bridge, whatever its callers and nodes do, the calls of a node   *)
(* share one breaker, its counts add up, tripped it shields the node, and  *)
(* half-open it waits for no probe that nobody runs (circuit.go:30-75).    *)
THEOREM BridgeBreakers ==
  Spec => [](B!SharedBreaker /\ B!Accounting /\ B!Shielded /\ B!NeverWedged)
<1>1. /\ BP!Spec => []BP!SharedBreaker
      /\ BP!Spec => []BP!Accounting
      /\ BP!Spec => []BP!Shielded
      /\ BP!Spec => []BP!NeverWedged
  BY BreakerAssumes, BP!OneBreaker, BP!CountsAddUp, BP!TrippedShields, BP!HalfOpenAdmits
<1>2. Spec => BP!Spec
  BY BridgeUsesBreaker, SameBreakers DEF UsesBreaker
<1>3. QED
  BY <1>1, <1>2, SameBreakers, PTL

(* A request the bridge refused has never run; one over gRPC has run at    *)
(* most once, and exactly once when it is reported as done; and one over   *)
(* HTTP no more often than it is tried (server.go:74-137, http.go:27).     *)
THEOREM BridgeIsHonest == Spec => []Contract!Honest
<1>1. {Once, Retried} \subseteq [limit : Nat, sure : BOOLEAN]
  BY BridgeAssumption DEF BridgeAssumption, Once, Retried
<1>2. CP!ContractSpec => []CP!Honest
  BY <1>1, CP!AnswersAreHonest
<1>3. Contract!ContractSpec <=> CP!ContractSpec
  <2>1. Contract!ContractInit <=> CP!ContractInit
    BY DEF Contract!ContractInit, CP!ContractInit, Contract!NotSent, CP!NotSent
  <2>2. [Contract!ContractNext]_(Contract!contractVars) <=> [CP!ContractNext]_(CP!contractVars)
    BY DEF Contract!ContractNext, CP!ContractNext, Contract!contractVars, CP!contractVars,
           Contract!Accept, CP!Accept, Contract!Dispatch, CP!Dispatch,
           Contract!Perform, CP!Perform, Contract!Succeed, CP!Succeed,
           Contract!Fail, CP!Fail, Contract!Refuse, CP!Refuse, Contract!Forget, CP!Forget,
           Contract!NotSent, CP!NotSent
  <2>3. QED
    BY <2>1, <2>2, PTL DEF Contract!ContractSpec, CP!ContractSpec
<1>4. CP!Honest <=> Contract!Honest
  BY DEF CP!Honest, Contract!Honest
<1>5. QED
  BY <1>2, <1>3, <1>4, BridgeKeepsContract, PTL DEF KeepsContract
=============================================================================
