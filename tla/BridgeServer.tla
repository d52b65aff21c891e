----------------------------- MODULE BridgeServer -----------------------------
(* The handlers of internal/server/server.go, end to end.  CallUnary: the  *)
(* router, the breaker of the node it selects, the protocol handler, the   *)
(* downstream node and the caller, who may hang up at any time; CallStream *)
(* routes and goes no further.  Every slot of Requests is a goroutine of   *)
(* the gRPC server handling one request after the other.  Router and       *)
(* CircuitBreaker are composed: their actions are steps of the handler.    *)
EXTENDS Integers, FiniteSets, Sequences

CONSTANTS
  Requests, Listings, NoEndpoint, WeightMod, CounterMod,
  Endpoints, None, HalfOpenMax, Interval, Timeout, DefaultTimeout,
  FailureNum, FailureDen, MaxWindow,
  Sends,              \* slot -> the targets its requests name
  TimeoutsMs,         \* timeout_ms of the requests, 0 for none
  DefaultCallTimeout, \* protocols.default_timeout, 0 where it is left out
  RetryCount          \* SetRetryCount of the HTTP client: retries after a try

ASSUME BridgeAssumption == RetryCount \in Nat

(* What the router and the breakers assume of their constants; and every   *)
(* address that discovery may list is a key of the breaker manager.        *)
ASSUME RoutingAssumption ==
  /\ WeightMod \in Nat \ {0} /\ CounterMod \in Nat \ {0}
  /\ \A s \in DOMAIN Listings : \A listing \in Listings[s] :
       LET nodes == {listing[i] : i \in DOMAIN listing}
       IN  /\ listing \in Seq(nodes)
           /\ \A i, j \in DOMAIN listing : listing[i] = listing[j] => i = j
           /\ \A ep \in nodes : /\ ep.weight \in 0 .. WeightMod - 1
                                 /\ ep.healthy \in BOOLEAN
                                 /\ ep.addr \in Endpoints

ASSUME BreakingAssumption ==
  /\ None \notin Requests \cup Endpoints /\ IsFiniteSet(Requests)
  /\ {HalfOpenMax, Interval, Timeout, FailureNum, MaxWindow} \subseteq Nat
  /\ {DefaultTimeout, FailureDen} \subseteq Nat \ {0}

VARIABLES
  registry, counter, route,      \* the router's
  breakers, cb, call,            \* the breaker manager's
  job                            \* the requests

routing == <<registry, counter, route>>
breaking == <<breakers, cb, call>>
vars == <<routing, breaking, job>>

R == INSTANCE Router WITH Targets <- UNION {Sends[r] : r \in Requests}
B == INSTANCE CircuitBreaker WITH Calls <- Requests

(* sent: copies handed to the network; ran: those the node has run; gone:  *)
(* the context of the call is over, the caller's or its own.               *)
Answers == {"ok", "unavailable", "shed", "unrouted", "invalid", "internal",
            "unimplemented"}
Tries == 1 .. 1 + RetryCount
Busy == {"routing", "calling", "streaming"}
Job == [pc : {"free"} \cup Busy \cup Answers,
        sent : {0} \cup Tries, ran : SUBSET Tries, gone : BOOLEAN]
NoJob == [pc |-> "free", sent |-> 0, ran |-> {}, gone |-> FALSE]

Node(r) == route[r].ep
Answered(r) == job[r].pc \in Answers
Running(r) == call[r].pc = "running"

Step(r, pc) == job' = [job EXCEPT ![r].pc = pc]

(* The interceptors around CallUnary: recovery turns a panic into an error; *)
(* the chain has it outside logging, which hands on what it gets.           *)
RecoveryInterceptor(handled) == IF handled = "panic" THEN "internal" ELSE handled
ChainUnaryServer(handled) == RecoveryInterceptor(handled)

Answer(r, handled) ==
  job' = [job EXCEPT ![r] = [@ EXCEPT !.pc = ChainUnaryServer(handled), !.gone = FALSE]]

Init ==
  /\ R!RouterInit
  /\ B!Init
  /\ job = [r \in Requests |-> NoJob]

-----------------------------------------------------------------------------
(* CallUnary, in its order.                                                *)

Receive(r, target) ==
  /\ job[r].pc = "free"
  /\ R!GetServices(r, target)
  /\ Step(r, "routing")
  /\ UNCHANGED breaking

RouteError(r, target) ==
  /\ job[r].pc = "free"
  /\ R!RouteFails(r, target)
  /\ Answer(r, "unrouted")
  /\ UNCHANGED breaking

Pick(r) ==
  /\ R!Pick(r)
  /\ UNCHANGED <<breaking, job>>

(* protocol.Factory goes by the node's protocol, not by the request's.     *)
Factory(protocol) == protocol \in {"GRPC", "HTTP"}

Unsupported(r) ==
  /\ job[r].pc = "routing"
  /\ route[r].pc = "routed"
  /\ ~Factory(Node(r).protocol)
  /\ Answer(r, "invalid")
  /\ UNCHANGED <<routing, breaking>>

(* The timeout of the call; a context with no time is over as it is made.  *)
CallTimeout(ms) == IF ms = 0 THEN DefaultCallTimeout ELSE ms

(* callCtx, and breakerMgr.Execute: Get ...                                *)
GetBreaker(r, ms) ==
  /\ job[r].pc = "routing"
  /\ route[r].pc = "routed"
  /\ Factory(Node(r).protocol)
  /\ B!Load(r, Node(r).addr)
  /\ job' = [job EXCEPT ![r] = [job[r] EXCEPT !.pc = "calling",
                                               !.gone = @ \/ CallTimeout(ms) = 0]]
  /\ UNCHANGED routing

StoreBreaker(r) ==
  /\ B!LoadOrStore(r)
  /\ UNCHANGED <<routing, job>>

(* ... and the breaker's verdict.                                          *)
Admit(r) ==
  /\ B!Admit(r)
  /\ UNCHANGED <<routing, job>>

Shed(r) ==
  /\ B!Reject(r)
  /\ Answer(r, "shed")
  /\ UNCHANGED routing

(* handler.Call: one Invoke over gRPC; over HTTP a POST that the client    *)
(* repeats after a failed try, unless the context is done.                 *)
Limit(r) == IF Node(r).protocol = "HTTP" THEN 1 + RetryCount ELSE 1

(* MISTAKE: the try that fails is not counted.                             *)
SendOnceMore(r) ==
  /\ Running(r)
  /\ ~job[r].gone
  /\ job[r].sent <= Limit(r)
  /\ job' = [job EXCEPT ![r].sent = @ + 1]
  /\ UNCHANGED <<routing, breaking>>

(* MISTAKE: the call is made beside the breaker, not inside Execute.       *)
SendUnguarded(r) ==
  /\ call[r].pc \in {"ready", "running"}
  /\ ~job[r].gone
  /\ job[r].sent < Limit(r)
  /\ job' = [job EXCEPT ![r].sent = @ + 1]
  /\ UNCHANGED <<routing, breaking>>

Send(r) ==
  /\ Running(r)
  /\ ~job[r].gone
  /\ job[r].sent < Limit(r)
  /\ job' = [job EXCEPT ![r].sent = @ + 1]
  /\ UNCHANGED <<routing, breaking>>

(* The node runs a copy, at whatever time it arrives.                      *)
NodeRuns(r, try) ==
  /\ try \in 1 .. job[r].sent \ job[r].ran
  /\ job' = [job EXCEPT ![r].ran = @ \cup {try}]
  /\ UNCHANGED <<routing, breaking>>

(* A reply.  Over gRPC it is OK only if the method ran; over HTTP it is    *)
(* whatever came back: the status code is not looked at.                   *)
Reply(r) ==
  /\ Running(r)
  /\ job[r].sent > 0
  /\ Node(r).protocol = "GRPC" => job[r].sent \in job[r].ran
  /\ B!AfterRequest(r, TRUE)
  /\ Answer(r, "ok")
  /\ UNCHANGED routing

(* MISTAKE: the call is made without a deadline; a silent node holds it.   *)
CallFailsIfHeard(r) ==
  /\ Running(r)
  /\ job[r].ran # {} \/ job[r].gone
  /\ B!AfterRequest(r, FALSE)
  /\ Answer(r, "unavailable")
  /\ UNCHANGED routing

(* An error: no connection, an error status, no answer within callCtx, or  *)
(* the caller's context ended.                                             *)
CallFails(r) ==
  /\ Running(r)
  /\ B!AfterRequest(r, FALSE)
  /\ Answer(r, "unavailable")
  /\ UNCHANGED routing

(* MISTAKE: the panic passes the breaker by.                               *)
PanicEscapes(r) ==
  /\ Running(r)
  /\ call' = [call EXCEPT ![r] = B!Idle]
  /\ Answer(r, "panic")
  /\ UNCHANGED <<routing, breakers, cb>>

(* A panic below Execute: the breaker counts it on its way up.             *)
Panic(r) ==
  /\ Running(r)
  /\ B!AfterRequest(r, FALSE)
  /\ Answer(r, "panic")
  /\ UNCHANGED routing

-----------------------------------------------------------------------------
(* CallStream, from its first message on: a stub that routes.              *)

ReceiveStream(r, target) ==
  /\ job[r].pc = "free"
  /\ R!GetServices(r, target)
  /\ Step(r, "streaming")
  /\ UNCHANGED breaking

Unimplemented(r) ==
  /\ job[r].pc = "streaming"
  /\ route[r].pc = "routed"
  /\ Answer(r, "unimplemented")
  /\ UNCHANGED <<routing, breaking>>

-----------------------------------------------------------------------------
(* The world around it.                                                    *)

HangUp(r) ==
  /\ job[r].pc \in {"routing", "calling"}      \* CallStream never looks
  /\ ~job[r].gone
  /\ job' = [job EXCEPT ![r].gone = TRUE]
  /\ UNCHANGED <<routing, breaking>>

(* The goroutine takes its next request.                                   *)
Return(r) ==
  /\ Answered(r)
  /\ R!Leave(r)
  /\ job' = [job EXCEPT ![r] = NoJob]
  /\ UNCHANGED breaking

Publish(s, listing) ==
  /\ R!Publish(s, listing)
  /\ UNCHANGED <<breaking, job>>

Tick ==
  /\ B!Tick
  /\ UNCHANGED <<routing, job>>

Next ==
  \/ \E r \in Requests : \E target \in Sends[r] : Receive(r, target)
  \/ \E r \in Requests : \E target \in Sends[r] : RouteError(r, target)
  \/ \E r \in Requests : Pick(r)
  \/ \E r \in Requests : Unsupported(r)
  \/ \E r \in Requests, ms \in TimeoutsMs : GetBreaker(r, ms)
  \/ \E r \in Requests : StoreBreaker(r)
  \/ \E r \in Requests : Admit(r)
  \/ \E r \in Requests : Shed(r)
  \/ \E r \in Requests : Send(r)
  \/ \E r \in Requests, try \in Tries : NodeRuns(r, try)
  \/ \E r \in Requests : Reply(r)
  \/ \E r \in Requests : CallFails(r)
  \/ \E r \in Requests : Panic(r)
  \/ \E r \in Requests : \E target \in Sends[r] : ReceiveStream(r, target)
  \/ \E r \in Requests : Unimplemented(r)
  \/ \E r \in Requests : HangUp(r)
  \/ \E r \in Requests : Return(r)
  \/ \E s \in DOMAIN Listings : \E listing \in Listings[s] : Publish(s, listing)
  \/ Tick

Spec == Init /\ [][Next]_vars

(* A goroutine that can move does; and callCtx has a deadline, so a call   *)
(* that runs ends, in an error if in nothing else.  The breaker's verdict  *)
(* never waits in the code; strong fairness undoes the bound MaxWindow,    *)
(* which may keep coming in its way.                                       *)
Moves(r) ==
  \/ Pick(r) \/ Unsupported(r) \/ StoreBreaker(r) \/ Unimplemented(r) \/ CallFails(r)
  \/ \E ms \in TimeoutsMs : GetBreaker(r, ms)

Fairness ==
  /\ WF_vars(Tick)
  /\ \A r \in Requests :
     /\ WF_vars(Moves(r))
     /\ SF_vars(Admit(r) \/ Shed(r))

FairSpec == Spec /\ Fairness

-----------------------------------------------------------------------------
(* Every request keeps its type; it is sent no more often than its         *)
(* protocol allows, and the node runs only what was sent.                  *)
TypeOK ==
  /\ job \in [Requests -> Job]
  /\ \A r \in Requests :
       /\ job[r].ran \subseteq 1 .. job[r].sent
       /\ job[r].sent > 0 => job[r].sent <= Limit(r)

(* A place taken in a breaker is given back by the time the caller has its *)
(* answer, a panic (recovery.go:14-25) and a hang-up included: else a      *)
(* half-open breaker would wait for ever for a probe nobody runs.          *)
PlaceReturned ==
  \A r \in Requests :
     /\ (call[r].pc # "idle") = (job[r].pc = "calling")
     /\ Answered(r) => \A e \in Endpoints : r \notin cb[e].live

(* The handler drives each breaker only as CircuitBreaker says it may.     *)
UsesBreaker == B!Spec

(* How the requests look to their senders.                                 *)
PhaseOf(j) ==
  IF j.pc \in Busy THEN "open"
  ELSE IF j.pc \in {"unavailable", "internal"} THEN "failed"
  ELSE IF j.pc \in {"unrouted", "invalid", "unimplemented", "shed"} THEN "refused"
  ELSE j.pc

(* How they were sent: over HTTP in up to 1 + RetryCount copies, and a     *)
(* reply may be a gateway's; over gRPC once, and it is the method's own.   *)
NotSent == [limit |-> 0, sure |-> TRUE]
Once == [limit |-> 1, sure |-> TRUE]
Retried == [limit |-> 1 + RetryCount, sure |-> FALSE]

KindOf(t, j) ==
  IF j.sent = 0 THEN NotSent ELSE IF t.ep.protocol = "HTTP" THEN Retried ELSE Once

Phases == [r \in Requests |-> PhaseOf(job[r])]
Kinds == [r \in Requests |-> KindOf(route[r], job[r])]
Runs == [r \in Requests |-> Cardinality(job[r].ran)]

Contract == INSTANCE RequestContract WITH
  Sendings <- {Once, Retried}, phase <- Phases, kind <- Kinds, runs <- Runs

(* The answers mean what RequestContract says: refused requests never run, *)
(* a request over gRPC runs at most once, one over HTTP at most            *)
(* 1 + RetryCount times (http.go:27), and a success over gRPC has run.     *)
KeepsContract == Contract!ContractSpec

(* Every request gets its answer, whatever the node does or omits to do.   *)
EveryRequestAnswered ==
  \A r \in Requests : (job[r].pc \in Busy) ~> Answered(r)

(* The call has a context of its own so that an upstream deadline does not *)
(* disturb the breaker's judgement (server.go:92): taking in the failure   *)
(* of a request whose caller has gone does not open a breaker.             *)
HangUpsNotCounted ==
  [][\A r \in Requests :
       LET e == call[r].ep
       IN  job[r].gone /\ Running(r) /\ ~Running(r)' /\ cb'[e].state = "open"
             => B!CurrentState(cb[e]).state = "open"]_vars

(* A response without a status carries the answer of a call that succeeded *)
(* (bridge.proto:63-71): the node has run the request.                     *)
SuccessWasDone == \A r \in Requests : job[r].pc = "ok" => job[r].ran # {}
=============================================================================
