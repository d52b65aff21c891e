---------------------------- MODULE CircuitBreaker ----------------------------
(***************************************************************************)
(* The per-endpoint circuit breakers of bridge-svc:                        *)
(* internal/resilience/circuit.go, configured from config.go, on top of    *)
(* gobreaker/v2 (a library: its operations are modelled from the contract  *)
(* circuit.go relies on, and the map marks them external).                 *)
(*                                                                         *)
(* A call is a goroutine inside CircuitBreakerManager.Execute.  The        *)
(* library's mutex makes beforeRequest and afterRequest atomic; between    *)
(* the two, and between sync.Map.Load and LoadOrStore, calls interleave.   *)
(*                                                                         *)
(* gobreaker stamps an admitted request with a generation number and       *)
(* ignores a result whose number is no longer the breaker's.  Only that    *)
(* equality matters, so a breaker carries "live", the requests admitted in *)
(* its current generation; a new generation empties it.                    *)
(***************************************************************************)
EXTENDS Integers, FiniteSets

CONSTANTS
  Calls,            \* goroutines that may be inside Execute
  Endpoints,        \* downstream addresses, the keys of the manager's map
  None,             \* no breaker, no endpoint
  HalfOpenMax,      \* half_open_max
  Interval,         \* interval, in clock ticks
  Timeout,          \* timeout, in clock ticks
  DefaultTimeout,   \* the library's open period when timeout is zero
  FailureNum,       \* failure_ratio = FailureNum / FailureDen
  FailureDen,
  MaxWindow         \* bound: requests admitted in one generation

ASSUME BreakerAssumption ==
  /\ None \notin Calls
  /\ None \notin Endpoints
  /\ IsFiniteSet(Calls)
  /\ HalfOpenMax \in Nat
  /\ Interval \in Nat
  /\ Timeout \in Nat
  /\ DefaultTimeout \in Nat \ {0}
  /\ FailureNum \in Nat
  /\ FailureDen \in Nat \ {0}
  /\ MaxWindow \in Nat

VARIABLES
  breakers,   \* the sync.Map: endpoint -> the breaker stored there (named by
              \* the call that allocated it), or None
  cb,         \* the state of the breaker of each endpoint
  call        \* what each goroutine is doing

vars == <<breakers, cb, call>>

Never == -1          \* a zero expiry: the generation does not run out
MinRequests == 3     \* ReadyToTrip looks at no fewer requests

MaxRequests == IF HalfOpenMax = 0 THEN 1 ELSE HalfOpenMax
ClosedPeriod == IF Interval = 0 THEN Never ELSE Interval
OpenPeriod == IF Timeout = 0 THEN DefaultTimeout ELSE Timeout

(* timer counts the ticks left before expiry.Before(now); 0 is expired.    *)
Breaker == [state : {"closed", "open", "half-open"},
            requests : Nat, successes : Nat, failures : Nat,
            live : SUBSET Calls, timer : Nat \cup {Never}]

Call == [pc : {"idle", "missing", "ready", "running"},
         ep : Endpoints \cup {None}, held : Calls \cup {None}]

Idle == [pc |-> "idle", ep |-> None, held |-> None]

-----------------------------------------------------------------------------
(* The breaker's own operations.                                           *)
(*                                                                         *)
(* Here and below, a definition marked MISTAKE is no part of the model: it *)
(* is the definition after it as a plausible bug would have it, and some   *)
(* property of the runs fails when it takes that definition's place.       *)

Cleared(s, t) == [state |-> s, requests |-> 0, successes |-> 0,
                  failures |-> 0, live |-> {}, timer |-> t]

(* MISTAKE: the open state gets no expiry.                                 *)
NewGenerationForEver(s) == Cleared(s, IF s = "closed" THEN ClosedPeriod ELSE Never)

NewGeneration(s) ==
  Cleared(s, CASE s = "closed" -> ClosedPeriod
               [] s = "open" -> OpenPeriod
               [] OTHER -> Never)

CurrentState(b) ==
  CASE b.state = "closed" /\ b.timer = 0 -> NewGeneration("closed")
    [] b.state = "open" /\ b.timer = 0 -> NewGeneration("half-open")
    [] OTHER -> b

ReadyToTrip(b) ==
  /\ b.requests >= MinRequests
  /\ b.failures * FailureDen >= FailureNum * b.requests

OnRequest(b, c) == [b EXCEPT !.requests = @ + 1, !.live = @ \cup {c}]

(* The library compares ConsecutiveSuccesses; half-open they are all the   *)
(* successes, since counts start at zero and a failure ends the state.     *)
OnSuccess(b) ==
  LET s == [b EXCEPT !.successes = @ + 1]
  IN  IF s.state = "half-open" /\ s.successes >= MaxRequests
        THEN NewGeneration("closed") ELSE s

OnFailure(b) ==
  LET f == [b EXCEPT !.failures = @ + 1]
  IN  IF f.state = "half-open" \/ ReadyToTrip(f)
        THEN NewGeneration("open") ELSE f

(* MISTAKE: a result is counted whatever window its request belongs to.    *)
ResultAnyWindow(b, c, ok) ==
  LET left == [b EXCEPT !.live = @ \ {c}]
  IN  IF ok THEN OnSuccess(left) ELSE OnFailure(left)

(* MISTAKE: a late result gives back the place it never had in the window. *)
ResultGivesBack(b, c, ok) ==
  LET left == [b EXCEPT !.live = @ \ {c}]
  IN  IF c \notin b.live THEN [b EXCEPT !.requests = @ - 1]
      ELSE IF ok THEN OnSuccess(left) ELSE OnFailure(left)

(* A result counts only if its request belongs to the current generation.  *)
Result(b, c, ok) ==
  LET left == [b EXCEPT !.live = @ \ {c}]
  IN  IF c \notin b.live THEN b
      ELSE IF ok THEN OnSuccess(left) ELSE OnFailure(left)

Rejects(b) ==
  \/ b.state = "open"                                        \* ErrOpenState
  \/ b.state = "half-open" /\ b.requests >= MaxRequests      \* ErrTooManyRequests

-----------------------------------------------------------------------------
Init ==
  /\ breakers = [e \in Endpoints |-> None]
  /\ cb = [e \in Endpoints |-> Cleared("closed", Never)]
  /\ call = [c \in Calls |-> Idle]

(* Get, first half: sync.Map.Load.                                         *)
Load(c, e) ==
  /\ call[c].pc = "idle"
  /\ call' = [call EXCEPT ![c] =
       [pc |-> IF breakers[e] = None THEN "missing" ELSE "ready",
        ep |-> e, held |-> breakers[e]]]
  /\ UNCHANGED <<breakers, cb>>

(* MISTAKE: Store, where the code has LoadOrStore.                         *)
BlindStore(c) ==
  LET e == call[c].ep
  IN  /\ call[c].pc = "missing"
      /\ breakers' = [breakers EXCEPT ![e] = c]
      /\ cb' = [cb EXCEPT ![e] = NewGeneration("closed")]
      /\ call' = [call EXCEPT ![c].pc = "ready", ![c].held = c]

(* Get, second half: a new breaker, and LoadOrStore keeps the first one.   *)
LoadOrStore(c) ==
  LET e == call[c].ep
      first == breakers[e] = None
  IN  /\ call[c].pc = "missing"
      /\ breakers' = [breakers EXCEPT ![e] = IF first THEN c ELSE @]
      /\ cb' = [cb EXCEPT ![e] = IF first THEN NewGeneration("closed") ELSE @]
      /\ call' = [call EXCEPT ![c] = [@ EXCEPT !.pc = "ready", !.held = breakers'[e]]]

(* MISTAKE: the function is run whatever the breaker says.                 *)
AdmitAnyway(c) ==
  LET e == call[c].ep
  IN  /\ call[c].pc = "ready"
      /\ cb[e].requests < MaxWindow
      /\ cb' = [cb EXCEPT ![e] = OnRequest(CurrentState(@), c)]
      /\ call' = [call EXCEPT ![c].pc = "running"]
      /\ UNCHANGED breakers

(* Execute: beforeRequest lets the request through ...                     *)
Admit(c) ==
  LET e == call[c].ep
      b == CurrentState(cb[e])
  IN  /\ call[c].pc = "ready"
      /\ ~Rejects(b)
      /\ b.requests < MaxWindow
      /\ cb' = [cb EXCEPT ![e] = OnRequest(b, c)]
      /\ call' = [call EXCEPT ![c].pc = "running"]
      /\ UNCHANGED breakers

(* ... or turns it away without running the function.                      *)
Reject(c) ==
  LET e == call[c].ep
      b == CurrentState(cb[e])
  IN  /\ call[c].pc = "ready"
      /\ Rejects(b)
      /\ cb' = [cb EXCEPT ![e] = b]
      /\ call' = [call EXCEPT ![c] = Idle]
      /\ UNCHANGED breakers

(* MISTAKE: a panic takes the call out without a result.                   *)
PanicUncounted(c, ok) ==
  LET e == call[c].ep
      b == CurrentState(cb[e])
  IN  /\ call[c].pc = "running"
      /\ \E counted \in {TRUE, ok} :
           cb' = [cb EXCEPT ![e] = IF counted THEN Result(b, c, ok)
                                   ELSE [b EXCEPT !.live = @ \ {c}]]
      /\ call' = [call EXCEPT ![c] = Idle]
      /\ UNCHANGED breakers

(* The function returned, or panicked (ok = FALSE): afterRequest.          *)
AfterRequest(c, ok) ==
  LET e == call[c].ep
  IN  /\ call[c].pc = "running"
      /\ cb' = [cb EXCEPT ![e] = Result(CurrentState(@), c, ok)]
      /\ call' = [call EXCEPT ![c] = Idle]
      /\ UNCHANGED breakers

(* Time passes.                                                            *)
Tick ==
  /\ \E e \in Endpoints : cb[e].timer > 0
  /\ cb' = [e \in Endpoints |->
              [cb[e] EXCEPT !.timer = IF @ > 0 THEN @ - 1 ELSE @]]
  /\ UNCHANGED <<breakers, call>>

BeforeRequest(c) == Admit(c) \/ Reject(c)

Next ==
  \/ \E c \in Calls, e \in Endpoints : Load(c, e)
  \/ \E c \in Calls : LoadOrStore(c)
  \/ \E c \in Calls : Admit(c)
  \/ \E c \in Calls : Reject(c)
  \/ \E c \in Calls, ok \in BOOLEAN : AfterRequest(c, ok)
  \/ Tick

Spec == Init /\ [][Next]_vars

(* Every call context has a deadline (server.go:93), so the function       *)
(* returns; time passes; and requests for an endpoint keep arriving.       *)
Fairness ==
  /\ WF_vars(Tick)
  /\ \A c \in Calls : /\ WF_vars(LoadOrStore(c))
                      /\ WF_vars(BeforeRequest(c))
                      /\ WF_vars(\E ok \in BOOLEAN : AfterRequest(c, ok))
  /\ \A e \in Endpoints : SF_vars(\E c \in Calls : Load(c, e))

FairSpec == Spec /\ Fairness

-----------------------------------------------------------------------------
(* Every variable keeps its type.                                          *)
TypeOK ==
  /\ breakers \in [Endpoints -> Calls \cup {None}]
  /\ cb \in [Endpoints -> Breaker]
  /\ call \in [Calls -> Call]

(* However the first calls to an endpoint race through Get                 *)
(* (circuit.go:30-52), all of them execute on the breaker the map holds:   *)
(* no failure is ever counted in a breaker nobody consults.                *)
SharedBreaker ==
  \A c \in Calls : call[c].pc \in {"ready", "running"} =>
     /\ call[c].held # None
     /\ call[c].held = breakers[call[c].ep]

(* The counts the trip decision (circuit.go:40-43) is taken on add up: a   *)
(* request of the generation has succeeded, failed or is still running,    *)
(* and a result that comes back after its window has closed is in none of  *)
(* the three.                                                              *)
Accounting ==
  \A e \in Endpoints :
     /\ cb[e].requests = cb[e].successes + cb[e].failures + Cardinality(cb[e].live)
     /\ \A c \in cb[e].live : call[c].pc = "running" /\ call[c].ep = e

(* A tripped breaker shields the endpoint: open, nothing admitted since    *)
(* the trip is running; half-open, what was let through since, running or  *)
(* done, stays within half_open_max (circuit.go:37).                       *)
Shielded ==
  \A e \in Endpoints :
     /\ cb[e].state = "open" => cb[e].live = {}
     /\ cb[e].state = "half-open" =>
          Cardinality(cb[e].live) + cb[e].successes <= MaxRequests

(* A half-open breaker has no expiry, so it must not turn requests away    *)
(* with no probe left to decide: it would reject for ever.                 *)
NeverWedged ==
  \A e \in Endpoints :
     cb[e].state = "half-open" /\ cb[e].live = {} => ~Rejects(cb[e])

(* Under sustained traffic an open breaker lets a probe through once its   *)
(* timeout is over ...                                                     *)
OpenIsProbed ==
  \A e \in Endpoints : (cb[e].state = "open") ~> (cb[e].state = "half-open")

(* ... and the trial ends: the breaker closes or opens again.              *)
TrialEnds ==
  \A e \in Endpoints : (cb[e].state = "half-open") ~> (cb[e].state # "half-open")
=============================================================================
