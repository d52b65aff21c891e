------------------------- MODULE CircuitBreakerProofs -------------------------
(* What CircuitBreaker promises, for any number of calls and endpoints and *)
(* every configuration: its safety invariants, from one inductive one.     *)
EXTENDS CircuitBreaker, FiniteSetTheorems, TLAPS

(* The part of the inductive invariant that is about one breaker alone:    *)
(* half-open, every success so far was short of closing and every request  *)
(* so far was within the limit; open, nothing of the generation runs.      *)
Sound(b) ==
  /\ b \in Breaker
  /\ b.requests = b.successes + b.failures + Cardinality(b.live)
  /\ b.state = "half-open" => /\ b.failures = 0
                              /\ b.successes < MaxRequests
                              /\ b.requests <= MaxRequests
  /\ b.state = "open" => b.live = {}

IInv ==
  /\ TypeOK
  /\ SharedBreaker
  /\ \A c \in Calls : call[c].pc # "idle" => call[c].ep \in Endpoints
  /\ \A e \in Endpoints : Sound(cb[e])
  /\ \A e \in Endpoints : \A c \in cb[e].live : call[c].pc = "running" /\ call[c].ep = e

-----------------------------------------------------------------------------
(* The configuration, as New and gobreaker complete it, is usable.         *)
LEMMA ConfigOK == /\ MaxRequests \in Nat /\ MaxRequests >= 1
                  /\ ClosedPeriod \in Nat \cup {Never}
                  /\ OpenPeriod \in Nat \cup {Never}
BY BreakerAssumption DEF BreakerAssumption, MaxRequests, ClosedPeriod, OpenPeriod, Never

(* The requests of a generation are finitely many.                         *)
LEMMA FiniteLive ==
  ASSUME NEW b \in Breaker
  PROVE  /\ IsFiniteSet(b.live)
         /\ Cardinality(b.live) \in Nat
<1>1. b.live \subseteq Calls  BY DEF Breaker
<1>2. IsFiniteSet(b.live)
  BY <1>1, FS_Subset, BreakerAssumption DEF BreakerAssumption
<1> QED  BY <1>2, FS_CardinalityType

(* A fresh generation is sound in any state.                               *)
LEMMA NewGenerationSound ==
  ASSUME NEW s \in {"closed", "open", "half-open"}
  PROVE  Sound(NewGeneration(s)) /\ NewGeneration(s).live = {}
<1>1. Cardinality({}) = 0  BY FS_EmptySet
<1>2. NewGeneration(s) \in Breaker
  BY ConfigOK DEF NewGeneration, Cleared, Breaker, Never
<1>3. /\ NewGeneration(s).live = {}
      /\ NewGeneration(s).requests = 0
      /\ NewGeneration(s).successes = 0
      /\ NewGeneration(s).failures = 0
  BY DEF NewGeneration, Cleared
<1> QED  BY <1>1, <1>2, <1>3, ConfigOK DEF Sound

(* Looking at the clock keeps a breaker sound and adds no request to it.   *)
LEMMA CurrentStateSound ==
  ASSUME NEW b, Sound(b)
  PROVE  Sound(CurrentState(b)) /\ CurrentState(b).live \subseteq b.live
<1>1. CASE b.state = "closed" /\ b.timer = 0
  BY <1>1, NewGenerationSound DEF CurrentState
<1>2. CASE b.state = "open" /\ b.timer = 0
  BY <1>2, NewGenerationSound DEF CurrentState
<1>3. CASE ~(b.state = "closed" /\ b.timer = 0) /\ ~(b.state = "open" /\ b.timer = 0)
  BY <1>3 DEF CurrentState
<1> QED  BY <1>1, <1>2, <1>3

(* Letting one more request in.                                            *)
LEMMA OnRequestSound ==
  ASSUME NEW b, Sound(b), NEW c \in Calls, c \notin b.live, ~Rejects(b)
  PROVE  Sound(OnRequest(b, c)) /\ OnRequest(b, c).live = b.live \cup {c}
<1> DEFINE r == OnRequest(b, c)
<1>1. b \in Breaker  BY DEF Sound
<1>2. /\ r \in Breaker /\ r.state = b.state
      /\ r.requests = b.requests + 1
      /\ r.successes = b.successes /\ r.failures = b.failures
      /\ r.live = b.live \cup {c}
  <2>1. /\ b.requests + 1 \in Nat
        /\ b.live \cup {c} \in SUBSET Calls
    BY <1>1 DEF Breaker
  <2>2. r \in Breaker  BY <1>1, <2>1 DEF OnRequest, Breaker
  <2> QED  BY <1>1, <2>2 DEF OnRequest, Breaker
<1>3. Cardinality(r.live) = Cardinality(b.live) + 1
  BY <1>1, <1>2, FiniteLive, FS_AddElement
<1>4. b.state # "open" /\ (b.state = "half-open" => b.requests + 1 <= MaxRequests)
  BY <1>1, ConfigOK DEF Rejects, Breaker
<1>5. /\ b.requests \in Nat /\ b.successes \in Nat /\ b.failures \in Nat
      /\ Cardinality(b.live) \in Nat
  BY <1>1, FiniteLive DEF Breaker
<1> HIDE DEF r
<1>6. Sound(r)  BY <1>2, <1>3, <1>4, <1>5 DEF Sound
<1> QED  BY <1>2, <1>6 DEF r

(* Taking a result in, on time or late.                                    *)
LEMMA ResultSound ==
  ASSUME NEW b, Sound(b), NEW c \in Calls, NEW ok \in BOOLEAN
  PROVE  Sound(Result(b, c, ok)) /\ Result(b, c, ok).live \subseteq b.live \ {c}
<1> DEFINE left == [b EXCEPT !.live = @ \ {c}]
           s == [left EXCEPT !.successes = @ + 1]
           f == [left EXCEPT !.failures = @ + 1]
<1>1. b \in Breaker  BY DEF Sound
<1>2. CASE c \notin b.live
  BY <1>2 DEF Result
<1>3. CASE c \in b.live
  <2>1. /\ s \in Breaker /\ f \in Breaker
        /\ s.live = b.live \ {c} /\ f.live = b.live \ {c}
        /\ s.state = b.state /\ f.state = b.state
        /\ s.requests = b.requests /\ f.requests = b.requests
        /\ s.successes = b.successes + 1 /\ f.successes = b.successes
        /\ s.failures = b.failures /\ f.failures = b.failures + 1
    <3>1. /\ b.live \ {c} \in SUBSET Calls
          /\ b.successes + 1 \in Nat /\ b.failures + 1 \in Nat
      BY <1>1 DEF Breaker
    <3>2. left \in Breaker  BY <1>1, <3>1 DEF Breaker
    <3>3. /\ left.live = b.live \ {c} /\ left.state = b.state
          /\ left.requests = b.requests /\ left.successes = b.successes
          /\ left.failures = b.failures
      BY <1>1 DEF Breaker
    <3> HIDE DEF left
    <3>4. s \in Breaker  BY <3>1, <3>2, <3>3 DEF Breaker
    <3>5. f \in Breaker  BY <3>1, <3>2, <3>3 DEF Breaker
    <3>6. /\ s.live = left.live /\ s.state = left.state /\ s.requests = left.requests
          /\ s.successes = left.successes + 1 /\ s.failures = left.failures
      BY <3>2 DEF Breaker
    <3>7. /\ f.live = left.live /\ f.state = left.state /\ f.requests = left.requests
          /\ f.successes = left.successes /\ f.failures = left.failures + 1
      BY <3>2 DEF Breaker
    <3> QED  BY <3>3, <3>4, <3>5, <3>6, <3>7
  <2>2. Cardinality(b.live \ {c}) = Cardinality(b.live) - 1
    BY <1>1, <1>3, FiniteLive, FS_RemoveElement
  <2>3. /\ b.requests \in Nat /\ b.successes \in Nat /\ b.failures \in Nat
        /\ Cardinality(b.live) \in Nat /\ b.state # "open"
    BY <1>1, <1>3, FiniteLive DEF Breaker, Sound
  <2> HIDE DEF s, f
  <2>4. Sound(s) \/ (s.state = "half-open" /\ s.successes >= MaxRequests)
    BY <2>1, <2>2, <2>3, ConfigOK DEF Sound
  <2>5. f.state # "half-open" => Sound(f)
    BY <2>1, <2>2, <2>3 DEF Sound
  <2>6. CASE ok
    <3>1. Result(b, c, ok) = IF s.state = "half-open" /\ s.successes >= MaxRequests
                               THEN NewGeneration("closed") ELSE s
      BY <1>3, <2>6 DEF Result, OnSuccess, s
    <3> QED  BY <2>1, <2>4, <3>1, NewGenerationSound
  <2>7. CASE ~ok
    <3>1. Result(b, c, ok) = IF f.state = "half-open" \/ ReadyToTrip(f)
                               THEN NewGeneration("open") ELSE f
      BY <1>3, <2>7 DEF Result, OnFailure, f
    <3> QED  BY <2>1, <2>5, <3>1, NewGenerationSound
  <2> QED  BY <2>6, <2>7
<1> QED  BY <1>2, <1>3

-----------------------------------------------------------------------------
LEMMA InitIInv == Init => IInv
<1> SUFFICES ASSUME Init PROVE IInv
  OBVIOUS
<1>1. Cleared("closed", Never) \in Breaker  BY DEF Cleared, Breaker
<1>2. Sound(Cleared("closed", Never)) /\ Cleared("closed", Never).live = {}
  BY <1>1, FS_EmptySet DEF Sound, Cleared
<1>3. Idle \in Call /\ Idle.pc = "idle"  BY DEF Idle, Call
<1>4. TypeOK  BY <1>1, <1>3 DEF Init, TypeOK
<1>5. SharedBreaker  BY <1>3 DEF Init, SharedBreaker
<1> QED  BY <1>2, <1>3, <1>4, <1>5 DEF Init, IInv

LEMMA StepIInv == IInv /\ [Next]_vars => IInv'
<1> SUFFICES ASSUME IInv, [Next]_vars PROVE IInv'
  OBVIOUS
<1>0. /\ breakers \in [Endpoints -> Calls \cup {None}]
      /\ cb \in [Endpoints -> Breaker]
      /\ call \in [Calls -> Call]
  BY DEF IInv, TypeOK
<1>1. ASSUME NEW c \in Calls, NEW e \in Endpoints, Load(c, e) PROVE IInv'
  <2>1. call'[c] \in Call /\ call'[c].ep = e /\ call'[c].held = breakers[e]
        /\ call'[c].pc = (IF breakers[e] = None THEN "missing" ELSE "ready")
    BY <1>0, <1>1 DEF Load, Call
  <2>2. call' \in [Calls -> Call] /\ \A d \in Calls \ {c} : call'[d] = call[d]
    BY <1>0, <1>1, <2>1 DEF Load
  <2>3. breakers' = breakers /\ cb' = cb /\ call[c].pc = "idle"
    BY <1>1 DEF Load
  <2>4. TypeOK'  BY <1>0, <2>2, <2>3 DEF TypeOK
  <2>5. SharedBreaker'
    BY <2>1, <2>2, <2>3 DEF IInv, SharedBreaker
  <2>6. \A x \in Endpoints : \A d \in cb[x].live : d \in Calls \ {c}
    BY <1>0, <2>3 DEF IInv, Breaker
  <2> QED  BY <2>1, <2>2, <2>3, <2>4, <2>5, <2>6 DEF IInv
<1>2. ASSUME NEW c \in Calls, LoadOrStore(c) PROVE IInv'
  <2> DEFINE e == call[c].ep
  <2>1. e \in Endpoints /\ call[c].pc = "missing"
    BY <1>2 DEF LoadOrStore, IInv
  <2>2. breakers' \in [Endpoints -> Calls \cup {None}] /\ breakers'[e] # None
        /\ \A x \in Endpoints : breakers[x] # None => breakers'[x] = breakers[x]
    BY <1>0, <1>2, <2>1, BreakerAssumption DEF LoadOrStore, BreakerAssumption
  <2>3. call'[c] \in Call /\ call'[c].ep = e /\ call'[c].held = breakers'[e]
        /\ call'[c].pc = "ready"
    BY <1>0, <1>2, <2>1, <2>2 DEF LoadOrStore, Call
  <2>4. call' \in [Calls -> Call] /\ \A d \in Calls \ {c} : call'[d] = call[d]
    BY <1>0, <1>2, <2>3 DEF LoadOrStore
  <2>5. \A x \in Endpoints : cb'[x] = cb[x] \/ cb'[x] = NewGeneration("closed")
    BY <1>0, <1>2 DEF LoadOrStore
  <2>6. cb' \in [Endpoints -> Breaker]
    BY <1>0, <1>2, NewGenerationSound DEF LoadOrStore, Sound
  <2>7. TypeOK'  BY <2>2, <2>4, <2>6 DEF TypeOK
  <2> HIDE DEF e
  <2>8. SharedBreaker'
    BY <1>0, <2>1, <2>2, <2>3, <2>4 DEF IInv, SharedBreaker, Call
  <2>9. \A x \in Endpoints : Sound(cb'[x]) /\ cb'[x].live \subseteq cb[x].live
    BY <2>5, NewGenerationSound DEF IInv
  <2>10. \A x \in Endpoints : \A d \in cb[x].live : d \in Calls \ {c}
    BY <1>0, <2>1 DEF IInv, Breaker
  <2> QED  BY <2>1, <2>3, <2>4, <2>7, <2>8, <2>9, <2>10 DEF IInv
<1>3. ASSUME NEW c \in Calls, Admit(c) PROVE IInv'
  <2> DEFINE e == call[c].ep
             b == CurrentState(cb[e])
  <2>1. e \in Endpoints /\ call[c].pc = "ready" /\ breakers' = breakers
    BY <1>3 DEF Admit, IInv
  <2>2. Sound(b) /\ b.live \subseteq cb[e].live
    BY <2>1, CurrentStateSound DEF IInv
  <2>3. c \notin b.live
    BY <2>1, <2>2 DEF IInv
  <2>4. Sound(OnRequest(b, c)) /\ OnRequest(b, c).live = b.live \cup {c}
    BY <1>3, <2>2, <2>3, OnRequestSound DEF Admit
  <2>5. /\ cb'[e] = OnRequest(b, c)
        /\ \A x \in Endpoints \ {e} : cb'[x] = cb[x]
        /\ cb' \in [Endpoints -> Breaker]
    BY <1>0, <1>3, <2>1, <2>4 DEF Admit, Sound
  <2>6. /\ call'[c].ep = e /\ call'[c].pc = "running" /\ call'[c].held = call[c].held
        /\ \A d \in Calls \ {c} : call'[d] = call[d]
        /\ call' \in [Calls -> Call]
    BY <1>0, <1>3 DEF Admit, Call
  <2>7. TypeOK'  BY <1>0, <2>1, <2>5, <2>6 DEF TypeOK
  <2> HIDE DEF e, b
  <2>8. SharedBreaker'
    BY <2>1, <2>6 DEF IInv, SharedBreaker, e
  <2>9. \A x \in Endpoints : Sound(cb'[x])
    BY <2>4, <2>5 DEF IInv
  <2>10. \A x \in Endpoints : \A d \in cb[x].live : d \in Calls \ {c}
    BY <1>0, <2>1 DEF IInv, Breaker
  <2>11. \A x \in Endpoints : \A d \in cb'[x].live : call'[d].pc = "running" /\ call'[d].ep = x
    BY <2>2, <2>4, <2>5, <2>6, <2>10 DEF IInv
  <2> QED  BY <2>1, <2>6, <2>7, <2>8, <2>9, <2>11 DEF IInv
<1>4. ASSUME NEW c \in Calls, Reject(c) PROVE IInv'
  <2> DEFINE e == call[c].ep
  <2>1. e \in Endpoints /\ call[c].pc = "ready" /\ breakers' = breakers
    BY <1>4 DEF Reject, IInv
  <2>2. Sound(CurrentState(cb[e])) /\ CurrentState(cb[e]).live \subseteq cb[e].live
    BY <2>1, CurrentStateSound DEF IInv
  <2>3. /\ cb'[e] = CurrentState(cb[e])
        /\ \A x \in Endpoints \ {e} : cb'[x] = cb[x]
        /\ cb' \in [Endpoints -> Breaker]
    BY <1>0, <1>4, <2>1, <2>2 DEF Reject, Sound
  <2>4. /\ call'[c].pc = "idle"
        /\ \A d \in Calls \ {c} : call'[d] = call[d]
        /\ call' \in [Calls -> Call]
    BY <1>0, <1>4 DEF Reject, Call, Idle
  <2>5. TypeOK'  BY <1>0, <2>1, <2>3, <2>4 DEF TypeOK
  <2> HIDE DEF e
  <2>6. SharedBreaker'
    BY <2>1, <2>4 DEF IInv, SharedBreaker
  <2>7. \A x \in Endpoints : Sound(cb'[x]) /\ cb'[x].live \subseteq cb[x].live
    BY <2>2, <2>3 DEF IInv
  <2>8. \A x \in Endpoints : \A d \in cb[x].live : d \in Calls \ {c}
    BY <1>0, <2>1 DEF IInv, Breaker
  <2> QED  BY <2>4, <2>5, <2>6, <2>7, <2>8 DEF IInv
<1>5. ASSUME NEW c \in Calls, NEW ok \in BOOLEAN, AfterRequest(c, ok) PROVE IInv'
  <2> DEFINE e == call[c].ep
             r == Result(CurrentState(cb[e]), c, ok)
  <2>1. e \in Endpoints /\ call[c].pc = "running" /\ breakers' = breakers
    BY <1>5 DEF AfterRequest, IInv
  <2>2. Sound(CurrentState(cb[e])) /\ CurrentState(cb[e]).live \subseteq cb[e].live
    BY <2>1, CurrentStateSound DEF IInv
  <2>3. Sound(r) /\ r.live \subseteq cb[e].live \ {c}
    BY <2>2, ResultSound
  <2>4. /\ cb'[e] = r
        /\ \A x \in Endpoints \ {e} : cb'[x] = cb[x]
        /\ cb' \in [Endpoints -> Breaker]
    BY <1>0, <1>5, <2>1, <2>3 DEF AfterRequest, Sound
  <2>5. /\ call'[c].pc = "idle"
        /\ \A d \in Calls \ {c} : call'[d] = call[d]
        /\ call' \in [Calls -> Call]
    BY <1>0, <1>5 DEF AfterRequest, Call, Idle
  <2>6. TypeOK'  BY <1>0, <2>1, <2>4, <2>5 DEF TypeOK
  <2>7. \A x \in Endpoints \ {e} : c \notin cb[x].live
    BY DEF IInv
  <2> HIDE DEF e, r
  <2>8. SharedBreaker'
    BY <2>1, <2>5 DEF IInv, SharedBreaker
  <2>9. \A x \in Endpoints : Sound(cb'[x]) /\ cb'[x].live \subseteq cb[x].live \ {c}
    BY <2>3, <2>4, <2>7 DEF IInv
  <2>10. \A x \in Endpoints : cb[x].live \subseteq Calls
    BY <1>0 DEF Breaker
  <2> QED  BY <2>5, <2>6, <2>8, <2>9, <2>10 DEF IInv
<1>6. ASSUME Tick PROVE IInv'
  <2>1. breakers' = breakers /\ call' = call  BY <1>6 DEF Tick
  <2>2. \A e \in Endpoints : cb'[e] = [cb[e] EXCEPT !.timer = IF @ > 0 THEN @ - 1 ELSE @]
    BY <1>6 DEF Tick
  <2>3. \A e \in Endpoints :
          /\ cb'[e] \in Breaker
          /\ cb'[e].state = cb[e].state /\ cb'[e].live = cb[e].live
          /\ cb'[e].requests = cb[e].requests
          /\ cb'[e].successes = cb[e].successes
          /\ cb'[e].failures = cb[e].failures
    <3> SUFFICES ASSUME NEW e \in Endpoints
                 PROVE  /\ cb'[e] \in Breaker
                        /\ cb'[e].state = cb[e].state /\ cb'[e].live = cb[e].live
                        /\ cb'[e].requests = cb[e].requests
                        /\ cb'[e].successes = cb[e].successes
                        /\ cb'[e].failures = cb[e].failures
      OBVIOUS
    <3> DEFINE t == IF cb[e].timer > 0 THEN cb[e].timer - 1 ELSE cb[e].timer
    <3>1. cb[e] \in Breaker  BY <1>0
    <3>2. t \in Nat \cup {Never}
      BY <3>1 DEF Breaker, Never
    <3> HIDE DEF t
    <3>3. cb'[e] = [cb[e] EXCEPT !.timer = t]  BY <2>2 DEF t
    <3> QED  BY <3>1, <3>2, <3>3 DEF Breaker
  <2>4. cb' \in [Endpoints -> Breaker]
    BY <1>6, <2>3 DEF Tick
  <2>5. TypeOK'  BY <1>0, <2>1, <2>4 DEF TypeOK
  <2>6. SharedBreaker'  BY <2>1 DEF IInv, SharedBreaker
  <2>7. \A e \in Endpoints : Sound(cb'[e])
    BY <2>3 DEF IInv, Sound
  <2> QED  BY <2>1, <2>3, <2>5, <2>6, <2>7 DEF IInv
<1>7. CASE UNCHANGED vars
  BY <1>7 DEF vars, IInv, TypeOK, SharedBreaker
<1> QED  BY <1>1, <1>2, <1>3, <1>4, <1>5, <1>6, <1>7 DEF Next

LEMMA Inductive == Spec => []IInv
BY InitIInv, StepIInv, PTL DEF Spec

-----------------------------------------------------------------------------
(* The variables keep their types (the state of circuit.go:18-21).         *)
THEOREM TypeCorrect == Spec => []TypeOK
<1>1. IInv => TypeOK  BY DEF IInv
<1> QED  BY <1>1, Inductive, PTL

(* Racing first calls share one breaker (Get, circuit.go:30-52), for any   *)
(* number of goroutines.                                                   *)
THEOREM OneBreaker == Spec => []SharedBreaker
<1>1. IInv => SharedBreaker  BY DEF IInv
<1> QED  BY <1>1, Inductive, PTL

(* The counts ReadyToTrip divides (circuit.go:40-43) always add up.        *)
THEOREM CountsAddUp == Spec => []Accounting
<1>1. IInv => Accounting  BY DEF IInv, Sound, Accounting
<1> QED  BY <1>1, Inductive, PTL

(* A tripped breaker shields its endpoint, whatever half_open_max is.      *)
THEOREM TrippedShields == Spec => []Shielded
<1>1. IInv => Shielded
  <2> SUFFICES ASSUME IInv, NEW e \in Endpoints, cb[e].state = "half-open"
               PROVE  Cardinality(cb[e].live) + cb[e].successes <= MaxRequests
    BY DEF IInv, Sound, Shielded
  <2>1. Sound(cb[e]) /\ cb[e] \in Breaker  BY DEF IInv, Sound
  <2>2. Cardinality(cb[e].live) \in Nat /\ cb[e].successes \in Nat
    BY <2>1, FiniteLive DEF Breaker
  <2> QED  BY <2>1, <2>2, ConfigOK DEF Sound
<1> QED  BY <1>1, Inductive, PTL

(* A half-open breaker with no probe running lets the next request in: it  *)
(* never rejects with nobody left to decide its fate.                      *)
THEOREM HalfOpenAdmits == Spec => []NeverWedged
<1>1. IInv => NeverWedged
  <2> SUFFICES ASSUME IInv, NEW e \in Endpoints,
                      cb[e].state = "half-open", cb[e].live = {}
               PROVE  ~Rejects(cb[e])
    BY DEF NeverWedged
  <2>1. Sound(cb[e]) /\ Cardinality(cb[e].live) = 0
    BY FS_EmptySet DEF IInv
  <2>2. cb[e].requests \in Nat /\ cb[e].successes \in Nat
    BY <2>1 DEF Sound, Breaker
  <2> QED  BY <2>1, <2>2, ConfigOK DEF Sound, Rejects
<1> QED  BY <1>1, Inductive, PTL
=============================================================================
