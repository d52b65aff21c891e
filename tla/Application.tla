------------------------------ MODULE Application ------------------------------
(* A program that uses the SDK: it builds a Client, calls services from    *)
(* several goroutines, each call under DoRetry and a context of its own,   *)
(* and closes the Client when it likes.  ClientSDK and Retry are composed: *)
(* the function DoRetry repeats is Client.Invoke.                          *)
EXTENDS Integers, FiniteSets, Sequences

CONSTANTS
  Goroutines, Configs, Options, DefaultIdle, Serves,      \* of ClientSDK
  RetryConfigs,                                           \* of Retry
  Plans           \* goroutine -> the calls it may make: a name, the service
                  \* of the full method or "" for a short one, and how it
                  \* retries, one of RetryConfigs

(* A RetryConfig's fields are not negative, and its codes are names.       *)
ASSUME RetryAssumption ==
  /\ RetryConfigs # {}
  /\ RetryConfigs \subseteq [MaxAttempts : Nat, InitialBackoff : Nat, MaxBackoff : Nat,
                             BackoffMultiplier : Nat, RetryableCodes : SUBSET STRING]
  /\ \A g \in Goroutines : \A p \in Plans[g] : p.retry \in RetryConfigs

(* app.yaml and the options, as their Go types have them.                  *)
ASSUME SDKAssumption ==
  /\ Configs \subseteq Seq([name : STRING, target : STRING, service : STRING])
  /\ Options \in Seq([to : STRING, idle : Nat])
  /\ DefaultIdle \in Nat

VARIABLES client, conns, call, retry, ctxDone,
  plan            \* goroutine -> the call it makes

S == INSTANCE ClientSDK
R == INSTANCE Retry

vars == <<client, conns, call, retry, ctxDone, plan>>
outside == <<client, conns, call>>
retrying == <<retry, ctxDone>>

NoPlan(g) == CHOOSE p \in Plans[g] : TRUE

Init ==
  /\ S!SDKInit
  /\ R!RetryInit
  /\ plan = [g \in Goroutines |-> NoPlan(g)]

-----------------------------------------------------------------------------
Build ==
  /\ S!NewService \/ S!NewClientFails \/ S!NewClientReturns
  /\ UNCHANGED <<retrying, plan>>

Start(g, p) ==
  /\ client.phase \notin {"creating", "failed"}
  /\ R!DoRetry(g, p.retry)
  /\ plan' = [plan EXCEPT ![g] = p]
  /\ UNCHANGED outside

(* The loop of DoRetry, around ...                                         *)
Loop(g) ==
  /\ R!Attempt(g) \/ R!NoAttempts(g) \/ R!TimerFires(g) \/ R!ContextEnds(g)
  /\ UNCHANGED <<outside, plan>>

(* ... Client.Invoke, with its lookup, its call and its result.            *)
Find(g) ==
  /\ retry[g].pc = "running"
  /\ S!Service(g, plan[g].name)
  /\ UNCHANGED <<retrying, plan>>

FindFails(g) ==
  /\ S!ServiceNotFound(g, plan[g].name)
  /\ R!Returned(g, "NoService")
  /\ UNCHANGED plan

Send(g) ==
  /\ ~ctxDone[g]
  /\ S!Invoke(g)
  /\ UNCHANGED <<retrying, plan>>

CallReturns(g, err) ==
  /\ S!InvokeReturns(g)
  /\ err \in S!Outcomes(g, plan[g].given, ctxDone[g])
  /\ R!Returned(g, err)
  /\ UNCHANGED plan

NodeRuns(g) ==
  /\ \E copy \in 1 .. call[g].sent : S!NodeRuns(g, copy, plan[g].given)
  /\ UNCHANGED <<retrying, plan>>

Leave(g) ==
  /\ R!Leave(g)
  /\ S!Forget(g)
  /\ plan' = [plan EXCEPT ![g] = NoPlan(g)]

ContextOver(g) ==
  /\ R!ContextOver(g)
  /\ UNCHANGED <<outside, plan>>

Tick ==
  /\ R!Tick
  /\ UNCHANGED <<outside, plan>>

ServiceClose(name) ==
  /\ S!ServiceClose(name)
  /\ UNCHANGED <<retrying, plan>>

Close ==
  /\ S!Close
  /\ UNCHANGED <<retrying, plan>>

Closing ==
  /\ S!CloseReturns \/ \E name \in client.todo : S!CloseOne(name)
  /\ UNCHANGED <<retrying, plan>>

Errors == {"OK", "Unavailable", "Canceled", "DeadlineExceeded", "Unimplemented"}

Next ==
  \/ Build
  \/ \E g \in Goroutines : \E p \in Plans[g] : Start(g, p)
  \/ \E g \in Goroutines : Loop(g)
  \/ \E g \in Goroutines : Find(g)
  \/ \E g \in Goroutines : FindFails(g)
  \/ \E g \in Goroutines : Send(g)
  \/ \E g \in Goroutines, err \in Errors : CallReturns(g, err)
  \/ \E g \in Goroutines : NodeRuns(g)
  \/ \E g \in Goroutines : Leave(g)
  \/ \E g \in Goroutines : ContextOver(g)
  \/ Tick
  \/ \E name \in DOMAIN client.table : ServiceClose(name)
  \/ Close
  \/ Closing

Spec == Init /\ [][Next]_vars

(* Goroutines run; contexts have deadlines (example/main.go:30), and gRPC  *)
(* ends a call whose context is over.  Lookups wait for the lock while     *)
(* Close holds it; an RWMutex lets waiting readers in before the next      *)
(* writer, which takes strong fairness to say.                             *)
FairSpec ==
  /\ Spec
  /\ WF_vars(Tick)
  /\ WF_vars(Closing)
  /\ \A g \in Goroutines :
     /\ WF_vars(Loop(g) \/ (ctxDone[g] /\ \E err \in Errors : CallReturns(g, err)))
     /\ SF_vars(Find(g) \/ FindFails(g))
     /\ WF_vars(ContextOver(g))

-----------------------------------------------------------------------------
(* Every variable keeps its type: the table leads to connections that were *)
(* opened, a call is under way only inside the loop's function, and no     *)
(* attempt is made beyond MaxAttempts (retry.go:30).                       *)
TypeOK ==
  /\ \A name \in DOMAIN client.table : client.table[name] \in DOMAIN conns
  /\ \A g \in Goroutines :
       /\ call[g].pc \in {"idle", "found", "sent"} /\ call[g].ran \subseteq 1 .. call[g].sent
       /\ call[g].pc # "idle" => retry[g].pc = "running" /\ call[g].conn \in DOMAIN conns
       /\ call[g].sent <= retry[g].cfg.MaxAttempts

(* What a name leads to, once NewClient has returned, was opened for its   *)
(* last entry (client.go:59) with the last dial option for that service or *)
(* else the last one for all (service.go:25-30), wherever in the list of   *)
(* options they stand.                                                     *)
NameLeadsToItsEntry ==
  LET IsLast(k, to) == Options[k].to = to
        /\ \A l \in DOMAIN Options : Options[l].to = to => l <= k
      HasOwn(name) == \E k \in DOMAIN Options : Options[k].to = name
  IN  client.phase \notin {"creating", "failed"} =>
        \A i \in DOMAIN client.cfg :
          LET name == client.cfg[i].name
              conn == conns[client.table[name]]
          IN  (\A j \in DOMAIN client.cfg : client.cfg[j].name = name => j <= i) =>
                /\ conn.entry = i
                /\ \A k \in DOMAIN Options :
                     IsLast(k, IF HasOwn(name) THEN name ELSE "all") =>
                       conn.idle = Options[k].idle

(* Close goes through the whole table (client.go:95-100), though it meets  *)
(* a connection that is closed already and keeps that error: when it has   *)
(* returned, no connection that a name or a call leads to is open, and     *)
(* retries under way cannot reach a node any more.                         *)
ClosedForAll ==
  client.phase = "closed" =>
    /\ \A name \in DOMAIN client.table : ~conns[client.table[name]].open
    /\ \A g \in Goroutines : call[g].conn # 0 => ~conns[call[g].conn].open

(* DoRetry returns nil only for an attempt that was answered, so that the  *)
(* node has run the method (retry.go:31-58); and ErrServiceNotFound, which *)
(* it does not repeat, only for a name that app.yaml does not have.        *)
NilMeansDone ==
  \A g \in Goroutines : retry[g].pc = "done" =>
     /\ retry[g].err = "OK" => call[g].sent \in call[g].ran
     /\ (retry[g].err = "NoService") =>
          call[g].sent = 0 /\ plan[g].name \notin {client.cfg[i].name : i \in DOMAIN client.cfg}

(* All the pauses of one DoRetry together last no longer than the first    *)
(* backoff, which is not capped, and MaxBackoff for each one after it      *)
(* (retry.go:27-56): the backoff grows from pause to pause, and there is   *)
(* none after the last attempt.                                            *)
PausesBounded ==
  \A g \in Goroutines :
    LET cfg == retry[g].cfg
    IN  retry[g].waited <=
          IF cfg.MaxAttempts < 2 THEN 0
          ELSE cfg.InitialBackoff + (cfg.MaxAttempts - 2) * cfg.MaxBackoff

(* What the caller of DoRetry knows of its request, how often DoRetry may  *)
(* send it, and how often the node has run it.                             *)
PhaseOf(t, c) ==
  IF t.pc = "idle" THEN "free"
  ELSE IF t.pc # "done" THEN "open"
  ELSE IF t.err = "OK" THEN "ok"
  ELSE IF c.sent = 0 THEN "refused" ELSE "failed"

KindOf(t, c) ==
  IF c.sent = 0 THEN [limit |-> 0, sure |-> TRUE]
  ELSE [limit |-> t.cfg.MaxAttempts, sure |-> TRUE]

Phases == [g \in Goroutines |-> PhaseOf(retry[g], call[g])]
Kinds == [g \in Goroutines |-> KindOf(retry[g], call[g])]
Runs == [g \in Goroutines |-> Cardinality(call[g].ran)]

(* Towards its caller DoRetry over Client.Invoke keeps the contract of a   *)
(* request that may be sent as often as its own MaxAttempts says: not      *)
(* found or never sent means never run, nil means that the node has run    *)
(* it, and it runs no more often than it may be sent, however late copies  *)
(* arrive.                                                                 *)
Contract == INSTANCE RequestContract WITH
  Requests <- Goroutines,
  Sendings <- {[limit |-> cfg.MaxAttempts, sure |-> TRUE] : cfg \in RetryConfigs},
  phase <- Phases, kind <- Kinds, runs <- Runs

KeepsContract == Contract!ContractSpec

(* Every DoRetry ends, whatever the nodes do and though the Client be      *)
(* closed in the middle of it.                                             *)
RetryEnds == \A g \in Goroutines : (retry[g].pc # "idle") ~> (retry[g].pc = "done")
=============================================================================
