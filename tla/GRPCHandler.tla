----------------------------- MODULE GRPCHandler -----------------------------
(* A unary call over gRPC below the breaker: internal/protocol/grpc.go     *)
(* with its connection pool, internal/pool/grpcpool.go.  Factory builds a  *)
(* handler, and with it a pool, for every call (server.go:97), so a pool   *)
(* serves one call; the cache of output types is global, and every call    *)
(* goes through it.  BridgeServer sees of all this one Send and its Reply. *)
EXTENDS Integers, Sequences

CONSTANTS
  Calls,          \* goroutines in CallUnary
  Addrs,          \* downstream nodes
  Methods,
  Types,          \* names of output types
  None,           \* no cache entry
  Untyped,        \* the label of a response whose TypeUrl is left empty
  MaxConns        \* bound: connections opened in a behaviour

ASSUME HandlerAssumption == {None, Untyped} \cap Types = {} /\ MaxConns \in Nat

VARIABLES
  output,         \* the type each method of each node returns today
  had,            \* history: the types it has returned
  conns,          \* connections opened, in their order; none is ever closed
  pool,           \* call -> conns of its handler's pool, 0 for no entry
  cache,          \* globalMethodTypeCache
  call            \* what each goroutine is doing

vars == <<output, had, conns, pool, cache, call>>

Keys == Addrs \X Methods
Free == [pc |-> "idle", conn |-> 0, addr |-> None, method |-> None,
         payload |-> Untyped, label |-> Untyped, failed |-> FALSE]

(* MISTAKE: the cache is keyed by the method alone.                        *)
keyOfMethod(addr, method) == <<CHOOSE a \in Addrs : TRUE, method>>

key(addr, method) == <<addr, method>>

isHealthy(k) == k # 0 /\ conns[k].healthy

Key(c) == key(call[c].addr, call[c].method)
Called(c) == <<call[c].addr, call[c].method>>

Init ==
  /\ output \in [Keys -> Types]
  /\ had = [k \in Keys |-> {output[k]}]
  /\ conns = <<>>
  /\ pool = [c \in Calls |-> [a \in Addrs |-> 0]]
  /\ cache = [k \in Keys |-> None]
  /\ call = [c \in Calls |-> Free]

-----------------------------------------------------------------------------
(* NewGRPCHandler, and Call with it.                                       *)
NewHandler(c, addr, method) ==
  /\ call[c].pc = "idle"
  /\ pool' = [pool EXCEPT ![c] = [a \in Addrs |-> 0]]
  /\ call' = [call EXCEPT ![c] = [Free EXCEPT !.pc = "get", !.addr = addr, !.method = method]]
  /\ UNCHANGED <<output, had, conns, cache>>

(* pool.Get, under the read lock: a connection that is ready or idle.      *)
GetConn(c) ==
  LET k == pool[c][call[c].addr]
  IN  /\ call[c].pc = "get"
      /\ call' = [call EXCEPT ![c] = [@ EXCEPT
                              !.pc = IF isHealthy(k) THEN "invoke" ELSE "dial",
                              !.conn = IF isHealthy(k) THEN k ELSE 0]]
      /\ UNCHANGED <<output, had, conns, pool, cache>>

(* pool.Get, under the write lock: the second look, and grpc.NewClient,    *)
(* whose connection takes the place of the one in the table.               *)
Dial(c) ==
  LET a == call[c].addr
      old == pool[c][a]
      new == Len(conns) + 1
  IN  /\ call[c].pc = "dial"
      /\ isHealthy(old) \/ new <= MaxConns
      /\ conns' = IF isHealthy(old) THEN conns
                  ELSE Append(conns, [addr |-> a, healthy |-> TRUE])
      /\ pool' = [pool EXCEPT ![c][a] = IF isHealthy(old) THEN old ELSE new]
      /\ call' = [call EXCEPT ![c] = [@ EXCEPT !.pc = "invoke", !.conn = pool'[c][a]]]
      /\ UNCHANGED <<output, had, cache>>

(* NewClient rejects the address; or Invoke ends in an error.              *)
CallFails(c) ==
  /\ call[c].pc \in {"dial", "invoke"}
  /\ call' = [call EXCEPT ![c].pc = "error"]
  /\ UNCHANGED <<output, had, conns, pool, cache>>

(* The reply: bytes of the type the method has as it runs.                 *)
Invoke(c) ==
  /\ call[c].pc = "invoke"
  /\ call' = [call EXCEPT ![c] = [@ EXCEPT !.pc = "replied", !.payload = output[Called(c)]]]
  /\ UNCHANGED <<output, had, conns, pool, cache>>

(* getOutputType, under the read lock.                                     *)
LookUp(c) ==
  LET hit == cache[Key(c)] # None
  IN  /\ call[c].pc = "replied"
      /\ call' = [call EXCEPT ![c] = [@ EXCEPT
                              !.pc = IF hit THEN "answered" ELSE "reflect",
                              !.label = IF hit THEN cache[Key(c)] ELSE Untyped]]
      /\ UNCHANGED <<output, had, conns, pool, cache>>

(* queryOutputType: what the node says of the method now, if it answers ... *)
Reflect(c) ==
  /\ call[c].pc = "reflect"
  /\ call' = [call EXCEPT ![c] = [@ EXCEPT !.pc = "found", !.label = output[Called(c)]]]
  /\ UNCHANGED <<output, had, conns, pool, cache>>

(* MISTAKE: the empty name of a failed query is cached.                    *)
ReflectFailsForAll(c) ==
  /\ call[c].pc = "reflect"
  /\ call' = [call EXCEPT ![c] = [@ EXCEPT !.pc = "found", !.failed = TRUE]]
  /\ UNCHANGED <<output, had, conns, pool, cache>>

(* MISTAKE: the query has no deadline of its own, and a node without a     *)
(* word on reflection holds it while the connection lasts.                 *)
ReflectFailsOnceCut(c) ==
  /\ ~isHealthy(call[c].conn)
  /\ call[c].pc = "reflect"
  /\ call' = [call EXCEPT ![c] = [@ EXCEPT !.pc = "answered", !.failed = TRUE]]
  /\ UNCHANGED <<output, had, conns, pool, cache>>

(* ... and if not, within the two seconds of reflectCtx, the response goes *)
(* out without a type.                                                     *)
ReflectFails(c) ==
  /\ call[c].pc = "reflect"
  /\ call' = [call EXCEPT ![c] = [@ EXCEPT !.pc = "answered", !.failed = TRUE]]
  /\ UNCHANGED <<output, had, conns, pool, cache>>

(* The write lock; whoever comes last has the entry.                       *)
Store(c) ==
  /\ call[c].pc = "found"
  /\ cache' = [cache EXCEPT ![Key(c)] = call[c].label]
  /\ call' = [call EXCEPT ![c].pc = "answered"]
  /\ UNCHANGED <<output, had, conns, pool>>

(* pool.Put does nothing, and the handler is dropped, its pool not closed. *)
Return(c) ==
  /\ call[c].pc \in {"answered", "error"}
  /\ call' = [call EXCEPT ![c] = Free]
  /\ pool' = [pool EXCEPT ![c] = [a \in Addrs |-> 0]]
  /\ UNCHANGED <<output, had, conns, cache>>

-----------------------------------------------------------------------------
(* Connections fail and recover; nodes are deployed anew.                  *)
Connectivity(k) ==
  /\ conns' = [conns EXCEPT ![k].healthy = ~@]
  /\ UNCHANGED <<output, had, pool, cache, call>>

Redeploy(k, t) ==
  /\ t # output[k]
  /\ output' = [output EXCEPT ![k] = t]
  /\ had' = [had EXCEPT ![k] = @ \cup {t}]
  /\ UNCHANGED <<conns, pool, cache, call>>

Next ==
  \/ \E c \in Calls, addr \in Addrs, method \in Methods : NewHandler(c, addr, method)
  \/ \E c \in Calls : GetConn(c)
  \/ \E c \in Calls : Dial(c)
  \/ \E c \in Calls : CallFails(c)
  \/ \E c \in Calls : Invoke(c)
  \/ \E c \in Calls : LookUp(c)
  \/ \E c \in Calls : Reflect(c)
  \/ \E c \in Calls : ReflectFails(c)
  \/ \E c \in Calls : Store(c)
  \/ \E c \in Calls : Return(c)
  \/ \E k \in DOMAIN conns : Connectivity(k)
  \/ \E k \in Keys, t \in Types : Redeploy(k, t)

Spec == Init /\ [][Next]_vars

(* Goroutines run, and reflectCtx ends a query the node does not answer.   *)
FairSpec == Spec /\ \A c \in Calls : WF_vars(LookUp(c) \/ ReflectFails(c) \/ Store(c))

-----------------------------------------------------------------------------
Conns == [addr : Addrs, healthy : BOOLEAN]

(* Every variable keeps its type, and a pool maps an address to a          *)
(* connection to it.                                                       *)
TypeOK ==
  /\ output \in [Keys -> Types]
  /\ cache \in [Keys -> Types \cup {None}]
  /\ conns \in Seq(Conns) /\ Len(conns) <= MaxConns
  /\ \A c \in Calls, a \in Addrs :
       pool[c][a] # 0 => pool[c][a] \in DOMAIN conns /\ conns[pool[c][a]].addr = a
  /\ \A c \in Calls :
       /\ call[c].payload \in Types \cup {Untyped}
       /\ call[c].label \in Types \cup {Untyped}

(* The cache is global and filled by whichever query comes back last       *)
(* (grpc.go:174-193): still, the TypeUrl a response carries is one that    *)
(* this method has had on this node, so where a method keeps its type for  *)
(* good the client's type check (grpc.go:92) cannot fail on it.            *)
LabelOfItsNode ==
  \A c \in Calls : call[c].pc = "answered" /\ call[c].label # Untyped =>
                     call[c].label \in had[Called(c)]

(* A failed query harms its own call only (grpc.go:184-187): a response    *)
(* without a TypeUrl comes from a call whose own query has failed, never   *)
(* from a call that found the trace of another's failure in the cache.     *)
UntypedIsItsOwnFailure ==
  \A c \in Calls : call[c].pc = "answered" /\ call[c].label = Untyped => call[c].failed

(* A reply the node has given is handed on, though the node should never   *)
(* say anything of the method's type (grpc.go:96-98).                      *)
RepliesHandedOn == \A c \in Calls : (call[c].pc = "replied") ~> (call[c].pc = "answered")

(* The pool manages the connections to downstream services and reuses them *)
(* (grpcpool.go:17, bridge.md:1196): while the bridge has a healthy        *)
(* connection to a node, a call does not open another.                     *)
ConnectionsReused ==
  [][\A k \in DOMAIN conns' \ DOMAIN conns :
       \A j \in DOMAIN conns : conns[j].addr = conns'[k].addr => ~isHealthy(j)]_vars
=============================================================================
