--------------------------- MODULE GRPCHandlerProofs ---------------------------
(* The invariants of GRPCHandler, for any calls, nodes, methods and types: *)
(* what the pools lead to, and what the racing queries leave behind.       *)
EXTENDS GRPCHandler, SequenceTheorems, TLAPS

CallRecord == [pc : {"idle", "get", "dial", "invoke", "replied", "reflect", "found",
                     "answered", "error"},
               conn : Nat, addr : Addrs \cup {None}, method : Methods \cup {None},
               payload : Types \cup {Untyped}, label : Types \cup {Untyped},
               failed : BOOLEAN]

(* Pools hold connections to the address they are asked for.               *)
Pools ==
  /\ conns \in Seq(Conns) /\ Len(conns) <= MaxConns
  /\ pool \in [Calls -> [Addrs -> Nat]]
  /\ \A c \in Calls, a \in Addrs :
       pool[c][a] # 0 => pool[c][a] \in DOMAIN conns /\ conns[pool[c][a]].addr = a

(* What a method returns, and what is cached for it, it has had.           *)
Cache ==
  /\ output \in [Keys -> Types] /\ had \in [Keys -> SUBSET Types]
  /\ cache \in [Keys -> Types \cup {None}]
  /\ \A k \in Keys : output[k] \in had[k] /\ (cache[k] # None => cache[k] \in had[k])

(* A label is one the method has had; a call has one once it has asked,    *)
(* and if it is answered without one it has failed to ask.                 *)
Labelled(r) ==
  r.pc # "idle" =>
    /\ <<r.addr, r.method>> \in Keys
    /\ r.label # Untyped => r.label \in had[<<r.addr, r.method>>]
    /\ r.pc = "found" => r.label # Untyped
    /\ r.pc = "answered" /\ r.label = Untyped => r.failed

Calling == call \in [Calls -> CallRecord] /\ \A c \in Calls : Labelled(call[c])

IInv == Pools /\ Cache /\ Calling

LEMMA InitSound == Init => IInv
<1> SUFFICES ASSUME Init PROVE IInv
  OBVIOUS
<1>1. Pools
  <2>1. conns \in Seq(Conns) /\ Len(conns) <= MaxConns
    <3>1. conns = <<>>
      BY DEF Init
    <3>2. conns \in Seq(Conns) /\ Len(conns) = 0
      BY <3>1, EmptySeq
    <3>3. QED
      BY <3>2, HandlerAssumption DEF HandlerAssumption
  <2>2. pool = [c \in Calls |-> [a \in Addrs |-> 0]]
    BY DEF Init
  <2>3. /\ pool \in [Calls -> [Addrs -> Nat]]
        /\ \A c \in Calls, a \in Addrs : pool[c][a] = 0
    BY <2>2
  <2>4. QED
    BY <2>1, <2>3 DEF Pools
<1>2. Free \in CallRecord /\ Labelled(Free)
  BY DEF Free, CallRecord, Labelled
<1>3. Calling
  BY <1>2 DEF Init, Calling
<1>4. Cache
  BY DEF Init, Cache
<1>5. QED
  BY <1>1, <1>3, <1>4 DEF IInv

(* A connection opened takes its place at the end; the others stay.        *)
LEMMA PoolsKept == Pools /\ Calling /\ [Next]_vars => Pools'
<1> SUFFICES ASSUME Pools, Calling, [Next]_vars PROVE Pools'
  OBVIOUS
<1>1. ASSUME NEW c \in Calls, NEW addr \in Addrs, NEW method \in Methods,
             NewHandler(c, addr, method)
      PROVE  Pools'
  BY <1>1 DEF NewHandler, Pools
<1>2. ASSUME NEW c \in Calls, Dial(c) PROVE Pools'
  <2> DEFINE a == call[c].addr
             old == pool[c][a]
             new == Len(conns) + 1
  <2>1. a \in Addrs /\ old \in Nat
    BY <1>2 DEF Dial, Calling, Labelled, Keys, Pools
  <2>2. CASE isHealthy(old)
    BY <1>2, <2>1, <2>2 DEF Dial, Pools
  <2>3. CASE ~isHealthy(old)
    <3> DEFINE conn == [addr |-> a, healthy |-> TRUE]
    <3>1. conn \in Conns /\ new <= MaxConns
      BY <1>2, <2>1, <2>3 DEF Dial, Conns
    <3>2. conns' = Append(conns, conn) /\ pool' = [pool EXCEPT ![c][a] = new]
      BY <1>2, <2>3 DEF Dial
    <3>3. conns' \in Seq(Conns) /\ Len(conns') = new
      BY <3>1, <3>2 DEF Pools
    <3>4. /\ new \in DOMAIN conns' /\ conns'[new] = conn
          /\ \A k \in DOMAIN conns : k \in DOMAIN conns' /\ conns'[k] = conns[k]
      BY <3>1, <3>2, <3>3 DEF Pools
    <3>5. pool' \in [Calls -> [Addrs -> Nat]]
      BY <2>1, <3>2 DEF Pools
    <3>6. ASSUME NEW d \in Calls, NEW b \in Addrs, pool'[d][b] # 0
          PROVE  pool'[d][b] \in DOMAIN conns' /\ conns'[pool'[d][b]].addr = b
      <4>1. CASE d = c /\ b = a
        BY <2>1, <3>2, <3>4, <4>1 DEF Pools
      <4>2. CASE ~(d = c /\ b = a)
        <5>1. pool'[d][b] = pool[d][b]
          BY <2>1, <3>2, <4>2 DEF Pools
        <5>2. QED
          BY <3>4, <3>6, <5>1 DEF Pools
      <4>3. QED
        BY <4>1, <4>2
    <3>7. QED
      BY <3>1, <3>3, <3>5, <3>6 DEF Pools
  <2>4. QED
    BY <2>2, <2>3
<1>3. ASSUME NEW c \in Calls, Return(c) PROVE Pools'
  BY <1>3 DEF Return, Pools
<1>4. ASSUME NEW k \in DOMAIN conns, Connectivity(k) PROVE Pools'
  <2> DEFINE conn == [conns[k] EXCEPT !.healthy = ~@]
  <2>1. conns \in Seq(Conns) /\ conns[k] \in Conns /\ k \in 1 .. Len(conns)
    BY DEF Pools
  <2>2. conn \in Conns /\ conn.addr = conns[k].addr
    BY <2>1 DEF Conns
  <2>3. conns' = [conns EXCEPT ![k] = conn]
    BY <1>4 DEF Connectivity
  <2>4. conns' \in Seq(Conns) /\ Len(conns') = Len(conns)
    BY <2>1, <2>2, <2>3, ExceptSeq
  <2>5. \A j \in DOMAIN conns : j \in DOMAIN conns' /\ conns'[j].addr = conns[j].addr
    BY <2>1, <2>2, <2>3
  <2>6. QED
    BY <1>4, <2>4, <2>5 DEF Connectivity, Pools
<1>5. CASE UNCHANGED <<conns, pool>>
  BY <1>5 DEF Pools
<1>6. QED
  BY <1>1, <1>2, <1>3, <1>4, <1>5
     DEF Next, GetConn, CallFails, Invoke, LookUp, Reflect, ReflectFails, Store, Redeploy, vars

(* A call in progress knows its key.                                       *)
LEMMA OwnKey ==
  ASSUME Calling, NEW c \in Calls, call[c].pc # "idle"
  PROVE  /\ call[c] \in CallRecord /\ Labelled(call[c])
         /\ Called(c) \in Keys /\ Key(c) = Called(c)
         /\ call[c].addr \in Addrs
BY DEF Calling, Labelled, Called, Key, key, Keys

(* The step of a call changes its own record and nobody else's.            *)
LEMMA OwnRecord ==
  ASSUME Calling, NEW c \in Calls, NEW r \in CallRecord, Labelled(r),
         call' = [call EXCEPT ![c] = r], had' = had
  PROVE  Calling'
BY DEF Calling, Labelled

LEMMA CallingKept == IInv /\ [Next]_vars => Calling'
<1> SUFFICES ASSUME Pools, Cache, Calling, [Next]_vars PROVE Calling'
  BY DEF IInv
<1>1. ASSUME NEW c \in Calls, NEW addr \in Addrs, NEW method \in Methods,
             NewHandler(c, addr, method)
      PROVE  Calling'
  <2> DEFINE r == [Free EXCEPT !.pc = "get", !.addr = addr, !.method = method]
  <2>1. r \in CallRecord /\ Labelled(r)
    BY DEF Free, CallRecord, Labelled, Keys
  <2>2. QED
    BY <1>1, <2>1, OwnRecord DEF NewHandler
<1>2. ASSUME NEW c \in Calls, GetConn(c) PROVE Calling'
  <2> DEFINE k == pool[c][call[c].addr]
             r == [call[c] EXCEPT !.pc = IF isHealthy(k) THEN "invoke" ELSE "dial",
                                  !.conn = IF isHealthy(k) THEN k ELSE 0]
  <2>1. call[c] \in CallRecord /\ Labelled(call[c]) /\ call[c].pc = "get" /\ k \in Nat
    BY <1>2, OwnKey DEF GetConn, Pools
  <2>2. r \in CallRecord /\ Labelled(r)
    BY <2>1 DEF CallRecord, Labelled
  <2>3. QED
    BY <1>2, <2>2, OwnRecord DEF GetConn
<1>3. ASSUME NEW c \in Calls, Dial(c) PROVE Calling'
  <2> DEFINE k == pool'[c][call[c].addr]
             r == [call[c] EXCEPT !.pc = "invoke", !.conn = k]
  <2>1. call[c] \in CallRecord /\ Labelled(call[c]) /\ call[c].pc = "dial"
    BY <1>3, OwnKey DEF Dial
  <2>2. call[c].addr \in Addrs /\ pool' \in [Calls -> [Addrs -> Nat]]
    BY <1>3, <2>1, OwnKey, PoolsKept DEF Pools
  <2>3. r \in CallRecord /\ Labelled(r)
    BY <2>1, <2>2 DEF CallRecord, Labelled
  <2>4. QED
    BY <1>3, <2>3, OwnRecord DEF Dial
<1>4. ASSUME NEW c \in Calls, CallFails(c) PROVE Calling'
  <2> DEFINE r == [call[c] EXCEPT !.pc = "error"]
  <2>1. call[c] \in CallRecord /\ Labelled(call[c]) /\ call[c].pc # "idle"
    BY <1>4, OwnKey DEF CallFails
  <2>2. r \in CallRecord /\ Labelled(r)
    BY <2>1 DEF CallRecord, Labelled
  <2>3. QED
    BY <1>4, <2>2, OwnRecord DEF CallFails
<1>5. ASSUME NEW c \in Calls, Invoke(c) PROVE Calling'
  <2> DEFINE r == [call[c] EXCEPT !.pc = "replied", !.payload = output[Called(c)]]
  <2>1. call[c] \in CallRecord /\ Labelled(call[c]) /\ call[c].pc = "invoke"
    BY <1>5, OwnKey DEF Invoke
  <2>2. output[Called(c)] \in Types
    BY <2>1, OwnKey DEF Cache
  <2>3. r \in CallRecord /\ Labelled(r)
    BY <2>1, <2>2 DEF CallRecord, Labelled
  <2>4. QED
    BY <1>5, <2>3, OwnRecord DEF Invoke
<1>6. ASSUME NEW c \in Calls, LookUp(c) PROVE Calling'
  <2> DEFINE hit == cache[Key(c)] # None
             r == [call[c] EXCEPT !.pc = IF hit THEN "answered" ELSE "reflect",
                                  !.label = IF hit THEN cache[Key(c)] ELSE Untyped]
  <2>1. /\ call[c] \in CallRecord /\ Labelled(call[c]) /\ call[c].pc = "replied"
        /\ <<call[c].addr, call[c].method>> \in Keys
    BY <1>6, OwnKey DEF LookUp, Called
  <2>2. hit => cache[Key(c)] \in Types /\ cache[Key(c)] \in had[<<call[c].addr, call[c].method>>]
    BY <2>1, OwnKey DEF Cache, Called
  <2>3. r \in CallRecord
    BY <2>1, <2>2 DEF CallRecord
  <2>4. Labelled(r)
    BY <2>1, <2>2, HandlerAssumption DEF HandlerAssumption, CallRecord, Labelled
  <2>5. QED
    BY <1>6, <2>3, <2>4, OwnRecord DEF LookUp
<1>7. ASSUME NEW c \in Calls, Reflect(c) PROVE Calling'
  <2> DEFINE r == [call[c] EXCEPT !.pc = "found", !.label = output[Called(c)]]
  <2>1. /\ call[c] \in CallRecord /\ Labelled(call[c]) /\ call[c].pc = "reflect"
        /\ <<call[c].addr, call[c].method>> \in Keys
    BY <1>7, OwnKey DEF Reflect, Called
  <2>2. output[Called(c)] \in Types /\ output[Called(c)] \in had[<<call[c].addr, call[c].method>>]
    BY <2>1 DEF Cache, Called
  <2>3. r \in CallRecord
    BY <2>1, <2>2 DEF CallRecord
  <2>4. Labelled(r)
    BY <2>1, <2>2, HandlerAssumption DEF HandlerAssumption, CallRecord, Labelled
  <2>5. QED
    BY <1>7, <2>3, <2>4, OwnRecord DEF Reflect
<1>8. ASSUME NEW c \in Calls, ReflectFails(c) PROVE Calling'
  <2> DEFINE r == [call[c] EXCEPT !.pc = "answered", !.failed = TRUE]
  <2>1. call[c] \in CallRecord /\ Labelled(call[c]) /\ call[c].pc = "reflect"
    BY <1>8, OwnKey DEF ReflectFails
  <2>2. r \in CallRecord /\ Labelled(r)
    BY <2>1 DEF CallRecord, Labelled
  <2>3. QED
    BY <1>8, <2>2, OwnRecord DEF ReflectFails
<1>9. ASSUME NEW c \in Calls, Store(c) PROVE Calling'
  <2> DEFINE r == [call[c] EXCEPT !.pc = "answered"]
  <2>1. call[c] \in CallRecord /\ Labelled(call[c]) /\ call[c].pc = "found"
    BY <1>9, OwnKey DEF Store
  <2>2. r \in CallRecord /\ Labelled(r)
    BY <2>1 DEF CallRecord, Labelled
  <2>3. QED
    BY <1>9, <2>2, OwnRecord DEF Store
<1>10. ASSUME NEW c \in Calls, Return(c) PROVE Calling'
  <2>1. Free \in CallRecord /\ Labelled(Free)
    BY DEF Free, CallRecord, Labelled
  <2>2. QED
    BY <1>10, <2>1, OwnRecord DEF Return
<1>11. ASSUME NEW k \in Keys, NEW t \in Types, Redeploy(k, t) PROVE Calling'
  <2>1. \A l \in Keys : had[l] \subseteq had'[l]
    BY <1>11 DEF Redeploy, Cache
  <2>2. QED
    BY <1>11, <2>1 DEF Redeploy, Calling, Labelled
<1>12. CASE UNCHANGED <<call, had>>
  BY <1>12 DEF Calling, Labelled
<1>13. QED
  BY <1>1, <1>2, <1>3, <1>4, <1>5, <1>6, <1>7, <1>8, <1>9, <1>10, <1>11, <1>12
     DEF Next, Connectivity, vars

(* Only Store writes the cache, with a label the method has had; and a     *)
(* type a method has had stays one it has had.                             *)
LEMMA CacheKept == Cache /\ Calling /\ [Next]_vars => Cache'
<1> SUFFICES ASSUME Cache, Calling, [Next]_vars PROVE Cache'
  OBVIOUS
<1>1. ASSUME NEW c \in Calls, Store(c) PROVE Cache'
  <2>1. /\ call[c].label \in Types /\ call[c].label \in had[Called(c)]
        /\ Key(c) = Called(c) /\ Called(c) \in Keys
    BY <1>1, OwnKey DEF Store, CallRecord, Labelled, Called
  <2>2. QED
    BY <1>1, <2>1 DEF Store, Cache
<1>2. ASSUME NEW k \in Keys, NEW t \in Types, Redeploy(k, t) PROVE Cache'
  BY <1>2 DEF Redeploy, Cache
<1>3. CASE UNCHANGED <<output, had, cache>>
  BY <1>3 DEF Cache
<1>4. QED
  BY <1>1, <1>2, <1>3 DEF Next, NewHandler, GetConn, Dial, CallFails, Invoke, LookUp, Reflect,
     ReflectFails, Return, Connectivity, vars

LEMMA Inductive == Spec => []IInv
<1>1. IInv /\ [Next]_vars => IInv'
  BY PoolsKept, CallingKept, CacheKept DEF IInv
<1>2. QED
  BY <1>1, InitSound, PTL DEF Spec

(* Types are kept; and a pool never leads to a node other than the one it  *)
(* was asked for (grpcpool.go:30-70).                                      *)
THEOREM HandlerTypes == Spec => []TypeOK
<1>1. IInv => TypeOK
  BY DEF IInv, Pools, Calling, CallRecord, Cache, TypeOK
<1>2. QED
  BY <1>1, Inductive, PTL

(* However many queries race for an entry of the cache (grpc.go:174-193),  *)
(* a label is one that its method has had on its node.                     *)
THEOREM LabelsAreTrue == Spec => []LabelOfItsNode
<1>1. IInv => LabelOfItsNode
  BY DEF IInv, Calling, Labelled, Called, LabelOfItsNode
<1>2. QED
  BY <1>1, Inductive, PTL

(* The failure of a query (grpc.go:184-187) stays with its own call.       *)
THEOREM FailuresDoNotStick == Spec => []UntypedIsItsOwnFailure
<1>1. IInv => UntypedIsItsOwnFailure
  BY DEF IInv, Calling, Labelled, Called, UntypedIsItsOwnFailure
<1>2. QED
  BY <1>1, Inductive, PTL
=============================================================================
