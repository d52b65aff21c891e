----------------------------- MODULE RouterProofs -----------------------------
(* What the router promises, proved for every set of goroutines, services  *)
(* and listings.  The balancer's loops are recursive functions: the first  *)
(* lemmas say that they are functions, and of which type.                  *)
EXTENDS RouterShare, InductionLemmas

(* What ListingAssumption says of a listing, and what the lemmas ask.      *)
Listing(nodes) ==
  /\ nodes \in Seq(Range(nodes))
  /\ \A ep \in Range(nodes) : ep.weight \in 0 .. WeightMod - 1 /\ ep.healthy \in BOOLEAN

LEMMA ListingNodes ==
  ASSUME NEW nodes, Listing(nodes)
  PROVE  /\ Len(nodes) \in Nat /\ DOMAIN nodes = 1 .. Len(nodes)
         /\ \A i \in 1 .. Len(nodes) :
              /\ nodes[i] \in Range(nodes)
              /\ nodes[i].weight \in 0 .. WeightMod - 1
              /\ nodes[i].healthy \in BOOLEAN
BY DEF Listing, Range

-----------------------------------------------------------------------------
(* The running weights (balancer.go:24-41) of a listing are a function of  *)
(* the number of nodes taken, and keep the width of the sum.               *)
LEMMA RunningWeights ==
  ASSUME NEW nodes, Listing(nodes)
  PROVE  /\ RunningWeight(nodes) \in [0 .. Len(nodes) -> 0 .. WeightMod - 1]
         /\ RunningWeight(nodes)[0] = 0
         /\ \A i \in 1 .. Len(nodes) :
              RunningWeight(nodes)[i] = (RunningWeight(nodes)[i - 1] + nodes[i].weight) % WeightMod
<1> DEFINE n == Len(nodes)
           V == 0 .. WeightMod - 1
           step == [x \in (1 .. n) \X V |-> (x[2] + nodes[x[1]].weight) % WeightMod]
           Eq(f) == f = [i \in 0 .. n |->
                           IF i = 0 THEN 0 ELSE (f[i - 1] + nodes[i].weight) % WeightMod]
<1>1. n \in Nat /\ 0 \in V
  BY ListingNodes, WidthAssumption
<1>2. step \in [(1 .. n) \X V -> V]
  <2>1. ASSUME NEW x \in (1 .. n) \X V PROVE (x[2] + nodes[x[1]].weight) % WeightMod \in V
    BY ListingNodes, WidthAssumption
  <2>2. QED
    BY <2>1
<1>3. PICK f \in [0 .. n -> V] : Follows(f, n, 0, step)
  <2> HIDE DEF n, V, step
  <2> QED
    BY <1>1, <1>2, RecursiveFunction
<1>4. Eq(f)
  <2>1. ASSUME NEW i \in 0 .. n
        PROVE f[i] = IF i = 0 THEN 0 ELSE (f[i - 1] + nodes[i].weight) % WeightMod
    <3>1. CASE i = 0
      BY <1>3, <3>1 DEF Follows
    <3>2. CASE i # 0
      <4>1. i \in 1 .. n /\ f[i - 1] \in V
        BY <3>2, <1>1
      <4>2. QED
        BY <4>1, <1>3 DEF Follows
    <3>3. QED
      BY <3>1, <3>2
  <2>2. QED
    BY <2>1
<1>5. Eq(RunningWeight(nodes))
  <2>1. RunningWeight(nodes) = CHOOSE g : Eq(g)
    BY DEF RunningWeight
  <2> HIDE DEF Eq
  <2>2. QED
    BY <1>4, <2>1
<1>6. RunningWeight(nodes) \in [0 .. n -> V]
  <2> DEFINE g == RunningWeight(nodes)
             T == {i \in 0 .. n : g[i] \in V}
  <2> HIDE DEF g
  <2>1. Eq(g)
    BY <1>5 DEF g
  <2>2. 0 \in T
    BY <2>1, <1>1
  <2>3. ASSUME NEW i \in 1 .. n, i - 1 \in T PROVE i \in T
    <3>1. g[i] = (g[i - 1] + nodes[i].weight) % WeightMod
      BY <2>1
    <3>2. g[i - 1] \in V
      BY <2>3
    <3>3. (g[i - 1] + nodes[i].weight) % WeightMod \in V
      <4>1. nodes[i].weight \in V
        BY ListingNodes
      <4> HIDE DEF V, n
      <4>2. ASSUME NEW a \in V, NEW b \in V PROVE (a + b) % WeightMod \in V
        BY WidthAssumption DEF V
      <4>3. QED
        BY <3>2, <4>1, <4>2
    <3>4. QED
      BY <3>1, <3>3
  <2>4. 0 .. n \subseteq T
    <3> HIDE DEF T, n
    <3> QED
      BY <1>1, <2>2, <2>3, BoundedInduction
  <2>5. \A i \in 0 .. n : g[i] \in V
    BY <2>4
  <2>6. g \in [0 .. n -> V]
    BY <2>1, <2>5
  <2>7. QED
    BY <2>6 DEF g
<1>7. RunningWeight(nodes)[0] = 0
  BY <1>1, <1>5
<1>8. ASSUME NEW i \in 1 .. n
      PROVE RunningWeight(nodes)[i] = (RunningWeight(nodes)[i - 1] + nodes[i].weight) % WeightMod
  BY <1>1, <1>5
<1>9. QED
  BY <1>6, <1>7, <1>8

(* The loop of filterHealthy (router.go), unrolled.                        *)
LEMMA FilterLoop ==
  ASSUME NEW nodes, Listing(nodes)
  PROVE  \E result \in [0 .. Len(nodes) -> Seq(Range(nodes))] :
           /\ result[0] = <<>>
           /\ \A i \in 1 .. Len(nodes) :
                result[i] = IF nodes[i].healthy THEN Append(result[i - 1], nodes[i])
                            ELSE result[i - 1]
           /\ result[Len(nodes)] = filterHealthy(nodes)
<1> DEFINE n == Len(nodes)
           V == Seq(Range(nodes))
           Kept(kept, i) == IF nodes[i].healthy THEN Append(kept, nodes[i]) ELSE kept
           step == [x \in (1 .. n) \X V |-> Kept(x[2], x[1])]
           Eq(f) == f = [i \in 0 .. n |-> IF i = 0 THEN <<>>
                                          ELSE IF nodes[i].healthy
                                               THEN Append(f[i - 1], nodes[i])
                                          ELSE f[i - 1]]
<1>1. n \in Nat /\ <<>> \in V
  BY ListingNodes
<1>2. ASSUME NEW i \in 1 .. n, NEW kept \in V PROVE Kept(kept, i) \in V
  BY ListingNodes
<1>3. step \in [(1 .. n) \X V -> V]
  BY <1>2
<1>4. PICK f \in [0 .. n -> V] : Follows(f, n, <<>>, step)
  <2> HIDE DEF n, V, step
  <2> QED
    BY <1>1, <1>3, RecursiveFunction
<1>5. f[0] = <<>>
  BY <1>1, <1>4 DEF Follows
<1>6. ASSUME NEW i \in 1 .. n PROVE f[i] = Kept(f[i - 1], i)
  <2>1. i \in 0 .. n /\ i # 0 /\ f[i - 1] \in V
    BY <1>1
  <2>2. QED
    BY <2>1, <1>4 DEF Follows
<1>7. Eq(f)
  <2>1. ASSUME NEW i \in 0 .. n
        PROVE f[i] = IF i = 0 THEN <<>>
                     ELSE IF nodes[i].healthy THEN Append(f[i - 1], nodes[i])
                     ELSE f[i - 1]
    <3>1. CASE i = 0
      BY <1>5, <3>1
    <3>2. CASE i # 0
      <4>1. i \in 1 .. n
        BY <3>2, <1>1
      <4>2. QED
        BY <4>1, <3>2, <1>6
    <3>3. QED
      BY <3>1, <3>2
  <2>2. QED
    BY <2>1
<1>8. PICK g : Eq(g) /\ g[n] = filterHealthy(nodes)
  <2>1. filterHealthy(nodes) = (CHOOSE g : Eq(g))[n]
    BY DEF filterHealthy
  <2> HIDE DEF Eq
  <2>2. Eq(CHOOSE g : Eq(g))
    BY <1>7
  <2>3. QED
    BY <2>1, <2>2
<1>9. g[0] = <<>> /\ \A i \in 1 .. n : g[i] = Kept(g[i - 1], i)
  <2>1. \A i \in 0 .. n : g[i] = IF i = 0 THEN <<>>
                                  ELSE IF nodes[i].healthy THEN Append(g[i - 1], nodes[i])
                                  ELSE g[i - 1]
    BY <1>8
  <2>2. 0 \in 0 .. n /\ \A i \in 1 .. n : i \in 0 .. n /\ i # 0
    BY <1>1
  <2>3. QED
    BY <2>1, <2>2
<1>10. \A i \in 0 .. n : g[i] \in V
  <2> DEFINE T == {i \in 0 .. n : g[i] \in V}
  <2>1. 0 \in T
    <3> HIDE DEF V
    <3> QED
      BY <1>9, <1>1
  <2>2. ASSUME NEW i \in 1 .. n, i - 1 \in T PROVE i \in T
    <3>1. g[i - 1] \in V
      BY <2>2
    <3> HIDE DEF V, Kept
    <3>2. QED
      BY <3>1, <1>2, <1>9
  <2>3. 0 .. n \subseteq T
    <3> HIDE DEF T, n
    <3> QED
      BY <1>1, <2>1, <2>2, BoundedInduction
  <2>4. QED
    BY <2>3
<1>11. g \in [0 .. n -> V]
  BY <1>8, <1>10
<1>12. QED
  BY <1>8, <1>9, <1>11

(* What filterHealthy keeps is a listing, of the healthy nodes of the      *)
(* listing it was given, all of them and no other; and no node twice if    *)
(* none was there twice.                                                   *)
LEMMA FilterHealthy ==
  ASSUME NEW nodes, Listing(nodes)
  PROVE  /\ Listing(filterHealthy(nodes))
         /\ Range(filterHealthy(nodes)) \subseteq Range(nodes)
         /\ \A ep \in Range(filterHealthy(nodes)) : ep.healthy
         /\ \A ep \in Range(nodes) : ep.healthy => ep \in Range(filterHealthy(nodes))
         /\ IsInjective(nodes) => IsInjective(filterHealthy(nodes))
<1> DEFINE n == Len(nodes)
           Good(kept, i) ==
             /\ \A k \in 1 .. Len(kept) :
                  /\ kept[k].healthy
                  /\ \E j \in 1 .. i : kept[k] = nodes[j]
             /\ \A j \in 1 .. i : nodes[j].healthy =>
                  \E k \in 1 .. Len(kept) : kept[k] = nodes[j]
             /\ IsInjective(nodes) =>
                  \A k, l \in 1 .. Len(kept) : kept[k] = kept[l] => k = l
<1>1. PICK result \in [0 .. n -> Seq(Range(nodes))] :
           /\ result[0] = <<>>
           /\ \A i \in 1 .. n :
                result[i] = IF nodes[i].healthy THEN Append(result[i - 1], nodes[i])
                            ELSE result[i - 1]
           /\ result[n] = filterHealthy(nodes)
  BY FilterLoop
<1> DEFINE T == {i \in 0 .. n : Good(result[i], i)}
<1>2. n \in Nat
  BY ListingNodes
<1>3. 0 \in T
  <2>1. 0 \in 0 .. n /\ 1 .. Len(result[0]) = {}
    BY <1>1, <1>2
  <2>2. Good(result[0], 0)
    BY <2>1
  <2> HIDE DEF Good, n
  <2>3. QED
    BY <2>1, <2>2
<1>4. ASSUME NEW i \in 1 .. n, i - 1 \in T PROVE i \in T
  <2> DEFINE before == result[i - 1]
             after == result[i]
  <2>1. Good(before, i - 1) /\ before \in Seq(Range(nodes))
    BY <1>4, <1>1
  <2>2. i \in 0 .. n /\ 1 .. i = (1 .. i - 1) \cup {i} /\ i \notin 1 .. i - 1
    BY <1>2
  <2>3. after = IF nodes[i].healthy THEN Append(before, nodes[i]) ELSE before
    BY <1>1
  <2> HIDE DEF before, after
  <2>4. CASE ~nodes[i].healthy
    BY <2>1, <2>2, <2>3, <2>4 DEF after
  <2>5. CASE nodes[i].healthy
    <3>1. /\ Len(after) = Len(before) + 1 /\ after[Len(after)] = nodes[i]
          /\ \A k \in 1 .. Len(before) : after[k] = before[k]
          /\ Len(before) \in Nat
      BY <2>1, <2>3, <2>5, ListingNodes
    <3>2. ASSUME NEW k \in 1 .. Len(after)
          PROVE after[k].healthy /\ \E j \in 1 .. i : after[k] = nodes[j]
      <4>1. CASE k = Len(after)
        BY <4>1, <3>1, <2>2, <2>5
      <4>2. CASE k # Len(after)
        <5>1. k \in 1 .. Len(before)
          BY <4>2, <3>1
        <5>2. QED
          BY <5>1, <3>1, <2>1, <2>2
      <4>3. QED
        BY <4>1, <4>2
    <3>3. ASSUME IsInjective(nodes),
                 NEW k \in 1 .. Len(after), NEW l \in 1 .. Len(after), after[k] = after[l]
          PROVE k = l
      <4>1. \A j \in 1 .. i - 1 : nodes[j] # nodes[i]
        BY <3>3, <2>2, ListingNodes DEF IsInjective
      <4>2. \A m \in 1 .. Len(before) : before[m] # nodes[i]
        BY <4>1, <2>1
      <4>3. CASE k \in 1 .. Len(before) /\ l \in 1 .. Len(before)
        <5>1. before[k] = before[l]
          BY <4>3, <3>1, <3>3
        <5>2. QED
          BY <5>1, <4>3, <3>3, <2>1
      <4>4. CASE k \in 1 .. Len(before) /\ l = Len(after)
        BY <4>2, <4>4, <3>1, <3>3
      <4>5. CASE k = Len(after) /\ l \in 1 .. Len(before)
        BY <4>2, <4>5, <3>1, <3>3
      <4>6. CASE k = Len(after) /\ l = Len(after)
        BY <4>6
      <4>7. QED
        BY <4>3, <4>4, <4>5, <4>6, <3>1, <3>3
    <3>4. ASSUME NEW j \in 1 .. i, nodes[j].healthy
          PROVE  \E k \in 1 .. Len(after) : after[k] = nodes[j]
      <4>1. CASE j = i
        BY <4>1, <3>1
      <4>2. CASE j # i
        <5>1. PICK k \in 1 .. Len(before) : before[k] = nodes[j]
          BY <4>2, <3>4, <2>1, <2>2
        <5>2. k \in 1 .. Len(after) /\ after[k] = nodes[j]
          BY <5>1, <3>1
        <5>3. QED
          BY <5>2
      <4>3. QED
        BY <4>1, <4>2
    <3>5. Good(after, i)
      BY <3>2, <3>3, <3>4
    <3>6. QED
      BY <3>5, <2>2 DEF after
  <2>6. QED
    BY <2>4, <2>5
<1>5. 0 .. n \subseteq T
  <2> HIDE DEF T, n
  <2> QED
    BY <1>2, <1>3, <1>4, BoundedInduction
<1> DEFINE kept == filterHealthy(nodes)
<1>6. Good(kept, n) /\ kept \in Seq(Range(nodes))
  BY <1>1, <1>2, <1>5
<1> HIDE DEF kept
<1>7. /\ DOMAIN kept = 1 .. Len(kept) /\ Len(kept) \in Nat
      /\ Range(kept) = {kept[k] : k \in 1 .. Len(kept)}
  BY <1>6 DEF Range
<1>8. kept \in Seq(Range(kept))
  BY <1>6, <1>7
<1>9. ASSUME NEW ep \in Range(kept)
      PROVE ep \in Range(nodes) /\ ep.healthy
  BY <1>6, <1>7, ListingNodes
<1>10. ASSUME NEW ep \in Range(nodes), ep.healthy
       PROVE ep \in Range(kept)
  <2>1. PICK j \in 1 .. n : nodes[j] = ep
    BY ListingNodes DEF Range
  <2>2. PICK k \in 1 .. Len(kept) : kept[k] = ep
    BY <1>6, <1>10, <2>1
  <2>3. QED
    BY <2>2, <1>7
<1>11. Listing(kept)
  BY <1>8, <1>9 DEF Listing
<1>12. IsInjective(nodes) => IsInjective(kept)
  BY <1>6, <1>7 DEF IsInjective
<1>13. QED
  BY <1>9, <1>10, <1>11, <1>12 DEF kept

(* Select (balancer.go:33-44) yields one of the nodes; and where the       *)
(* weights add up to something, the first whose running weight passes the  *)
(* position, if there is one.                                              *)
LEMMA SelectsANode ==
  ASSUME NEW nodes, Listing(nodes), nodes # <<>>, NEW c \in Nat
  PROVE  Select(nodes, c) \in Range(nodes)
<1> DEFINE hits == {i \in DOMAIN nodes : c % TotalWeight(nodes) < RunningWeight(nodes)[i]}
<1>1. nodes[1] \in Range(nodes)
  BY ListingNodes
<1>2. ASSUME hits # {}
      PROVE  nodes[CHOOSE i \in hits : \A j \in hits : i <= j] \in Range(nodes)
  <2>1. hits \in SUBSET Nat /\ hits \subseteq 1 .. Len(nodes)
    BY ListingNodes
  <2> HIDE DEF hits
  <2>2. \E i \in hits : \A j \in hits : i <= j
    BY <1>2, <2>1, SmallestMember
  <2>3. (CHOOSE i \in hits : \A j \in hits : i <= j) \in hits
    BY <2>2
  <2>4. QED
    BY <2>1, <2>3, ListingNodes
<1>3. QED
  BY <1>1, <1>2 DEF Select

LEMMA CounterKeepsWidth ==
  ASSUME NEW nodes, NEW c \in 0 .. CounterMod - 1
  PROVE  NextCounter(nodes, c) \in 0 .. CounterMod - 1
BY WidthAssumption DEF NextCounter

-----------------------------------------------------------------------------
(* The router's invariant: a route in progress has its nodes from one      *)
(* listing of its service, and its node from those.                        *)
Snapshot(service, nodes) ==
  /\ service \in DOMAIN Listings
  /\ nodes # <<>>
  /\ \E listing \in Listings[service] : nodes = filterHealthy(listing)

SoundRoute(t) ==
  /\ t \in [pc : {t.pc}, service : {t.service}, healthy : {t.healthy}, ep : {t.ep}]
  /\ \/ /\ t.pc \in {"idle", "failed"}
        /\ t.healthy = <<>> /\ t.ep = NoEndpoint
     \/ /\ t.pc = "listed"
        /\ Snapshot(t.service, t.healthy) /\ t.ep = NoEndpoint
     \/ /\ t.pc = "routed"
        /\ Snapshot(t.service, t.healthy) /\ t.ep \in Range(t.healthy)

RouterInv ==
  /\ registry = [s \in DOMAIN Listings |-> registry[s]]
  /\ \A s \in DOMAIN Listings : registry[s] \in Listings[s]
  /\ counter \in 0 .. CounterMod - 1
  /\ route = [r \in Requests |-> route[r]]
  /\ \A r \in Requests : SoundRoute(route[r])

(* What the history is: selections out of listings, in the order of their  *)
(* draws, each of which leaves the counter to the next.                    *)
Drawn(p) ==
  /\ p = [service |-> p.service, from |-> p.from, drawn |-> p.drawn, ep |-> p.ep]
  /\ Snapshot(p.service, p.from)
  /\ p.drawn \in 0 .. CounterMod - 1
  /\ p.ep = Select(p.from, p.drawn)

History ==
  /\ picks \in Seq(Range(picks))
  /\ \A i \in 1 .. Len(picks) :
       /\ Drawn(picks[i])
       /\ NextCounter(picks[i].from, picks[i].drawn) =
            IF i = Len(picks) THEN counter ELSE picks[i + 1].drawn

(* The nodes a snapshot holds.                                             *)
LEMMA Snapshots ==
  ASSUME NEW s, NEW nodes, Snapshot(s, nodes)
  PROVE  /\ Listing(nodes)
         /\ \A ep \in Range(nodes) :
              ep.healthy /\ \E listing \in Listings[s] : ep \in Range(listing)
         /\ \E listing \in Listings[s] :
              Range(nodes) = {ep \in Range(listing) : ep.healthy}
<1>1. PICK listing \in Listings[s] : nodes = filterHealthy(listing)
  BY DEF Snapshot
<1>2. Listing(listing)
  BY ListingAssumption DEF Listing, Snapshot
<1>3. Range(nodes) = {ep \in Range(listing) : ep.healthy}
  BY <1>1, <1>2, FilterHealthy
<1>4. QED
  BY <1>1, <1>2, <1>3, FilterHealthy

LEMMA RouterInitInv == RouterInit => RouterInv
BY WidthAssumption DEF RouterInit, RouterInv, NoRoute, SoundRoute

(* A goroutine's step changes its own route.                               *)
LEMMA OwnRoute ==
  ASSUME RouterInv, NEW r \in Requests, NEW t, SoundRoute(t),
         route' = [route EXCEPT ![r] = t]
  PROVE  /\ route' = [q \in Requests |-> route'[q]]
         /\ \A q \in Requests : SoundRoute(route'[q])
<1>1. DOMAIN route = Requests
  BY DEF RouterInv
<1>2. ASSUME NEW q \in Requests PROVE SoundRoute(route'[q])
  BY <1>1 DEF RouterInv
<1>3. QED
  BY <1>1, <1>2

LEMMA RouterStepInv ==
  ASSUME RouterInv, [RouterNext]_routerVars
  PROVE  RouterInv'
<1>1. ASSUME NEW s \in DOMAIN Listings, NEW listing \in Listings[s], Publish(s, listing)
      PROVE  RouterInv'
  BY <1>1 DEF RouterInv, Publish
<1>2. ASSUME NEW r \in Requests, NEW target, GetServices(r, target)
      PROVE  RouterInv'
  <2> DEFINE s == parseTarget(target).service
             t == [pc |-> "listed", service |-> s, healthy |-> filterHealthy(registry[s]),
                   ep |-> NoEndpoint]
  <2>1. Snapshot(s, filterHealthy(registry[s]))
    BY <1>2 DEF GetServices, Known, Snapshot, RouterInv
  <2>2. SoundRoute(t)
    BY <2>1 DEF SoundRoute
  <2>3. route' = [route EXCEPT ![r] = t] /\ UNCHANGED <<registry, counter>>
    BY <1>2 DEF GetServices
  <2> HIDE DEF t
  <2>4. QED
    BY <2>2, <2>3, OwnRoute DEF RouterInv
<1>3. ASSUME NEW r \in Requests, NEW target, RouteFails(r, target)
      PROVE  RouterInv'
  <2>1. SoundRoute([NoRoute EXCEPT !.pc = "failed"])
    BY DEF SoundRoute, NoRoute
  <2>2. QED
    BY <1>3, <2>1, OwnRoute DEF RouterInv, RouteFails
<1>4. ASSUME NEW r \in Requests, Pick(r)
      PROVE  RouterInv'
  <2> DEFINE node == Select(route[r].healthy, counter)
             t == [route[r] EXCEPT !.pc = "routed", !.ep = node]
  <2>1. SoundRoute(route[r]) /\ counter \in 0 .. CounterMod - 1 /\ counter \in Nat
    BY WidthAssumption DEF RouterInv
  <2>2. Snapshot(route[r].service, route[r].healthy)
    BY <1>4, <2>1 DEF Pick, SoundRoute
  <2>3. Select(route[r].healthy, counter) \in Range(route[r].healthy)
    BY <2>1, <2>2, Snapshots, SelectsANode DEF Snapshot
  <2>4. SoundRoute(t)
    <3>1. t \in [pc : {"routed"}, service : {route[r].service},
                 healthy : {route[r].healthy}, ep : {node}]
      BY <2>1 DEF SoundRoute
    <3> HIDE DEF t
    <3>2. QED
      BY <3>1, <2>2, <2>3 DEF SoundRoute
  <2>5. counter' \in 0 .. CounterMod - 1
    BY <1>4, <2>1, CounterKeepsWidth DEF Pick
  <2>6. route' = [route EXCEPT ![r] = t] /\ registry' = registry
    BY <1>4 DEF Pick
  <2> HIDE DEF t
  <2>7. QED
    BY <2>4, <2>5, <2>6, OwnRoute DEF RouterInv
<1>5. ASSUME NEW r \in Requests, Leave(r)
      PROVE  RouterInv'
  <2>1. SoundRoute(NoRoute)
    BY DEF SoundRoute, NoRoute
  <2>2. QED
    BY <1>5, <2>1, OwnRoute DEF RouterInv, Leave
<1>6. CASE UNCHANGED routerVars
  BY <1>6 DEF RouterInv, routerVars
<1>7. QED
  BY <1>1, <1>2, <1>3, <1>4, <1>5, <1>6 DEF RouterNext

(* The router's types (router.go:41-70): a route has nodes to pick from    *)
(* only between discovery and selection, and a node only after it.         *)
THEOREM RouterTypes == RouterSpec => []RouterTypeOK
<1>1. RouterInv => RouterTypeOK
  <2> SUFFICES ASSUME RouterInv PROVE RouterTypeOK
    OBVIOUS
  <2>1. ASSUME NEW r \in Requests, route[r].pc = "routed" PROVE route[r].ep \in Nodes
    <3>1. Snapshot(route[r].service, route[r].healthy) /\ route[r].ep \in Range(route[r].healthy)
      BY <2>1 DEF RouterInv, SoundRoute
    <3>2. PICK listing \in Listings[route[r].service] : route[r].ep \in Range(listing)
      BY <3>1, Snapshots
    <3>3. route[r].service \in DOMAIN Listings
      BY <3>1 DEF Snapshot
    <3>4. QED
      BY <3>2, <3>3 DEF Nodes
  <2>2. QED
    BY <2>1 DEF RouterInv, RouterTypeOK, SoundRoute, Snapshot
<1>2. QED
  BY <1>1, RouterInitInv, RouterStepInv, PTL DEF RouterSpec

-----------------------------------------------------------------------------
(* The history of the selections.                                          *)

LEMMA SharesSteps == [ShareNext]_<<routerVars, picks>> => [RouterNext]_routerVars
BY DEF ShareNext, Draw, RouterNext, routerVars

LEMMA HistoryAtStart == ShareInit => History
BY DEF ShareInit, History, Range

LEMMA HistoryKept ==
  ASSUME RouterInv, History, [ShareNext]_<<routerVars, picks>>
  PROVE  History'
<1>1. ASSUME NEW r \in Requests, Draw(r) PROVE History'
  <2> DEFINE t == route[r]
             p == [service |-> t.service, from |-> t.healthy, drawn |-> counter,
                   ep |-> route'[r].ep]
             n == Len(picks)
  <2>1. SoundRoute(t) /\ t.pc = "listed" /\ counter \in 0 .. CounterMod - 1
    BY <1>1 DEF RouterInv, Draw, Pick
  <2>2. route'[r].ep = Select(t.healthy, counter)
    BY <1>1, <2>1 DEF Draw, Pick, RouterInv, SoundRoute
  <2>3. Drawn(p)
    BY <2>1, <2>2 DEF Drawn, SoundRoute
  <2>4. counter' = NextCounter(p.from, p.drawn)
    BY <1>1 DEF Draw, Pick
  <2>5. picks' = Append(picks, p)
    BY <1>1 DEF Draw
  <2> HIDE DEF p, t
  <2>6. /\ Len(picks') = n + 1 /\ picks'[n + 1] = p /\ n \in Nat
        /\ \A i \in 1 .. n : picks'[i] = picks[i]
        /\ DOMAIN picks' = 1 .. n + 1
    BY <2>5 DEF History
  <2>7. picks' \in Seq(Range(picks'))
    <3>1. \A i \in 1 .. n + 1 : picks'[i] \in Range(picks')
      BY <2>6 DEF Range
    <3>2. picks' \in Seq(Range(picks) \cup {p})
      <4>1. picks \in Seq(Range(picks) \cup {p})
        BY DEF History
      <4>2. QED
        BY <4>1, <2>5
    <3>3. QED
      BY <3>1, <3>2, <2>6
  <2>8. ASSUME NEW i \in 1 .. Len(picks')
        PROVE /\ Drawn(picks'[i])
              /\ NextCounter(picks'[i].from, picks'[i].drawn) =
                   IF i = Len(picks') THEN counter' ELSE picks'[i + 1].drawn
    <3>1. CASE i = n + 1
      BY <3>1, <2>3, <2>4, <2>6
    <3>2. CASE i # n + 1
      <4>1. i \in 1 .. n /\ i + 1 \in 1 .. n + 1 /\ i # Len(picks')
        BY <3>2, <2>6
      <4>2. CASE i = n
        <5>1. picks'[i + 1].drawn = counter
          BY <4>2, <2>6 DEF p
        <5>2. QED
          BY <4>1, <4>2, <5>1, <2>6 DEF History
      <4>3. CASE i # n
        <5>1. i + 1 \in 1 .. n
          BY <4>1, <4>3, <2>6
        <5>2. QED
          BY <4>1, <4>3, <5>1, <2>6 DEF History
      <4>4. QED
        BY <4>2, <4>3
    <3>3. QED
      BY <3>1, <3>2
  <2>9. QED
    BY <2>7, <2>8 DEF History, Drawn, Snapshot, Select, NextCounter
<1>2. CASE UNCHANGED <<counter, picks>>
  BY <1>2 DEF History, Drawn
<1>3. QED
  BY <1>1, <1>2 DEF ShareNext, Publish, GetServices, RouteFails, Leave, routerVars

LEMMA ShareInductive == ShareSpec => [](RouterInv /\ History)
<1>1. ShareInit => RouterInv
  BY RouterInitInv DEF ShareInit
<1>2. QED
  BY <1>1, SharesSteps, HistoryAtStart, RouterStepInv, HistoryKept, PTL DEF ShareSpec

LEMMA ShareIsRouting == ShareSpec => RouterSpec
<1>1. ShareInit => RouterInit
  BY DEF ShareInit
<1>2. QED
  BY <1>1, SharesSteps, PTL DEF ShareSpec, RouterSpec

(* A selection leads to one of the nodes its snapshot held, and the        *)
(* snapshot to all healthy nodes of one listing of the service asked for   *)
(* (router.go:41-70), however long ago discovery was asked and however the *)
(* goroutines interleave.                                                  *)
THEOREM HealthyRoutes == ShareSpec => []RoutesToHealthy
<1>1. RouterInv /\ History => RoutesToHealthy
  <2> SUFFICES ASSUME History, NEW i \in DOMAIN picks
               PROVE  /\ picks[i].ep \in Range(picks[i].from)
                      /\ \E listing \in Listings[picks[i].service] :
                           Range(picks[i].from) = {ep \in Range(listing) : ep.healthy}
    BY DEF RoutesToHealthy
  <2>1. Drawn(picks[i])
    BY DEF History
  <2>2. Snapshot(picks[i].service, picks[i].from) /\ picks[i].drawn \in Nat
        /\ picks[i].ep = Select(picks[i].from, picks[i].drawn)
    BY <2>1, WidthAssumption DEF Drawn
  <2>3. picks[i].ep \in Range(picks[i].from)
    BY <2>2, Snapshots, SelectsANode DEF Snapshot
  <2>4. QED
    BY <2>2, <2>3, Snapshots
<1>2. QED
  BY <1>1, ShareInductive, PTL

-----------------------------------------------------------------------------
(* One turn of the wheel.                                                  *)

(* The weights of a listing added up, unrolled.                            *)
LEMMA SumLoop ==
  ASSUME NEW nodes, Listing(nodes)
  PROVE  \E sum \in [0 .. Len(nodes) -> Nat] :
           /\ sum[0] = 0
           /\ \A i \in 1 .. Len(nodes) : sum[i] = sum[i - 1] + nodes[i].weight
           /\ sum[Len(nodes)] = Sum(nodes)
<1> DEFINE n == Len(nodes)
           step == [x \in (1 .. n) \X Nat |-> x[2] + nodes[x[1]].weight]
           Eq(f) == f = [i \in 0 .. n |-> IF i = 0 THEN 0 ELSE f[i - 1] + nodes[i].weight]
<1>1. n \in Nat /\ \A i \in 1 .. n : nodes[i].weight \in Nat
  BY ListingNodes, WidthAssumption
<1>2. step \in [(1 .. n) \X Nat -> Nat]
  BY <1>1
<1>3. PICK f \in [0 .. n -> Nat] : Follows(f, n, 0, step)
  <2> HIDE DEF n, step
  <2> QED
    BY <1>1, <1>2, RecursiveFunction
<1>4. f[0] = 0
  <2>1. 0 \in 0 .. n
    BY <1>1
  <2> HIDE DEF step
  <2>2. QED
    BY <2>1, <1>3 DEF Follows
<1>5. ASSUME NEW i \in 1 .. n PROVE f[i] = f[i - 1] + nodes[i].weight
  <2>1. i \in 0 .. n /\ i # 0 /\ f[i - 1] \in Nat
    BY <1>1
  <2>2. QED
    BY <2>1, <1>3 DEF Follows
<1>6. Eq(f)
  <2>1. ASSUME NEW i \in 0 .. n
        PROVE f[i] = IF i = 0 THEN 0 ELSE f[i - 1] + nodes[i].weight
    <3>1. CASE i = 0
      BY <1>4, <3>1
    <3>2. CASE i # 0
      <4>1. i \in 1 .. n
        BY <3>2, <1>1
      <4>2. QED
        BY <4>1, <3>2, <1>5
    <3>3. QED
      BY <3>1, <3>2
  <2>2. QED
    BY <2>1
<1>7. PICK g : Eq(g) /\ g[n] = Sum(nodes)
  <2>1. Sum(nodes) = (CHOOSE g : Eq(g))[n]
    BY DEF Sum
  <2> HIDE DEF Eq
  <2>2. Eq(CHOOSE g : Eq(g))
    BY <1>6
  <2>3. QED
    BY <2>1, <2>2
<1>8. g[0] = 0 /\ \A i \in 1 .. n : g[i] = g[i - 1] + nodes[i].weight
  <2>1. \A i \in 0 .. n : g[i] = IF i = 0 THEN 0 ELSE g[i - 1] + nodes[i].weight
    BY <1>7
  <2>2. 0 \in 0 .. n /\ \A i \in 1 .. n : i \in 0 .. n /\ i # 0
    BY <1>1
  <2>3. QED
    BY <2>1, <2>2
<1>9. \A i \in 0 .. n : g[i] \in Nat
  <2> DEFINE T == {i \in 0 .. n : g[i] \in Nat}
  <2>1. 0 \in T
    BY <1>8, <1>1
  <2>2. ASSUME NEW i \in 1 .. n, i - 1 \in T PROVE i \in T
    BY <2>2, <1>1, <1>8
  <2>3. 0 .. n \subseteq T
    <3> HIDE DEF T, n
    <3> QED
      BY <1>1, <2>1, <2>2, BoundedInduction
  <2>4. QED
    BY <2>3
<1>10. g \in [0 .. n -> Nat]
  BY <1>7, <1>9
<1>11. QED
  BY <1>7, <1>8, <1>10

(* Values that never fall.                                                 *)
LEMMA Rising ==
  ASSUME NEW n \in Nat, NEW f \in [0 .. n -> Int], \A i \in 1 .. n : f[i - 1] <= f[i],
         NEW i \in 0 .. n, NEW j \in i .. n
  PROVE  f[i] <= f[j]
<1> DEFINE T == {k \in 0 .. n : k >= i => f[i] <= f[k]}
<1>1. 0 \in T
  <2>1. 0 \in 0 .. n /\ (0 >= i => i = 0)
    OBVIOUS
  <2>2. QED
    BY <2>1
<1>2. ASSUME NEW k \in 1 .. n, k - 1 \in T PROVE k \in T
  <2>1. k \in 0 .. n /\ k - 1 \in 0 .. n /\ f[k - 1] \in Int /\ f[k] \in Int /\ f[i] \in Int
    OBVIOUS
  <2>2. f[k - 1] <= f[k] /\ (k - 1 >= i => f[i] <= f[k - 1])
    BY <1>2
  <2>3. k >= i => f[i] <= f[k]
    <3>1. CASE k = i
      BY <3>1, <2>1
    <3>2. CASE k # i
      BY <3>2, <2>1, <2>2
    <3>3. QED
      BY <3>1, <3>2
  <2>4. QED
    BY <2>1, <2>3
<1>3. 0 .. n \subseteq T
  <2> HIDE DEF T
  <2> QED
    BY <1>1, <1>2, BoundedInduction
<1>4. QED
  BY <1>3

(* As long as the sum of the weights fits its width, so do the running     *)
(* weights: they are exact, never fall, and end at the sum.                *)
LEMMA ExactWeights ==
  ASSUME NEW nodes, Listing(nodes), Sum(nodes) < WeightMod
  PROVE  /\ RunningWeight(nodes) \in [0 .. Len(nodes) -> Nat]
         /\ RunningWeight(nodes)[0] = 0
         /\ \A i \in 1 .. Len(nodes) :
              RunningWeight(nodes)[i] = RunningWeight(nodes)[i - 1] + nodes[i].weight
         /\ \A i \in 0 .. Len(nodes) : \A j \in i .. Len(nodes) :
              RunningWeight(nodes)[i] <= RunningWeight(nodes)[j]
         /\ RunningWeight(nodes)[Len(nodes)] = Sum(nodes)
         /\ TotalWeight(nodes) = Sum(nodes)
<1> DEFINE n == Len(nodes)
           R == RunningWeight(nodes)
<1>1. n \in Nat /\ WeightMod \in Nat \ {0} /\ \A i \in 1 .. n : nodes[i].weight \in Nat
  BY ListingNodes, WidthAssumption
<1>2. PICK sum \in [0 .. n -> Nat] :
        /\ sum[0] = 0
        /\ \A i \in 1 .. n : sum[i] = sum[i - 1] + nodes[i].weight
        /\ sum[n] = Sum(nodes)
  BY SumLoop
<1>3. /\ R \in [0 .. n -> 0 .. WeightMod - 1]
      /\ R[0] = 0
      /\ \A i \in 1 .. n : R[i] = (R[i - 1] + nodes[i].weight) % WeightMod
  BY RunningWeights
<1> HIDE DEF n, R
<1>4. \A i \in 1 .. n : sum[i - 1] <= sum[i]
  <2> SUFFICES ASSUME NEW i \in 1 .. n PROVE sum[i - 1] <= sum[i]
    OBVIOUS
  <2>1. i - 1 \in 0 .. n /\ sum[i - 1] \in Nat
    BY <1>1
  <2>2. sum[i] = sum[i - 1] + nodes[i].weight /\ nodes[i].weight \in Nat
    BY <1>1, <1>2
  <2>3. QED
    BY <2>1, <2>2
<1>5. \A i \in 0 .. n : \A j \in i .. n : sum[i] <= sum[j]
  <2>1. sum \in [0 .. n -> Int]
    BY <1>2
  <2>2. QED
    BY <2>1, <1>1, <1>4, Rising
<1>6. \A i \in 0 .. n : sum[i] \in Nat /\ sum[i] < WeightMod
  <2> SUFFICES ASSUME NEW i \in 0 .. n PROVE sum[i] \in Nat /\ sum[i] < WeightMod
    OBVIOUS
  <2>1. n \in i .. n /\ n \in 0 .. n
    BY <1>1
  <2>2. sum[i] <= sum[n] /\ sum[i] \in Nat /\ sum[n] \in Nat
    BY <2>1, <1>5, <1>2
  <2>3. sum[n] < WeightMod
    BY <1>2
  <2>4. QED
    BY <2>2, <2>3, <1>1
<1> DEFINE T == {i \in 0 .. n : R[i] = sum[i]}
<1>7. 0 \in T
  BY <1>1, <1>2, <1>3
<1>8. ASSUME NEW i \in 1 .. n, i - 1 \in T PROVE i \in T
  <2>1. R[i - 1] = sum[i - 1] /\ i \in 0 .. n
    BY <1>8, <1>1
  <2>2. R[i] = sum[i] % WeightMod
    BY <2>1, <1>2, <1>3
  <2>3. sum[i] % WeightMod = sum[i]
    <3>1. ASSUME NEW a \in Nat, a < WeightMod PROVE a % WeightMod = a
      <4>1. a \in 0 .. WeightMod - 1 /\ WeightMod * 0 + a = a
        BY <3>1, <1>1
      <4>2. (WeightMod * 0 + a) % WeightMod = a
        BY <4>1, <1>1, Remainder
      <4>3. QED
        BY <4>1, <4>2
    <3>2. QED
      BY <3>1, <2>1, <1>6
  <2>4. QED
    BY <2>1, <2>2, <2>3
<1>9. 0 .. n \subseteq T
  <2> HIDE DEF T
  <2> QED
    BY <1>1, <1>7, <1>8, BoundedInduction
<1>10. \A i \in 0 .. n : R[i] = sum[i]
  BY <1>9
<1>11. R \in [0 .. n -> Nat]
  BY <1>3, <1>6, <1>10
<1>12. \A i \in 1 .. n : R[i] = R[i - 1] + nodes[i].weight
  BY <1>1, <1>2, <1>10
<1>13. \A i \in 0 .. n : \A j \in i .. n : R[i] <= R[j]
  BY <1>1, <1>5, <1>10
<1>14. R[n] = Sum(nodes)
  BY <1>1, <1>2, <1>10
<1>15. QED
  BY <1>3, <1>11, <1>12, <1>13, <1>14 DEF n, R, TotalWeight

(* A node is chosen where the position falls within its own weight, and    *)
(* nowhere else (balancer.go:36-41).                                       *)
LEMMA ChosenWithinItsWeight ==
  ASSUME NEW nodes, Listing(nodes), IsInjective(nodes),
         Sum(nodes) \in 1 .. WeightMod - 1, NEW c \in Nat, NEW m \in 1 .. Len(nodes)
  PROVE  Select(nodes, c) = nodes[m] <=>
           /\ RunningWeight(nodes)[m - 1] <= c % Sum(nodes)
           /\ c % Sum(nodes) < RunningWeight(nodes)[m]
<1> DEFINE n == Len(nodes)
           R == RunningWeight(nodes)
           pos == c % Sum(nodes)
           hits == {i \in DOMAIN nodes : pos < R[i]}
           first == CHOOSE i \in hits : \A j \in hits : i <= j
<1>1. /\ R \in [0 .. n -> Nat] /\ R[0] = 0 /\ R[n] = Sum(nodes)
      /\ \A i \in 0 .. n : \A j \in i .. n : R[i] <= R[j]
      /\ TotalWeight(nodes) = Sum(nodes)
  BY WidthAssumption, ExactWeights
<1>2. n \in Nat /\ DOMAIN nodes = 1 .. n
  BY ListingNodes
<1>3. pos \in 0 .. Sum(nodes) - 1
  <2>1. Sum(nodes) \in Nat \ {0} /\ 0 \in 0 .. Sum(nodes) - 1
    BY WidthAssumption
  <2>2. QED
    BY <2>1, RemainderGoesRound
<1>4. Select(nodes, c) = IF Sum(nodes) = 0 \/ hits = {} THEN nodes[1] ELSE nodes[first]
  BY <1>1 DEF Select
<1> HIDE DEF n, R, pos
<1>5. Sum(nodes) \in Nat \ {0} /\ pos \in Nat /\ pos < Sum(nodes)
  BY <1>3, WidthAssumption
<1>6. n # 0
  BY <1>1, <1>5
<1>7. n \in hits
  BY <1>1, <1>2, <1>5, <1>6
<1>8. first \in hits /\ \A j \in hits : first <= j
  <2>1. hits \in SUBSET Nat
    BY <1>2
  <2> HIDE DEF hits
  <2>2. \E i \in hits : \A j \in hits : i <= j
    BY <1>7, <2>1, SmallestMember
  <2>3. QED
    BY <2>2
<1> HIDE DEF first
<1>9. first \in 1 .. n /\ pos < R[first]
  BY <1>8, <1>2
<1>10. R[first - 1] <= pos
  <2>1. CASE first = 1
    BY <2>1, <1>1, <1>5
  <2>2. CASE first # 1
    <3>1. first - 1 \in 1 .. n /\ first - 1 \in 0 .. n
      BY <2>2, <1>2, <1>9
    <3>2. first - 1 \notin hits
      BY <3>1, <1>8, <1>9
    <3>3. ~(pos < R[first - 1])
      BY <3>1, <3>2, <1>2
    <3>4. R[first - 1] \in Nat
      BY <3>1, <1>1
    <3>5. QED
      BY <3>3, <3>4, <1>5
  <2>3. QED
    BY <2>1, <2>2
<1>11. Select(nodes, c) = nodes[first]
  <2>1. hits # {}
    BY <1>7
  <2> HIDE DEF hits
  <2>2. QED
    BY <1>4, <1>5, <2>1
<1>12. Select(nodes, c) = nodes[m] <=> first = m
  <2>1. m \in 1 .. n
    BY DEF n
  <2>2. QED
    BY <2>1, <1>2, <1>9, <1>11 DEF IsInjective
<1>13. first = m <=> R[m - 1] <= pos /\ pos < R[m]
  <2>1. m \in 1 .. n /\ m - 1 \in 0 .. n /\ m \in 0 .. n /\ first - 1 \in 0 .. n /\ first \in 0 .. n
    BY <1>2, <1>9 DEF n
  <2>2. R[m - 1] \in Nat /\ R[m] \in Nat /\ R[first - 1] \in Nat /\ R[first] \in Nat
    BY <2>1, <1>1
  <2>3. CASE first < m
    <3>1. m - 1 \in first .. n
      BY <2>1, <2>3
    <3>2. R[first] <= R[m - 1]
      BY <2>1, <3>1, <1>1
    <3>3. QED
      BY <2>2, <2>3, <3>2, <1>5, <1>9
  <2>4. CASE m < first
    <3>1. first - 1 \in m .. n
      BY <2>1, <2>4
    <3>2. R[m] <= R[first - 1]
      BY <2>1, <3>1, <1>1
    <3>3. QED
      BY <2>2, <2>4, <3>2, <1>5, <1>10
  <2>5. CASE first = m
    BY <2>5, <1>9, <1>10
  <2>6. QED
    BY <2>1, <2>3, <2>4, <2>5
<1>14. QED
  BY <1>12, <1>13 DEF R, pos

(* In a turn the counter is drawn one by one: no other service takes a     *)
(* draw in between, and no draw is taken twice (balancer.go:33).           *)
LEMMA OneByOne ==
  ASSUME History, NEW i \in DOMAIN picks, NEW j \in i .. Len(picks),
         IsTurn(SubSeq(picks, i, j))
  PROVE  /\ picks[i].drawn \in Nat
         /\ \A b \in 0 .. j - i : picks[i + b].from = picks[i].from
                                  /\ picks[i + b].drawn = picks[i].drawn + b
         /\ Sum(picks[i].from) = j - i + 1
         /\ Sum(picks[i].from) \in 1 .. WeightMod - 1
         /\ Snapshot(picks[i].service, picks[i].from)
<1> DEFINE run == SubSeq(picks, i, j)
           n == j - i + 1
           nodes == picks[i].from
<1>1. /\ Len(picks) \in Nat /\ i \in 1 .. Len(picks) /\ j \in 1 .. Len(picks) /\ i <= j
      /\ n \in Nat \ {0}
  BY DEF History
<1>2. /\ Len(run) = n /\ DOMAIN run = 1 .. n
      /\ \A k \in 1 .. n : run[k] = picks[i + k - 1] /\ i + k - 1 \in 1 .. Len(picks)
  <2>1. picks \in Seq(Range(picks))
    BY DEF History
  <2>2. run = [k \in 1 .. n |-> picks[i + k - 1]]
    BY <2>1, <1>1
  <2>3. \A k \in 1 .. n : i + k - 1 \in 1 .. Len(picks)
    BY <1>1
  <2> HIDE DEF run, n
  <2>4. n \in Nat
    BY <1>1
  <2>5. QED
    BY <2>2, <2>3, <2>4
<1>3. /\ \A k \in 1 .. n : run[k].from = run[1].from
      /\ Sum(run[1].from) = n /\ n < WeightMod
      /\ run[1].drawn + n <= CounterMod
  <2> HIDE DEF run, n
  <2> QED
    BY <1>2 DEF IsTurn, run
<1> HIDE DEF run
<1>4. run[1] = picks[i] /\ 1 \in 1 .. n
  BY <1>1, <1>2
<1>5. ASSUME NEW b \in 0 .. j - i PROVE picks[i + b].from = nodes /\ Drawn(picks[i + b])
  <2>1. b + 1 \in 1 .. n /\ i + (b + 1) - 1 = i + b
    BY <1>1
  <2>2. run[b + 1] = picks[i + b] /\ i + b \in 1 .. Len(picks)
    BY <2>1, <1>2
  <2>3. QED
    BY <2>1, <2>2, <1>3, <1>4 DEF History
<1>6. Sum(nodes) = n /\ n \in 1 .. WeightMod - 1 /\ Snapshot(picks[i].service, nodes)
  <2>1. 0 \in 0 .. j - i /\ i + 0 = i
    BY <1>1
  <2>2. Drawn(picks[i])
    BY <2>1, <1>5
  <2>3. Sum(nodes) = n /\ n < WeightMod
    BY <1>3, <1>4
  <2>4. QED
    BY <1>1, <2>2, <2>3, WidthAssumption DEF Drawn
<1>7. TotalWeight(nodes) = n
  BY <1>6, Snapshots, ExactWeights, WidthAssumption
<1> HIDE DEF nodes
<1>8. picks[i].drawn \in Nat
  <2>1. 0 \in 0 .. j - i /\ i + 0 = i
    BY <1>1
  <2>2. Drawn(picks[i])
    BY <2>1, <1>5
  <2>3. QED
    BY <2>2, WidthAssumption DEF Drawn
<1> DEFINE T == {b \in 0 .. j - i : picks[i + b].drawn = picks[i].drawn + b}
<1>9. 0 \in T
  <2>1. 0 \in 0 .. j - i /\ i + 0 = i
    BY <1>1
  <2>2. QED
    BY <2>1, <1>8
<1>10. ASSUME NEW b \in 1 .. j - i, b - 1 \in T PROVE b \in T
  <2> DEFINE p == picks[i + (b - 1)]
             q == picks[i + b]
  <2>1. /\ b \in 0 .. j - i /\ b - 1 \in 0 .. j - i /\ i + (b - 1) \in 1 .. Len(picks)
        /\ i + (b - 1) # Len(picks) /\ i + (b - 1) + 1 = i + b
        /\ b \in 1 .. n /\ b + 1 \in 1 .. n /\ b < b + 1
        /\ i + b - 1 = i + (b - 1) /\ i + (b + 1) - 1 = i + b
    BY <1>1
  <2>2. q.drawn = NextCounter(nodes, p.drawn)
    BY <2>1, <1>5 DEF History
  <2>3. q.drawn = (p.drawn + 1) % CounterMod
    BY <2>2, <1>6, <1>7 DEF NextCounter
  <2>4. p.drawn \in 0 .. CounterMod - 1 /\ p.drawn = picks[i].drawn + (b - 1)
    BY <1>10, <2>1, <1>5 DEF Drawn
  <2> HIDE DEF p, q
  <2>5. picks[i].drawn + n <= CounterMod /\ picks[i].drawn \in Nat
    BY <1>3, <1>4, <1>2, <1>8
  <2>6. /\ p.drawn + 1 \in 0 .. CounterMod - 1 /\ CounterMod \in Nat \ {0}
        /\ CounterMod * 0 + (p.drawn + 1) = p.drawn + 1
    <3>1. p.drawn \in Nat /\ CounterMod \in Nat \ {0} /\ b \in Int /\ i \in Int /\ j \in Int
      BY <2>4, <1>1, WidthAssumption
    <3>2. b <= j - i
      OBVIOUS
    <3>3. p.drawn + 1 <= CounterMod - 1
      BY <2>4, <2>5, <3>1, <3>2
    <3>4. QED
      BY <3>1, <3>3
  <2>7. (CounterMod * 0 + (p.drawn + 1)) % CounterMod = p.drawn + 1
    BY <2>6, Remainder
  <2>8. q.drawn = picks[i].drawn + b
    <3>1. q.drawn = p.drawn + 1
      <4>1. CounterMod * 0 + (p.drawn + 1) = p.drawn + 1
        BY <2>6
      <4>2. QED
        BY <2>3, <2>7, <4>1, Zenon
    <3>2. b \in Int
      BY <1>1
    <3>3. QED
      BY <3>1, <3>2, <2>4, <2>5
  <2>9. QED
    BY <2>1, <2>8 DEF q
<1>11. 0 .. j - i \subseteq T
  <2>1. j - i \in Nat
    BY <1>1
  <2> HIDE DEF T
  <2>2. QED
    BY <2>1, <1>9, <1>10, BoundedInduction
<1>12. QED
  BY <1>5, <1>6, <1>8, <1>11 DEF nodes

LEMMA FairTurn ==
  ASSUME History, NEW i \in DOMAIN picks, NEW j \in i .. Len(picks),
         IsTurn(SubSeq(picks, i, j)), NEW ep \in Range(picks[i].from)
  PROVE  Chosen(SubSeq(picks, i, j), ep) = ep.weight
<1> DEFINE run == SubSeq(picks, i, j)
           n == j - i + 1
           nodes == picks[i].from
           d == picks[i].drawn
           R == RunningWeight(nodes)
<1>1. /\ d \in Nat
      /\ \A b \in 0 .. j - i : picks[i + b].from = nodes /\ picks[i + b].drawn = d + b
      /\ Sum(nodes) = n /\ n \in 1 .. WeightMod - 1
      /\ Snapshot(picks[i].service, nodes)
  BY OneByOne
<1>2. /\ Len(picks) \in Nat /\ i \in 1 .. Len(picks) /\ j \in 1 .. Len(picks) /\ i <= j
      /\ n \in Nat \ {0}
  BY DEF History
<1>3. /\ DOMAIN run = 1 .. n
      /\ \A k \in 1 .. n : run[k] = picks[i + (k - 1)] /\ i + (k - 1) \in 1 .. Len(picks)
  <2>1. picks \in Seq(Range(picks))
    BY DEF History
  <2>2. run = [k \in 1 .. n |-> picks[i + k - 1]]
    BY <2>1, <1>2
  <2>3. \A k \in 1 .. n : i + (k - 1) \in 1 .. Len(picks) /\ i + k - 1 = i + (k - 1)
    BY <1>2
  <2> HIDE DEF run, n
  <2>4. QED
    BY <2>2, <2>3
<1>4. PICK listing \in Listings[picks[i].service] : nodes = filterHealthy(listing)
  BY <1>1 DEF Snapshot
<1>5. Listing(nodes) /\ IsInjective(nodes)
  <2>1. Listing(listing) /\ IsInjective(listing)
    BY <1>1, ListingAssumption DEF Listing, Snapshot
  <2>2. QED
    BY <2>1, <1>4, FilterHealthy
<1>6. PICK m \in 1 .. Len(nodes) : nodes[m] = ep
  BY <1>5, ListingNodes DEF Range
<1>7. /\ R \in [0 .. Len(nodes) -> Nat] /\ R[0] = 0 /\ R[Len(nodes)] = n
      /\ R[m] = R[m - 1] + ep.weight
      /\ \A a \in 0 .. Len(nodes) : \A b \in a .. Len(nodes) : R[a] <= R[b]
  <2>1. Sum(nodes) = n /\ Sum(nodes) < WeightMod
    BY <1>1, <1>2, WidthAssumption
  <2> HIDE DEF n, nodes
  <2>2. /\ RunningWeight(nodes) \in [0 .. Len(nodes) -> Nat]
        /\ RunningWeight(nodes)[0] = 0
        /\ \A a \in 1 .. Len(nodes) :
             RunningWeight(nodes)[a] = RunningWeight(nodes)[a - 1] + nodes[a].weight
        /\ \A a \in 0 .. Len(nodes) : \A b \in a .. Len(nodes) :
             RunningWeight(nodes)[a] <= RunningWeight(nodes)[b]
        /\ RunningWeight(nodes)[Len(nodes)] = Sum(nodes)
    BY <2>1, <1>5, ExactWeights
  <2>3. QED
    BY <2>1, <2>2, <1>6
<1>8. /\ Len(nodes) \in Nat /\ ep.weight \in Nat
      /\ m - 1 \in 0 .. Len(nodes) /\ m \in m - 1 .. Len(nodes) /\ m \in 0 .. Len(nodes)
      /\ Len(nodes) \in m .. Len(nodes)
  BY <1>5, <1>6, ListingNodes, WidthAssumption
<1>9. /\ R[m - 1] \in 0 .. n /\ R[m] \in R[m - 1] .. n /\ R[m] - R[m - 1] = ep.weight
  <2> HIDE DEF R, n, nodes
  <2>1. R[m - 1] \in Nat /\ R[m] \in Nat /\ R[m - 1] <= R[m] /\ R[m] <= n
    BY <1>7, <1>8
  <2>2. QED
    BY <2>1, <1>2, <1>7, <1>8
<1>10. ASSUME NEW k \in 1 .. n
       PROVE run[k].ep = ep <=> R[m - 1] <= (d + (k - 1)) % n /\ (d + (k - 1)) % n < R[m]
  <2>1. k - 1 \in 0 .. j - i /\ k - 1 \in Nat
    BY <1>2
  <2>2. run[k] = picks[i + (k - 1)] /\ i + (k - 1) \in 1 .. Len(picks)
    BY <1>3
  <2>3. picks[i + (k - 1)].from = nodes /\ picks[i + (k - 1)].drawn = d + (k - 1)
    BY <1>1, <2>1
  <2>4. Drawn(picks[i + (k - 1)])
    BY <2>2 DEF History
  <2>5. run[k].ep = Select(nodes, d + (k - 1))
    BY <2>2, <2>3, <2>4 DEF Drawn
  <2>6. d + (k - 1) \in Nat /\ Sum(nodes) \in 1 .. WeightMod - 1
    BY <1>1, <2>1
  <2> HIDE DEF R, d, nodes, n, run
  <2>7. Select(nodes, d + (k - 1)) = nodes[m] <=>
          /\ RunningWeight(nodes)[m - 1] <= (d + (k - 1)) % Sum(nodes)
          /\ (d + (k - 1)) % Sum(nodes) < RunningWeight(nodes)[m]
    BY <1>5, <2>6, ChosenWithinItsWeight
  <2>8. QED
    BY <2>5, <2>7, <1>1, <1>6 DEF R
<1> HIDE DEF run, n, d, R
<1>11. {k \in DOMAIN run : run[k].ep = ep} =
         {k \in 1 .. n : R[m - 1] <= (d + (k - 1)) % n /\ (d + (k - 1)) % n < R[m]}
  BY <1>3, <1>10
<1>12. Cardinality({k \in 1 .. n : R[m - 1] <= (d + (k - 1)) % n /\ (d + (k - 1)) % n < R[m]})
         = R[m] - R[m - 1]
  BY <1>1, <1>2, <1>9, OneRound
<1>13. Chosen(run, ep) = ep.weight
  BY <1>9, <1>11, <1>12 DEF Chosen
<1>14. QED
  BY <1>13 DEF run

(* Weighted round robin (balancer.go:22-44): in every turn of the wheel    *)
(* each node is selected exactly as often as its weight says, for any      *)
(* listings, weights and goroutines.                                       *)
THEOREM FairShares == ShareSpec => []WeightedShare
<1>1. RouterInv /\ History => WeightedShare
  <2> SUFFICES ASSUME History, NEW i \in DOMAIN picks, NEW j \in i .. Len(picks),
                      IsTurn(SubSeq(picks, i, j)),
                      NEW ep \in Range(SubSeq(picks, i, j)[1].from)
               PROVE  Chosen(SubSeq(picks, i, j), ep) = ep.weight
    BY DEF WeightedShare, Fair
  <2>1. SubSeq(picks, i, j)[1] = picks[i]
    <3>1. picks \in Seq(Range(picks)) /\ i \in 1 .. Len(picks) /\ j \in i .. Len(picks)
      BY DEF History
    <3>2. QED
      BY <3>1
  <2>2. QED
    BY <2>1, FairTurn
<1>2. QED
  BY <1>1, ShareInductive, PTL
=============================================================================
