-------------------------------- MODULE Router --------------------------------
(* Routing: internal/router/router.go over a hestia Discovery (a library   *)
(* in front of etcd: external).  A goroutine asks discovery for the nodes  *)
(* of a service, keeps the healthy ones, and picks one with the counter    *)
(* that every goroutine and every service share.  Nodes come and go in     *)
(* between.                                                                *)
EXTENDS Balancer

CONSTANTS
  Requests,       \* goroutines that route
  Targets,        \* request targets: a target is its sequence of "/" parts
  Listings,       \* service name -> the listings discovery may hold for it
  NoEndpoint      \* nothing selected

(* hestia hands out sequences of nodes, each node once; a weight is a      *)
(* uint32.                                                                 *)
ASSUME ListingAssumption ==
  \A s \in DOMAIN Listings : \A listing \in Listings[s] :
     /\ listing \in Seq(Range(listing)) /\ IsInjective(listing)
     /\ \A ep \in Range(listing) : ep.weight \in 0 .. WeightMod - 1 /\ ep.healthy \in BOOLEAN

VARIABLES
  registry,       \* service name -> its current listing
  counter,        \* WeightedRoundRobin.counter
  route           \* what each goroutine is doing

routerVars == <<registry, counter, route>>

NoRoute == [pc |-> "idle", service |-> <<>>, healthy |-> <<>>, ep |-> NoEndpoint]

(* "service/method", and nothing else, is split; the service of any other  *)
(* target is the whole of it.                                              *)
parseTarget(target) ==
  IF Len(target) = 2 THEN [service |-> <<target[1]>>, method |-> target[2]]
  ELSE [service |-> target, method |-> ""]

Known(service) == service \in DOMAIN Listings

RouterInit ==
  /\ registry \in {f \in [DOMAIN Listings -> UNION {Listings[s] : s \in DOMAIN Listings}] :
                     \A s \in DOMAIN Listings : f[s] \in Listings[s]}
  /\ counter = 0
  /\ route = [r \in Requests |-> NoRoute]

(* Nodes of a service register, deregister, turn healthy or unhealthy.     *)
Publish(s, listing) ==
  /\ listing # registry[s]
  /\ registry' = [registry EXCEPT ![s] = listing]
  /\ UNCHANGED <<counter, route>>

(* MISTAKE: an empty listing is not turned away.                           *)
GetServicesUnchecked(r, target) ==
  LET service == parseTarget(target).service
  IN  /\ route[r].pc = "idle"
      /\ Known(service)
      /\ route' = [route EXCEPT ![r] = [pc |-> "listed", service |-> service,
                                        healthy |-> filterHealthy(registry[service]),
                                        ep |-> NoEndpoint]]
      /\ UNCHANGED <<registry, counter>>

(* Route up to filterHealthy: a snapshot with a healthy node ...           *)
GetServices(r, target) ==
  LET service == parseTarget(target).service
      healthy == filterHealthy(registry[service])
  IN  /\ route[r].pc = "idle"
      /\ Known(service)
      /\ healthy # <<>>
      /\ route' = [route EXCEPT ![r] = [pc |-> "listed", service |-> service,
                                        healthy |-> healthy, ep |-> NoEndpoint]]
      /\ UNCHANGED <<registry, counter>>

(* ... or an error: discovery failed, or no node is healthy.               *)
RouteFails(r, target) ==
  /\ route[r].pc = "idle"
  /\ route' = [route EXCEPT ![r] = [NoRoute EXCEPT !.pc = "failed"]]
  /\ UNCHANGED <<registry, counter>>

(* MISTAKE: load and store in place of the atomic add; while another       *)
(* goroutine is in Select its store may undo this one.                     *)
PickRacy(r) ==
  LET raced == \E other \in Requests \ {r} : route[other].pc = "listed"
  IN  /\ route[r].pc = "listed"
      /\ \/ counter' = NextCounter(route[r].healthy, counter)
         \/ raced /\ counter' = counter
      /\ route' = [route EXCEPT ![r].pc = "routed",
                                ![r].ep = Select(route[r].healthy, counter)]
      /\ UNCHANGED registry

(* balancer.Select: the counter is drawn with one atomic add.              *)
Pick(r) ==
  /\ route[r].pc = "listed"
  /\ counter' = NextCounter(route[r].healthy, counter)
  /\ route' = [route EXCEPT ![r] = [@ EXCEPT !.pc = "routed",
                                            !.ep = Select(route[r].healthy, counter)]]
  /\ UNCHANGED registry

(* The caller is done with the route.                                      *)
Leave(r) ==
  /\ route[r].pc \in {"routed", "failed"}
  /\ route' = [route EXCEPT ![r] = NoRoute]
  /\ UNCHANGED <<registry, counter>>

RouterNext ==
  \/ \E s \in DOMAIN Listings : \E listing \in Listings[s] : Publish(s, listing)
  \/ \E r \in Requests, target \in Targets : GetServices(r, target)
  \/ \E r \in Requests, target \in Targets : RouteFails(r, target)
  \/ \E r \in Requests : Pick(r)
  \/ \E r \in Requests : Leave(r)

RouterSpec == RouterInit /\ [][RouterNext]_routerVars

-----------------------------------------------------------------------------
Nodes == UNION {UNION {Range(listing) : listing \in Listings[s]} : s \in DOMAIN Listings}

(* Every variable keeps its type, and a route in progress its shape: only  *)
(* a listed one has nodes to pick from, only a routed one a node.          *)
RouterTypeOK ==
  /\ \A s \in DOMAIN Listings : registry[s] \in Listings[s]
  /\ counter \in 0 .. CounterMod - 1
  /\ \A r \in Requests :
       /\ route[r].pc \in {"idle", "listed", "routed", "failed"}
       /\ (route[r].healthy # <<>>) = (route[r].pc \in {"listed", "routed"})
       /\ route[r].ep \in (IF route[r].pc = "routed" THEN Nodes ELSE {NoEndpoint})
=============================================================================
