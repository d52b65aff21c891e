----------------------------- MODULE RouterShare -----------------------------
(* Router with the history of its selections, to say what weighted round   *)
(* robin promises over a run of requests.                                  *)
EXTENDS Router, FiniteSets

CONSTANT MaxPicks      \* bound: selections in a behaviour

VARIABLE picks         \* the selections so far, in the order of their draws

ShareInit == RouterInit /\ picks = <<>>

Draw(r) ==
  /\ Len(picks) < MaxPicks
  /\ Pick(r)
  /\ picks' = Append(picks, [service |-> route[r].service, from |-> route[r].healthy,
                             drawn |-> counter, ep |-> route'[r].ep])

ShareNext ==
  \/ \E r \in Requests : Draw(r)
  \/ /\ \/ \E s \in DOMAIN Listings : \E listing \in Listings[s] : Publish(s, listing)
        \/ \E r \in Requests, target \in Targets : GetServices(r, target)
        \/ \E r \in Requests, target \in Targets : RouteFails(r, target)
        \/ \E r \in Requests : Leave(r)
     /\ UNCHANGED picks

ShareSpec == ShareInit /\ [][ShareNext]_<<routerVars, picks>>

-----------------------------------------------------------------------------
(* The weights of a listing added up, as integers without a width.         *)
Sum(listing) ==
  LET sum[i \in 0 .. Len(listing)] == IF i = 0 THEN 0 ELSE sum[i - 1] + listing[i].weight
  IN  sum[Len(listing)]

(* One turn of the wheel: as many selections in a row from one listing as  *)
(* its weights add up to, the counter not wrapping round meanwhile.        *)
IsTurn(run) ==
  /\ \A i \in DOMAIN run : run[i].from = run[1].from
  /\ Sum(run[1].from) = Len(run)
  /\ Len(run) < WeightMod
  /\ run[1].drawn + Len(run) <= CounterMod
  /\ \A i, j \in DOMAIN run : i < j => run[i].drawn <= run[j].drawn

Chosen(run, ep) == Cardinality({i \in DOMAIN run : run[i].ep = ep})

Fair(log) ==
  \A i \in DOMAIN log : \A j \in i .. Len(log) :
     LET run == SubSeq(log, i, j)
     IN  IsTurn(run) => \A ep \in Range(run[1].from) : Chosen(run, ep) = ep.weight

(* Weighted round robin (balancer.go:22-44): however the goroutines        *)
(* interleave, in a turn of the wheel every node is selected exactly as    *)
(* often as its weight says, so a node of weight zero never is.            *)
WeightedShare == Fair(picks)

(* A route leads to one of the nodes that its own snapshot held, however   *)
(* old; and those were the healthy nodes of one listing of the requested   *)
(* service, all of them and no other (router.go:41-70).                    *)
RoutesToHealthy ==
  \A i \in DOMAIN picks :
     /\ picks[i].ep \in Range(picks[i].from)
     /\ \E listing \in Listings[picks[i].service] :
          Range(picks[i].from) = {ep \in Range(listing) : ep.healthy}

(* The same promise service by service, as the comment states it for a     *)
(* selection (balancer.go:22 and bridge.md:32): a service's own requests   *)
(* share its nodes by weight.                                              *)
ServiceShare ==
  \A s \in DOMAIN Listings : Fair(SelectSeq(picks, LAMBDA p : p.service = s))
=============================================================================
