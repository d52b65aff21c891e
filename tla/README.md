# bridge-svc in TLA+

bridge-svc is a gRPC gateway written in Go. A caller sends a unary request that
names a target (`service/method`) and carries opaque bytes; the bridge looks
the service up in etcd, selects a node by weight, calls it over gRPC or HTTP
behind a circuit breaker, and returns the answer. This directory holds TLA+
models of that code, the TLC configurations that check them on small
instances, and theorems TLAPS proves for all instances. Paths below are
relative to the repository; `server.go` without a path is
`internal/server/server.go`, and so on.

## 1. Inventory

| component | state | operations | talks to |
|---|---|---|---|
| bridge service (`server.go`) | configuration, breaker manager, router; a goroutine per request | `CallUnary`, `CallStream`, `Health` | router, breaker, handler factory |
| router (`router.go`), balancer (`balancer.go`) | one `uint64` counter, shared by all goroutines and services | `Route`, `parseTarget`, `filterHealthy`, `Select` | hestia Discovery (etcd) |
| breaker manager (`circuit.go`) | `sync.Map` endpoint -> gobreaker | `Get`, `Execute` | gobreaker/v2 |
| gRPC handler (`grpc.go`) | a pool per handler; a global cache of output types | `Call`, `getOutputType`, `queryOutputType`, codec | pool, downstream node |
| connection pool (`grpcpool.go`) | address -> connection, under an RWMutex | `Get`, `Put`, `Close` | grpc-go |
| HTTP handler (`http.go`) | a resty client per handler | `Call` | downstream node |
| process (`cmd/bridge/main.go`, `Server` of `server.go`) | port, etcd entry, signal and error channels | start, register, serve, stop, deregister | etcd, grpc-go, the platform |
| configuration (`config.go`) | the global `instance` | `Load`, reload, `Get` | viper, fsnotify |
| retry (`retry.go`) | attempt and pause, per call of `DoRetry` | `DoRetry` | the function it is given; nobody in the repository calls it |
| rate limiter (`ratelimit.go`) | a token bucket | `Allow`, `Wait` | nobody |
| middleware | none | recovery, logging, chaining; auth is not installed | handlers |
| observability | tracer, meters | set up once | OTLP, Prometheus |
| client SDK (`bridge/`) | service name -> connection | `NewClient`, `Service`, `Invoke`, `Close`, `Service.Close` | `app.yaml`, grpc-go |
| examples (`client/`, `bridge/example/`) | none | a program that calls through the bridge, or through the SDK | etcd, the bridge, the SDK |

What is hard about it: any number of goroutines go through one balancer
counter, one breaker per endpoint and one type cache at the same time. Results
arrive late: after the caller has gone, after the breaker's statistics window,
after the breaker has tripped. Listings and node health change between routing
and calling. Copies of a request may run after the caller was told of a
failure. The process may be signalled or killed at any point of its start and
its shutdown. What would make each component correct:

- breaker: one breaker per endpoint, counts that add up, no load on a tripped
  endpoint, a half-open breaker that always reaches a verdict;
- routing: only healthy nodes, each by its weight, whatever the interleaving;
- request handling: one answer per request, and answers that tell the truth
  about what was run downstream; places in the breaker given back;
- type cache: labels that belong to the node, failures that do not stick;
- process: announced means reachable, also after a crash that left its entry
  behind, and a shutdown that loses no call;
- configuration: only accepted contents are ever in force, and in the end the
  last ones, whatever faulty versions come before;
- SDK and retry: a name leads to the connection of its own entry, `Close` leaves
  none open that a name or a call leads to, a retry ends, and its result is
  true.

`PROJECT.json` lists 38 hazards, each at its line, and the properties that
watch it. One has none: the configuration of the start stays with the server
for good (`server.go:59`), which holds by construction.

## 2. Modules

| module | models | role |
|---|---|---|
| `CircuitBreaker` | `circuit.go`, and gobreaker's breaker as an external part | component |
| `BreakerWindow` | the same with the history of answers in a window | checks `failure_ratio` over `interval` |
| `CircuitBreakerProofs` | | the invariants of `CircuitBreaker`, proved |
| `Balancer` | `balancer.go` and `filterHealthy`, as functions | pure part |
| `Router` | `router.go` over a changing registry | component |
| `RouterShare` | the router with the history of its selections | checks weighted round robin |
| `InductionLemmas` | | induction over numbers in set form, recursive functions over sequences, remainders |
| `RouterProofs` | | the invariants of `Router` and `RouterShare`, proved |
| `RequestContract` | what a request's sender is promised | abstract specification |
| `RequestContractProofs` | | what the contract's answers are worth, proved |
| `BridgeServer` | `CallUnary` and `CallStream` of `server.go`, end to end, the interceptors included | composes `Router` and `CircuitBreaker`, implements `RequestContract` |
| `BridgeServerProofs` | | that it does, that it uses the breakers as `CircuitBreaker` does, routes to healthy nodes and gives places back, proved |
| `GRPCHandler` | `grpc.go` below the breaker, `grpcpool.go` | component |
| `GRPCHandlerProofs` | | the invariants of `GRPCHandler`, proved |
| `Lifecycle` | `main.go` and `Server` of `server.go` | component |
| `ConfigReload` | `config.go`: `Load` and the watcher | component |
| `Process` | the process with its configuration | composes `Lifecycle` and `ConfigReload`, implements `Lifecycle` |
| `ProcessProofs` | | the invariants of `Lifecycle`, that `Process` implements it, and that configurations in force are valid, proved |
| `ClientSDK` | `bridge/`: `config.go`, `client.go`, `options.go`, `service.go` | component |
| `Retry` | `retry.go` | component |
| `Application` | a program like `bridge/example`, with retries | composes `ClientSDK` and `Retry`, implements `RequestContract` |
| `ApplicationProofs` | | the invariants of `Application` and its refinement, proved |
| `MC_*` | | instances for TLC |

A definition marked MISTAKE in its comment is no part of a model. It is the
definition that follows it as a plausible bug would have it (a `Store` for a
`LoadOrStore`, a panic that skips the breaker), and some property fails when
it takes that definition's place; `PROJECT.json` lists the pairs.

### CircuitBreaker

A *call* is a goroutine inside `Execute`. `Load` is `sync.Map.Load`,
`LoadOrStore` builds a breaker and publishes it unless another call was first;
`Admit` and `Reject` are gobreaker's `beforeRequest`, `AfterRequest` its
`afterRequest`, which also runs when the function panics. The library's mutex
makes these two atomic, and everything else interleaves. gobreaker stamps each
request with a generation number and drops results of older generations; only
that equality matters, so a breaker carries `live`, the calls of its current
generation. Time is a countdown per breaker (`timer`; 0 means expired, -1 no
expiry) that one `Tick` moves for all. The settings come from
`circuit.go:35-44`: `MaxRequests` from `half_open_max`, the trip decision
`ReadyToTrip` with its three requests at least, its denominator being all
requests admitted, those still running included. gobreaker's own source is not
in the repository (it is v2.4.0 in `go.mod`); its operations are modelled from
the contract `circuit.go` relies on, with the fixed window `circuit.go` asks
for, and the map marks them external.

### Balancer, Router, RouterShare

A listing is a sequence of nodes `[addr, weight, healthy]`, and in
`BridgeServer` a protocol. A service name stands for name and version together.
`GetServices` takes a snapshot and filters it, `Pick` draws the counter with one atomic add and walks the
weights; between the two `Publish` may replace the listing. Weights are added
modulo 2^32 and the counter wraps modulo 2^64; in the instances these are 8
and 4, so that sums do overflow to zero and the counter does wrap. The code's
loops over a listing (`filterHealthy`, the weights of `Select`) are recursive
functions of how far the loop has got, which is the form the proofs need.
`RouterShare` adds only `picks`, the selections in the order of their draws.

### BridgeServer and RequestContract

A slot of `Requests` is a goroutine that handles one request after another.
Its `job` says where it is and which copies of its request were sent and run;
`route[r]` and `call[r]` are its states in `Router` and `CircuitBreaker`, whose
actions are steps of the handler. An answer is named by what the caller gets:
`unrouted` and `invalid` from routing and `Factory`, `shed` from an open
breaker, `unavailable`, `internal` (a panic, through the recovery
interceptor), `unimplemented` from `CallStream`, or `ok`. `HangUp` may come at
any time and ends `callCtx` with it. `NodeRuns` may come at any time once a
copy was sent, until the slot is reused.

What the handler returns or panics with passes through `ChainUnaryServer` on
its way to the caller (`Answer`). `CallTimeout` chooses the timeout of
`callCtx`; only whether it is zero matters, since any other deadline may come
before or after everything else. Without a `timeout_ms` and without a default
the context is over as it is made (`gone`), the handler goes to the breaker all
the same, and the call fails and is counted there, unsent.

`RequestContract` knows no routes, breakers or protocols: a request is
accepted, dispatched, and answered `ok`, `failed` or `refused`. How it is
dispatched is one of `Sendings`, and says two things: how many copies there may
be (`limit`), and whether a success is an answer of the service itself (`sure`).
The refinement mapping is the `INSTANCE` in `BridgeServer`: `Phases`, `Kinds`
and `Runs` are what a sender can tell, and requests go out `Once` (gRPC: one
copy, sure) or `Retried` (HTTP: `1 + RetryCount` copies, and a reply may be
anybody's). `Application` implements the same contract with a mapping of its
own: a call goes out with the limit of its own `MaxAttempts`, and is sure.

### GRPCHandler

One `Call` over gRPC, inside the breaker. `NewHandler` is what `Factory` does
for each call: an empty pool. `GetConn` and `Dial` are the two halves of
`pool.Get`, with both looks at the connection's health. `LookUp`, `Reflect`
(or `ReflectFails`) and `Store` are the three parts of `getOutputType`, with the
locks released in between. `Redeploy` changes the type a method returns.
`BridgeServer` has the answer of such a call as one step, so what the reflection
query does between a reply and its answer is asked here (`RepliesHandedOn`).

### Lifecycle

The main goroutine, the goroutine that runs `Start`, and the platform. `Ends`
is the end of a process, by `log.Fatal`, kill or exit. Deferred calls run in
reverse: `CloseListener` and `Drained` (`Stop`) before `Deregister`. The entry
in etcd is no part of the process: it outlives a kill, a `log.Fatal` and a
failed `Deregister`, and a restarted process finds it.

### ConfigReload and Process

`Load` is four steps: `ReadInConfig`, `Unmarshal`, `WatchConfig` (from here on
edits are noticed) and `SetInstance`, which writes `instance` without the lock.
The watcher's goroutine is two, `Reread` (viper's own copy) and
`OnConfigChange`. Between any two of them the file may be edited, and hold
contents that `Unmarshal` accepts, contents it rejects, or no YAML at all;
which accepted contents they are matters only as far as one differs from
another. fsnotify merges edits that come before the watcher looks (`notice`).

`Process` takes `Lifecycle`'s first step apart: the port is opened only when
`Load` has returned, and whatever ends the process loses the configuration.

### ClientSDK, Retry and Application

`NewClient` goes through the entries of `app.yaml` one at a time, and each step
may fail; a connection, once opened, keeps its number in `conns`, so that one
replaced in the table or lost with a failed `NewClient` is still there to be
seen. Options are kept in their order: grpc-go takes the last dial option of a
kind, and the idle timeout stands for all kinds. `Applied` is the loop over
them, for the defaults, for all services and for one. `Close` holds the lock through
all its steps, in the order of a Go map, that is, in any.

`DoRetry` runs a function; `Retry` has a step for its start (`Attempt`) and one
for its end (`Returned`), and `Application` puts `Client.Invoke` between them:
the lookup, the call, the node that may run a copy at any time later, and the
result. Contexts end at any time and may be over before the first attempt,
which is made all the same. Each call has its own `RetryConfig`, part of its
plan. `waited` is history: the ticks all pauses of the `DoRetry` have lasted.

## 3. Runs

| run | checks | instance |
|---|---|---|
| `breaker` | `TypeOK`, `SharedBreaker`, `Accounting`, `Shielded`, `NeverWedged`, `OpenIsProbed`, `TrialEnds` | 3 calls, 1 endpoint, half_open_max 2, windows of 2 and 1 ticks, 9 374 states |
| `breaker_window` | `TripsOnFailures`: violated | the same |
| `router` | `RouterTypeOK`, `WeightedShare`, `RoutesToHealthy` | 2 goroutines, 2 services, 6 selections, 155 540 states |
| `router_shared_counter` | `ServiceShare`: violated | the same, 5 selections |
| `bridge` | `TypeOK`, `PlaceReturned`, `UsesBreaker`, `KeepsContract`, `EveryRequestAnswered` | 2 slots, 2 services on one address, three protocols, timeouts of zero and not, 152 094 states |
| `bridge_cancel` | `HangUpsNotCounted`: violated | as `bridge` |
| `bridge_http_status` | `SuccessWasDone`: violated | as `bridge` |
| `grpc` | `TypeOK`, `LabelOfItsNode`, `UntypedIsItsOwnFailure`, `RepliesHandedOn` | 2 goroutines, 2 nodes, 2 types, 2 connections, 352 912 states |
| `grpc_reuse` | `ConnectionsReused`: violated | the same, 3 connections |
| `lifecycle` | `TypeOK`, `AnnouncedIsOpen`, `NothingBrokenOff`, `InstanceIsValid`, `ShutdownEnds`, `ChangeTakesEffect`, `StaleEntryHeals` | `Process` with 2 unary calls, 1 stream, 4 contents of the file, 26 628 states |
| `lifecycle_deregister` | `DeregisteredFirst`: violated | `Lifecycle` alone |
| `app` | `TypeOK`, `NameLeadsToItsEntry`, `ClosedForAll`, `NilMeansDone`, `PausesBounded`, `KeepsContract`, `RetryEnds` | 2 goroutines, 2 `app.yaml`s and none, 0 to 3 attempts, 119 023 states |

What the passing runs show:

- However first calls race, they share one breaker; results that come back
  windows late are counted nowhere; an open breaker has nothing of its own
  running; half-open, what is running or succeeded stays within
  `half_open_max`, and with no probe running the next request is let in. Under
  sustained traffic every trip is followed by a trial, and every trial ends.
- In one turn of the wheel (as many draws from one listing as its weights add
  up to) every node is selected as often as its weight says, whatever two
  goroutines do in between. A selection is one of the nodes of its own snapshot,
  however old, and the snapshot is all healthy nodes of one listing. A
  turn is taken not to run across the counter's wrap at 2^64, where the wheel
  jumps unless its weights divide that, nor to be longer than a `uint32` holds
  (`IsTurn`).
- The handler drives the breaker as the breaker's specification allows,
  through panics and hang-ups, and has given its place back when it answers.
  Its answers satisfy the contract: refused requests never run, gRPC requests
  run at most once and have run when they succeed, HTTP requests run at most
  `1 + RetryCount` times. A silent node does not keep a caller from an answer,
  and neither does a call that has no time: it fails, unsent, and leaves
  nothing behind in the breaker but a failure.
- Racing reflection queries never put a label on a response that its method
  and node have never had, and a failed query is not remembered. A reply of the
  node becomes an answer even if the node never says a word on reflection. How
  old a label is, and that the newest answer stay in the cache, is not promised.
- The port is open from before the entry is announced until the process stops
  or the port fails; a graceful stop reaches its end only when every call has
  been answered, whatever races with the signal; and it does reach it, unless a
  client keeps a `CallStream` silent for ever. An entry that a process leaves
  behind (`log.Fatal` and kills skip `Deregister`) does not name a closed port
  for good: where the platform starts the process again, the port is opened
  again, though it fail under `Serve` over and over.
- Whatever is written to the configuration's file, and whenever, only contents
  that `Unmarshal` accepts come into force, and a server has some by the time
  its port is open. Of changes made after `Load` has returned the last is taken
  over, though faulty ones precede it. (Before that it may be lost, see 5.)
- In a program that uses the SDK, a name leads to the connection of its last
  entry with that service's own options; a `Close` that meets a closed
  connection still closes the others, calls under way included; `DoRetry` ends
  whatever nodes do and though the client be closed under it, all its pauses
  together last no longer than its configuration says, it returns nil only if
  the node has run the method, and the node runs it no more often than the
  call's own `MaxAttempts`.

### The bounds, and why they are enough

- `MaxWindow` caps the requests of one generation (4 in `breaker`, 3 in the
  bridge). gobreaker has no such cap. Three is the number at which the trip
  decision starts; four leaves room for one more, so that the ratio matters.
  Three calls are one more than `HalfOpenMax`, so that probes do compete, and
  calls can be left behind from an older window while the newer one trips.
- `MaxPicks` bounds the history, not the router. Six selections hold two turns
  of the heaviest wheel without overflow and turns of both services.
- `MaxConns` bounds the connections ever opened. With two, two calls race for
  one entry of the cache, or one comes after the other has filled it; a call
  past that bound fails before it looks. `grpc_reuse` has three.
- `RetryCount` is 1 in place of 3 (`http.go:27`): one retry duplicates a request, and the
  contract is stated in `RetryCount`.
- Two slots in the bridge: one request holding a place while the other is
  routed, shed or answered. One slot's requests go out over gRPC, or to a node
  registered with a protocol the bridge does not have, the other's over HTTP;
  both nodes have one address, so that the two share a breaker. `TimeoutsMs`
  is zero and not, with a default of zero. Slots differ here and liveness is
  checked, so there is no `SYMMETRY`; `router` and `grpc_reuse`, where requests
  and calls are interchangeable and only safety is checked, use it.
- The file holds one of two accepted contents, or an ill-typed or a garbled one:
  two are enough for one to be overwritten by the other.
- `MCRetryConfigs` has zero to three attempts: none is the loop that does not
  run, one returns without a pause, two has a pause in between, and with three
  the second pause is one whose backoff has grown and been capped. Two
  goroutines, with different limits: one in a call while the other is in a
  pause, under a `Close`.
- `MCConfigs` has a name that is configured twice with another in between, and
  an entry without its service before one without its target; a file without
  the section comes in addition. `MCOptions` sets an idle timeout for one
  service before those for all.

### Fairness, and why the code justifies it

- `CircuitBreaker`: time passes; a call in `Get` or at the breaker's verdict
  goes on, as nothing blocks there; the function returns, because `callCtx` has
  a deadline (`server.go:93`). Strong fairness of `Load` is the assumption
  "requests for the endpoint keep arriving": without traffic an open breaker
  stays open, harmlessly. This is an assumption about callers.
- `BridgeServer`: goroutines that can move do, and a running call fails in the
  end if it does nothing else, again for its deadline. `Admit \/ Shed` has
  strong fairness only to undo the bound `MaxWindow`, which may keep disabling
  a step that never waits in the code. Nothing is assumed of the node. hestia
  is: that `GetServices` returns, a listing or an error; a discovery that hangs
  would hold the request, as `Route` has only the caller's context.
- `GRPCHandler`: goroutines run, and a reflection query comes to an end, by the
  two seconds of `reflectCtx` (`grpc.go:97`). Nothing is assumed of the node or
  of connections.
- `Lifecycle` and `Process`: the goroutines run, `Load` and the watcher
  included, and unary calls end by their deadline. Nothing is assumed of
  streams: `Recv` has no deadline, and `ShutdownEnds` therefore has streams
  that end infinitely often as its premise. Nothing is assumed of the operator
  who edits the file, nor of kills and restarts: `ChangeTakesEffect` has as its
  premise that the file stays as it is, and `StaleEntryHeals` that `Load` gets
  through again and again (a platform that restarts the process, a file in
  order), that kills and failed starts come to an end, and that no stream stays
  silent for ever. That the port fails under `Serve` is allowed for ever.
- `Application`: time passes, goroutines run, contexts end (the example's has a
  timeout, `bridge/example/main.go:30`), and gRPC ends a call whose context is
  over. A lookup waits while `Close` holds the lock. Its strong fairness says
  that a program closing its client over and over does not starve it: an
  `RWMutex` lets waiting readers in before the next writer. Nothing is assumed
  of nodes or of who closes the client.

## 4. Proofs

`CircuitBreakerProofs` proves, from `BreakerAssumption` alone (any finite set
of calls, any endpoints, any configuration), that `Spec` implies `[]TypeOK`
(`TypeCorrect`), `[]SharedBreaker` (`OneBreaker`), `[]Accounting`
(`CountsAddUp`), `[]Shielded` (`TrippedShields`) and `[]NeverWedged`
(`HalfOpenAdmits`).

`SharedBreaker` is inductive once the types are known; the last three are not.
`Accounting` needs to know that the calls
of a generation are running at this endpoint, or a call could finish elsewhere
and be counted here; `Shielded` and `NeverWedged` need to know that a half-open
breaker has seen no failure and fewer successes than it needs to close, so that
its requests are its successes and its probes; and all of them need finite
sets of calls to count. The invariant is therefore a predicate on one breaker,
`Sound`, together (in `IInv`) with what relates calls to breakers. The proof first shows
that the library's operations (`OnRequest`, `OnSuccess`, `OnFailure`,
`CurrentState`) keep a breaker sound, one lemma each, and then goes through the
actions. `MaxWindow` appears in `Admit`'s guard but no proof depends on it: the
theorems hold for every value of it.

`RouterProofs` proves, from `WidthAssumption` (the widths are positive) and
`ListingAssumption` (discovery lists each node once, with a weight of its type),
that `Router` has its types (`RouterTypes`: among them that `Select` never meets
an empty list and returns a member of it, whatever the weights add up to), that
only healthy nodes of the service are selected (`HealthyRoutes`), and weighted
round robin (`FairShares`), for any listings and any number of goroutines. The
invariant `RouterInv` says where a route in progress has its nodes from: one
filtered listing of its service (`Snapshot`). `History` says that selections
follow each other without a gap: each leaves the counter to the next. From
there `FairShares` is arithmetic: inside a turn the draws are consecutive
numbers (`OneByOne`), a node is chosen where the position falls within its own
weight and nowhere else (`ChosenWithinItsWeight`), and consecutive numbers as
many as the wheel is long go through its positions exactly once (`OneRound`).
Weights that overflow are in `RouterTypes` and `HealthyRoutes`; a turn, by its
definition, has a sum of weights that fits.

`InductionLemmas` is what these proofs stand on. The library's induction
theorems take an operator as a parameter, which the provers cannot instantiate.
Stated for a set instead of a predicate, induction follows from the
well-foundedness of the subsets of a finite set (`SmallestMember`,
`BoundedInduction`). `RecursiveFunction` then shows that a recursive function
over a sequence, which TLA+ defines by `CHOOSE`, exists and satisfies its
equation; loops of the code written as such functions (`filterHealthy`,
`RunningWeight`, `Applied`) are unrolled with it, one lemma each. `OneRound` and
the lemmas before it are the arithmetic of `%`, from the division theorem up.

`RequestContractProofs` proves `AnswersAreHonest`: under the contract, for any
requests and any ways of sending them, a request that was refused has not run,
one that was sent has run no more often than its own way of sending allows, and
one reported done, where that is the service's own word, has run. The
strengthening says that nothing is left over in a free slot and that a refused
request was never sent.

`BridgeServerProofs` proves from `BridgeAssumption` (`RetryCount` is a number)
that `BridgeServer` has its types (`BridgeTypes`), gives back its places
(`PlacesReturned`) and implements the contract (`BridgeKeepsContract`), for any
requests, targets, listings, timeouts and breaker configuration. With
`AnswersAreHonest`, what the bridge's answers say is true. Whether a copy may
still be sent depends on the breaker's call, and of which kind it is on the
router's choice, so neither property is inductive. `Requesting` ties the three
states of one request together (`Together`): a request that is calling, and no
other, has a call, its node's protocol is one `Factory` knows, and only a
running call or one that ran has sent anything. `Placed` says that who has a
place in a breaker is running a call of its endpoint; the lemmas before it show
what each step of `CircuitBreaker` does to one breaker's places. The refinement
is then one lemma per kind of step (`Looks`, `Accepted`, `Refused`, `Failed`)
and a case for every action in `StepsContract`.

The bridge uses its parts as their own specifications say, so their theorems
carry over. `BridgeUsesBreaker` shows that every step of a handler is a step
of `CircuitBreaker` or none, for which `Select` must return a node whose
address is a key of the breaker manager (`RouterProofs`). `BridgeBreakers` then
has the four breaker invariants for the bridge, `BridgeIsHonest` has the
contract's, and `BridgeRoutesToHealthy` says that a routed call's node was
healthy in a listing of its service. `RoutingAssumption` and `BreakingAssumption`
repeat what the parts assume of their constants.

`GRPCHandlerProofs` proves `HandlerTypes`, `LabelsAreTrue` and
`FailuresDoNotStick` from `HandlerAssumption`. The invariant has three parts:
`Pools` (a pool leads only to connections of the node it is asked for),
`Cache` (every cached type is one its method has had) and `Calling` (what a
call carries between the cache's two locks was true when it was looked up, and
types a method has had stay so).

`ProcessProofs` proves of `Lifecycle` its types (`LifecycleTypes`),
`AnnouncedIsReachable` and `GracefulStop`.
`AnnouncedIsOpen` needs the port to be open already before the entry is there,
and `NothingBrokenOff` needs that no call can come in after the last has ended;
both are in `Port`. It proves then that `Process` implements `Lifecycle`
(`ProcessIsLifecycle`: steps of the configuration stutter), so that all of
these hold of the process with its configuration (`ProcessIsSafe`), and
`ConfigurationIsValid`, through `Accepted`, which follows an accepted
configuration from `Unmarshal` through `Load`.

`ApplicationProofs` proves all the safety of `Application`, for any number of
goroutines, any `app.yaml`, options, retry settings and plans, from
`RetryAssumption` and `SDKAssumption` (constants have the types of the Go code,
and every plan has its retry setting): `ApplicationTypes`,
`NamesLeadRight`, `CloseClosesAll`, `NilIsAnAnswer`, `PausesAreBounded`, and the
refinement `RetryKeepsContract`, from which `RetryIsHonest` follows with
`AnswersAreHonest`. The invariant has two halves. `ClientInv` is about the
client alone: there is one connection per entry so far, with the options of
its entry; the table leads each name to the last of its entries
(`TableOfLast`), which is preserved as `NewClient` goes through the file; and
`Close` has closed what it has passed (`ClosedSoFar`). `InLoop` is about one
goroutine: how far its `Invoke` has got inside its `DoRetry` (`Within`: at most
one copy per attempt, and a nil only for a copy that ran), and that it has its
connection from the table, under the name it asked for (`ByName`). The two meet
in `TableStays`: once built, the table does not change, so what a goroutine has
from it stays right while others close the client. Options are compared with
their meaning in `LastOption` and `NoOption`: the loop ends with the last one
that is set. `PausesAreBounded` needs an invariant of its own (`Paused`): what a
`DoRetry` has waited, together with what is left of the pause it is in, is at
most what its attempts so far allow, and its backoff, after the first pause, at
most `MaxBackoff`; that the allowance grows with the attempts is arithmetic
(`AllowedGrows`, `AllowedMonotone`).

So every invariant of a passing run, and every refinement, is a theorem. What
is only model-checked are the liveness properties (`OpenIsProbed`, `TrialEnds`,
`EveryRequestAnswered`, `RepliesHandedOn`, `ShutdownEnds`, `ChangeTakesEffect`,
`StaleEntryHeals`, `RetryEnds`): proofs
about fairness need `ENABLED`, which is out of the prover's reach. What the
code does not do is shown by the runs that expect a violation. The
bounds of the instances (`MaxWindow`, `MaxPicks`, `MaxConns`) are constants of
the specifications; no proof rests on them being large or small.

## 5. Where the code and its documents disagree

Shown by a run, with the quotation in `PROJECT.json` (`findings`):

1. `breaker_window`: a window's failures are not all counted. Calls that
   outlast `interval` (10 s, with a 30 s timeout) fail uncounted, so a node
   that hangs is never disconnected.
2. `router_shared_counter`: the wheel is shared by all services, so one
   service's own requests do not follow its weights.
3. `bridge_cancel`: `callCtx` derives from the caller's context, so a caller
   that hangs up is a failure of the node, and may open its breaker.
4. `bridge_http_status`: an HTTP error status is a success to caller and
   breaker.
5. `grpc_reuse`: connections are not reused; each call opens one and nobody
   closes it.
6. `lifecycle_deregister`: after a signal, `Stop` closes the port before the
   entry is removed.

Met while modelling, and not run:

- The protocol is the node's (`server.go:97`); the request's `protocol` field
  (`bridge.proto:36-37`) is only copied and printed, and its `RetryPolicy` is
  not read.
- `success_ratio` and `max_requests` of the breaker are not used; any failure
  half-open opens the breaker again.
- Both branches of `server.go:113-116` answer `Unavailable`, so callers cannot
  tell a shed request from a failed one by its code, and a rejection half-open
  (`ErrTooManyRequests`) is not mapped to `ErrCircuitOpen` at all.
- `CallStream` is a stub; routing errors reach the caller as gRPC errors.
- Hot reload (`README.md:17`, `config.go:105`) reaches `instance` and nothing
  else: the server and the breakers keep what they were given at the start
  (`server.go:59`), and nobody calls `Get`. An edit between `ReadInConfig` and
  `WatchConfig` goes unseen, and one that the watcher takes over before
  `config.go:136` is overwritten by what `Load` had read; `ChangeTakesEffect`
  is therefore about changes made later (`settled`).
- The probes in `k8s/deployment.yaml` are gRPC health checks; `server.go:229`
  registers the bridge's own service and no `grpc.health.v1`.
- The logging interceptor logs nothing of a call that panics: recovery is
  outside it.
- `bridge/config.go:19` says an empty `service` falls back to `name`;
  `fullServiceName` has no fallback, and short method names then lead nowhere.
- `Client.Close` is to close all connections (`bridge/client.go:90`). One that
  was replaced by a later entry of the same name, and those of a `NewClient`
  that failed half way, are in no table and stay open.
- `WithMaxCallAttempts` (`bridge/readme.md:166`) only bounds the retries of a
  service configuration's `retryPolicy`, and none is set.
- `DoRetry` with `MaxAttempts` zero fails without a try; its first pause is not
  capped by `MaxBackoff`.
- The reflection query runs for up to 2 s after the call's deadline, before the
  answer goes out; a cached label outlives the type it was taken from.
- Without `protocols.default_timeout` (`k8s/deployment.yaml`) the timeout is
  zero and every call without one of its own fails at once.

## 6. Not modelled, and why

- The rate limiter: two methods that hand on to `golang.org/x/time/rate`, and
  no code uses them. A model would be one of that library.
- Observability: set up once, pure I/O, no decisions. The metrics listener has
  no bearing on the process's life.
- The auth interceptor, which is not installed; logging, which hands on what it
  gets; `Health` and the response helpers, which keep no state.
- Generated code; the examples, apart from what `Application` and `Accept` take
  from them.
- Payload bytes, metadata, URLs and headers: no property tells them apart. The
  10 s timeout of one HTTP try is a failed try.
- gobreaker, hestia, resty, viper and grpc-go appear only as what the code
  relies on.

## 7. Plan

Done: the breaker, routing, request handling against the contract, the gRPC
handler, the process with its configuration, the SDK with retries, and proofs
of all their safety properties. Left, in this order:

1. The share by weight in the bridge. That every step of the bridge is one of
   its router's is a lemma (`StepsRouter`), so `RouterTypes` holds there; the
   share needs the history of selections, which `BridgeServer` does not keep.
2. The safety half of the liveness properties: that no reachable state of a
   handler, of a shutdown or of a retry is one in which nothing it waits for
   can come any more (what a breaker, a drain and a pause wait for is named in
   the state).
3. `GRPCHandler` with one pool for all calls, as `bridge.md` describes it: the
   race of two `Get`s over an unhealthy connection, and the replaced connection
   that nobody closes. The code as it is never shares a pool.
4. The time until an answer as a number: `callCtx`'s deadline and then the
   reflection query's two seconds, against the caller's own deadline.
