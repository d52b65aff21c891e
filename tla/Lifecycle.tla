------------------------------- MODULE Lifecycle -------------------------------
(* The life of a bridge process: cmd/bridge/main.go and Server of          *)
(* internal/server/server.go.  The main goroutine listens, registers with  *)
(* etcd, installs the signal handler, starts Serve in a goroutine of its   *)
(* own and waits; deferred calls run last in first out, so Stop comes      *)
(* before Deregister, and log.Fatal and a kill run neither.  The process   *)
(* may be killed at any time and is then started anew.                     *)
EXTENDS FiniteSets

CONSTANTS
  Unary,        \* unary calls: they have a deadline
  Streams       \* CallStream calls: Recv waits for the client's first message

ASSUME LifecycleAssumption == Unary \cap Streams = {}

VARIABLES
  main,         \* where the main goroutine is
  serve,        \* where the goroutine that runs Start is
  listener,     \* the port is open
  entry,        \* the process's entry in etcd
  sigCh,        \* the buffered signal, if any
  errCh,        \* the buffered result of Start, if any
  pending,      \* calls in progress
  asked         \* history: SIGTERM was delivered to this process's handler

vars == <<main, serve, listener, entry, sigCh, errCh, pending, asked>>

Booting == {"boot", "listening", "registered"}   \* no signal handler yet
Shutdown == {"stop", "draining", "stopped"}
Alive == Booting \cup {"handling", "waiting"} \cup Shutdown
Gone == {"exited", "dead"}

Fresh ==
  /\ main = "boot" /\ serve = "none" /\ listener = FALSE
  /\ sigCh = FALSE /\ errCh = "empty" /\ pending = {} /\ asked = FALSE

Init == Fresh /\ entry = FALSE

(* The process ends: its port closes, its calls break off.                 *)
Ends(how) ==
  /\ main' = how /\ serve' = "none" /\ listener' = FALSE
  /\ sigCh' = FALSE /\ errCh' = "empty" /\ pending' = {} /\ asked' = FALSE

-----------------------------------------------------------------------------
(* main.                                                                   *)

(* MISTAKE: the port is left to Start, after the registration.             *)
ListenLater ==
  /\ main = "boot"
  /\ main' = "listening"
  /\ UNCHANGED <<serve, listener, entry, sigCh, errCh, pending, asked>>

(* config.Load and NewServer, which opens the port.                        *)
Listen ==
  /\ main = "boot"
  /\ main' = "listening" /\ listener' = TRUE
  /\ UNCHANGED <<serve, entry, sigCh, errCh, pending, asked>>

(* MISTAKE: Start's goroutine runs before the signal handler is installed. *)
RegisterAndServe ==
  /\ main = "listening"
  /\ main' = "registered" /\ entry' = TRUE /\ serve' = "starting"
  /\ UNCHANGED <<listener, sigCh, errCh, pending, asked>>

Register ==
  /\ main = "listening"
  /\ main' = "registered" /\ entry' = TRUE
  /\ UNCHANGED <<serve, listener, sigCh, errCh, pending, asked>>

(* log.Fatal on an error of Load, NewServer, Resolve, NewRegistry, Register. *)
BootFails ==
  /\ main \in {"boot", "listening"}
  /\ Ends("dead")
  /\ UNCHANGED entry

Notify ==
  /\ main = "registered"
  /\ main' = "handling"
  /\ UNCHANGED <<serve, listener, entry, sigCh, errCh, pending, asked>>

StartServe ==
  /\ main = "handling"
  /\ main' = "waiting" /\ serve' = "starting"
  /\ UNCHANGED <<listener, entry, sigCh, errCh, pending, asked>>

OnSignal ==
  /\ main = "waiting" /\ sigCh
  /\ main' = "stop" /\ sigCh' = FALSE
  /\ UNCHANGED <<serve, listener, entry, errCh, pending, asked>>

(* MISTAKE: the error of Start is logged, and main waits for a signal.     *)
OnServeErrorLogged ==
  /\ main = "waiting" /\ errCh = "error"
  /\ errCh' = "empty"
  /\ UNCHANGED <<main, serve, listener, entry, sigCh, pending, asked>>

(* Start gave up while main waited: log.Fatal, and no deferred call runs.  *)
OnServeError ==
  /\ main = "waiting" /\ errCh = "error"
  /\ Ends("dead")
  /\ UNCHANGED entry

(* GracefulStop closes the port, if Serve has got hold of it ...           *)
CloseListener ==
  /\ main = "stop"
  /\ main' = "draining"
  /\ listener' = (listener /\ serve # "serving")
  /\ UNCHANGED <<serve, entry, sigCh, errCh, pending, asked>>

(* MISTAKE: Stop in place of GracefulStop; calls in progress are dropped.  *)
DrainedHard ==
  /\ main = "draining"
  /\ main' = "stopped"
  /\ UNCHANGED <<serve, listener, entry, sigCh, errCh, pending, asked>>

(* ... and returns when no call is left.                                   *)
Drained ==
  /\ main = "draining" /\ pending = {}
  /\ main' = "stopped"
  /\ UNCHANGED <<serve, listener, entry, sigCh, errCh, pending, asked>>

(* The last deferred call.  Its error is ignored, so the entry may stay.   *)
Deregister ==
  /\ main = "stopped"
  /\ \E left \in {FALSE, entry} : entry' = left
  /\ Ends("exited")

-----------------------------------------------------------------------------
(* The goroutine that runs Start, and its calls.                           *)

(* Serve on a server that is already stopped closes the port and fails.    *)
Serve ==
  /\ serve = "starting"
  /\ IF main \in {"draining", "stopped"}
       THEN serve' = "done" /\ errCh' = "error" /\ listener' = FALSE
       ELSE serve' = "serving" /\ UNCHANGED <<errCh, listener>>
  /\ UNCHANGED <<main, entry, sigCh, pending, asked>>

(* The port fails under Serve.                                             *)
ServeFails ==
  /\ serve = "serving" /\ listener
  /\ serve' = "done" /\ errCh' = "error" /\ listener' = FALSE
  /\ UNCHANGED <<main, entry, sigCh, pending, asked>>

(* After a graceful stop Serve returns nil.                                *)
ServeReturns ==
  /\ serve = "serving" /\ main = "stopped"
  /\ serve' = "done" /\ errCh' = "nil"
  /\ UNCHANGED <<main, listener, entry, sigCh, pending, asked>>

(* A caller finds the entry and connects.                                  *)
Accept(c) ==
  /\ serve = "serving" /\ listener /\ entry
  /\ c \notin pending
  /\ pending' = pending \cup {c}
  /\ UNCHANGED <<main, serve, listener, entry, sigCh, errCh, asked>>

CallEnds(c) ==
  /\ c \in pending
  /\ pending' = pending \ {c}
  /\ UNCHANGED <<main, serve, listener, entry, sigCh, errCh, asked>>

-----------------------------------------------------------------------------
(* The platform.                                                           *)

(* MISTAKE: a channel without a buffer; Notify drops what nobody receives. *)
SignalUnbuffered ==
  /\ main \in Alive \ Booting
  /\ sigCh' = (main = "waiting") /\ asked' = TRUE
  /\ UNCHANGED <<main, serve, listener, entry, errCh, pending>>

(* SIGTERM: kept in a channel of one; a second one is dropped.             *)
Signal ==
  /\ main \in Alive \ Booting
  /\ sigCh' = TRUE /\ asked' = TRUE
  /\ UNCHANGED <<main, serve, listener, entry, errCh, pending>>

(* SIGKILL; or SIGTERM before the handler is installed.                    *)
Kill ==
  /\ main \in Alive
  /\ Ends("dead")
  /\ UNCHANGED entry

Restart ==
  /\ main \in Gone
  /\ main' = "boot"
  /\ UNCHANGED <<serve, listener, entry, sigCh, errCh, pending, asked>>

MainStep ==
  \/ Listen \/ Register \/ Notify \/ StartServe \/ OnSignal \/ OnServeError
  \/ CloseListener \/ Drained \/ Deregister
ServeStep == Serve \/ ServeReturns

Next ==
  \/ Listen \/ Register \/ BootFails \/ Notify \/ StartServe
  \/ OnSignal \/ OnServeError \/ CloseListener \/ Drained \/ Deregister
  \/ Serve \/ ServeFails \/ ServeReturns
  \/ \E c \in Unary \cup Streams : Accept(c)
  \/ \E c \in Unary \cup Streams : CallEnds(c)
  \/ Signal \/ Kill \/ Restart

Spec == Init /\ [][Next]_vars

(* The goroutines run, and a unary call ends by its deadline; nothing      *)
(* makes the client of a stream speak or hang up.                          *)
FairSpec ==
  /\ Spec
  /\ WF_vars(MainStep)
  /\ WF_vars(ServeStep)
  /\ \A c \in Unary : WF_vars(CallEnds(c))

-----------------------------------------------------------------------------
(* Every variable keeps its type; a process that is gone leaves nothing    *)
(* behind, and one without a signal handler serves nobody yet.             *)
TypeOK ==
  /\ main \in Alive \cup Gone
  /\ serve \in {"none", "starting", "serving", "done"}
  /\ listener \in BOOLEAN /\ entry \in BOOLEAN /\ sigCh \in BOOLEAN /\ asked \in BOOLEAN
  /\ errCh \in {"empty", "nil", "error"}
  /\ pending \subseteq Unary \cup Streams
  /\ main \in Gone \cup Booting => serve = "none" /\ pending = {} /\ ~sigCh

(* The port is open before the entry is announced and while it is served   *)
(* (server.go:194-195): a caller led here by etcd is not refused, unless   *)
(* the port has failed under Serve or the process is on its way out.       *)
AnnouncedIsOpen ==
  entry /\ main \in {"registered", "handling", "waiting"} /\ errCh = "empty" => listener

(* An orderly shutdown breaks no call off: whatever races in between the   *)
(* signal and the end of Serve, the process gets to its last deferred call *)
(* only with every call answered.                                          *)
NothingBrokenOff == main = "stopped" => pending = {}

(* A shutdown that was asked for comes to its end, if no stream stays      *)
(* silent for ever (main.go:84-95).                                        *)
ShutdownEnds == []<>(pending \cap Streams = {}) => (asked ~> main \in Gone)

(* Deregister, then stop (main.go:67, in that order): once Stop has closed *)
(* the port, callers can no longer find the process in etcd.  A port that  *)
(* failed by itself, with an error from Serve, is not meant.               *)
DeregisteredFirst ==
  main \in {"draining", "stopped"} /\ errCh # "error" /\ entry => listener
=============================================================================
