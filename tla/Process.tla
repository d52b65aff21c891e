-------------------------------- MODULE Process --------------------------------
(* The bridge process with its configuration: Lifecycle, whose first step  *)
(* (boot) is here config.Load step by step, and ConfigReload, whose state  *)
(* is lost whenever the process ends and is read anew when it restarts.    *)
EXTENDS Lifecycle, ConfigReload

processVars == <<vars, configVars>>

ProcessInit == Init /\ ConfigInit

(* The life of the process goes on, with its configuration or without it.  *)
Keeping == IF main' \in Gone THEN ConfigLost ELSE UNCHANGED configVars

Loading ==
  /\ main = "boot"
  /\ ReadInConfig \/ Unmarshal \/ WatchConfig \/ SetInstance
  /\ UNCHANGED vars

Watching ==
  /\ Reread \/ OnConfigChange
  /\ UNCHANGED vars

Running ==
  \/ Loaded /\ Listen
  \/ BootFails /\ (Loaded \/ LoadFails)
  \/ Register \/ Notify \/ StartServe
  \/ OnSignal \/ OnServeError \/ CloseListener \/ Drained \/ Deregister
  \/ Serve \/ ServeFails \/ ServeReturns
  \/ \E c \in Unary \cup Streams : Accept(c)
  \/ \E c \in Unary \cup Streams : CallEnds(c)
  \/ Signal \/ Kill \/ Restart

ProcessNext ==
  \/ Loading
  \/ Watching
  \/ Running /\ Keeping
  \/ \E contents \in Good \cup {IllTyped, Garbled} : Edit(contents) /\ UNCHANGED vars

(* The goroutines run, the watcher's too; and a unary call ends by its     *)
(* deadline.  Nothing makes the client of a stream speak or hang up.       *)
ProcessSpec ==
  /\ ProcessInit /\ [][ProcessNext]_processVars
  /\ WF_processVars(Loading)
  /\ WF_processVars(Watching)
  /\ WF_processVars((MainStep /\ (main = "boot" => Loaded)) /\ Keeping)
  /\ WF_processVars(ServeStep /\ Keeping)
  /\ \A c \in Unary : WF_processVars(CallEnds(c) /\ Keeping)

-----------------------------------------------------------------------------
(* The configuration others may Get, and the one the server runs with, is  *)
(* one that Unmarshal has accepted (config.go:117, 124), whatever is       *)
(* written to the file, and there is one by the time the port is open.     *)
InstanceIsValid ==
  /\ instance \in Good \cup {NoConfig}
  /\ listener => instance \in Good /\ loader.cfg \in Good

(* A change made once Load has returned is taken over without a restart    *)
(* (config.go:105, README.md:17), though faulty versions may come before   *)
(* it: if the file then stays and is in order, instance becomes it.        *)
ChangeTakesEffect ==
  \A contents \in Good :
    <>[](file = contents /\ settled) => <>[](instance = contents)

(* An entry left in etcd (main.go:90 and any kill skip Deregister) does    *)
(* not name a closed port for good: whatever the process died of, and      *)
(* though its port fails under Serve again and again, the port it names is *)
(* opened once more.  This is if the platform starts the process anew and  *)
(* its file is in order, kills and failed starts come to an end, and no    *)
(* stream stays silent for ever.                                           *)
StaleEntryHeals ==
  /\ []<>Loaded
  /\ <>[][main' = "dead" => errCh = "error"]_processVars
  /\ []<>(pending \cap Streams = {})
  => []<>(entry => listener)
=============================================================================
