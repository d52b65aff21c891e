----------------------------- MODULE ProcessProofs -----------------------------
(* The safety of the process's life, for any calls and streams; and that   *)
(* the process with its configuration is a process as Lifecycle describes  *)
(* it, and only ever runs with a configuration that was accepted.          *)
EXTENDS Process, TLAPS

(* The types come first: what the other invariants say of main and serve   *)
(* is read off them.                                                       *)
THEOREM LifecycleTypes == Spec => []TypeOK
<1>1. Init => TypeOK
  BY DEF Init, Fresh, TypeOK, Alive, Gone, Booting, Shutdown
<1>2. TypeOK /\ [Next]_vars => TypeOK'
  <2> SUFFICES ASSUME TypeOK, [Next]_vars PROVE TypeOK'
    OBVIOUS
  <2> USE DEF TypeOK, Alive, Gone, Booting, Shutdown
  <2>1. CASE Listen
    BY <2>1 DEF Listen
  <2>2. CASE Register
    BY <2>2 DEF Register
  <2>3. CASE Notify
    BY <2>3 DEF Notify
  <2>4. CASE StartServe
    BY <2>4 DEF StartServe
  <2>5. CASE BootFails \/ OnServeError \/ Kill
    BY <2>5 DEF BootFails, OnServeError, Kill, Ends
  <2>6. CASE OnSignal \/ CloseListener \/ Drained
    BY <2>6 DEF OnSignal, CloseListener, Drained
  <2>7. CASE Deregister
    BY <2>7 DEF Deregister, Ends
  <2>8. CASE Serve
    BY <2>8 DEF Serve
  <2>9. CASE ServeFails \/ ServeReturns
    BY <2>9 DEF ServeFails, ServeReturns
  <2>10. CASE \E c \in Unary \cup Streams : Accept(c) \/ CallEnds(c)
    BY <2>10 DEF Accept, CallEnds
  <2>11. CASE Signal
    BY <2>11 DEF Signal
  <2>12. CASE Restart
    BY <2>12 DEF Restart
  <2>13. CASE UNCHANGED vars
    BY <2>13 DEF vars
  <2>14. QED
    BY <2>1, <2>2, <2>3, <2>4, <2>5, <2>6, <2>7, <2>8, <2>9, <2>10, <2>11,
       <2>12, <2>13 DEF Next
<1>3. QED
  BY <1>1, <1>2, PTL DEF Spec

(* The port: open from Listen until Serve fails or the shutdown begins;    *)
(* and once the shutdown has closed it, it is closed or not served yet,    *)
(* so that no call comes in after the last one has ended.                  *)
Port ==
  /\ main \in {"listening", "registered", "handling", "waiting"} /\ errCh = "empty" => listener
  /\ main \in {"draining", "stopped"} => ~(listener /\ serve = "serving")

IInv == TypeOK /\ Port /\ NothingBrokenOff

LEMMA InitHolds == Init => IInv
BY DEF Init, Fresh, IInv, Port, NothingBrokenOff, TypeOK,
       Alive, Gone, Booting, Shutdown

LEMMA StepKeeps == IInv /\ TypeOK' /\ [Next]_vars => IInv'
<1> SUFFICES ASSUME IInv, TypeOK', [Next]_vars
             PROVE Port' /\ NothingBrokenOff'
  BY DEF IInv
<1> USE DEF IInv, Port, NothingBrokenOff, TypeOK, Booting, Gone
<1>1. CASE Listen \/ Register \/ Notify \/ StartServe
  BY <1>1 DEF Listen, Register, Notify, StartServe
<1>2. CASE BootFails \/ OnServeError \/ Kill
  BY <1>2 DEF BootFails, OnServeError, Kill, Ends
<1>3. CASE OnSignal \/ CloseListener \/ Drained
  BY <1>3 DEF OnSignal, CloseListener, Drained
<1>4. CASE Deregister
  BY <1>4 DEF Deregister, Ends
<1>5. CASE Serve
  BY <1>5 DEF Serve
<1>6. CASE ServeFails \/ ServeReturns
  BY <1>6 DEF ServeFails, ServeReturns
<1>7. CASE \E c \in Unary \cup Streams : Accept(c) \/ CallEnds(c)
  BY <1>7 DEF Accept, CallEnds
<1>8. CASE Signal \/ Restart
  BY <1>8 DEF Signal, Restart
<1>9. CASE UNCHANGED vars
  BY <1>9 DEF vars
<1>10. QED
  BY <1>1, <1>2, <1>3, <1>4, <1>5, <1>6, <1>7, <1>8, <1>9 DEF Next

LEMMA Inductive == Spec => []IInv
BY LifecycleTypes, InitHolds, StepKeeps, PTL DEF Spec

(* Announced means open (server.go:194-195).                               *)
THEOREM AnnouncedIsReachable == Spec => []AnnouncedIsOpen
<1>1. IInv => AnnouncedIsOpen
  BY DEF IInv, Port, AnnouncedIsOpen
<1>2. QED
  BY <1>1, Inductive, PTL

(* A graceful stop breaks no call off (server.go:273-276), whatever races  *)
(* between the signal and Serve.                                           *)
THEOREM GracefulStop == Spec => []NothingBrokenOff
<1>1. IInv => NothingBrokenOff
  BY DEF IInv
<1>2. QED
  BY <1>1, Inductive, PTL

-----------------------------------------------------------------------------
(* Every step of Process is a step of Lifecycle or leaves its state alone, *)
(* so that all of the above holds of it.                                   *)
THEOREM ProcessIsLifecycle == ProcessSpec => Spec
<1>1. ProcessInit => Init
  BY DEF ProcessInit
<1>2. [ProcessNext]_processVars => [Next]_vars
  <2> SUFFICES ASSUME [ProcessNext]_processVars PROVE [Next]_vars
    OBVIOUS
  <2>1. CASE Loading \/ Watching
    BY <2>1 DEF Loading, Watching
  <2>2. CASE Running /\ Keeping
    BY <2>2 DEF Running, Next
  <2>3. CASE \E contents \in Good \cup {IllTyped, Garbled} : Edit(contents) /\ UNCHANGED vars
    BY <2>3
  <2>4. CASE UNCHANGED processVars
    BY <2>4 DEF processVars
  <2>5. QED
    BY <2>1, <2>2, <2>3, <2>4 DEF ProcessNext
<1>3. QED
  BY <1>1, <1>2, PTL DEF ProcessSpec, Spec

(* The process with its configuration is therefore announced only when it  *)
(* can be reached, and stops gracefully (main.go:20-95), whatever its      *)
(* configuration does.                                                     *)
THEOREM ProcessIsSafe ==
  ProcessSpec => [](TypeOK /\ AnnouncedIsOpen /\ NothingBrokenOff)
BY ProcessIsLifecycle, LifecycleTypes, AnnouncedIsReachable, GracefulStop, PTL

(* The configuration has been accepted from the time Load has parsed it,   *)
(* and a process beyond its boot has loaded one.                           *)
Accepted ==
  /\ loader.pc \in {"parsed", "watching", "loaded"} => loader.cfg \in Good
  /\ instance \in Good \cup {NoConfig}
  /\ Loaded => instance \in Good
  /\ main \notin {"boot"} \cup Gone => Loaded
  /\ main \in {"boot"} \cup Gone => ~listener

LEMMA AcceptedAtStart == ProcessInit => Accepted
BY DEF ProcessInit, ConfigInit, Nothing, Accepted, Loaded, Init, Fresh

LEMMA AcceptedKept == TypeOK /\ Accepted /\ [ProcessNext]_processVars => Accepted'
<1> SUFFICES ASSUME TypeOK, Accepted, [ProcessNext]_processVars PROVE Accepted'
  OBVIOUS
<1>1. CASE Loading
  <2>1. UNCHANGED <<main, listener>> /\ main = "boot"
    BY <1>1 DEF Loading, vars
  <2>2. CASE ReadInConfig
    BY <2>1, <2>2 DEF ReadInConfig, Accepted, Loaded
  <2>3. CASE Unmarshal
    BY <2>1, <2>3 DEF Unmarshal, Accepted, Loaded
  <2>4. CASE WatchConfig
    BY <2>1, <2>4 DEF WatchConfig, Accepted, Loaded
  <2>5. CASE SetInstance
    BY <2>1, <2>5 DEF SetInstance, Accepted, Loaded
  <2>6. QED
    BY <1>1, <2>2, <2>3, <2>4, <2>5 DEF Loading
<1>2. CASE Watching
  BY <1>2 DEF Watching, Reread, OnConfigChange, vars, Accepted, Loaded
<1>3. CASE Running /\ Keeping
  <2>1. CASE main' \in Gone
    <3>1. ConfigLost
      BY <1>3, <2>1 DEF Keeping
    <3>2. CASE main \in Gone
      <4>1. serve = "none" /\ ~listener
        BY <3>2 DEF TypeOK, Accepted
      <4>2. ~listener'
        BY <1>3, <2>1, <3>2, <4>1 DEF Running, Gone, Listen, BootFails, Register, Notify,
           StartServe, OnSignal, OnServeError, CloseListener, Drained, Deregister, Serve,
           ServeFails, ServeReturns, Accept, CallEnds, Signal, Kill, Restart, Ends
      <4>3. QED
        BY <2>1, <3>1, <4>2 DEF ConfigLost, Accepted, Loaded
    <3>3. CASE main \notin Gone
      <4>1. ~listener'
        BY <1>3, <2>1, <3>3 DEF Running, Gone, Listen, BootFails, Register, Notify,
           StartServe, OnSignal, OnServeError, CloseListener, Drained, Deregister, Serve,
           ServeFails, ServeReturns, Accept, CallEnds, Signal, Kill, Restart, Ends
      <4>2. QED
        BY <2>1, <3>1, <4>1 DEF ConfigLost, Accepted, Loaded
    <3>4. QED
      BY <3>2, <3>3
  <2>2. CASE main' \notin Gone
    <3>1. UNCHANGED <<loader, instance>>
      BY <1>3, <2>2 DEF Keeping, configVars
    <3>2. main' \notin {"boot"} \cup Gone => Loaded
      BY <1>3, <2>2 DEF Running, Gone, Listen, BootFails, Register, Notify, StartServe, OnSignal,
         OnServeError, CloseListener, Drained, Deregister, Serve, ServeFails, ServeReturns,
         Accept, CallEnds, Signal, Kill, Restart, Ends, Accepted
    <3>3. main' = "boot" => ~listener'
      BY <1>3, <2>2 DEF Running, Gone, Listen, BootFails, Register, Notify, StartServe, OnSignal,
         OnServeError, CloseListener, Drained, Deregister, Serve, ServeFails, ServeReturns,
         Accept, CallEnds, Signal, Kill, Restart, Ends, Accepted
    <3>4. QED
      BY <2>2, <3>1, <3>2, <3>3 DEF Accepted, Loaded
  <2>3. QED
    BY <2>1, <2>2
<1>4. CASE \E contents \in Good \cup {IllTyped, Garbled} : Edit(contents) /\ UNCHANGED vars
  BY <1>4 DEF Edit, vars, Accepted, Loaded
<1>5. CASE UNCHANGED processVars
  BY <1>5 DEF processVars, configVars, vars, Accepted, Loaded
<1>6. QED
  BY <1>1, <1>2, <1>3, <1>4, <1>5 DEF ProcessNext

(* What others may Get, and what the server runs with, Unmarshal has       *)
(* accepted (config.go:117, 124), whatever is written to the file.         *)
THEOREM ConfigurationIsValid == ProcessSpec => []InstanceIsValid
<1>1. TypeOK /\ Accepted => InstanceIsValid
  BY DEF Accepted, InstanceIsValid, Loaded, TypeOK
<1>2. QED
  BY <1>1, ProcessIsLifecycle, LifecycleTypes, AcceptedAtStart, AcceptedKept, PTL
     DEF ProcessSpec
=============================================================================
