------------------------------- MODULE ClientSDK -------------------------------
(* The client SDK, src/bridge: a table of connections to downstream gRPC   *)
(* services by logical name.  NewClient opens them one after the other,    *)
(* Service and Invoke use them from any goroutine, and Close closes them   *)
(* under the lock while calls may be under way.                            *)
EXTENDS Integers, Sequences

CONSTANTS
  Goroutines,
  Configs,        \* what app.yaml may say: sequences of services entries
  Options,        \* the idle timeouts set by ClientOptions, in their order
  DefaultIdle,    \* NewClient's own
  Serves          \* target -> the gRPC services registered at it

VARIABLES
  client,         \* the Client: its configuration, its loops and its table
  conns,          \* the connections NewClient has opened, in their order
  call            \* goroutine -> its Invoke

sdkVars == <<client, conns, call>>

NoCall == [pc |-> "idle", conn |-> 0, sent |-> 0, ran |-> {}]

(* A file without a bridge_services section is a configuration without     *)
(* services, and no error.                                                 *)
LoadConfig == Configs \cup {<<>>}

SDKInit ==
  /\ \E cfg \in LoadConfig :
       client = [phase |-> "creating", cfg |-> cfg, next |-> 1, table |-> <<>>,
                 todo |-> {}]
  /\ conns = <<>>
  /\ call = [g \in Goroutines |-> NoCall]

-----------------------------------------------------------------------------
(* NewClient.                                                              *)

(* The options for the client's defaults, for every connection, or for the *)
(* connections of one service, taken in turn: each overrides those before. *)
Applied(to, start) ==
  LET idle[k \in 0 .. Len(Options)] ==
        IF k = 0 THEN start
        ELSE IF Options[k].to = to THEN Options[k].idle ELSE idle[k - 1]
  IN  idle[Len(Options)]

(* The defaults come first, then what is set for all, then the service's.  *)
dialOpts(name) == Applied(name, Applied("all", Applied("default", DefaultIdle)))

Entry == client.cfg[client.next]
Complete(entry) == entry.name # "" /\ entry.target # ""

newService(entry) ==
  [entry |-> client.next, open |-> TRUE, idle |-> dialOpts(entry.name)]

(* services[name] = conn, the connection just opened.                      *)
Put(table, name, conn) ==
  [n \in DOMAIN table \cup {name} |-> IF n = name THEN conn ELSE table[n]]

(* MISTAKE: a name that is taken keeps its first connection.               *)
NewServiceKeepsFirst ==
  /\ client.phase = "creating" /\ client.next <= Len(client.cfg)
  /\ Complete(Entry)
  /\ conns' = Append(conns, newService(Entry))
  /\ client' = [client EXCEPT !.next = @ + 1,
                  !.table = IF Entry.name \in DOMAIN @ THEN @
                            ELSE Put(@, Entry.name, Len(conns'))]
  /\ UNCHANGED call

(* A connection is opened and put in the table under its name, in place of *)
(* one of the same name, which stays open.                                 *)
NewService ==
  /\ client.phase = "creating" /\ client.next <= Len(client.cfg)
  /\ Complete(Entry)
  /\ conns' = Append(conns, newService(Entry))
  /\ client' = [client EXCEPT !.next = @ + 1,
                  !.table = Put(@, Entry.name, Len(conns'))]
  /\ UNCHANGED call

(* An incomplete entry, or grpc.NewClient rejects it: NewClient returns no *)
(* client, and the connections opened so far stay open.                    *)
NewClientFails ==
  /\ client.phase = "creating" /\ client.next <= Len(client.cfg)
  /\ client' = [client EXCEPT !.phase = "failed", !.table = <<>>]
  /\ UNCHANGED <<conns, call>>

NewClientReturns ==
  /\ client.phase = "creating" /\ client.next > Len(client.cfg)
  /\ client' = [client EXCEPT !.phase = "open"]
  /\ UNCHANGED <<conns, call>>

-----------------------------------------------------------------------------
(* Invoke, by any goroutine, before, while and after the client is closed. *)

Unlocked == client.phase \in {"open", "closed"}
ConnOf(g) == conns[call[g].conn]
ConfigOf(g) == client.cfg[ConnOf(g).entry]

(* Client.Service, under the read lock.                                    *)
Service(g, name) ==
  /\ call[g].pc = "idle" /\ Unlocked
  /\ name \in DOMAIN client.table
  /\ call' = [call EXCEPT ![g].pc = "found", ![g].conn = client.table[name]]
  /\ UNCHANGED <<client, conns>>

ServiceNotFound(g, name) ==
  /\ call[g].pc = "idle" /\ Unlocked
  /\ name \notin DOMAIN client.table
  /\ UNCHANGED sdkVars

(* Service.Invoke: the full method is the one given, or the entry's        *)
(* service with the method; an entry without a service has no such path.   *)
ServedAt(g, given) ==
  (IF given # "" THEN given ELSE ConfigOf(g).service) \in Serves[ConfigOf(g).target]

Invoke(g) ==
  /\ call[g].pc = "found" /\ ConnOf(g).open
  /\ call' = [call EXCEPT ![g].pc = "sent", ![g].sent = @ + 1]
  /\ UNCHANGED <<client, conns>>

(* The node runs a copy, at whatever time it arrives.                      *)
NodeRuns(g, copy, given) ==
  /\ copy \in 1 .. call[g].sent \ call[g].ran
  /\ call[g].conn # 0 /\ ServedAt(g, given)
  /\ call' = [call EXCEPT ![g].ran = @ \cup {copy}]
  /\ UNCHANGED <<client, conns>>

(* MISTAKE: Invoke on a context of its own: a silent node holds the call.  *)
OutcomesIfHeard(g, given, over) ==
  {err \in {"Canceled"} : ~ConnOf(g).open}
    \cup {err \in {"OK"} : call[g].pc = "sent" /\ call[g].sent \in call[g].ran}
    \cup {err \in {"Unimplemented"} : call[g].pc = "sent" /\ ~ServedAt(g, given)}

(* How Invoke may end: a closed connection refuses a call and breaks off   *)
(* one under way; a sent one is OK if the method ran and Unimplemented if  *)
(* it is not served; the network may fail, and the context may end.        *)
Outcomes(g, given, over) ==
  {"Unavailable"}
    \cup {err \in {"Canceled"} : ~ConnOf(g).open}
    \cup {err \in {"DeadlineExceeded"} : over}
    \cup {err \in {"OK"} : call[g].pc = "sent" /\ call[g].sent \in call[g].ran}
    \cup {err \in {"Unimplemented"} : call[g].pc = "sent" /\ ~ServedAt(g, given)}

InvokeReturns(g) ==
  /\ call[g].pc \in {"found", "sent"}
  /\ call' = [call EXCEPT ![g].pc = "idle"]
  /\ UNCHANGED <<client, conns>>

(* The goroutine is done with its call and all its copies.                 *)
Forget(g) ==
  /\ call' = [call EXCEPT ![g] = NoCall]
  /\ UNCHANGED <<client, conns>>

-----------------------------------------------------------------------------
(* Close.                                                                  *)

(* Service.Close, by an application that has the Service.                  *)
ServiceClose(name) ==
  /\ client.phase \in {"open", "closing"} /\ name \in DOMAIN client.table
  /\ conns[client.table[name]].open
  /\ conns' = [conns EXCEPT ![client.table[name]].open = FALSE]
  /\ UNCHANGED <<client, call>>

(* Client.Close takes the lock, ...                                        *)
Close ==
  /\ Unlocked
  /\ client' = [client EXCEPT !.phase = "closing", !.todo = DOMAIN client.table]
  /\ UNCHANGED <<conns, call>>

(* MISTAKE: the first error ends the loop.                                 *)
CloseOneOrStop(name) ==
  /\ client.phase = "closing" /\ name \in client.todo
  /\ client' = [client EXCEPT
       !.todo = IF conns[client.table[name]].open THEN @ \ {name} ELSE {}]
  /\ conns' = [conns EXCEPT ![client.table[name]].open = FALSE]
  /\ UNCHANGED call

(* ... closes the connections of the table in any order, not stopped by an *)
(* error (a connection closed before gives one), which it returns, ...     *)
CloseOne(name) ==
  /\ client.phase = "closing" /\ name \in client.todo
  /\ client' = [client EXCEPT !.todo = @ \ {name}]
  /\ conns' = [conns EXCEPT ![client.table[name]].open = FALSE]
  /\ UNCHANGED call

(* ... and keeps the table.                                                *)
CloseReturns ==
  /\ client.phase = "closing" /\ client.todo = {}
  /\ client' = [client EXCEPT !.phase = "closed"]
  /\ UNCHANGED <<conns, call>>
=============================================================================
