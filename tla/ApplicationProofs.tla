--------------------------- MODULE ApplicationProofs ---------------------------
(* Proofs about a program that calls through the SDK under DoRetry, for    *)
(* any number of goroutines, any app.yaml, options and retry settings.     *)
EXTENDS Application, InductionLemmas, SequenceTheorems

-----------------------------------------------------------------------------
(* The client's options.                                                   *)

LEMMA OptionsTyped ==
  /\ Len(Options) \in Nat /\ DOMAIN Options = 1 .. Len(Options)
  /\ \A k \in 1 .. Len(Options) : Options[k].to \in STRING /\ Options[k].idle \in Nat
<1> DEFINE Option == [to : STRING, idle : Nat]
<1>1. Options \in Seq(Option)
  BY SDKAssumption
<1>2. Len(Options) \in Nat /\ DOMAIN Options = 1 .. Len(Options)
      /\ \A k \in 1 .. Len(Options) : Options[k] \in Option
  <2> HIDE DEF Option
  <2> QED
    BY <1>1
<1>3. QED
  BY <1>2

(* What the loop has found after k options: each for this overrides those  *)
(* before.                                                                 *)
Overrides(idle, to, start) ==
  /\ idle[0] = start
  /\ \A k \in 1 .. Len(Options) :
       idle[k] = IF Options[k].to = to THEN Options[k].idle ELSE idle[k - 1]
  /\ idle[Len(Options)] = S!Applied(to, start)

(* The recursive function that is the loop exists, and is the options' own. *)
LEMMA OptionsLoop ==
  ASSUME NEW to, NEW start \in Nat
  PROVE  \E idle \in [0 .. Len(Options) -> Nat] : Overrides(idle, to, start)
<1> DEFINE n == Len(Options)
           step == [x \in (1 .. n) \X Nat |->
                      IF Options[x[1]].to = to THEN Options[x[1]].idle ELSE x[2]]
           Eq(f) == f = [k \in 0 .. n |->
                           IF k = 0 THEN start
                           ELSE IF Options[k].to = to THEN Options[k].idle ELSE f[k - 1]]
<1>1. n \in Nat /\ \A k \in 1 .. n : Options[k].idle \in Nat
  BY OptionsTyped
<1>2. step \in [(1 .. n) \X Nat -> Nat]
  BY <1>1
<1>3. PICK f \in [0 .. n -> Nat] : Follows(f, n, start, step)
  <2> HIDE DEF n, step
  <2> QED
    BY <1>1, <1>2, RecursiveFunction
<1>4. f[0] = start
  <2>1. 0 \in 0 .. n
    BY <1>1
  <2> HIDE DEF step
  <2>2. QED
    BY <2>1, <1>3 DEF Follows
<1>5. ASSUME NEW k \in 1 .. n
      PROVE  f[k] = IF Options[k].to = to THEN Options[k].idle ELSE f[k - 1]
  <2>1. k \in 0 .. n /\ k # 0 /\ f[k - 1] \in Nat
    BY <1>1
  <2>2. QED
    BY <2>1, <1>3 DEF Follows
<1>6. Eq(f)
  <2>1. ASSUME NEW k \in 0 .. n
        PROVE  f[k] = IF k = 0 THEN start
                      ELSE IF Options[k].to = to THEN Options[k].idle ELSE f[k - 1]
    <3>1. CASE k = 0
      BY <1>4, <3>1
    <3>2. CASE k # 0
      <4>1. k \in 1 .. n
        BY <3>2, <1>1
      <4>2. QED
        BY <4>1, <3>2, <1>5
    <3>3. QED
      BY <3>1, <3>2
  <2>2. QED
    BY <2>1
<1>7. PICK g : Eq(g) /\ g[n] = S!Applied(to, start)
  <2>1. S!Applied(to, start) = (CHOOSE g : Eq(g))[n]
    BY DEF S!Applied
  <2> HIDE DEF Eq
  <2>2. QED
    BY <1>6, <2>1
<1> DEFINE Same == {k \in 0 .. n : f[k] = g[k]}
<1>8. 0 .. n \subseteq Same
  <2>1. 0 \in Same
    BY <1>1, <1>4, <1>7
  <2>2. ASSUME NEW k \in 1 .. n, k - 1 \in Same PROVE k \in Same
    <3>1. k \in 0 .. n /\ k # 0
      BY <1>1
    <3>2. g[k] = IF Options[k].to = to THEN Options[k].idle ELSE g[k - 1]
      BY <3>1, <1>7
    <3>3. QED
      BY <3>1, <3>2, <1>5, <2>2
  <2>3. QED
    <3> HIDE DEF Same, n
    <3> QED
      BY <1>1, <2>1, <2>2, BoundedInduction
<1>9. f[n] = S!Applied(to, start)
  <2>1. n \in 0 .. n
    BY <1>1
  <2>2. QED
    BY <2>1, <1>7, <1>8
<1>10. QED
  BY <1>4, <1>5, <1>9 DEF Overrides

(* The last option there is for something decides ...                      *)
LEMMA LastOption ==
  ASSUME NEW to, NEW start \in Nat,
         NEW last \in DOMAIN Options, Options[last].to = to,
         \A l \in DOMAIN Options : Options[l].to = to => l <= last
  PROVE  S!Applied(to, start) = Options[last].idle
<1> DEFINE n == Len(Options)
<1>1. n \in Nat /\ last \in 1 .. n /\ DOMAIN Options = 1 .. n
  BY OptionsTyped
<1>2. PICK idle \in [0 .. n -> Nat] : Overrides(idle, to, start)
  BY OptionsLoop
<1> DEFINE Kept == {l \in 0 .. n : l >= last => idle[l] = Options[last].idle}
<1>3. 0 \in Kept
  BY <1>1
<1>4. ASSUME NEW l \in 1 .. n, l - 1 \in Kept PROVE l \in Kept
  <2>1. CASE l = last
    BY <2>1, <1>1, <1>2 DEF Overrides
  <2>2. CASE l < last
    BY <2>2, <1>1
  <2>3. CASE l > last
    <3>1. Options[l].to # to /\ l - 1 >= last /\ l \in 0 .. n
      BY <2>3, <1>1
    <3>2. QED
      BY <3>1, <1>2, <1>4 DEF Overrides
  <2>4. QED
    BY <2>1, <2>2, <2>3, <1>1
<1>5. 0 .. n \subseteq Kept
  <2> HIDE DEF Kept, n
  <2>1. QED
    BY <1>1, <1>3, <1>4, BoundedInduction
<1>6. n \in 0 .. n /\ n >= last
  BY <1>1
<1>7. QED
  BY <1>2, <1>5, <1>6 DEF Overrides

(* ... and without one it stays as it was.                                 *)
LEMMA NoOption ==
  ASSUME NEW to, NEW start \in Nat, \A l \in DOMAIN Options : Options[l].to # to
  PROVE  S!Applied(to, start) = start
<1> DEFINE n == Len(Options)
<1>1. n \in Nat /\ DOMAIN Options = 1 .. n
  BY OptionsTyped
<1>2. PICK idle \in [0 .. n -> Nat] : Overrides(idle, to, start)
  BY OptionsLoop
<1> DEFINE Kept == {l \in 0 .. n : idle[l] = start}
<1>3. 0 \in Kept
  BY <1>1, <1>2 DEF Overrides
<1>4. ASSUME NEW l \in 1 .. n, l - 1 \in Kept PROVE l \in Kept
  BY <1>1, <1>2, <1>4 DEF Overrides
<1>5. 0 .. n \subseteq Kept
  <2> HIDE DEF Kept, n
  <2>1. QED
    BY <1>1, <1>3, <1>4, BoundedInduction
<1>6. n \in 0 .. n
  BY <1>1
<1>7. QED
  BY <1>2, <1>5, <1>6 DEF Overrides

LEMMA AppliedTyped ==
  ASSUME NEW to, NEW start \in Nat
  PROVE  S!Applied(to, start) \in Nat
<1>1. PICK idle \in [0 .. Len(Options) -> Nat] : Overrides(idle, to, start)
  BY OptionsLoop
<1>2. Len(Options) \in 0 .. Len(Options)
  BY OptionsTyped
<1>3. QED
  BY <1>1, <1>2 DEF Overrides

(* What NewClient dials a service with: a number, and the last option for  *)
(* that service, or else the last one for all.                             *)
LEMMA DialOptions ==
  ASSUME NEW name
  PROVE  /\ S!dialOpts(name) \in Nat
         /\ \A k \in DOMAIN Options :
              /\ Options[k].to = name
              /\ \A l \in DOMAIN Options : Options[l].to = name => l <= k
              => S!dialOpts(name) = Options[k].idle
         /\ (\A l \in DOMAIN Options : Options[l].to # name) =>
              \A k \in DOMAIN Options :
                /\ Options[k].to = "all"
                /\ \A l \in DOMAIN Options : Options[l].to = "all" => l <= k
                => S!dialOpts(name) = Options[k].idle
<1> DEFINE default == S!Applied("default", DefaultIdle)
           all == S!Applied("all", default)
<1>1. default \in Nat
  BY SDKAssumption, AppliedTyped
<1>2. all \in Nat
  <2> HIDE DEF default
  <2> QED
    BY <1>1, AppliedTyped
<1>3. ASSUME NEW k \in DOMAIN Options, Options[k].to = "all",
             \A l \in DOMAIN Options : Options[l].to = "all" => l <= k
      PROVE  all = Options[k].idle
  <2> HIDE DEF default
  <2> QED
    BY <1>1, <1>3, LastOption
<1>4. S!dialOpts(name) = S!Applied(name, all)
  BY DEF S!dialOpts
<1> HIDE DEF default, all
<1>5. S!dialOpts(name) \in Nat
  BY <1>2, <1>4, AppliedTyped
<1>6. ASSUME NEW k \in DOMAIN Options, Options[k].to = name,
             \A l \in DOMAIN Options : Options[l].to = name => l <= k
      PROVE  S!dialOpts(name) = Options[k].idle
  BY <1>2, <1>4, <1>6, LastOption
<1>7. (\A l \in DOMAIN Options : Options[l].to # name) => S!dialOpts(name) = all
  BY <1>2, <1>4, NoOption
<1>8. QED
  BY <1>3, <1>5, <1>6, <1>7

-----------------------------------------------------------------------------
(* The Client's own invariant.                                             *)

Connection == [entry : Nat, open : BOOLEAN, idle : Nat]
Entries == 1 .. client.next - 1
Built == client.phase \notin {"creating", "failed"}

IsClient ==
  /\ client \in [phase : {"creating", "failed", "open", "closing", "closed"},
                 cfg : S!LoadConfig, next : Nat \ {0},
                 table : {client.table}, todo : {client.todo}]
  /\ client.next - 1 <= Len(client.cfg)
  /\ conns \in Seq(Connection) /\ Len(conns) = client.next - 1

(* A connection for each entry so far, and a table that leads each name to *)
(* the connection of its last entry.                                       *)
LeadsToLast(table) ==
  /\ DOMAIN table = {client.cfg[i].name : i \in Entries}
  /\ \A name \in DOMAIN table :
       /\ table[name] \in Entries
       /\ client.cfg[table[name]].name = name
       /\ \A i \in Entries : client.cfg[i].name = name => i <= table[name]

TableOfLast ==
  /\ \A i \in Entries :
       conns[i].entry = i /\ conns[i].idle = S!dialOpts(client.cfg[i].name)
  /\ client.phase = "failed" => client.table = <<>>
  /\ client.phase # "failed" => LeadsToLast(client.table)
  /\ Built => client.next = Len(client.cfg) + 1

(* Close works its way through the table: what it has passed is closed.    *)
Passed ==
  IF client.phase = "closing" THEN DOMAIN client.table \ client.todo
  ELSE IF client.phase = "closed" THEN DOMAIN client.table
  ELSE {}

ClosedSoFar ==
  /\ client.phase = "closing" => client.todo \subseteq DOMAIN client.table
  /\ \A name \in Passed : ~conns[client.table[name]].open

ClientInv == IsClient /\ TableOfLast /\ ClosedSoFar

(* What the goroutines may rely on: a table that is built stays.           *)
TableStays ==
  /\ client'.cfg = client.cfg
  /\ Built => Built' /\ client'.table = client.table

LEMMA ConfigTyped ==
  ASSUME NEW cfg \in S!LoadConfig
  PROVE  /\ Len(cfg) \in Nat /\ DOMAIN cfg = 1 .. Len(cfg)
         /\ cfg = <<>> => Len(cfg) = 0
<1> DEFINE E == [name : STRING, target : STRING, service : STRING]
<1>1. cfg \in Configs \/ cfg = <<>>
  BY DEF S!LoadConfig
<1>2. cfg \in Seq(E)
  <2>1. CASE cfg \in Configs
    BY <2>1, SDKAssumption
  <2>2. CASE cfg = <<>>
    <3> HIDE DEF E
    <3> QED
      BY <2>2
  <2>3. QED
    BY <1>1, <2>1, <2>2
<1>3. QED
  <2> HIDE DEF E
  <2> QED
    BY <1>2

LEMMA ClientInitInv == S!SDKInit => ClientInv
<1> SUFFICES ASSUME S!SDKInit PROVE ClientInv
  OBVIOUS
<1>1. PICK cfg \in S!LoadConfig :
        client = [phase |-> "creating", cfg |-> cfg, next |-> 1, table |-> <<>>, todo |-> {}]
  BY DEF S!SDKInit
<1>2. conns = <<>> /\ conns \in Seq(Connection) /\ Len(conns) = 0
  BY DEF S!SDKInit
<1>3. Len(cfg) \in Nat
  BY ConfigTyped
<1>4. /\ client.phase = "creating" /\ client.cfg = cfg /\ client.next = 1
      /\ client.table = <<>> /\ client.todo = {}
  BY <1>1
<1>5. Entries = {}
  BY <1>4 DEF Entries
<1>6. IsClient
  BY <1>1, <1>2, <1>3, <1>4 DEF IsClient
<1>7. DOMAIN client.table = {}
  BY <1>4
<1>8. TableOfLast
  BY <1>4, <1>5, <1>7 DEF TableOfLast, LeadsToLast, Built
<1>9. ClosedSoFar
  BY <1>4 DEF ClosedSoFar, Passed
<1>10. QED
  BY <1>6, <1>8, <1>9 DEF ClientInv

(* A connection is opened for the next entry, and takes its name.          *)
LEMMA Opens ==
  ASSUME ClientInv, S!NewService
  PROVE  ClientInv' /\ TableStays
<1> DEFINE new == S!newService(S!Entry)
           next == client.next
           table == S!Put(client.table, S!Entry.name, next)
<1>1. /\ client.phase = "creating" /\ next <= Len(client.cfg) /\ next \in Nat \ {0}
      /\ client.cfg \in S!LoadConfig /\ Len(client.cfg) \in Nat
      /\ conns \in Seq(Connection) /\ Len(conns) = next - 1
  BY ConfigTyped DEF S!NewService, ClientInv, IsClient
<1>2. S!dialOpts(S!Entry.name) \in Nat
  BY DialOptions
<1>3. new = [entry |-> next, open |-> TRUE, idle |-> S!dialOpts(S!Entry.name)]
      /\ new \in Connection
  BY <1>1, <1>2 DEF S!newService, Connection
<1>4. conns' = Append(conns, new)
  BY DEF S!NewService
<1>5. /\ conns' \in Seq(Connection) /\ Len(conns') = next
      /\ \A i \in 1 .. next - 1 : conns'[i] = conns[i]
      /\ conns'[next] = new
  <2> HIDE DEF new
  <2> QED
    BY <1>1, <1>3, <1>4
<1>6. client' = [client EXCEPT !.next = next + 1, !.table = table]
  BY <1>5 DEF S!NewService
<1>7. /\ client'.phase = "creating" /\ client'.cfg = client.cfg /\ client'.next = next + 1
      /\ client'.table = table /\ client'.todo = client.todo
  BY <1>1, <1>6 DEF ClientInv, IsClient
<1>8. /\ DOMAIN table = DOMAIN client.table \cup {S!Entry.name}
      /\ \A name \in DOMAIN table :
           table[name] = IF name = S!Entry.name THEN next ELSE client.table[name]
  BY DEF S!Put
<1>9. S!Entry.name = client.cfg[next].name
  BY DEF S!Entry
<1> HIDE DEF new, next, table
<1>10. IsClient'
  <2>1. client' \in [phase : {"creating", "failed", "open", "closing", "closed"},
                     cfg : S!LoadConfig, next : Nat \ {0},
                     table : {table}, todo : {client.todo}]
    <3>1. client \in [phase : {"creating", "failed", "open", "closing", "closed"},
                      cfg : S!LoadConfig, next : Nat \ {0},
                      table : {client.table}, todo : {client.todo}]
      BY DEF ClientInv, IsClient
    <3>2. next + 1 \in Nat \ {0}
      BY <1>1
    <3>3. QED
      BY <3>1, <3>2, <1>6
  <2>2. client'.next - 1 = next /\ next <= Len(client'.cfg)
    BY <1>1, <1>7
  <2>3. QED
    BY <2>1, <2>2, <1>5, <1>7 DEF IsClient
<1>11. /\ Entries' = Entries \cup {next} /\ Entries = 1 .. next - 1
       /\ next \notin Entries /\ Entries \subseteq Nat
  BY <1>1, <1>7 DEF Entries, next
<1>12. LeadsToLast(client.table)
  BY <1>1 DEF ClientInv, TableOfLast
<1>13. LeadsToLast(client.table)'
  <2>1. DOMAIN table = {client.cfg[i].name : i \in Entries'}
    <3>1. DOMAIN client.table = {client.cfg[i].name : i \in Entries}
      BY <1>12 DEF LeadsToLast
    <3>2. \A name : name \in DOMAIN table <=>
            (\E i \in Entries : name = client.cfg[i].name) \/ name = client.cfg[next].name
      BY <3>1, <1>8, <1>9
    <3>3. \A name : name \in DOMAIN table <=> \E i \in Entries' : name = client.cfg[i].name
      BY <3>2, <1>11
    <3>4. QED
      BY <3>3
  <2>2. ASSUME NEW name \in DOMAIN table
        PROVE  /\ table[name] \in Entries'
               /\ client.cfg[table[name]].name = name
               /\ \A i \in Entries' : client.cfg[i].name = name => i <= table[name]
    <3>1. CASE name = S!Entry.name
      <4>1. table[name] = next /\ client.cfg[next].name = name
        BY <3>1, <1>8, <1>9
      <4>2. \A i \in Entries' : i <= next
        BY <1>1, <1>11
      <4>3. QED
        BY <4>1, <4>2, <1>11
    <3>2. CASE name # S!Entry.name
      <4>1. name \in DOMAIN client.table /\ table[name] = client.table[name]
        BY <3>2, <1>8
      <4>2. QED
        BY <4>1, <3>2, <1>9, <1>11, <1>12 DEF LeadsToLast
    <3>3. QED
      BY <3>1, <3>2
  <2>3. QED
    BY <2>1, <2>2, <1>7 DEF LeadsToLast
<1>14. ASSUME NEW i \in Entries'
       PROVE  conns'[i].entry = i /\ conns'[i].idle = S!dialOpts(client.cfg[i].name)
  <2>1. CASE i = next
    BY <2>1, <1>3, <1>5, <1>9
  <2>2. CASE i # next
    BY <2>2, <1>5, <1>11 DEF ClientInv, TableOfLast
  <2>3. QED
    BY <2>1, <2>2
<1>15. TableOfLast'
  BY <1>7, <1>13, <1>14 DEF TableOfLast, Built
<1>16. ClosedSoFar'
  BY <1>7 DEF ClosedSoFar, Passed
<1>17. QED
  BY <1>1, <1>7, <1>10, <1>15, <1>16 DEF ClientInv, TableStays, Built

(* NewClient gives up, and there is no table.                              *)
LEMMA GivesUp ==
  ASSUME ClientInv, S!NewClientFails
  PROVE  ClientInv' /\ TableStays
<1>1. /\ client.phase = "creating"
      /\ client' = [client EXCEPT !.phase = "failed", !.table = <<>>]
      /\ conns' = conns
  BY DEF S!NewClientFails
<1>2. /\ client'.phase = "failed" /\ client'.cfg = client.cfg /\ client'.next = client.next
      /\ client'.table = <<>>
  BY <1>1 DEF ClientInv, IsClient
<1>3. IsClient'
  BY <1>1 DEF ClientInv, IsClient
<1>4. Entries' = Entries
  BY <1>2 DEF Entries
<1>5. TableOfLast'
  BY <1>1, <1>2, <1>4 DEF ClientInv, TableOfLast, Built
<1>6. ClosedSoFar'
  BY <1>2 DEF ClosedSoFar, Passed
<1>7. QED
  BY <1>1, <1>2, <1>3, <1>5, <1>6 DEF ClientInv, TableStays, Built

(* The other steps keep what is built, and may only close connections.     *)
LEMMA KeepsTable ==
  ASSUME ClientInv,
         client'.cfg = client.cfg, client'.next = client.next, client'.table = client.table,
         client.phase # "failed", client'.phase \notin {"creating", "failed"},
         Built \/ client.next = Len(client.cfg) + 1,
         IsClient', ClosedSoFar',
         \A i \in Entries : conns'[i].entry = conns[i].entry /\ conns'[i].idle = conns[i].idle
  PROVE  ClientInv' /\ TableStays
<1>1. Entries' = Entries
  BY DEF Entries
<1>2. client.next = Len(client.cfg) + 1
  BY DEF ClientInv, TableOfLast
<1>3. LeadsToLast(client.table)'
  BY <1>1 DEF ClientInv, TableOfLast, LeadsToLast
<1>4. TableOfLast'
  BY <1>1, <1>2, <1>3 DEF ClientInv, TableOfLast
<1>5. QED
  BY <1>4 DEF ClientInv, TableStays, Built

LEMMA Returns ==
  ASSUME ClientInv, S!NewClientReturns
  PROVE  ClientInv' /\ TableStays
<1>1. /\ client.phase = "creating" /\ client.next > Len(client.cfg)
      /\ client' = [client EXCEPT !.phase = "open"] /\ conns' = conns
  BY DEF S!NewClientReturns
<1>2. /\ client'.phase = "open" /\ client'.cfg = client.cfg /\ client'.next = client.next
      /\ client'.table = client.table
  BY <1>1 DEF ClientInv, IsClient
<1>3. IsClient'
  BY <1>1 DEF ClientInv, IsClient
<1>4. client.next = Len(client.cfg) + 1
  BY <1>1, ConfigTyped DEF ClientInv, IsClient
<1>5. ClosedSoFar'
  BY <1>2 DEF ClosedSoFar, Passed
<1>6. QED
  BY <1>1, <1>2, <1>3, <1>4, <1>5, KeepsTable

(* Close takes the lock.                                                   *)
LEMMA Locks ==
  ASSUME ClientInv, S!Close
  PROVE  ClientInv' /\ TableStays
<1>1. /\ client.phase \in {"open", "closed"}
      /\ client' = [client EXCEPT !.phase = "closing", !.todo = DOMAIN client.table]
      /\ conns' = conns
  BY DEF S!Close, S!Unlocked
<1>2. /\ client'.phase = "closing" /\ client'.cfg = client.cfg /\ client'.next = client.next
      /\ client'.table = client.table /\ client'.todo = DOMAIN client.table
  BY <1>1 DEF ClientInv, IsClient
<1>3. IsClient'
  BY <1>1 DEF ClientInv, IsClient
<1>4. ClosedSoFar'
  BY <1>2 DEF ClosedSoFar, Passed
<1>5. QED
  BY <1>1, <1>2, <1>3, <1>4, KeepsTable DEF Built

(* Close has gone through the table.                                       *)
LEMMA Unlocks ==
  ASSUME ClientInv, S!CloseReturns
  PROVE  ClientInv' /\ TableStays
<1>1. /\ client.phase = "closing" /\ client.todo = {}
      /\ client' = [client EXCEPT !.phase = "closed"] /\ conns' = conns
  BY DEF S!CloseReturns
<1>2. /\ client'.phase = "closed" /\ client'.cfg = client.cfg /\ client'.next = client.next
      /\ client'.table = client.table
  BY <1>1 DEF ClientInv, IsClient
<1>3. IsClient'
  BY <1>1 DEF ClientInv, IsClient
<1>4. ClosedSoFar'
  BY <1>1, <1>2 DEF ClientInv, ClosedSoFar, Passed
<1>5. QED
  BY <1>1, <1>2, <1>3, <1>4, KeepsTable DEF Built

(* A function on 1 .. n is a sequence.                                     *)
LEMMA Numbered ==
  ASSUME NEW T, NEW n \in Nat, NEW f \in [1 .. n -> T]
  PROVE  f \in Seq(T) /\ Len(f) = n
OBVIOUS

(* The connection of a name is closed, by Close or by itself.              *)
LEMMA ConnCloses ==
  ASSUME IsClient, NEW i \in Entries, conns' = [conns EXCEPT ![i].open = FALSE]
  PROVE  /\ conns' \in Seq(Connection) /\ Len(conns') = Len(conns)
         /\ \A j \in Entries :
              /\ conns'[j].entry = conns[j].entry /\ conns'[j].idle = conns[j].idle
              /\ conns'[j].open => conns[j].open
         /\ ~conns'[i].open
<1> DEFINE closed == [conns[i] EXCEPT !.open = FALSE]
<1>1. conns \in Seq(Connection) /\ i \in 1 .. Len(conns) /\ Entries = 1 .. Len(conns)
  BY DEF IsClient, Entries
<1>2. \A j \in Entries : conns[j] \in Connection
  BY <1>1
<1>3. /\ closed \in Connection /\ ~closed.open
      /\ closed.entry = conns[i].entry /\ closed.idle = conns[i].idle
  BY <1>2 DEF Connection
<1>4. conns' = [conns EXCEPT ![i] = closed]
  BY <1>1
<1> HIDE DEF closed
<1>5. /\ conns' \in Seq(Connection) /\ Len(conns') = Len(conns)
      /\ \A j \in 1 .. Len(conns) : conns'[j] = IF j = i THEN closed ELSE conns[j]
  <2> DEFINE n == Len(conns)
  <2>1. n \in Nat /\ conns = [j \in 1 .. n |-> conns[j]]
    BY <1>1
  <2>2. conns' = [j \in 1 .. n |-> IF j = i THEN closed ELSE conns[j]]
    BY <1>4, <2>1
  <2>3. \A j \in 1 .. n : conns[j] \in Connection
    BY <1>1, <1>2
  <2> HIDE DEF n
  <2>4. conns' \in [1 .. n -> Connection]
    BY <1>3, <2>2, <2>3
  <2>5. conns' \in Seq(Connection) /\ Len(conns') = n
    BY <2>1, <2>4, Numbered, Zenon
  <2>6. QED
    BY <2>2, <2>5 DEF n
<1>6. ASSUME NEW j \in Entries
      PROVE  /\ conns'[j].entry = conns[j].entry /\ conns'[j].idle = conns[j].idle
             /\ conns'[j].open => conns[j].open
  <2>1. CASE j = i
    <3>1. conns'[j] = closed
      BY <1>1, <1>5, <2>1
    <3>2. ~conns'[j].open
      BY <1>3, <3>1, Zenon
    <3>3. QED
      BY <1>3, <2>1, <3>1, <3>2
  <2>2. CASE j # i
    <3>1. conns'[j] = conns[j]
      BY <1>1, <1>5, <2>2
    <3>2. QED
      BY <3>1, Zenon
  <2>3. QED
    BY <2>1, <2>2
<1>7. ~conns'[i].open
  <2>1. conns'[i] = closed
    BY <1>1, <1>5
  <2>2. QED
    BY <1>3, <2>1, Zenon
<1>8. conns' \in Seq(Connection) /\ Len(conns') = Len(conns)
  BY <1>5
<1>9. QED
  BY <1>6, <1>7, <1>8, Zenon

(* Service.Close, by whoever has the Service.                              *)
LEMMA ClosesOne ==
  ASSUME ClientInv, NEW name, S!ServiceClose(name)
  PROVE  ClientInv' /\ TableStays
<1> DEFINE conn == client.table[name]
<1>1. /\ client.phase \in {"open", "closing"} /\ name \in DOMAIN client.table
      /\ conns' = [conns EXCEPT ![conn].open = FALSE] /\ client' = client
  BY DEF S!ServiceClose
<1>2. IsClient /\ LeadsToLast(client.table) /\ conn \in Entries
  BY <1>1 DEF ClientInv, TableOfLast, LeadsToLast
<1> HIDE DEF conn
<1>3. /\ conns' \in Seq(Connection) /\ Len(conns') = Len(conns)
      /\ \A j \in Entries :
           /\ conns'[j].entry = conns[j].entry /\ conns'[j].idle = conns[j].idle
           /\ conns'[j].open => conns[j].open
  BY <1>1, <1>2, ConnCloses
<1>4. IsClient'
  BY <1>1, <1>2, <1>3 DEF IsClient
<1>5. ClosedSoFar'
  <2>1. Passed' = Passed
    BY <1>1 DEF Passed
  <2>2. ASSUME NEW other \in Passed PROVE ~conns'[client.table[other]].open
    <3>1. other \in DOMAIN client.table /\ client.table[other] \in Entries
      BY <1>2 DEF Passed, LeadsToLast
    <3>2. QED
      BY <3>1, <1>3 DEF ClientInv, ClosedSoFar
  <2>3. QED
    BY <2>1, <2>2, <1>1 DEF ClientInv, ClosedSoFar
<1>6. QED
  BY <1>1, <1>3, <1>4, <1>5, KeepsTable DEF Built

(* A step of Close, which is done with that name then.                     *)
LEMMA ClosesNext ==
  ASSUME ClientInv, NEW name, S!CloseOne(name)
  PROVE  ClientInv' /\ TableStays
<1> DEFINE conn == client.table[name]
<1>1. /\ client.phase = "closing" /\ name \in client.todo
      /\ client' = [client EXCEPT !.todo = client.todo \ {name}]
      /\ conns' = [conns EXCEPT ![conn].open = FALSE]
  BY DEF S!CloseOne
<1>2. /\ client'.phase = "closing" /\ client'.cfg = client.cfg /\ client'.next = client.next
      /\ client'.table = client.table /\ client'.todo = client.todo \ {name}
  BY <1>1 DEF ClientInv, IsClient
<1>3. IsClient /\ LeadsToLast(client.table) /\ name \in DOMAIN client.table /\ conn \in Entries
  BY <1>1 DEF ClientInv, TableOfLast, LeadsToLast, ClosedSoFar
<1> HIDE DEF conn
<1>4. /\ conns' \in Seq(Connection) /\ Len(conns') = Len(conns)
      /\ \A j \in Entries :
           /\ conns'[j].entry = conns[j].entry /\ conns'[j].idle = conns[j].idle
           /\ conns'[j].open => conns[j].open
      /\ ~conns'[conn].open
  BY <1>1, <1>3, ConnCloses
<1>5. IsClient'
  BY <1>1, <1>3, <1>4 DEF IsClient
<1>6. ClosedSoFar'
  <2>1. client'.todo \subseteq DOMAIN client'.table
    BY <1>1, <1>2 DEF ClientInv, ClosedSoFar
  <2>2. ASSUME NEW other \in DOMAIN client.table, other \notin client'.todo
        PROVE  ~conns'[client.table[other]].open
    <3>1. client.table[other] \in Entries
      BY <1>3 DEF LeadsToLast
    <3>2. CASE other = name
      BY <3>2, <1>4 DEF conn
    <3>3. CASE other # name
      <4>1. other \in Passed
        BY <2>2, <3>3, <1>1, <1>2 DEF Passed
      <4>2. QED
        BY <4>1, <3>1, <1>4 DEF ClientInv, ClosedSoFar
    <3>4. QED
      BY <3>2, <3>3
  <2>3. QED
    BY <2>1, <2>2, <1>2 DEF ClosedSoFar, Passed
<1>7. QED
  BY <1>1, <1>2, <1>4, <1>5, <1>6, KeepsTable DEF Built

(* Every step of the Client.                                               *)
ClientStep ==
  \/ S!NewService \/ S!NewClientFails \/ S!NewClientReturns
  \/ \E name \in DOMAIN client.table : S!ServiceClose(name)
  \/ S!Close \/ S!CloseReturns \/ \E name \in client.todo : S!CloseOne(name)
  \/ UNCHANGED <<client, conns>>

LEMMA ClientInductive ==
  ASSUME ClientInv, ClientStep
  PROVE  ClientInv' /\ TableStays
<1>1. CASE UNCHANGED <<client, conns>>
  BY <1>1 DEF ClientInv, IsClient, TableOfLast, LeadsToLast, ClosedSoFar, Passed, Entries, Built,
     TableStays
<1>2. QED
  BY <1>1, Opens, GivesUp, Returns, ClosesOne, Locks, Unlocks, ClosesNext DEF ClientStep

-----------------------------------------------------------------------------
(* The goroutines' invariant.                                              *)

(* How long n pauses may last together.                                    *)
Allowed(cfg, n) == IF n = 0 THEN 0 ELSE cfg.InitialBackoff + (n - 1) * cfg.MaxBackoff

(* A DoRetry and its pauses: the one under way included, and the one to    *)
(* come, they are within what is allowed; ...                              *)
Retries(err) == [pc : {"idle", "loop", "running", "waiting", "done"}, cfg : RetryConfigs,
                 attempt : Nat, backoff : Nat, timer : Nat, waited : Nat, err : {err}]

Paused(t) ==
  /\ t.pc \in {"idle", "done"} => t.waited = 0
  /\ t.pc # "waiting" => t.timer = 0
  /\ t.pc \in {"loop", "running"} => t.waited <= Allowed(t.cfg, t.attempt)
  /\ t.pc = "waiting" => t.waited + t.timer <= Allowed(t.cfg, t.attempt + 1)
  /\ t.pc \in {"loop", "running", "waiting"} =>
       t.backoff <= IF t.attempt = 0 THEN t.cfg.InitialBackoff ELSE t.cfg.MaxBackoff

IsRetry(t) == t \in Retries(t.err) /\ Paused(t)

(* ... the Invoke it repeats, ...                                          *)
IsCall(c) ==
  /\ c \in [pc : {"idle", "found", "sent"}, conn : Nat, sent : Nat, ran : {c.ran}]
  /\ c.ran \subseteq 1 .. c.sent

(* ... and how far the one has got in the other: at most one copy is sent  *)
(* in each attempt, and nil is returned on the last one's answer.          *)
Within(t, c) ==
  /\ t.pc = "idle" => c = S!NoCall
  /\ c.pc # "idle" => t.pc = "running" /\ c.conn # 0
  /\ c.conn = 0 => c.sent = 0
  /\ t.pc = "loop" => /\ c.sent <= t.attempt
                     /\ (t.attempt = 0 \/ t.attempt < t.cfg.MaxAttempts)
  /\ t.pc = "running" =>
       /\ t.attempt < t.cfg.MaxAttempts
       /\ c.sent <= IF c.pc = "sent" THEN t.attempt + 1 ELSE t.attempt
       /\ c.pc = "sent" => c.sent > 0
  /\ t.pc = "waiting" => c.sent <= t.attempt + 1 /\ t.attempt + 1 < t.cfg.MaxAttempts
  /\ c.sent <= t.cfg.MaxAttempts
  /\ t.pc = "done" => (t.err = "OK" => c.sent \in c.ran) /\ (t.err = "NoService" => c.sent = 0)

(* A call has its connection from the table, under the name it was asked   *)
(* to call; and what is said not to be found is not in app.yaml.           *)
ByName(t, c, name) ==
  /\ c.conn # 0 => Built /\ name \in DOMAIN client.table /\ c.conn = client.table[name]
  /\ t.pc = "done" /\ t.err = "NoService" => Built /\ name \notin DOMAIN client.table

InLoop(g) ==
  /\ IsRetry(retry[g]) /\ IsCall(call[g]) /\ ctxDone[g] \in BOOLEAN
  /\ Within(retry[g], call[g]) /\ ByName(retry[g], call[g], plan[g].name)

PerGoroutine ==
  /\ retry = [g \in Goroutines |-> retry[g]]
  /\ call = [g \in Goroutines |-> call[g]]
  /\ plan = [g \in Goroutines |-> plan[g]]
  /\ ctxDone = [g \in Goroutines |-> ctxDone[g]]

IInv == ClientInv /\ PerGoroutine /\ \A g \in Goroutines : InLoop(g)

LEMMA RetryConfigTyped ==
  ASSUME NEW cfg \in RetryConfigs
  PROVE  /\ cfg.MaxAttempts \in Nat /\ cfg.InitialBackoff \in Nat
         /\ cfg.MaxBackoff \in Nat /\ cfg.BackoffMultiplier \in Nat
BY RetryAssumption

LEMMA AllowedGrows ==
  ASSUME NEW cfg \in RetryConfigs, NEW n \in Nat
  PROVE  /\ Allowed(cfg, n) \in Nat /\ Allowed(cfg, 0) = 0
         /\ Allowed(cfg, n + 1) =
              Allowed(cfg, n) + IF n = 0 THEN cfg.InitialBackoff ELSE cfg.MaxBackoff
<1> DEFINE most == cfg.MaxBackoff
<1>1. cfg.InitialBackoff \in Nat /\ most \in Nat
  BY RetryConfigTyped
<1> HIDE DEF most
<1>2. CASE n = 0
  <2>1. (n + 1) - 1 = 0 /\ n + 1 # 0 /\ 0 * most = 0
    BY <1>1, <1>2
  <2>2. QED
    BY <1>1, <1>2, <2>1 DEF Allowed, most
<1>3. CASE n # 0
  <2>1. n - 1 \in Nat /\ (n + 1) - 1 = n /\ n + 1 # 0
    BY <1>3
  <2>2. (n - 1) * most \in Nat /\ n * most = (n - 1) * most + most
    BY <1>1, <2>1
  <2>3. /\ Allowed(cfg, n + 1) = cfg.InitialBackoff + n * most
        /\ Allowed(cfg, n) = cfg.InitialBackoff + (n - 1) * most
        /\ Allowed(cfg, 0) = 0
    BY <1>3, <2>1 DEF Allowed, most
  <2>4. QED
    BY <1>1, <1>3, <2>2, <2>3 DEF most
<1>4. QED
  BY <1>2, <1>3

LEMMA AllowedMonotone ==
  ASSUME NEW cfg \in RetryConfigs, NEW n \in Nat, NEW m \in Nat, n <= m
  PROVE  Allowed(cfg, n) <= Allowed(cfg, m)
<1> DEFINE most == cfg.MaxBackoff
<1>1. cfg.InitialBackoff \in Nat /\ most \in Nat
  BY RetryConfigTyped
<1> HIDE DEF most
<1>2. CASE n = 0
  BY <1>2, AllowedGrows DEF Allowed
<1>3. CASE n # 0
  <2>1. n - 1 \in Nat /\ m - 1 \in Nat /\ m - n \in Nat /\ m # 0
    BY <1>3
  <2>2. (m - n) * most \in Nat /\ (n - 1) * most \in Nat
    BY <1>1, <2>1
  <2>3. (m - 1) * most = (n - 1) * most + (m - n) * most
    BY <1>1, <2>1
  <2>4. /\ Allowed(cfg, n) = cfg.InitialBackoff + (n - 1) * most
        /\ Allowed(cfg, m) = cfg.InitialBackoff + (m - 1) * most
    BY <1>3, <2>1 DEF Allowed, most
  <2>5. QED
    BY <1>1, <2>2, <2>3, <2>4
<1>4. QED
  BY <1>2, <1>3

LEMMA NothingYet ==
  /\ IsRetry(R!NoRetry) /\ R!NoRetry.pc = "idle" /\ R!NoRetry.cfg \in RetryConfigs
  /\ R!NoRetry.attempt = 0 /\ R!NoRetry.timer = 0
  /\ IsCall(S!NoCall) /\ S!NoCall.pc = "idle" /\ S!NoCall.conn = 0
  /\ S!NoCall.sent = 0 /\ S!NoCall.ran = {}
<1> DEFINE any == CHOOSE cfg \in RetryConfigs : TRUE
<1>1. any \in RetryConfigs
  BY RetryAssumption
<1>2. R!NoRetry = [pc |-> "idle", cfg |-> any, attempt |-> 0, backoff |-> 0, timer |-> 0,
                   waited |-> 0, err |-> "OK"]
  BY DEF R!NoRetry
<1> HIDE DEF any
<1>3. any.MaxBackoff \in Nat
  BY <1>1, RetryConfigTyped
<1>4. QED
  BY <1>1, <1>2, <1>3 DEF IsRetry, Retries, Paused, IsCall, S!NoCall

LEMMA InitInv == Init => IInv
<1> SUFFICES ASSUME Init PROVE IInv
  OBVIOUS
<1>1. ClientInv
  BY ClientInitInv DEF Init
<1>2. /\ retry = [g \in Goroutines |-> R!NoRetry] /\ call = [g \in Goroutines |-> S!NoCall]
      /\ ctxDone = [g \in Goroutines |-> FALSE] /\ plan = [g \in Goroutines |-> NoPlan(g)]
  BY DEF Init, R!RetryInit, S!SDKInit
<1>3. PerGoroutine
  BY <1>2 DEF PerGoroutine
<1>4. ASSUME NEW g \in Goroutines PROVE InLoop(g)
  <2>1. retry[g] = R!NoRetry /\ call[g] = S!NoCall /\ ctxDone[g] \in BOOLEAN
    BY <1>2
  <2>2. R!NoRetry.cfg.MaxAttempts \in Nat
    BY NothingYet, RetryConfigTyped
  <2>3. QED
    BY <2>1, <2>2, NothingYet DEF InLoop, Within, ByName
<1>5. QED
  BY <1>1, <1>3, <1>4 DEF IInv

(* A step of one goroutine leaves the others and the Client alone.         *)
OneMoves(g) ==
  /\ retry' = [retry EXCEPT ![g] = retry'[g]] /\ call' = [call EXCEPT ![g] = call'[g]]
  /\ plan' = [plan EXCEPT ![g] = plan'[g]] /\ ctxDone' = [ctxDone EXCEPT ![g] = ctxDone'[g]]
  /\ UNCHANGED <<client, conns>>

LEMMA OthersRest ==
  ASSUME IInv, NEW g \in Goroutines, OneMoves(g), InLoop(g)'
  PROVE  IInv'
<1>1. ClientInv'
  BY ClientInductive DEF IInv, OneMoves, ClientStep
<1>2. PerGoroutine'
  BY DEF IInv, PerGoroutine, OneMoves
<1>3. ASSUME NEW h \in Goroutines, h # g PROVE InLoop(h)'
  <2>1. /\ retry'[h] = retry[h] /\ call'[h] = call[h] /\ plan'[h] = plan[h]
        /\ ctxDone'[h] = ctxDone[h] /\ client' = client
    BY <1>3 DEF IInv, PerGoroutine, OneMoves
  <2>2. InLoop(h)
    BY DEF IInv
  <2>3. QED
    BY <2>1, <2>2 DEF InLoop, ByName, Built
<1>4. QED
  BY <1>1, <1>2, <1>3 DEF IInv

(* What is left alone is changed at g only.                                *)
LEMMA LeftAlone ==
  ASSUME IInv, NEW g \in Goroutines
  PROVE  /\ retry' = retry => retry' = [retry EXCEPT ![g] = retry'[g]]
         /\ call' = call => call' = [call EXCEPT ![g] = call'[g]]
         /\ plan' = plan => plan' = [plan EXCEPT ![g] = plan'[g]]
         /\ ctxDone' = ctxDone => ctxDone' = [ctxDone EXCEPT ![g] = ctxDone'[g]]
BY DEF IInv, PerGoroutine

LEMMA Typed ==
  ASSUME IInv, NEW g \in Goroutines
  PROVE  /\ IsRetry(retry[g]) /\ IsCall(call[g]) /\ ctxDone[g] \in BOOLEAN
         /\ Within(retry[g], call[g]) /\ ByName(retry[g], call[g], plan[g].name)
         /\ retry[g].cfg \in RetryConfigs /\ retry[g].attempt \in Nat
         /\ retry[g].cfg.MaxAttempts \in Nat
         /\ call[g].sent \in Nat /\ call[g].ran \subseteq 1 .. call[g].sent
<1>1. IsRetry(retry[g]) /\ IsCall(call[g])
  BY DEF IInv, InLoop
<1>2. retry[g].cfg \in RetryConfigs /\ retry[g].attempt \in Nat
  BY <1>1 DEF IsRetry, Retries
<1>3. call[g].sent \in Nat /\ call[g].ran \subseteq 1 .. call[g].sent
  BY <1>1 DEF IsCall
<1>4. QED
  BY <1>1, <1>2, <1>3, RetryConfigTyped DEF IInv, InLoop

(* DoRetry returns.                                                        *)
LEMMA Ended ==
  ASSUME IInv, NEW g \in Goroutines, NEW err, R!Ends(g, err)
  PROVE  /\ retry' = [retry EXCEPT ![g] = retry'[g]]
         /\ IsRetry(retry'[g]) /\ retry'[g].pc = "done" /\ retry'[g].err = err
         /\ retry'[g].cfg = retry[g].cfg
<1> DEFINE t == [retry[g] EXCEPT !.pc = "done", !.err = err, !.attempt = 0, !.backoff = 0,
                                 !.timer = 0, !.waited = 0]
<1>1. IsRetry(retry[g]) /\ retry[g].cfg.MaxBackoff \in Nat
  BY Typed, RetryConfigTyped
<1>2. retry = [h \in Goroutines |-> retry[h]]
  BY DEF IInv, PerGoroutine
<1>3. retry' = [retry EXCEPT ![g] = t]
  BY <1>2 DEF R!Ends
<1>4. IsRetry(t) /\ t.pc = "done" /\ t.err = err /\ t.cfg = retry[g].cfg
  <2>1. retry[g] \in Retries(retry[g].err)
    BY <1>1 DEF IsRetry
  <2>2. /\ t \in Retries(err) /\ t.pc = "done" /\ t.err = err /\ t.cfg = retry[g].cfg
        /\ t.timer = 0 /\ t.waited = 0
    BY <2>1 DEF Retries
  <2>3. QED
    BY <2>2 DEF IsRetry, Paused
<1> HIDE DEF t
<1>5. retry'[g] = t
  BY <1>2, <1>3
<1>6. QED
  BY <1>3, <1>4, <1>5

LEMMA Starts ==
  ASSUME IInv, NEW g \in Goroutines, NEW p \in Plans[g], Start(g, p)
  PROVE  OneMoves(g) /\ InLoop(g)'
<1> DEFINE cfg == p.retry
           t == [R!NoRetry EXCEPT !.pc = "loop", !.cfg = cfg, !.backoff = cfg.InitialBackoff]
<1>1. /\ retry[g].pc = "idle" /\ retry' = [retry EXCEPT ![g] = t]
      /\ plan' = [plan EXCEPT ![g] = p] /\ ctxDone' = ctxDone
      /\ client' = client /\ conns' = conns /\ call' = call
  BY DEF Start, R!DoRetry, outside
<1>2. /\ cfg \in RetryConfigs /\ cfg.MaxAttempts \in Nat /\ cfg.InitialBackoff \in Nat
      /\ Allowed(cfg, 0) = 0
  BY RetryAssumption, RetryConfigTyped, AllowedGrows
<1> HIDE DEF cfg
<1>3. IsRetry(t) /\ t.pc = "loop" /\ t.cfg = cfg /\ t.attempt = 0
  <2>1. /\ R!NoRetry \in Retries(R!NoRetry.err) /\ R!NoRetry.attempt = 0
        /\ R!NoRetry.timer = 0 /\ R!NoRetry.waited = 0
    BY NothingYet DEF IsRetry, Paused
  <2>2. /\ t \in Retries(t.err) /\ t.pc = "loop" /\ t.cfg = cfg /\ t.attempt = 0
        /\ t.backoff = cfg.InitialBackoff /\ t.timer = 0 /\ t.waited = 0
    BY <2>1, <1>2 DEF Retries
  <2> HIDE DEF t
  <2>3. QED
    BY <2>2, <1>2 DEF IsRetry, Paused
<1> HIDE DEF t
<1>4. retry'[g] = t /\ plan'[g] = p
  BY <1>1 DEF IInv, PerGoroutine
<1>5. OneMoves(g)
  BY <1>1, <1>4, LeftAlone DEF OneMoves
<1>6. call[g] = S!NoCall
  BY <1>1, Typed DEF Within
<1>7. InLoop(g)'
  BY <1>1, <1>2, <1>3, <1>4, <1>6, NothingYet, Typed DEF InLoop, Within, ByName
<1>8. QED
  BY <1>5, <1>7

LEMMA Attempts ==
  ASSUME IInv, NEW g \in Goroutines, R!Attempt(g), UNCHANGED <<outside, plan>>
  PROVE  OneMoves(g) /\ InLoop(g)'
<1> DEFINE t == [retry[g] EXCEPT !.pc = "running"]
<1>1. /\ retry[g].pc = "loop" /\ retry[g].attempt < retry[g].cfg.MaxAttempts
      /\ retry' = [retry EXCEPT ![g] = t]
      /\ client' = client /\ conns' = conns /\ call' = call /\ plan' = plan
      /\ ctxDone' = ctxDone
  BY DEF R!Attempt, outside
<1>2. /\ IsRetry(t) /\ t.pc = "running" /\ t.cfg = retry[g].cfg
      /\ t.attempt = retry[g].attempt
  BY <1>1, Typed DEF IsRetry, Retries, Paused
<1> HIDE DEF t
<1>3. retry'[g] = t
  BY <1>1 DEF IInv, PerGoroutine
<1>4. OneMoves(g)
  BY <1>1, <1>3, LeftAlone DEF OneMoves
<1>5. InLoop(g)'
  BY <1>1, <1>2, <1>3, Typed DEF InLoop, Within, ByName, Built
<1>6. QED
  BY <1>4, <1>5

LEMMA NoneAllowed ==
  ASSUME IInv, NEW g \in Goroutines, R!NoAttempts(g), UNCHANGED <<outside, plan>>
  PROVE  OneMoves(g) /\ InLoop(g)'
<1>1. /\ retry[g].pc = "loop" /\ R!Ends(g, "exhausted") /\ ctxDone' = ctxDone
      /\ client' = client /\ conns' = conns /\ call' = call /\ plan' = plan
  BY DEF R!NoAttempts, outside
<1>2. /\ retry' = [retry EXCEPT ![g] = retry'[g]]
      /\ IsRetry(retry'[g]) /\ retry'[g].pc = "done" /\ retry'[g].err = "exhausted"
      /\ retry'[g].cfg = retry[g].cfg
  BY <1>1, Ended
<1>3. OneMoves(g)
  BY <1>1, <1>2, LeftAlone DEF OneMoves
<1>4. InLoop(g)'
  BY <1>1, <1>2, Typed DEF InLoop, Within, ByName, Built
<1>5. QED
  BY <1>3, <1>4

LEMMA ContextStops ==
  ASSUME IInv, NEW g \in Goroutines, R!ContextEnds(g), UNCHANGED <<outside, plan>>
  PROVE  OneMoves(g) /\ InLoop(g)'
<1>1. /\ retry[g].pc = "waiting" /\ R!Ends(g, "context") /\ ctxDone' = ctxDone
      /\ client' = client /\ conns' = conns /\ call' = call /\ plan' = plan
  BY DEF R!ContextEnds, outside
<1>2. /\ retry' = [retry EXCEPT ![g] = retry'[g]]
      /\ IsRetry(retry'[g]) /\ retry'[g].pc = "done" /\ retry'[g].err = "context"
      /\ retry'[g].cfg = retry[g].cfg
  BY <1>1, Ended
<1>3. OneMoves(g)
  BY <1>1, <1>2, LeftAlone DEF OneMoves
<1>4. InLoop(g)'
  BY <1>1, <1>2, Typed DEF InLoop, Within, ByName, Built
<1>5. QED
  BY <1>3, <1>4

(* The pause is over; the next one is no longer than MaxBackoff.           *)
LEMMA TriesAgain ==
  ASSUME IInv, NEW g \in Goroutines, R!TimerFires(g), UNCHANGED <<outside, plan>>
  PROVE  OneMoves(g) /\ InLoop(g)'
<1> DEFINE next == R!nextBackoff(retry[g].cfg, retry[g].backoff)
           t == [retry[g] EXCEPT !.pc = "loop", !.attempt = retry[g].attempt + 1,
                                 !.backoff = next]
<1>1. /\ retry[g].pc = "waiting" /\ retry[g].timer = 0 /\ retry' = [retry EXCEPT ![g] = t]
      /\ client' = client /\ conns' = conns /\ call' = call /\ plan' = plan
      /\ ctxDone' = ctxDone
  BY DEF R!TimerFires, outside
<1>2. /\ retry[g].backoff \in Nat /\ retry[g].cfg.BackoffMultiplier \in Nat
      /\ retry[g].cfg.MaxBackoff \in Nat
  BY Typed, RetryConfigTyped DEF IsRetry, Retries
<1>3. next \in Nat /\ next <= retry[g].cfg.MaxBackoff
  <2>1. retry[g].backoff * retry[g].cfg.BackoffMultiplier \in Nat
    BY <1>2
  <2>2. QED
    BY <1>2, <2>1 DEF R!nextBackoff, R!minDuration
<1> HIDE DEF next
<1>4. /\ IsRetry(t) /\ t.pc = "loop" /\ t.cfg = retry[g].cfg
      /\ t.attempt = retry[g].attempt + 1
  <2>1. retry[g] \in Retries(retry[g].err) /\ retry[g].attempt + 1 \in Nat
    BY Typed DEF IsRetry
  <2>2. /\ t \in Retries(t.err) /\ t.pc = "loop" /\ t.cfg = retry[g].cfg
        /\ t.attempt = retry[g].attempt + 1 /\ t.backoff = next
        /\ t.timer = 0 /\ t.waited = retry[g].waited
    BY <1>1, <2>1, <1>3 DEF Retries
  <2> HIDE DEF t
  <2>3. retry[g].waited <= Allowed(retry[g].cfg, retry[g].attempt + 1)
    BY <1>1, <2>1, Typed DEF IsRetry, Paused, Retries
  <2>4. retry[g].attempt + 1 # 0
    BY Typed
  <2>5. QED
    BY <1>3, <2>2, <2>3, <2>4 DEF IsRetry, Paused
<1> HIDE DEF t
<1>5. retry'[g] = t
  BY <1>1 DEF IInv, PerGoroutine
<1>6. OneMoves(g)
  BY <1>1, <1>5, LeftAlone DEF OneMoves
<1>7. InLoop(g)'
  BY <1>1, <1>4, <1>5, Typed DEF InLoop, Within, ByName, Built
<1>8. QED
  BY <1>6, <1>7

LEMMA Finds ==
  ASSUME IInv, NEW g \in Goroutines, Find(g)
  PROVE  OneMoves(g) /\ InLoop(g)'
<1> DEFINE conn == client.table[plan[g].name]
           c == [call[g] EXCEPT !.pc = "found", !.conn = conn]
<1>1. /\ retry[g].pc = "running" /\ call[g].pc = "idle"
      /\ client.phase \in {"open", "closed"} /\ plan[g].name \in DOMAIN client.table
      /\ call' = [call EXCEPT ![g] = c]
      /\ client' = client /\ conns' = conns /\ retry' = retry /\ plan' = plan
      /\ ctxDone' = ctxDone
  BY DEF Find, S!Service, S!Unlocked, retrying
<1>2. conn \in Nat \ {0}
  <2>1. LeadsToLast(client.table)
    BY <1>1 DEF IInv, ClientInv, TableOfLast
  <2>2. conn \in 1 .. client.next - 1 /\ client.next \in Nat
    BY <1>1, <2>1 DEF LeadsToLast, Entries, IInv, ClientInv, IsClient
  <2>3. QED
    BY <2>2
<1> HIDE DEF conn
<1>3. /\ IsCall(c) /\ c.pc = "found" /\ c.conn = conn /\ c.sent = call[g].sent
      /\ c.ran = call[g].ran
  BY <1>2, Typed DEF IsCall
<1> HIDE DEF c
<1>4. call'[g] = c
  BY <1>1 DEF IInv, PerGoroutine
<1>5. OneMoves(g)
  BY <1>1, <1>4, LeftAlone DEF OneMoves
<1>6. InLoop(g)'
  BY <1>1, <1>2, <1>3, <1>4, Typed DEF InLoop, Within, ByName, Built, conn
<1>7. QED
  BY <1>5, <1>6

(* A name that is not found has not led to a call before.                  *)
LEMMA FindsNothing ==
  ASSUME IInv, NEW g \in Goroutines, FindFails(g)
  PROVE  OneMoves(g) /\ InLoop(g)'
<1>1. /\ retry[g].pc = "running" /\ call[g].pc = "idle"
      /\ client.phase \in {"open", "closed"} /\ plan[g].name \notin DOMAIN client.table
      /\ R!Ends(g, "NoService")
      /\ client' = client /\ conns' = conns /\ call' = call /\ plan' = plan
      /\ ctxDone' = ctxDone
  BY DEF FindFails, S!ServiceNotFound, S!Unlocked, S!sdkVars, R!Returned, R!isRetryable
<1>2. /\ retry' = [retry EXCEPT ![g] = retry'[g]]
      /\ IsRetry(retry'[g]) /\ retry'[g].pc = "done" /\ retry'[g].err = "NoService"
      /\ retry'[g].cfg = retry[g].cfg
  BY <1>1, Ended
<1>3. OneMoves(g)
  BY <1>1, <1>2, LeftAlone DEF OneMoves
<1>4. call[g].conn = 0 /\ call[g].sent = 0
  BY <1>1, Typed DEF ByName, Within
<1>5. InLoop(g)'
  BY <1>1, <1>2, <1>4, Typed DEF InLoop, Within, ByName, Built
<1>6. QED
  BY <1>3, <1>5

LEMMA Sends ==
  ASSUME IInv, NEW g \in Goroutines, Send(g)
  PROVE  OneMoves(g) /\ InLoop(g)'
<1> DEFINE c == [call[g] EXCEPT !.pc = "sent", !.sent = call[g].sent + 1]
<1>1. /\ call[g].pc = "found" /\ call' = [call EXCEPT ![g] = c]
      /\ client' = client /\ conns' = conns /\ retry' = retry /\ plan' = plan
      /\ ctxDone' = ctxDone
  BY DEF Send, S!Invoke, retrying
<1>2. /\ IsCall(c) /\ c.pc = "sent" /\ c.conn = call[g].conn /\ c.sent = call[g].sent + 1
      /\ c.ran = call[g].ran
  <2>1. call[g].ran \subseteq 1 .. call[g].sent + 1 /\ call[g].sent + 1 \in Nat
    BY Typed
  <2>2. call[g] \in [pc : {"idle", "found", "sent"}, conn : Nat, sent : Nat,
                     ran : {call[g].ran}]
    BY Typed DEF IsCall
  <2>3. /\ c \in [pc : {"idle", "found", "sent"}, conn : Nat, sent : Nat, ran : {call[g].ran}]
        /\ c.pc = "sent" /\ c.conn = call[g].conn /\ c.sent = call[g].sent + 1
        /\ c.ran = call[g].ran
    BY <2>1, <2>2
  <2> HIDE DEF c
  <2>4. QED
    BY <2>1, <2>3 DEF IsCall
<1> HIDE DEF c
<1>3. call'[g] = c
  BY <1>1 DEF IInv, PerGoroutine
<1>4. OneMoves(g)
  BY <1>1, <1>3, LeftAlone DEF OneMoves
<1>5. InLoop(g)'
  BY <1>1, <1>2, <1>3, Typed DEF InLoop, Within, ByName, Built
<1>6. QED
  BY <1>4, <1>5

(* A pause that begins is allowed for.                                     *)
LEMMA Waits ==
  ASSUME IInv, NEW g \in Goroutines, retry[g].pc = "running"
  PROVE  IsRetry([retry[g] EXCEPT !.pc = "waiting", !.timer = retry[g].backoff])
<1> DEFINE t == [retry[g] EXCEPT !.pc = "waiting", !.timer = retry[g].backoff]
           cfg == retry[g].cfg
<1>1. /\ retry[g] \in Retries(retry[g].err) /\ Paused(retry[g])
      /\ cfg \in RetryConfigs /\ retry[g].attempt \in Nat
  BY Typed DEF IsRetry
<1>2. /\ t \in Retries(t.err) /\ t.pc = "waiting" /\ t.cfg = cfg
      /\ t.attempt = retry[g].attempt /\ t.backoff = retry[g].backoff
      /\ t.timer = retry[g].backoff /\ t.waited = retry[g].waited
      /\ t.waited \in Nat /\ t.timer \in Nat
  BY <1>1 DEF Retries
<1> HIDE DEF t
<1>3. /\ t.waited <= Allowed(cfg, t.attempt)
      /\ t.timer <= IF t.attempt = 0 THEN cfg.InitialBackoff ELSE cfg.MaxBackoff
  BY <1>1, <1>2 DEF Paused
<1>4. /\ Allowed(cfg, t.attempt) \in Nat
      /\ Allowed(cfg, t.attempt + 1) =
           Allowed(cfg, t.attempt) + IF t.attempt = 0 THEN cfg.InitialBackoff ELSE cfg.MaxBackoff
      /\ cfg.InitialBackoff \in Nat /\ cfg.MaxBackoff \in Nat
  BY <1>1, <1>2, AllowedGrows, RetryConfigTyped
<1> HIDE DEF cfg
<1>5. t.waited + t.timer <= Allowed(t.cfg, t.attempt + 1)
  BY <1>2, <1>3, <1>4
<1>6. QED
  BY <1>1, <1>2, <1>3, <1>5 DEF IsRetry, Paused, t, cfg

(* Invoke returns; DoRetry returns what it gave, or tries again while      *)
(* there are attempts left.                                                *)
LEMMA Returning ==
  ASSUME IInv, NEW g \in Goroutines, NEW err, CallReturns(g, err)
  PROVE  OneMoves(g) /\ InLoop(g)'
<1> DEFINE c == [call[g] EXCEPT !.pc = "idle"]
           t == [retry[g] EXCEPT !.pc = "waiting", !.timer = retry[g].backoff]
<1>1. /\ call[g].pc \in {"found", "sent"} /\ call' = [call EXCEPT ![g] = c]
      /\ retry[g].pc = "running"
      /\ client' = client /\ conns' = conns /\ plan' = plan /\ ctxDone' = ctxDone
  BY DEF CallReturns, S!InvokeReturns, R!Returned
<1>2. err # "NoService" /\ (err = "OK" => call[g].sent \in call[g].ran)
  BY DEF CallReturns, S!Outcomes
<1>3. /\ IsCall(c) /\ c.pc = "idle" /\ c.conn = call[g].conn /\ c.sent = call[g].sent
      /\ c.ran = call[g].ran
  BY Typed DEF IsCall
<1> HIDE DEF c
<1>4. call'[g] = c
  BY <1>1 DEF IInv, PerGoroutine
<1>5. CASE \E e : R!Ends(g, e) /\ (e = err \/ e = "exhausted")
  <2>1. PICK e : R!Ends(g, e) /\ (e = err \/ e = "exhausted")
    BY <1>5
  <2>2. /\ retry' = [retry EXCEPT ![g] = retry'[g]]
        /\ IsRetry(retry'[g]) /\ retry'[g].pc = "done" /\ retry'[g].err = e
        /\ retry'[g].cfg = retry[g].cfg
    BY <2>1, Ended
  <2>3. OneMoves(g)
    BY <1>1, <1>4, <2>2, LeftAlone DEF OneMoves
  <2>4. InLoop(g)'
    BY <1>1, <1>2, <1>3, <1>4, <2>1, <2>2, Typed DEF InLoop, Within, ByName, Built
  <2>5. QED
    BY <2>3, <2>4
<1>6. CASE /\ retry[g].attempt # retry[g].cfg.MaxAttempts - 1
           /\ retry' = [retry EXCEPT ![g] = t]
  <2>1. /\ IsRetry(t) /\ t.pc = "waiting" /\ t.cfg = retry[g].cfg
        /\ t.attempt = retry[g].attempt
    BY <1>1, Waits, Typed DEF IsRetry, Retries
  <2> HIDE DEF t
  <2>2. retry'[g] = t
    BY <1>6 DEF IInv, PerGoroutine
  <2>3. OneMoves(g)
    BY <1>1, <1>4, <1>6, <2>2, LeftAlone DEF OneMoves
  <2>4. retry[g].attempt + 1 < retry[g].cfg.MaxAttempts
    BY <1>1, <1>6, Typed DEF Within
  <2>5. InLoop(g)'
    BY <1>1, <1>3, <1>4, <2>1, <2>2, <2>4, Typed DEF InLoop, Within, ByName, Built
  <2>6. QED
    BY <2>3, <2>5
<1>7. QED
  BY <1>5, <1>6 DEF CallReturns, R!Returned

LEMMA RunsAtNode ==
  ASSUME IInv, NEW g \in Goroutines, NodeRuns(g)
  PROVE  OneMoves(g) /\ InLoop(g)'
<1>1. PICK copy \in 1 .. call[g].sent : S!NodeRuns(g, copy, plan[g].given)
  BY DEF NodeRuns
<1> DEFINE c == [call[g] EXCEPT !.ran = call[g].ran \cup {copy}]
<1>2. /\ copy \notin call[g].ran /\ call' = [call EXCEPT ![g] = c]
      /\ client' = client /\ conns' = conns /\ retry' = retry /\ plan' = plan
      /\ ctxDone' = ctxDone
  BY <1>1 DEF NodeRuns, S!NodeRuns, retrying
<1>3. /\ IsCall(c) /\ c.pc = call[g].pc /\ c.conn = call[g].conn /\ c.sent = call[g].sent
      /\ c.ran = call[g].ran \cup {copy}
  <2>1. call[g] \in [pc : {"idle", "found", "sent"}, conn : Nat, sent : Nat,
                     ran : {call[g].ran}]
    BY Typed DEF IsCall
  <2>2. /\ c \in [pc : {"idle", "found", "sent"}, conn : Nat, sent : Nat, ran : {c.ran}]
        /\ c.pc = call[g].pc /\ c.conn = call[g].conn /\ c.sent = call[g].sent
        /\ c.ran = call[g].ran \cup {copy}
    BY <2>1
  <2> HIDE DEF c
  <2>3. QED
    BY <2>2, Typed DEF IsCall
<1> HIDE DEF c
<1>4. call'[g] = c
  BY <1>2 DEF IInv, PerGoroutine
<1>5. OneMoves(g)
  BY <1>2, <1>4, LeftAlone DEF OneMoves
<1>6. retry[g].pc # "idle"
  BY Typed DEF Within, S!NoCall
<1>7. InLoop(g)'
  BY <1>2, <1>3, <1>4, <1>6, Typed DEF InLoop, Within, ByName, Built
<1>8. QED
  BY <1>5, <1>7

LEMMA Leaves ==
  ASSUME IInv, NEW g \in Goroutines, Leave(g)
  PROVE  OneMoves(g) /\ InLoop(g)'
<1>1. /\ retry' = [retry EXCEPT ![g] = R!NoRetry] /\ ctxDone' = [ctxDone EXCEPT ![g] = FALSE]
      /\ call' = [call EXCEPT ![g] = S!NoCall] /\ plan' = [plan EXCEPT ![g] = NoPlan(g)]
      /\ client' = client /\ conns' = conns
  BY DEF Leave, R!Leave, S!Forget
<1>2. /\ retry'[g] = R!NoRetry /\ ~ctxDone'[g] /\ ctxDone'[g] \in BOOLEAN
      /\ call'[g] = S!NoCall /\ plan'[g] = NoPlan(g)
  BY <1>1 DEF IInv, PerGoroutine
<1>3. OneMoves(g)
  <2>1. ctxDone' = [ctxDone EXCEPT ![g] = ctxDone'[g]]
    BY <1>1 DEF IInv, PerGoroutine
  <2>2. QED
    BY <1>1, <1>2, <2>1 DEF OneMoves
<1>4. R!NoRetry.cfg.MaxAttempts \in Nat
  BY NothingYet, RetryConfigTyped
<1>5. InLoop(g)'
  BY <1>2, <1>4, NothingYet DEF InLoop, Within, ByName
<1>6. QED
  BY <1>3, <1>5

LEMMA ContextDone ==
  ASSUME IInv, NEW g \in Goroutines, ContextOver(g)
  PROVE  OneMoves(g) /\ InLoop(g)'
<1>1. /\ ctxDone' = [ctxDone EXCEPT ![g] = TRUE] /\ client' = client /\ conns' = conns
      /\ call' = call /\ retry' = retry /\ plan' = plan
  BY DEF ContextOver, R!ContextOver, outside
<1>2. ctxDone'[g] \in BOOLEAN /\ ctxDone' = [ctxDone EXCEPT ![g] = ctxDone'[g]]
  BY <1>1 DEF IInv, PerGoroutine
<1>3. OneMoves(g)
  BY <1>1, <1>2, LeftAlone DEF OneMoves
<1>4. InLoop(g)'
  BY <1>1, <1>2, Typed DEF InLoop, ByName, Built
<1>5. QED
  BY <1>3, <1>4

(* Time passes for every pause.                                            *)
LEMMA Ticks ==
  ASSUME IInv, Tick
  PROVE  IInv'
<1> DEFINE less(t) == IF t.timer = 0 THEN t
                      ELSE [t EXCEPT !.timer = t.timer - 1, !.waited = t.waited + 1]
<1>1. /\ retry' = [g \in Goroutines |-> less(retry[g])] /\ ctxDone' = ctxDone
      /\ client' = client /\ conns' = conns /\ call' = call /\ plan' = plan
  BY DEF Tick, R!Tick, outside
<1>2. ClientInv'
  BY <1>1, ClientInductive DEF IInv, ClientStep
<1>3. PerGoroutine'
  BY <1>1 DEF IInv, PerGoroutine
<1>4. ASSUME NEW g \in Goroutines PROVE InLoop(g)'
  <2> DEFINE t == less(retry[g])
  <2>1. retry[g] \in Retries(retry[g].err)
    BY Typed DEF IsRetry
  <2>2. /\ t \in Retries(t.err) /\ t.pc = retry[g].pc /\ t.cfg = retry[g].cfg
        /\ t.attempt = retry[g].attempt /\ t.backoff = retry[g].backoff
        /\ t.err = retry[g].err /\ (retry[g].timer = 0 => t = retry[g])
        /\ t.timer + t.waited = retry[g].timer + retry[g].waited
    <3>1. CASE retry[g].timer = 0
      BY <2>1, <3>1 DEF Retries
    <3>2. CASE retry[g].timer # 0
      <4>1. t = [retry[g] EXCEPT !.timer = retry[g].timer - 1, !.waited = retry[g].waited + 1]
        BY <3>2
      <4>2. retry[g].timer - 1 \in Nat /\ retry[g].waited + 1 \in Nat
        BY <2>1, <3>2 DEF Retries
      <4> HIDE DEF t
      <4>3. /\ t \in Retries(t.err) /\ t.pc = retry[g].pc /\ t.cfg = retry[g].cfg
            /\ t.attempt = retry[g].attempt /\ t.backoff = retry[g].backoff
            /\ t.err = retry[g].err
            /\ t.timer = retry[g].timer - 1 /\ t.waited = retry[g].waited + 1
        BY <2>1, <4>1, <4>2 DEF Retries
      <4>4. retry[g].timer \in Nat /\ retry[g].waited \in Nat
        BY <2>1 DEF Retries
      <4>5. QED
        BY <3>2, <4>3, <4>4
    <3>3. QED
      BY <3>1, <3>2
  <2>3. retry'[g] = t
    BY <1>1
  <2> HIDE DEF t
  <2>4. IsRetry(t)
    <3>1. CASE retry[g].timer = 0
      BY <2>2, <3>1, Typed
    <3>2. CASE retry[g].timer # 0
      <4>1. retry[g].pc = "waiting"
        BY <3>2, Typed DEF IsRetry, Paused
      <4>2. /\ retry[g].timer \in Nat /\ retry[g].waited \in Nat
            /\ t.timer \in Nat /\ t.waited \in Nat
        BY <2>1, <2>2 DEF Retries
      <4>3. t.waited + t.timer = retry[g].waited + retry[g].timer
        BY <2>2, <4>2
      <4>4. QED
        BY <2>2, <4>1, <4>3, Typed DEF IsRetry, Paused
    <3>3. QED
      BY <3>1, <3>2
  <2>5. Within(t, call[g]) /\ ByName(t, call[g], plan[g].name)
    BY <2>2, Typed DEF Within, ByName
  <2> HIDE DEF less
  <2>6. QED
    BY <1>1, <2>3, <2>4, <2>5, Typed DEF InLoop, ByName, Built
<1>5. QED
  BY <1>2, <1>3, <1>4 DEF IInv

(* A step of the Client leaves the goroutines alone.                       *)
LEMMA ClientMoves ==
  ASSUME IInv, ClientStep, call' = call, retry' = retry, plan' = plan, ctxDone' = ctxDone
  PROVE  IInv'
<1>1. ClientInv' /\ TableStays
  BY ClientInductive DEF IInv
<1>2. PerGoroutine'
  BY DEF IInv, PerGoroutine
<1>3. ASSUME NEW g \in Goroutines PROVE InLoop(g)'
  BY <1>1, Typed DEF InLoop, ByName, TableStays
<1>4. QED
  BY <1>1, <1>2, <1>3 DEF IInv

(* Every step keeps the invariant.                                         *)
LEMMA StepInv == IInv /\ [Next]_vars => IInv'
<1> SUFFICES ASSUME IInv, [Next]_vars PROVE IInv'
  OBVIOUS
<1>1. CASE Build
  BY <1>1, ClientMoves DEF Build, ClientStep, retrying, S!NewService, S!NewClientFails,
     S!NewClientReturns
<1>2. ASSUME NEW g \in Goroutines, NEW p \in Plans[g], Start(g, p)
      PROVE  IInv'
  BY <1>2, Starts, OthersRest
<1>3. ASSUME NEW g \in Goroutines, Loop(g) PROVE IInv'
  BY <1>3, Attempts, NoneAllowed, TriesAgain, ContextStops, OthersRest DEF Loop
<1>4. ASSUME NEW g \in Goroutines, Find(g) PROVE IInv'
  BY <1>4, Finds, OthersRest
<1>5. ASSUME NEW g \in Goroutines, FindFails(g) PROVE IInv'
  BY <1>5, FindsNothing, OthersRest
<1>6. ASSUME NEW g \in Goroutines, Send(g) PROVE IInv'
  BY <1>6, Sends, OthersRest
<1>7. ASSUME NEW g \in Goroutines, NEW err \in Errors, CallReturns(g, err) PROVE IInv'
  BY <1>7, Returning, OthersRest
<1>8. ASSUME NEW g \in Goroutines, NodeRuns(g) PROVE IInv'
  BY <1>8, RunsAtNode, OthersRest
<1>9. ASSUME NEW g \in Goroutines, Leave(g) PROVE IInv'
  BY <1>9, Leaves, OthersRest
<1>10. ASSUME NEW g \in Goroutines, ContextOver(g) PROVE IInv'
  BY <1>10, ContextDone, OthersRest
<1>11. CASE Tick
  BY <1>11, Ticks
<1>12. ASSUME NEW name \in DOMAIN client.table, ServiceClose(name) PROVE IInv'
  BY <1>12, ClientMoves DEF ServiceClose, S!ServiceClose, ClientStep, retrying
<1>13. CASE Close
  BY <1>13, ClientMoves DEF Close, S!Close, ClientStep, retrying
<1>14. CASE Closing
  BY <1>14, ClientMoves DEF Closing, S!CloseReturns, S!CloseOne, ClientStep, retrying
<1>15. CASE UNCHANGED vars
  BY <1>15, ClientMoves DEF vars, ClientStep
<1>16. QED
  BY <1>1, <1>2, <1>3, <1>4, <1>5, <1>6, <1>7, <1>8, <1>9, <1>10, <1>11, <1>12, <1>13,
     <1>14, <1>15 DEF Next

LEMMA Inductive == Spec => []IInv
  BY InitInv, StepInv, PTL DEF Spec

-----------------------------------------------------------------------------
(* What follows from it.                                                   *)

(* The table leads to connections that were opened, a call is under way    *)
(* only inside DoRetry's function, and no more than MaxAttempts copies are *)
(* sent (retry.go:30), for any settings.                                   *)
THEOREM ApplicationTypes == Spec => []TypeOK
<1>1. IInv => TypeOK
  <2> SUFFICES ASSUME IInv PROVE TypeOK
    OBVIOUS
  <2>1. DOMAIN conns = Entries
    BY DEF IInv, ClientInv, IsClient, Entries
  <2>2. ASSUME NEW name \in DOMAIN client.table PROVE client.table[name] \in Entries
    BY <2>2 DEF IInv, ClientInv, TableOfLast, LeadsToLast
  <2>3. ASSUME NEW g \in Goroutines
        PROVE  /\ call[g].pc \in {"idle", "found", "sent"}
               /\ call[g].ran \subseteq 1 .. call[g].sent
               /\ call[g].pc # "idle" => retry[g].pc = "running" /\ call[g].conn \in Entries
               /\ call[g].sent <= retry[g].cfg.MaxAttempts
    BY <2>2, Typed DEF IsCall, Within, ByName
  <2>4. QED
    BY <2>1, <2>2, <2>3 DEF TypeOK
<1>2. QED
  BY <1>1, Inductive, PTL

(* Whatever the entries of app.yaml and the order of the options, a name   *)
(* leads to the connection of its last entry (client.go:59), dialled with  *)
(* the last option for it, or else the last one for all                    *)
(* (service.go:25-30).                                                     *)
THEOREM NamesLeadRight == Spec => []NameLeadsToItsEntry
<1>1. IInv => NameLeadsToItsEntry
  <2> SUFFICES ASSUME IInv, Built,
                      NEW i \in DOMAIN client.cfg,
                      \A j \in DOMAIN client.cfg : client.cfg[j].name = client.cfg[i].name => j <= i
               PROVE  LET name == client.cfg[i].name
                          conn == conns[client.table[name]]
                          HasOwn == \E k \in DOMAIN Options : Options[k].to = name
                          IsLast(k, to) == Options[k].to = to
                            /\ \A l \in DOMAIN Options : Options[l].to = to => l <= k
                      IN  /\ conn.entry = i
                          /\ \A k \in DOMAIN Options :
                               IsLast(k, IF HasOwn THEN name ELSE "all") =>
                                 conn.idle = Options[k].idle
    BY DEF NameLeadsToItsEntry, Built
  <2> DEFINE name == client.cfg[i].name
  <2>1. /\ client.next = Len(client.cfg) + 1 /\ LeadsToLast(client.table)
        /\ client.cfg \in S!LoadConfig
    BY DEF IInv, ClientInv, IsClient, TableOfLast, Built
  <2>2. /\ DOMAIN client.cfg = Entries /\ Entries \subseteq Nat
    BY <2>1, ConfigTyped DEF Entries
  <2>3. name \in DOMAIN client.table
    BY <2>1, <2>2 DEF LeadsToLast
  <2>4. client.table[name] = i
    <3>1. /\ client.table[name] \in Entries /\ client.cfg[client.table[name]].name = name
          /\ i <= client.table[name]
      BY <2>1, <2>2, <2>3 DEF LeadsToLast
    <3> DEFINE last == client.table[name]
    <3>2. last \in DOMAIN client.cfg /\ client.cfg[last].name = client.cfg[i].name
      BY <3>1, <2>2
    <3> HIDE DEF last
    <3>3. last <= i
      BY <3>2
    <3>4. last \in Nat /\ i \in Nat /\ i <= last
      BY <3>1, <2>2 DEF last
    <3>5. last = i
      BY <3>3, <3>4
    <3>6. QED
      BY <3>5 DEF last
  <2>5. conns[i].entry = i /\ conns[i].idle = S!dialOpts(name)
    BY <2>2 DEF IInv, ClientInv, TableOfLast
  <2> HIDE DEF name
  <2>6. QED
    BY <2>4, <2>5, DialOptions DEF name
<1>2. QED
  BY <1>1, Inductive, PTL

(* When Close has returned, every connection that a name or a call leads   *)
(* to is closed, however many there are and whatever was closed before     *)
(* (client.go:95-100).                                                     *)
THEOREM CloseClosesAll == Spec => []ClosedForAll
<1>1. IInv => ClosedForAll
  <2> SUFFICES ASSUME IInv, client.phase = "closed" PROVE ClosedForAll
    BY DEF ClosedForAll
  <2>1. \A name \in DOMAIN client.table : ~conns[client.table[name]].open
    BY DEF IInv, ClientInv, ClosedSoFar, Passed
  <2>2. ASSUME NEW g \in Goroutines, call[g].conn # 0 PROVE ~conns[call[g].conn].open
    BY <2>1, <2>2, Typed DEF ByName
  <2>3. QED
    BY <2>1, <2>2 DEF ClosedForAll
<1>2. QED
  BY <1>1, Inductive, PTL

(* DoRetry's nil is an answer to its last attempt, and ErrServiceNotFound  *)
(* a name that app.yaml does not have, for any plan (retry.go:31-58).      *)
THEOREM NilIsAnAnswer == Spec => []NilMeansDone
<1>1. IInv => NilMeansDone
  <2> SUFFICES ASSUME IInv, NEW g \in Goroutines, retry[g].pc = "done"
               PROVE  /\ retry[g].err = "OK" => call[g].sent \in call[g].ran
                      /\ retry[g].err = "NoService" =>
                           /\ call[g].sent = 0
                           /\ plan[g].name \notin {client.cfg[i].name : i \in DOMAIN client.cfg}
    BY DEF NilMeansDone
  <2>1. retry[g].err = "OK" => call[g].sent \in call[g].ran
    BY Typed DEF Within
  <2>2. ASSUME retry[g].err = "NoService"
        PROVE  /\ call[g].sent = 0
               /\ plan[g].name \notin {client.cfg[i].name : i \in DOMAIN client.cfg}
    <3>1. call[g].sent = 0 /\ Built /\ plan[g].name \notin DOMAIN client.table
      BY <2>2, Typed DEF Within, ByName
    <3>2. /\ client.next = Len(client.cfg) + 1 /\ LeadsToLast(client.table)
          /\ client.cfg \in S!LoadConfig
      BY <3>1 DEF IInv, ClientInv, IsClient, TableOfLast, Built
    <3>3. DOMAIN client.cfg = Entries
      BY <3>2, ConfigTyped DEF Entries
    <3>4. QED
      BY <3>1, <3>2, <3>3 DEF LeadsToLast
  <2>3. QED
    BY <2>1, <2>2
<1>2. QED
  BY <1>1, Inductive, PTL

(* All the pauses of one DoRetry together (retry.go:27-56), whatever the   *)
(* multiplier and however its attempts and the clock interleave.           *)
THEOREM PausesAreBounded == Spec => []PausesBounded
<1>1. IInv => PausesBounded
  <2> SUFFICES ASSUME IInv, NEW g \in Goroutines
               PROVE  retry[g].waited <=
                        IF retry[g].cfg.MaxAttempts < 2 THEN 0
                        ELSE retry[g].cfg.InitialBackoff
                               + (retry[g].cfg.MaxAttempts - 2) * retry[g].cfg.MaxBackoff
    BY DEF PausesBounded
  <2> DEFINE t == retry[g]
             cfg == retry[g].cfg
             last == IF cfg.MaxAttempts = 0 THEN 0 ELSE cfg.MaxAttempts - 1
  <2>1. /\ t \in Retries(t.err) /\ Paused(t) /\ cfg \in RetryConfigs
        /\ t.attempt \in Nat /\ cfg.MaxAttempts \in Nat /\ Within(t, call[g])
    BY Typed DEF IsRetry
  <2>2. /\ t.pc \in {"idle", "loop", "running", "waiting", "done"}
        /\ t.timer \in Nat /\ t.waited \in Nat
    BY <2>1 DEF Retries
  <2>3. last \in Nat /\ Allowed(cfg, last) \in Nat
    BY <2>1, AllowedGrows
  <2>4. t.waited <= Allowed(cfg, last)
    <3>1. CASE t.pc \in {"idle", "done"}
      BY <2>1, <2>3, <3>1 DEF Paused
    <3>2. CASE t.pc \in {"loop", "running"}
      <4>1. t.waited <= Allowed(cfg, t.attempt)
        BY <2>1, <3>2 DEF Paused
      <4>2. t.attempt <= last
        BY <2>1, <3>2 DEF Within
      <4>3. Allowed(cfg, t.attempt) <= Allowed(cfg, last) /\ Allowed(cfg, t.attempt) \in Nat
        BY <2>1, <2>3, <4>2, AllowedMonotone, AllowedGrows
      <4>4. QED
        BY <2>2, <2>3, <4>1, <4>3
    <3>3. CASE t.pc = "waiting"
      <4>1. t.waited + t.timer <= Allowed(cfg, t.attempt + 1)
        BY <2>1, <3>3 DEF Paused
      <4>2. t.attempt + 1 <= last /\ t.attempt + 1 \in Nat
        BY <2>1, <3>3 DEF Within
      <4>3. /\ Allowed(cfg, t.attempt + 1) <= Allowed(cfg, last)
            /\ Allowed(cfg, t.attempt + 1) \in Nat
        BY <2>1, <2>3, <4>2, AllowedMonotone, AllowedGrows
      <4>4. QED
        BY <2>2, <2>3, <4>1, <4>3
    <3>4. QED
      BY <2>2, <3>1, <3>2, <3>3
  <2>5. CASE cfg.MaxAttempts < 2
    <3>1. last = 0
      BY <2>1, <2>5
    <3>2. QED
      BY <2>4, <2>5, <3>1 DEF Allowed
  <2>6. CASE ~(cfg.MaxAttempts < 2)
    <3>1. last # 0 /\ last - 1 = cfg.MaxAttempts - 2
      BY <2>1, <2>6
    <3>2. QED
      BY <2>4, <2>6, <3>1 DEF Allowed
  <2>7. QED
    BY <2>5, <2>6
<1>2. QED
  BY <1>1, Inductive, PTL

-----------------------------------------------------------------------------
(* The contract.                                                           *)

(* The step of a goroutine changes how its request looks, and no other.    *)
OthersKeep(g) ==
  \A h \in Goroutines \ {g} :
     Phases'[h] = Phases[h] /\ Kinds'[h] = Kinds[h] /\ Runs'[h] = Runs[h]

Looking(g) ==
  /\ OthersKeep(g)
  /\ Phases[g] = PhaseOf(retry[g], call[g]) /\ Phases'[g] = PhaseOf(retry'[g], call'[g])
  /\ Kinds[g] = KindOf(retry[g], call[g]) /\ Kinds'[g] = KindOf(retry'[g], call'[g])
  /\ Runs[g] = Cardinality(call[g].ran) /\ Runs'[g] = Cardinality(call'[g].ran)

LEMMA Looks ==
  ASSUME IInv, NEW g \in Goroutines, OneMoves(g)
  PROVE  Looking(g)
<1>1. \A h \in Goroutines \ {g} : retry'[h] = retry[h] /\ call'[h] = call[h]
  BY DEF IInv, PerGoroutine, OneMoves
<1>2. OthersKeep(g)
  BY <1>1 DEF OthersKeep, Phases, Kinds, Runs, PhaseOf, KindOf
<1>3. QED
  BY <1>2 DEF Looking, Phases, Kinds, Runs

(* A step of one goroutine in the terms of the contract.                   *)
LEMMA Changes ==
  ASSUME NEW g \in Goroutines, OthersKeep(g)
  PROVE  /\ Phases' = [Phases EXCEPT ![g] = Phases'[g]]
         /\ Kinds' = [Kinds EXCEPT ![g] = Kinds'[g]]
         /\ Runs' = [Runs EXCEPT ![g] = Runs'[g]]
         /\ Phases'[g] = Phases[g] => Phases' = Phases
         /\ Kinds'[g] = Kinds[g] => Kinds' = Kinds
         /\ Runs'[g] = Runs[g] => Runs' = Runs
<1>1. /\ Phases = [h \in Goroutines |-> Phases[h]] /\ Phases' = [h \in Goroutines |-> Phases'[h]]
      /\ Kinds = [h \in Goroutines |-> Kinds[h]] /\ Kinds' = [h \in Goroutines |-> Kinds'[h]]
      /\ Runs = [h \in Goroutines |-> Runs[h]] /\ Runs' = [h \in Goroutines |-> Runs'[h]]
  BY DEF Phases, Kinds, Runs
<1>2. /\ Phases' = [Phases EXCEPT ![g] = Phases'[g]]
      /\ Phases'[g] = Phases[g] => Phases' = Phases
  BY <1>1 DEF OthersKeep
<1>3. /\ Kinds' = [Kinds EXCEPT ![g] = Kinds'[g]]
      /\ Kinds'[g] = Kinds[g] => Kinds' = Kinds
  BY <1>1 DEF OthersKeep
<1>4. /\ Runs' = [Runs EXCEPT ![g] = Runs'[g]]
      /\ Runs'[g] = Runs[g] => Runs' = Runs
  BY <1>1 DEF OthersKeep
<1>5. QED
  BY <1>2, <1>3, <1>4

(* DoRetry has come to an error: the caller is refused if nothing was sent *)
(* to a node, and has failed otherwise.                                    *)
LEMMA ComesToAnError ==
  ASSUME IInv, NEW g \in Goroutines, OneMoves(g),
         retry[g].pc \notin {"idle", "done"}, retry'[g].pc = "done", retry'[g].err # "OK",
         retry'[g].cfg = retry[g].cfg,
         call'[g].sent = call[g].sent, call'[g].ran = call[g].ran
  PROVE  Contract!Refuse(g) \/ Contract!Fail(g)
<1>1. Looking(g)
  BY Looks
<1>2. /\ Phases[g] = "open" /\ Kinds'[g] = Kinds[g] /\ Runs'[g] = Runs[g]
      /\ Phases'[g] = IF call[g].sent = 0 THEN "refused" ELSE "failed"
      /\ call[g].sent = 0 => Kinds[g] = Contract!NotSent
  BY <1>1 DEF Looking, PhaseOf, KindOf, Contract!NotSent
<1>3. QED
  BY <1>1, <1>2, Changes DEF Looking, Contract!Refuse, Contract!Fail

(* DoRetry goes on, or returns nothing new.                                *)
LEMMA LooksTheSame ==
  ASSUME IInv, NEW g \in Goroutines, OneMoves(g),
         PhaseOf(retry'[g], call'[g]) = PhaseOf(retry[g], call[g]),
         KindOf(retry'[g], call'[g]) = KindOf(retry[g], call[g]),
         call'[g].ran = call[g].ran
  PROVE  UNCHANGED Contract!contractVars
<1>1. Looking(g)
  BY Looks
<1>2. QED
  BY <1>1, Changes DEF Looking, Contract!contractVars

(* A copy is run that was not run before, of the at most MaxAttempts sent. *)
LEMMA RunIsPerform ==
  ASSUME IInv, NEW g \in Goroutines, NodeRuns(g)
  PROVE  Contract!Perform(g)
<1> DEFINE sent == call[g].sent
           ran == call[g].ran
<1>1. PICK copy \in 1 .. sent : S!NodeRuns(g, copy, plan[g].given)
  BY DEF NodeRuns
<1>2. /\ copy \notin ran /\ retry' = retry
      /\ call' = [call EXCEPT ![g] = [call[g] EXCEPT !.ran = ran \cup {copy}]]
  BY <1>1 DEF NodeRuns, S!NodeRuns, retrying
<1>3. call'[g].ran = ran \cup {copy} /\ call'[g].sent = sent
  <2>1. call'[g] = [call[g] EXCEPT !.ran = ran \cup {copy}]
    BY <1>2 DEF IInv, PerGoroutine
  <2>2. call[g] \in [pc : {"idle", "found", "sent"}, conn : Nat, sent : Nat, ran : {ran}]
    BY Typed DEF IsCall
  <2>3. QED
    BY <2>1, <2>2
<1>4. sent \in Nat /\ ran \subseteq 1 .. sent
  BY Typed
<1>5. Looking(g)
  BY RunsAtNode, Looks
<1>6. Phases'[g] = Phases[g] /\ Kinds'[g] = Kinds[g]
  BY <1>2, <1>3, <1>5 DEF Looking, PhaseOf, KindOf
<1>7. Runs[g] = Cardinality(ran) /\ Runs'[g] = Cardinality(ran \cup {copy})
  BY <1>3, <1>5 DEF Looking
<1>8. sent <= Kinds[g].limit /\ Kinds[g].limit \in Nat
  <2>1. sent <= retry[g].cfg.MaxAttempts /\ retry[g].cfg.MaxAttempts \in Nat
    BY Typed DEF Within
  <2>2. sent # 0
    BY <1>1
  <2>3. Kinds[g] = [limit |-> retry[g].cfg.MaxAttempts, sure |-> TRUE]
    BY <1>5, <2>2 DEF Looking, KindOf
  <2>4. QED
    BY <2>1, <2>3
<1> HIDE DEF sent, ran
<1>9. IsFiniteSet(1 .. sent) /\ Cardinality(1 .. sent) = sent
  <2>1. 1 \in Int /\ sent \in Int /\ sent >= 0
    BY <1>4
  <2>2. QED
    BY <2>1, FS_Interval
<1>10. IsFiniteSet(ran) /\ Cardinality(ran) \in Nat
  BY <1>4, <1>9, FS_Subset, FS_CardinalityType
<1>11. Cardinality(ran \cup {copy}) = Cardinality(ran) + 1
  BY <1>2, <1>10, FS_AddElement
<1>12. Cardinality(ran \cup {copy}) <= sent
  <2>1. ran \cup {copy} \subseteq 1 .. sent
    BY <1>1, <1>4
  <2>2. QED
    BY <2>1, <1>9, FS_Subset
<1>13. Runs[g] < Kinds[g].limit /\ Runs'[g] = Runs[g] + 1
  BY <1>4, <1>7, <1>8, <1>10, <1>11, <1>12
<1>14. QED
  BY <1>5, <1>6, <1>13, Changes DEF Looking, Contract!Perform

(* A request that is sent for the first time goes out.                     *)
LEMMA SendIsDispatch ==
  ASSUME IInv, NEW g \in Goroutines, Send(g)
  PROVE  \/ \E k \in {[limit |-> cfg.MaxAttempts, sure |-> TRUE] : cfg \in RetryConfigs} :
               Contract!Dispatch(g, k)
         \/ UNCHANGED Contract!contractVars
<1>1. /\ call[g].pc = "found" /\ retry' = retry
      /\ call' = [call EXCEPT ![g] = [call[g] EXCEPT !.pc = "sent", !.sent = call[g].sent + 1]]
  BY DEF Send, S!Invoke, retrying
<1>2. call'[g].ran = call[g].ran /\ call'[g].sent = call[g].sent + 1 /\ call[g].sent \in Nat
  <2>1. call'[g] = [call[g] EXCEPT !.pc = "sent", !.sent = call[g].sent + 1]
    BY <1>1 DEF IInv, PerGoroutine
  <2>2. call[g] \in [pc : {"idle", "found", "sent"}, conn : Nat, sent : Nat,
                     ran : {call[g].ran}]
    BY Typed DEF IsCall
  <2>3. QED
    BY <2>1, <2>2
<1>3. retry[g].pc = "running"
  BY <1>1, Typed DEF Within
<1>4. OneMoves(g) /\ Looking(g)
  BY Sends, Looks
<1>5. CASE call[g].sent = 0
  <2>1. /\ Phases[g] = "open" /\ Phases'[g] = Phases[g] /\ Runs'[g] = Runs[g]
        /\ Kinds[g] = Contract!NotSent
        /\ Kinds'[g] = [limit |-> retry[g].cfg.MaxAttempts, sure |-> TRUE]
    BY <1>1, <1>2, <1>3, <1>4, <1>5 DEF Looking, PhaseOf, KindOf, Contract!NotSent
  <2>2. Contract!Dispatch(g, Kinds'[g])
    BY <1>4, <2>1, Changes DEF Looking, Contract!Dispatch
  <2>3. retry[g].cfg \in RetryConfigs
    BY Typed
  <2>4. QED
    BY <2>1, <2>2, <2>3
<1>6. CASE call[g].sent # 0
  <2>1. /\ PhaseOf(retry'[g], call'[g]) = PhaseOf(retry[g], call[g])
        /\ KindOf(retry'[g], call'[g]) = KindOf(retry[g], call[g])
    BY <1>1, <1>2, <1>3, <1>6 DEF PhaseOf, KindOf
  <2>2. QED
    BY <1>2, <1>4, <2>1, LooksTheSame
<1>7. QED
  BY <1>5, <1>6

(* Invoke has returned: DoRetry succeeds, gives up, or goes on.            *)
LEMMA ReturnIsAnswer ==
  ASSUME IInv, NEW g \in Goroutines, NEW err, CallReturns(g, err)
  PROVE  \/ Contract!Succeed(g) \/ Contract!Refuse(g) \/ Contract!Fail(g)
         \/ UNCHANGED Contract!contractVars
<1>1. /\ call' = [call EXCEPT ![g] = [call[g] EXCEPT !.pc = "idle"]]
      /\ retry[g].pc = "running" /\ call[g].pc \in {"found", "sent"}
  BY DEF CallReturns, S!InvokeReturns, R!Returned
<1>2. call'[g].ran = call[g].ran /\ call'[g].sent = call[g].sent
  <2>1. call'[g] = [call[g] EXCEPT !.pc = "idle"]
    BY <1>1 DEF IInv, PerGoroutine
  <2>2. call[g] \in [pc : {"idle", "found", "sent"}, conn : Nat, sent : Nat,
                     ran : {call[g].ran}]
    BY Typed DEF IsCall
  <2>3. QED
    BY <2>1, <2>2
<1>3. OneMoves(g) /\ Looking(g)
  BY Returning, Looks
<1>4. CASE err = "OK"
  <2>1. R!Ends(g, "OK") /\ call[g].sent \in call[g].ran
    BY <1>4 DEF CallReturns, R!Returned, S!Outcomes
  <2>2. retry'[g].pc = "done" /\ retry'[g].err = "OK" /\ retry'[g].cfg = retry[g].cfg
    BY <2>1, Ended
  <2>3. call[g].sent # 0 /\ call[g].sent \in Nat /\ call[g].ran \subseteq 1 .. call[g].sent
    BY <2>1, Typed
  <2>4. /\ Phases[g] = "open" /\ Phases'[g] = "ok"
        /\ Kinds'[g] = Kinds[g] /\ Runs'[g] = Runs[g]
    BY <1>1, <1>2, <1>3, <2>2, <2>3 DEF Looking, PhaseOf, KindOf
  <2>5. Runs[g] > 0
    <3>1. IsFiniteSet(1 .. call[g].sent)
      BY <2>3, FS_Interval
    <3>2. IsFiniteSet(call[g].ran)
      BY <2>3, <3>1, FS_Subset
    <3>3. Cardinality(call[g].ran) \in Nat /\ Cardinality(call[g].ran) # 0
      BY <2>1, <3>2, FS_CardinalityType, FS_EmptySet
    <3>4. QED
      BY <1>3, <3>3 DEF Looking
  <2>6. Contract!Succeed(g)
    BY <1>3, <2>4, <2>5, Changes DEF Looking, Contract!Succeed
  <2>7. QED
    BY <2>6
<1>5. ASSUME NEW e, R!Ends(g, e), e # "OK" PROVE Contract!Refuse(g) \/ Contract!Fail(g)
  <2>1. retry'[g].pc = "done" /\ retry'[g].err = e /\ retry'[g].cfg = retry[g].cfg
    BY <1>5, Ended
  <2>2. QED
    BY <1>1, <1>2, <1>3, <1>5, <2>1, ComesToAnError
<1>6. CASE retry' = [retry EXCEPT ![g].pc = "waiting", ![g].timer = retry[g].backoff]
  <2>1. retry'[g] = [retry[g] EXCEPT !.pc = "waiting", !.timer = retry[g].backoff]
    BY <1>6 DEF IInv, PerGoroutine
  <2>2. retry[g] \in Retries(retry[g].err)
    BY Typed DEF IsRetry
  <2>3. retry'[g].pc = "waiting" /\ retry'[g].cfg = retry[g].cfg
    BY <2>1, <2>2 DEF Retries
  <2>4. QED
    BY <1>1, <1>2, <1>3, <2>3, LooksTheSame DEF PhaseOf, KindOf
<1>7. QED
  BY <1>4, <1>5, <1>6 DEF CallReturns, R!Returned

LEMMA StartIsAccept ==
  ASSUME IInv, NEW g \in Goroutines, NEW p \in Plans[g], Start(g, p)
  PROVE  Contract!Accept(g)
<1> DEFINE cfg == p.retry
<1>1. /\ retry[g].pc = "idle" /\ call' = call
      /\ retry' = [retry EXCEPT ![g] = [R!NoRetry EXCEPT !.pc = "loop", !.cfg = cfg,
                                                        !.backoff = cfg.InitialBackoff]]
  BY DEF Start, R!DoRetry, outside
<1>2. retry'[g].pc = "loop"
  <2>1. retry'[g] = [R!NoRetry EXCEPT !.pc = "loop", !.cfg = cfg, !.backoff = cfg.InitialBackoff]
    BY <1>1 DEF IInv, PerGoroutine
  <2>2. QED
    BY <2>1 DEF R!NoRetry
<1>3. call[g].sent = 0
  BY <1>1, NothingYet, Typed DEF Within
<1>4. Looking(g)
  BY Starts, Looks
<1>5. /\ Phases[g] = "free" /\ Phases'[g] = "open" /\ Kinds'[g] = Kinds[g]
      /\ Runs'[g] = Runs[g]
  BY <1>1, <1>2, <1>3, <1>4 DEF Looking, PhaseOf, KindOf
<1>6. QED
  BY <1>4, <1>5, Changes DEF Looking, Contract!Accept

LEMMA LeaveIsForget ==
  ASSUME IInv, NEW g \in Goroutines, Leave(g)
  PROVE  Contract!Forget(g)
<1>1. /\ retry[g].pc = "done" /\ retry' = [retry EXCEPT ![g] = R!NoRetry]
      /\ call' = [call EXCEPT ![g] = S!NoCall]
  BY DEF Leave, R!Leave, S!Forget
<1>2. retry'[g] = R!NoRetry /\ call'[g] = S!NoCall
  BY <1>1 DEF IInv, PerGoroutine
<1>3. Looking(g)
  BY Leaves, Looks
<1>4. /\ Phases[g] \in {"ok", "failed", "refused"} /\ Phases'[g] = "free"
      /\ Kinds'[g] = Contract!NotSent /\ Runs'[g] = Cardinality({})
  BY <1>1, <1>2, <1>3, NothingYet DEF Looking, PhaseOf, KindOf, Contract!NotSent
<1>5. Runs'[g] = 0
  BY <1>4, FS_EmptySet
<1>6. QED
  BY <1>3, <1>4, <1>5, Changes DEF Looking, Contract!Forget

LEMMA LoopIsQuiet ==
  ASSUME IInv, NEW g \in Goroutines, Loop(g)
  PROVE  Contract!Refuse(g) \/ Contract!Fail(g) \/ UNCHANGED Contract!contractVars
<1>1. call' = call /\ UNCHANGED <<outside, plan>>
  BY DEF Loop, outside
<1>2. OneMoves(g)
  BY <1>1, Attempts, NoneAllowed, TriesAgain, ContextStops DEF Loop
<1>3. ASSUME NEW e, R!Ends(g, e), e # "OK", retry[g].pc \in {"loop", "waiting"}
      PROVE  Contract!Refuse(g) \/ Contract!Fail(g)
  <2>1. retry'[g].pc = "done" /\ retry'[g].err = e /\ retry'[g].cfg = retry[g].cfg
    BY <1>3, Ended
  <2>2. QED
    BY <1>1, <1>2, <1>3, <2>1, ComesToAnError
<1>4. ASSUME retry[g].pc \in {"loop", "waiting"}, retry'[g].pc \in {"loop", "running"},
             retry'[g].cfg = retry[g].cfg
      PROVE  UNCHANGED Contract!contractVars
  BY <1>1, <1>2, <1>4, LooksTheSame DEF PhaseOf, KindOf
<1>5. CASE R!NoAttempts(g)
  BY <1>3, <1>5 DEF R!NoAttempts
<1>6. CASE R!ContextEnds(g)
  BY <1>3, <1>6 DEF R!ContextEnds
<1>7. retry = [h \in Goroutines |-> retry[h]] /\ retry[g] \in Retries(retry[g].err)
  BY Typed DEF IInv, PerGoroutine, IsRetry
<1>8. CASE R!Attempt(g)
  BY <1>4, <1>7, <1>8 DEF R!Attempt, Retries
<1>9. CASE R!TimerFires(g)
  BY <1>4, <1>7, <1>9 DEF R!TimerFires, Retries
<1>10. QED
  BY <1>5, <1>6, <1>8, <1>9 DEF Loop

LEMMA NotFoundIsRefused ==
  ASSUME IInv, NEW g \in Goroutines, FindFails(g)
  PROVE  Contract!Refuse(g) \/ Contract!Fail(g)
<1>1. retry[g].pc = "running" /\ R!Ends(g, "NoService") /\ call' = call
  BY DEF FindFails, S!ServiceNotFound, S!sdkVars, R!Returned, R!isRetryable
<1>2. retry'[g].pc = "done" /\ retry'[g].err = "NoService" /\ retry'[g].cfg = retry[g].cfg
  BY <1>1, Ended
<1>3. QED
  BY <1>1, <1>2, FindsNothing, ComesToAnError

LEMMA FindIsQuiet ==
  ASSUME IInv, NEW g \in Goroutines, Find(g)
  PROVE  UNCHANGED Contract!contractVars
<1>1. /\ call' = [call EXCEPT ![g] = [call[g] EXCEPT !.pc = "found",
                                                    !.conn = client.table[plan[g].name]]]
      /\ retry' = retry
  BY DEF Find, S!Service, retrying
<1>2. call'[g].ran = call[g].ran /\ call'[g].sent = call[g].sent
  <2>1. call'[g] = [call[g] EXCEPT !.pc = "found", !.conn = client.table[plan[g].name]]
    BY <1>1 DEF IInv, PerGoroutine
  <2>2. call[g] \in [pc : {"idle", "found", "sent"}, conn : Nat, sent : Nat,
                     ran : {call[g].ran}]
    BY Typed DEF IsCall
  <2>3. QED
    BY <2>1, <2>2
<1>3. QED
  BY <1>1, <1>2, Finds, LooksTheSame DEF PhaseOf, KindOf

LEMMA TickIsQuiet ==
  ASSUME IInv, Tick
  PROVE  UNCHANGED Contract!contractVars
<1>1. /\ retry' = [g \in Goroutines |->
                     IF retry[g].timer = 0 THEN retry[g]
                     ELSE [retry[g] EXCEPT !.timer = retry[g].timer - 1,
                                           !.waited = retry[g].waited + 1]]
      /\ call' = call
  BY DEF Tick, R!Tick, outside
<1>2. ASSUME NEW g \in Goroutines
      PROVE  /\ retry'[g].pc = retry[g].pc /\ retry'[g].err = retry[g].err
             /\ retry'[g].cfg = retry[g].cfg
  <2>1. retry[g] \in Retries(retry[g].err)
    BY Typed DEF IsRetry
  <2>2. QED
    BY <1>1, <2>1 DEF Retries
<1>3. Phases' = Phases /\ Kinds' = Kinds /\ Runs' = Runs
  BY <1>1, <1>2 DEF Phases, Kinds, Runs, PhaseOf, KindOf
<1>4. QED
  BY <1>3 DEF Contract!contractVars

(* Every step of the program is one of the contract, or none.              *)
LEMMA StepsContract ==
  IInv /\ [Next]_vars => [Contract!ContractNext]_(Contract!contractVars)
<1> SUFFICES ASSUME IInv, [Next]_vars
             PROVE  Contract!ContractNext \/ UNCHANGED Contract!contractVars
  OBVIOUS
<1>1. ASSUME retry' = retry, call' = call PROVE UNCHANGED Contract!contractVars
  BY <1>1 DEF Contract!contractVars, Phases, Kinds, Runs, PhaseOf, KindOf
<1>2. CASE Build
  BY <1>1, <1>2 DEF Build, S!NewService, S!NewClientFails, S!NewClientReturns, retrying
<1>3. ASSUME NEW g \in Goroutines, NEW p \in Plans[g], Start(g, p)
      PROVE  Contract!ContractNext
  BY <1>3, StartIsAccept DEF Contract!ContractNext
<1>4. ASSUME NEW g \in Goroutines,
             Loop(g) \/ Find(g) \/ FindFails(g) \/ Send(g)
             \/ \E err \in Errors : CallReturns(g, err)
      PROVE  Contract!ContractNext \/ UNCHANGED Contract!contractVars
  BY <1>4, LoopIsQuiet, FindIsQuiet, NotFoundIsRefused, SendIsDispatch, ReturnIsAnswer
     DEF Contract!ContractNext
<1>5. ASSUME NEW g \in Goroutines, NodeRuns(g) PROVE Contract!ContractNext
  BY <1>5, RunIsPerform DEF Contract!ContractNext
<1>6. ASSUME NEW g \in Goroutines, Leave(g) PROVE Contract!ContractNext
  BY <1>6, LeaveIsForget DEF Contract!ContractNext
<1>7. ASSUME NEW g \in Goroutines, ContextOver(g) PROVE UNCHANGED Contract!contractVars
  BY <1>1, <1>7 DEF ContextOver, R!ContextOver, outside
<1>8. CASE Tick
  BY <1>8, TickIsQuiet
<1>9. ASSUME NEW name, ServiceClose(name) PROVE UNCHANGED Contract!contractVars
  BY <1>1, <1>9 DEF ServiceClose, S!ServiceClose, retrying
<1>10. CASE Close
  BY <1>1, <1>10 DEF Close, S!Close, retrying
<1>11. CASE Closing
  BY <1>1, <1>11 DEF Closing, S!CloseReturns, S!CloseOne, retrying
<1>12. CASE UNCHANGED vars
  BY <1>1, <1>12 DEF vars
<1>13. QED
  BY <1>2, <1>3, <1>4, <1>5, <1>6, <1>7, <1>8, <1>9, <1>10, <1>11, <1>12 DEF Next

(* DoRetry over Client.Invoke implements the contract, for any number of   *)
(* goroutines and any settings: what the bridge's handlers promise their   *)
(* callers, the SDK promises its own.                                      *)
THEOREM RetryKeepsContract == Spec => KeepsContract
<1>1. Init => Contract!ContractInit
  BY NothingYet, FS_EmptySet DEF Init, R!RetryInit, S!SDKInit, Contract!ContractInit, Phases,
     Kinds, Runs, PhaseOf, KindOf, Contract!NotSent
<1>2. IInv /\ [Next]_vars => [Contract!ContractNext]_(Contract!contractVars)
  BY StepsContract
<1>3. QED
  BY <1>1, <1>2, Inductive, PTL DEF Spec, KeepsContract, Contract!ContractSpec

Sendings == {[limit |-> cfg.MaxAttempts, sure |-> TRUE] : cfg \in RetryConfigs}

CP == INSTANCE RequestContractProofs WITH
  Requests <- Goroutines, phase <- Phases, kind <- Kinds, runs <- Runs

(* What DoRetry's answer says, with the RetryConfig of the call: if it is  *)
(* nil, the node has run the method at least once; if nothing was sent, it *)
(* has not run it; and it runs it no more often than this call's own       *)
(* MaxAttempts, however late copies arrive (retry.go:30-58).               *)
THEOREM RetryIsHonest == Spec => []Contract!Honest
<1>1. Sendings \subseteq [limit : Nat, sure : BOOLEAN]
  <2>1. \A cfg \in RetryConfigs : [limit |-> cfg.MaxAttempts, sure |-> TRUE]
                                     \in [limit : Nat, sure : BOOLEAN]
    BY RetryConfigTyped
  <2>2. QED
    BY <2>1 DEF Sendings
<1>2. CP!ContractSpec => []CP!Honest
  BY <1>1, CP!AnswersAreHonest
<1>3. Contract!ContractSpec <=> CP!ContractSpec
  <2>1. Contract!ContractInit <=> CP!ContractInit
    BY DEF Contract!ContractInit, CP!ContractInit, Contract!NotSent, CP!NotSent
  <2>2. [Contract!ContractNext]_(Contract!contractVars) <=> [CP!ContractNext]_(CP!contractVars)
    BY DEF Contract!ContractNext, CP!ContractNext, Contract!contractVars, CP!contractVars,
           Contract!Accept, CP!Accept, Contract!Dispatch, CP!Dispatch,
           Contract!Perform, CP!Perform, Contract!Succeed, CP!Succeed,
           Contract!Fail, CP!Fail, Contract!Refuse, CP!Refuse, Contract!Forget, CP!Forget,
           Contract!NotSent, CP!NotSent, Sendings
  <2>3. QED
    BY <2>1, <2>2, PTL DEF Contract!ContractSpec, CP!ContractSpec
<1>4. CP!Honest <=> Contract!Honest
  BY DEF CP!Honest, Contract!Honest
<1>5. QED
  BY <1>2, <1>3, <1>4, RetryKeepsContract, PTL DEF KeepsContract
=============================================================================
