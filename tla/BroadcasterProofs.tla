-------------------------- MODULE BroadcasterProofs --------------------------
(***************************************************************************)
(* Invariance proofs for the events of a run on their way to its clients:  *)
(* for any number of clients, events, connections and breaks, and any size *)
(* of queue.                                                               *)
(*                                                                         *)
(* The invariant has four parts: the types; the subscriber lists, which    *)
(* hold each connected client once and are the table's; the order of what  *)
(* is streamed and what waits; and, while no connection has broken and no  *)
(* queue has overflowed, what each client has been given so far.           *)
(***************************************************************************)
EXTENDS Broadcaster, SequenceTheorems, TLAPS

-----------------------------------------------------------------------------
(* The parts of the invariant.                                              *)

PublisherTypes ==
    /\ pub.event <= NumEvents
    /\ pub.pc # "idle" => pub.event # 0
    /\ pub.pc = "push" => pub.list \in 1 .. Len(lists) /\ pub.next # 0

ReplayTypes == \A c \in Clients : conn[c].pc = "replay" => conn[c].log \in 1 .. Len(logs)

BroadcastTypes == TypeOK /\ PublisherTypes /\ ReplayTypes

\* A client is in a list exactly once while it is connected, and the list is
\* the one in the table.
ListsMatch ==
    /\ \A c \in Clients : Connected(c) => conn[c].list = table /\ c \in Members(table) /\ table # 0
    /\ \A l \in DOMAIN lists : \A i \in DOMAIN lists[l] :
           /\ Connected(lists[l][i]) /\ conn[lists[l][i]].list = l
           /\ \A j \in DOMAIN lists[l] : lists[l][i] = lists[l][j] => i = j

\* The event being handed out is still to come for c.
Owed(c) ==
    \/ pub.pc = "lookup"
    \/ pub.pc = "push" /\ \E i \in DOMAIN lists[pub.list] : i >= pub.next /\ lists[pub.list][i] = c

\* What c may have been given: less than the event still to come.
Limit(c) == IF Owed(c) THEN pub.event - 1 ELSE pub.event

Live(k) == k.at + 1 .. Len(k.sent)  \* the part of sent that was streamed

\* What was streamed and what waits goes up, to b at most.
Rising(k, b) ==
    /\ k.pc \in {"hello", "replay"} => k.at = Len(k.sent)
    /\ \A i, j \in Live(k) : i < j => k.sent[i] < k.sent[j]
    /\ \A i, j \in DOMAIN k.queue : i < j => k.queue[i] < k.queue[j]
    /\ \A i \in Live(k), j \in DOMAIN k.queue : k.sent[i] < k.queue[j]
    /\ k.pc # "out" => /\ \A i \in Live(k) : k.sent[i] <= b
                       /\ \A j \in DOMAIN k.queue : k.queue[j] <= b

InOrder == \A c \in Clients : Rising(conn[c], Limit(c))

Quiet == leaves = 0 /\ drops = 0
LastSent(c) == IF conn[c].sent = <<>> THEN 0 ELSE conn[c].sent[Len(conn[c].sent)]

\* The last client has been served to the end and has taken the log with it.
Over == pub.event = Terminal /\ log = 0

OverHolds ==
    /\ pub.pc # "lookup"
    /\ pub.pc = "push" => lists[pub.list] = <<>> /\ pub.list # table
    /\ \A c \in Clients : Connected(c) => /\ conn[c].queue = <<>> /\ conn[c].sent = <<>>
                                          /\ conn[c].pc # "replay"

LogComplete ==
    /\ IF pub.event = 0 THEN log = 0
       ELSE log # 0 /\ Len(logs[log]) = pub.event /\ \A i \in 1 .. pub.event : logs[log][i] = i
    /\ pub.pc = "push" => pub.list = table

\* c has been given the events up to g, without a gap at its end.
GivenTo(c, g) ==
    LET k == conn[c] IN
    /\ g <= pub.event /\ pub.event <= g + 1
    /\ Owed(c) => pub.event = g + 1
    /\ ~Owed(c) /\ pub.event # Terminal => pub.event = g
    /\ \A i \in DOMAIN k.queue : k.queue[i] + Len(k.queue) = g + i
    /\ k.pc = "hello" => k.sent = <<>>
    /\ k.pc = "replay" => /\ k.log = log /\ k.at = Len(k.sent) /\ k.at <= pub.event
                          /\ \A i \in DOMAIN k.sent : k.sent[i] = i
    /\ k.pc = "stream" => g <= LastSent(c) + Len(k.queue)

NothingMissed ==
    /\ Over => OverHolds
    /\ ~Over => LogComplete /\ \A c \in Clients : Connected(c) => \E g \in 0 .. NumEvents : GivenTo(c, g)
    /\ \A c \in Clients : GapFree(conn[c].sent) /\ (conn[c].pc = "hello" => conn[c].at = 0)

BroadcastInv == BroadcastTypes /\ ListsMatch /\ InOrder /\ (Quiet => NothingMissed)

-----------------------------------------------------------------------------
(* What each step does to the fields of the records.                        *)

LEMMA Terminals == NumEvents \in Nat /\ NumEvents # 0 /\ QueueSize \in Nat /\ Terminal = NumEvents
BY BroadcasterBounds DEF Terminal

LEMMA BroadcastInit == Init => BroadcastInv
<1> SUFFICES ASSUME Init PROVE BroadcastInv
  OBVIOUS
<1>1. NoConnection \in Connection /\ \A c \in Clients : conn[c] = NoConnection
  BY DEF Init, NoConnection, Connection, Events
<1>2. pub \in Publisher /\ conn \in [Clients -> Connection]
  BY <1>1 DEF Init, Publisher
<1>3. pub.pc = "idle" /\ pub.event = 0 /\ \A c \in Clients : ~Connected(c) /\ conn[c].sent = <<>> /\ conn[c].queue = <<>> /\ conn[c].pc = "out" /\ conn[c].at = 0
  BY <1>1 DEF Init, Connected, NoConnection
<1>4. BroadcastTypes
  BY <1>2, <1>3, Terminals DEF Init, BroadcastTypes, TypeOK, Events, PublisherTypes, ReplayTypes
<1>5. ListsMatch
  BY <1>3 DEF Init, ListsMatch
<1>6. InOrder
  <2>1. ASSUME NEW c \in Clients
        PROVE  /\ Live(conn[c]) = {} /\ DOMAIN conn[c].queue = {} /\ conn[c].pc = "out"
    BY <1>3 DEF Live
  <2> QED BY <2>1 DEF InOrder, Rising
<1>7. NothingMissed
  BY <1>3, Terminals DEF NothingMissed, Over, LogComplete, Init, GapFree
<1> QED BY <1>4, <1>5, <1>6, <1>7 DEF BroadcastInv

LEMMA RecordEffect ==
    ASSUME BroadcastTypes, Record
    PROVE  /\ pub.pc = "idle" /\ pub'.pc = "lookup" /\ pub'.event = pub.event + 1
           /\ lists' = lists /\ table' = table /\ conn' = conn /\ drops' = drops /\ joins' = joins /\ leaves' = leaves
           /\ log' # 0 /\ (log # 0 => log' = log)
           /\ Len(logs'[log']) = 1 + IF log = 0 THEN 0 ELSE Len(logs[log])
           /\ logs'[log'][Len(logs'[log'])] = pub.event + 1
           /\ log # 0 => \A i \in DOMAIN logs[log] : logs'[log'][i] = logs[log][i]
           /\ BroadcastTypes'
<1>1. pub' \in Publisher /\ pub'.pc = "lookup" /\ pub'.event = pub.event + 1
  <2>1. pub \in Publisher /\ pub.event \in Nat /\ pub.event + 1 \in Nat
    BY DEF BroadcastTypes, TypeOK, Publisher
  <2> DEFINE n == pub.event + 1
  <2>2. pub' = [pub EXCEPT !.pc = "lookup", !.event = n] /\ n \in Nat
    BY <2>1 DEF Record
  <2> HIDE DEF n
  <2>3. pub' \in Publisher /\ pub'.pc = "lookup" /\ pub'.event = n
    BY <2>1, <2>2 DEF Publisher
  <2> QED BY <2>3 DEF n
<1> USE DEF BroadcastTypes, TypeOK, PublisherTypes, ReplayTypes
<1>2. pub'.event \in Events /\ pub'.event <= NumEvents /\ pub'.event # 0 /\ pub.pc = "idle"
  <2>1. pub.event \in Nat /\ pub.event < NumEvents /\ pub.pc = "idle"
    BY DEF Record, Publisher
  <2>2. pub'.event \in Nat /\ pub'.event <= NumEvents /\ pub'.event # 0 /\ pub'.event >= 1
    BY <1>1, <2>1, Terminals
  <2> QED BY <2>1, <2>2 DEF Events
<1> DEFINE e == pub'.event
<1>3. e \in Events
  BY <1>2
<1> HIDE DEF e
<1>4. lists' = lists /\ table' = table /\ conn' = conn /\ drops' = drops /\ joins' = joins /\ leaves' = leaves
  BY DEF Record
<1>5. CASE log = 0
  <2>1. logs' = Append(logs, <<e>>) /\ log' = Len(logs')
    BY <1>5 DEF Record, e
  <2>2. <<e>> \in Seq(Events) /\ Len(<<e>>) = 1 /\ <<e>>[1] = e
    BY <1>3
  <2>3. logs' \in Seq(Seq(Events)) /\ Len(logs') = Len(logs) + 1 /\ logs'[Len(logs) + 1] = <<e>>
    BY <2>1, <2>2
  <2>4. BroadcastTypes'
    <3>1. log' \in 0 .. Len(logs') /\ \A i \in 1 .. Len(logs) : i \in 1 .. Len(logs')
      BY <2>1, <2>3
    <3>2. TypeOK'
      BY <1>1, <1>4, <2>3, <3>1
    <3>3. PublisherTypes'
      BY <1>1, <1>2
    <3>4. ReplayTypes'
      BY <1>4, <3>1, <2>3
    <3> HIDE DEF TypeOK, PublisherTypes, ReplayTypes
    <3> QED BY <3>2, <3>3, <3>4
  <2> QED BY <1>1, <1>2, <1>4, <1>5, <2>1, <2>2, <2>3, <2>4 DEF e
<1>6. CASE log # 0
  <2>1. logs' = [logs EXCEPT ![log] = Append(@, e)] /\ log' = log
    BY <1>6 DEF Record, e
  <2>2. log \in 1 .. Len(logs) /\ logs[log] \in Seq(Events)
    BY <1>6
  <2>3. Append(logs[log], e) \in Seq(Events) /\ Len(Append(logs[log], e)) = Len(logs[log]) + 1 
        /\ Append(logs[log], e)[Len(logs[log]) + 1] = e /\ \A i \in DOMAIN logs[log] : Append(logs[log], e)[i] = logs[log][i]
    BY <1>3, <2>2
  <2>4. logs' \in Seq(Seq(Events)) /\ Len(logs') = Len(logs) /\ logs'[log] = Append(logs[log], e)
    BY <2>1, <2>2, <2>3
  <2>5. BroadcastTypes'
    <3>1. log' \in 0 .. Len(logs')
      BY <2>1, <2>2, <2>4
    <3>2. TypeOK'
      BY <1>1, <1>4, <2>4, <3>1
    <3>3. PublisherTypes'
      BY <1>1, <1>2
    <3>4. ReplayTypes'
      BY <1>4, <2>4
    <3> HIDE DEF TypeOK, PublisherTypes, ReplayTypes
    <3> QED BY <3>2, <3>3, <3>4
  <2> QED BY <1>1, <1>2, <1>4, <1>6, <2>1, <2>2, <2>3, <2>4, <2>5 DEF e
<1> QED BY <1>5, <1>6

LEMMA ListOfKeyMade ==
    ASSUME BroadcastTypes
    PROVE  /\ ListsWithKey \in Seq(Seq(Clients)) /\ ListOfKey \in 1 .. Len(ListsWithKey)
           /\ Len(lists) <= Len(ListsWithKey) /\ \A l \in 1 .. Len(lists) : ListsWithKey[l] = lists[l]
           /\ table # 0 => ListOfKey = table /\ ListsWithKey = lists
           /\ table = 0 => /\ ListOfKey = Len(lists) + 1 /\ ListsWithKey[ListOfKey] = <<>>
                           /\ Len(ListsWithKey) = Len(lists) + 1
<1>1. <<>> \in Seq(Clients)
  OBVIOUS
<1> QED BY <1>1 DEF BroadcastTypes, TypeOK, ListsWithKey, ListOfKey

LEMMA LookupEffect ==
    ASSUME BroadcastTypes, Lookup
    PROVE  /\ pub.pc = "lookup" /\ pub'.pc = "push" /\ pub'.event = pub.event
           /\ pub'.list = ListOfKey /\ pub'.next = 1
           /\ lists' = ListsWithKey /\ table' = ListOfKey
           /\ logs' = logs /\ log' = log /\ conn' = conn /\ drops' = drops /\ joins' = joins /\ leaves' = leaves
           /\ BroadcastTypes'
<1> USE DEF BroadcastTypes, TypeOK, PublisherTypes, ReplayTypes
<1>1. pub' \in Publisher /\ pub'.pc = "push" /\ pub'.event = pub.event /\ pub'.list = ListOfKey /\ pub'.next = 1
  <2>1. ListOfKey \in Nat
    BY ListOfKeyMade
  <2> QED BY <2>1 DEF Lookup, Publisher
<1>2. lists' = ListsWithKey /\ table' = ListOfKey /\ logs' = logs /\ log' = log /\ conn' = conn /\ drops' = drops /\ joins' = joins /\ leaves' = leaves /\ pub.pc = "lookup"
  BY DEF Lookup
<1>3. lists' \in Seq(Seq(Clients)) /\ table' \in 1 .. Len(lists')
  BY <1>2, ListOfKeyMade
<1>4. BroadcastTypes'
  BY <1>1, <1>2, <1>3
<1> QED BY <1>1, <1>2, <1>4

\* The fields of a connection that stay.
SameButQueue(k, m) == k.pc = m.pc /\ k.list = m.list /\ k.log = m.log /\ k.at = m.at /\ k.sent = m.sent

LEMMA PushEffect ==
    ASSUME BroadcastTypes, Push
    PROVE  /\ pub.pc = "push" /\ pub.next \in DOMAIN lists[pub.list] /\ lists[pub.list][pub.next] \in Clients
           /\ pub'.pc = "push" /\ pub'.event = pub.event /\ pub'.list = pub.list /\ pub'.next = pub.next + 1
           /\ \A c \in Clients : SameButQueue(conn'[c], conn[c])
           /\ \A c \in Clients : c # lists[pub.list][pub.next] => conn'[c] = conn[c]
           /\ \/ drops' = drops /\ conn'[lists[pub.list][pub.next]].queue = Append(conn[lists[pub.list][pub.next]].queue, pub.event)
              \/ drops' = drops + 1 /\ conn' = conn
           /\ lists' = lists /\ table' = table /\ logs' = logs /\ log' = log /\ joins' = joins /\ leaves' = leaves
           /\ BroadcastTypes'
<1>1. pub' \in Publisher /\ pub.pc = "push" /\ pub'.pc = "push" /\ pub'.event = pub.event
      /\ pub'.list = pub.list /\ pub'.next = pub.next + 1
  <2>1. pub \in Publisher /\ pub.next \in Nat /\ pub.next + 1 \in Nat
    BY DEF BroadcastTypes, TypeOK, Publisher
  <2> DEFINE n == pub.next + 1
  <2>2. pub' = [pub EXCEPT !.next = n] /\ n \in Nat /\ pub.pc = "push"
    BY <2>1 DEF Push
  <2> HIDE DEF n
  <2>3. pub' \in Publisher /\ pub'.pc = pub.pc /\ pub'.event = pub.event /\ pub'.list = pub.list /\ pub'.next = n
    BY <2>1, <2>2 DEF Publisher
  <2> QED BY <2>2, <2>3 DEF n
<1> USE DEF BroadcastTypes, TypeOK, PublisherTypes, ReplayTypes
<1>2. pub.next \in DOMAIN lists[pub.list] /\ lists[pub.list][pub.next] \in Clients
  <2>1. pub.next \in Nat /\ pub.next # 0 /\ pub.next <= Len(lists[pub.list]) /\ lists[pub.list] \in Seq(Clients)
    BY SMTT(40), <1>1 DEF Push, Publisher
  <2> QED BY <2>1
<1>3. PICK c \in Clients : c = lists[pub.list][pub.next]
  BY <1>2
<1>4. PICK q \in Seq(Events) : q = Append(conn[c].queue, pub.event)
  <2>1. pub.event \in Events /\ conn[c].queue \in Seq(Events)
    BY SMTT(40), <1>1 DEF Events, Publisher, Connection
  <2>2. Append(conn[c].queue, pub.event) \in Seq(Events)
    BY <2>1
  <2> QED BY <2>2
<1>5. lists' = lists /\ table' = table /\ logs' = logs /\ log' = log /\ joins' = joins /\ leaves' = leaves
  BY DEF Push, book
<1>6. CASE drops' = drops + 1 /\ conn' = conn
  <2>1. \A d \in Clients : SameButQueue(conn'[d], conn[d])
    BY <1>6 DEF SameButQueue
  <2>2. BroadcastTypes'
    <3>1. TypeOK'
      BY <1>1, <1>5, <1>6
    <3>3. PublisherTypes'
      BY <1>1, <1>2, <1>5
    <3>4. ReplayTypes'
      BY <1>5, <1>6
    <3> HIDE DEF TypeOK, PublisherTypes, ReplayTypes
    <3> QED BY <3>1, <3>3, <3>4
  <2> QED BY <1>1, <1>2, <1>5, <1>6, <2>1, <2>2
<1>7. CASE drops' = drops /\ conn' = [conn EXCEPT ![c].queue = q]
  <2>1. conn' = [conn EXCEPT ![c] = [conn[c] EXCEPT !.queue = q]]
    BY <1>7
  <2>2. \A g : g = [conn[c] EXCEPT !.queue = q] => g \in Connection /\ SameButQueue(g, conn[c]) /\ g.queue = q
    BY DEF Connection, SameButQueue
  <2>3. PICK g \in Connection : g = [conn[c] EXCEPT !.queue = q]
    BY <2>2
  <2>4. conn' = [conn EXCEPT ![c] = g] /\ g \in Connection /\ SameButQueue(g, conn[c]) /\ g.queue = q
    BY <2>1, <2>2, <2>3
  <2>5. conn' \in [Clients -> Connection] /\ conn'[c] = g /\ \A d \in Clients : d # c => conn'[d] = conn[d]
    BY <2>4
  <2>6. \A d \in Clients : SameButQueue(conn'[d], conn[d])
    BY <2>4, <2>5 DEF SameButQueue
  <2>7. BroadcastTypes'
    <3>1. TypeOK'
      BY <1>1, <1>5, <1>7, <2>5
    <3>3. PublisherTypes'
      BY <1>1, <1>2, <1>5
    <3>4. ReplayTypes'
      BY <1>5, <2>6 DEF SameButQueue
    <3> HIDE DEF TypeOK, PublisherTypes, ReplayTypes
    <3> QED BY <3>1, <3>3, <3>4
  <2> QED BY <1>1, <1>2, <1>3, <1>4, <1>5, <1>7, <2>4, <2>5, <2>6, <2>7
<1> QED BY <1>3, <1>4, <1>6, <1>7 DEF Push

LEMMA PublishedEffect ==
    ASSUME BroadcastTypes, Published
    PROVE  /\ pub.pc = "push" /\ pub.next > Len(lists[pub.list])
           /\ pub'.pc = "idle" /\ pub'.event = pub.event
           /\ lists' = lists /\ table' = table /\ logs' = logs /\ log' = log /\ conn' = conn /\ drops' = drops /\ joins' = joins /\ leaves' = leaves
           /\ BroadcastTypes'
<1>1. pub' \in Publisher /\ pub.pc = "push" /\ pub'.pc = "idle" /\ pub'.event = pub.event
  BY DEF Published, Publisher, BroadcastTypes, TypeOK
<1>2. lists' = lists /\ table' = table /\ logs' = logs /\ log' = log /\ conn' = conn /\ drops' = drops /\ joins' = joins /\ leaves' = leaves /\ pub.next > Len(lists[pub.list])
  BY DEF Published, book
<1> QED BY <1>1, <1>2 DEF BroadcastTypes, TypeOK, PublisherTypes, ReplayTypes

LEMMA JoinEffect ==
    ASSUME BroadcastTypes, NEW c \in Clients, Join(c)
    PROVE  /\ conn[c].pc = "out" /\ conn'[c] = [NoConnection EXCEPT !.pc = "hello", !.list = ListOfKey]
           /\ conn'[c].pc = "hello" /\ conn'[c].list = ListOfKey
           /\ conn'[c].queue = <<>> /\ conn'[c].sent = <<>> /\ conn'[c].at = 0
           /\ \A d \in Clients : d # c => conn'[d] = conn[d]
           /\ table' = ListOfKey /\ Len(lists') = Len(ListsWithKey)
           /\ lists'[ListOfKey] = Append(ListsWithKey[ListOfKey], c)
           /\ \A l \in 1 .. Len(ListsWithKey) : l # ListOfKey => lists'[l] = ListsWithKey[l]
           /\ logs' = logs /\ log' = log /\ pub' = pub /\ drops' = drops /\ leaves' = leaves
           /\ BroadcastTypes'
<1> USE DEF BroadcastTypes, TypeOK
<1>1. logs' = logs /\ log' = log /\ pub' = pub /\ drops' = drops /\ leaves' = leaves /\ joins' \in Nat
      /\ conn[c].pc = "out" /\ table' = ListOfKey
  BY DEF Join, Connected
<1>2. PICK new : new = [NoConnection EXCEPT !.pc = "hello", !.list = ListOfKey]
  OBVIOUS
<1>3. /\ new \in Connection /\ new.pc = "hello" /\ new.list = ListOfKey
      /\ new.queue = <<>> /\ new.sent = <<>> /\ new.at = 0
  <2>1. ListOfKey \in Nat /\ <<>> \in Seq(Events)
    BY ListOfKeyMade
  <2>2. NoConnection = [pc |-> "out", list |-> 0, queue |-> <<>>, log |-> 0, at |-> 0, sent |-> <<>>]
    BY DEF NoConnection
  <2>3. new = [pc |-> "hello", list |-> ListOfKey, queue |-> <<>>, log |-> 0, at |-> 0, sent |-> <<>>]
    BY <1>2, <2>2
  <2> HIDE <1>2
  <2> QED BY <2>1, <2>3 DEF Connection
<1>4. conn' = [conn EXCEPT ![c] = new]
  BY <1>2 DEF Join
<1>5. conn' \in [Clients -> Connection] /\ conn'[c] = new /\ \A d \in Clients : d # c => conn'[d] = conn[d]
  BY <1>3, <1>4
<1>6. PICK with : with = Append(ListsWithKey[ListOfKey], c)
  OBVIOUS
<1>7. ListsWithKey[ListOfKey] \in Seq(Clients) /\ with \in Seq(Clients)
  BY <1>6, ListOfKeyMade
<1>8. lists' = [ListsWithKey EXCEPT ![ListOfKey] = with]
  BY <1>6 DEF Join
<1>9. /\ lists' \in Seq(Seq(Clients)) /\ Len(lists') = Len(ListsWithKey) /\ lists'[ListOfKey] = with
      /\ \A l \in 1 .. Len(ListsWithKey) : l # ListOfKey => lists'[l] = ListsWithKey[l]
  BY <1>7, <1>8, ListOfKeyMade
<1>10. TypeOK'
  BY <1>1, <1>5, <1>9, ListOfKeyMade
<1>11. PublisherTypes'
  BY <1>1, <1>9, ListOfKeyMade DEF PublisherTypes
<1>12. ReplayTypes'
  BY <1>1, <1>3, <1>5 DEF ReplayTypes
<1> HIDE DEF TypeOK
<1> QED BY <1>1, <1>2, <1>3, <1>5, <1>6, <1>9, <1>10, <1>11, <1>12

LEMMA BeginReplayEffect ==
    ASSUME BroadcastTypes, NEW c \in Clients, BeginReplay(c)
    PROVE  /\ conn[c].pc = "hello" /\ conn'[c].pc = IF log = 0 THEN "stream" ELSE "replay"
           /\ conn'[c].list = conn[c].list /\ conn'[c].queue = conn[c].queue /\ conn'[c].log = log
           /\ conn'[c].at = conn[c].at /\ conn'[c].sent = conn[c].sent
           /\ \A d \in Clients : d # c => conn'[d] = conn[d]
           /\ lists' = lists /\ table' = table /\ logs' = logs /\ log' = log /\ pub' = pub /\ drops' = drops /\ joins' = joins /\ leaves' = leaves
           /\ BroadcastTypes'
<1> USE DEF BroadcastTypes, TypeOK
<1>1. lists' = lists /\ table' = table /\ logs' = logs /\ log' = log /\ pub' = pub /\ drops' = drops /\ joins' = joins /\ leaves' = leaves /\ conn[c].pc = "hello"
  BY DEF BeginReplay, book
<1>2. PICK p : p = IF log = 0 THEN "stream" ELSE "replay"
  OBVIOUS
<1>3. conn[c] \in Connection /\ p \in {"stream", "replay"} /\ log \in Nat /\ (p = "replay" => log \in 1 .. Len(logs))
  BY <1>2
<1>4. ASSUME NEW g, g = [conn[c] EXCEPT !.pc = p, !.log = log]
      PROVE  /\ g \in Connection /\ g.pc = p /\ g.list = conn[c].list /\ g.queue = conn[c].queue
             /\ g.log = log /\ g.at = conn[c].at /\ g.sent = conn[c].sent
  BY <1>3, <1>4 DEF Connection
<1>5. PICK g : g = [conn[c] EXCEPT !.pc = p, !.log = log]
  OBVIOUS
<1>6. conn' = [conn EXCEPT ![c] = g]
  BY <1>2, <1>5 DEF BeginReplay
<1>7. conn' \in [Clients -> Connection] /\ conn'[c] = g /\ \A d \in Clients : d # c => conn'[d] = conn[d]
  BY <1>4, <1>5, <1>6
<1>8. TypeOK'
  BY <1>1, <1>7
<1>9. PublisherTypes'
  BY <1>1 DEF PublisherTypes
<1>10. ReplayTypes'
  <2>1. g.pc = "replay" => g.log \in 1 .. Len(logs)
    BY <1>3, <1>4, <1>5
  <2>2. logs' = logs /\ ReplayTypes
    BY <1>1
  <2> HIDE DEF BroadcastTypes, TypeOK
  <2> QED BY <2>1, <2>2, <1>7 DEF ReplayTypes
<1> HIDE DEF TypeOK
<1> QED BY <1>1, <1>2, <1>4, <1>5, <1>7, <1>8, <1>9, <1>10

LEMMA ReplayEffect ==
    ASSUME BroadcastTypes, NEW c \in Clients, Replay(c)
    PROVE  /\ conn[c].pc = "replay" /\ conn[c].log \in 1 .. Len(logs)
           /\ conn'[c].list = conn[c].list /\ conn'[c].queue = conn[c].queue /\ conn'[c].log = conn[c].log
           /\ \/ /\ conn[c].at < Len(logs[conn[c].log]) /\ conn'[c].pc = "replay"
                 /\ conn'[c].at = conn[c].at + 1
                 /\ conn'[c].sent = Append(conn[c].sent, logs[conn[c].log][conn[c].at + 1])
              \/ /\ conn[c].at >= Len(logs[conn[c].log]) /\ conn'[c].pc = "stream"
                 /\ conn'[c].at = conn[c].at /\ conn'[c].sent = conn[c].sent
           /\ \A d \in Clients : d # c => conn'[d] = conn[d]
           /\ lists' = lists /\ table' = table /\ logs' = logs /\ log' = log /\ pub' = pub /\ drops' = drops /\ joins' = joins /\ leaves' = leaves
           /\ BroadcastTypes'
<1> USE DEF BroadcastTypes, TypeOK
<1>1. lists' = lists /\ table' = table /\ logs' = logs /\ log' = log /\ pub' = pub /\ drops' = drops /\ joins' = joins /\ leaves' = leaves /\ conn[c].pc = "replay" /\ conn[c].log \in 1 .. Len(logs)
  BY DEF Replay, book, ReplayTypes
<1>2. PICK k : k = conn[c]
  OBVIOUS
<1>3. k \in Connection /\ logs[k.log] \in Seq(Events) /\ k.pc = "replay" /\ k.log \in 1 .. Len(logs) /\ k.at \in Nat /\ k.sent \in Seq(Events)
  BY <1>1, <1>2 DEF Connection
<1>4. PICK g : g = IF k.at < Len(logs[k.log]) THEN [k EXCEPT !.at = k.at + 1, !.sent = Append(k.sent, logs[k.log][k.at + 1])]
                   ELSE [k EXCEPT !.pc = "stream"]
  OBVIOUS
<1>7. /\ g \in Connection /\ g.list = k.list /\ g.queue = k.queue /\ g.log = k.log
      /\ \/ k.at < Len(logs[k.log]) /\ g.pc = "replay" /\ g.at = k.at + 1 /\ g.sent = Append(k.sent, logs[k.log][k.at + 1])
         \/ k.at >= Len(logs[k.log]) /\ g.pc = "stream" /\ g.at = k.at /\ g.sent = k.sent
  <2>1. CASE k.at < Len(logs[k.log])
    <3>1. PICK n : n = k.at + 1
      OBVIOUS
    <3>2. PICK s : s = Append(k.sent, logs[k.log][k.at + 1])
      OBVIOUS
    <3>3. k.at + 1 \in 1 .. Len(logs[k.log])
      BY <1>3, <2>1
    <3>4. logs[k.log][k.at + 1] \in Events
      BY <1>3, <3>3
    <3>5. n \in Nat /\ s \in Seq(Events)
      BY <1>3, <3>1, <3>2, <3>4
    <3>6. g = [k EXCEPT !.at = n, !.sent = s]
      BY <1>4, <2>1, <3>1, <3>2
    <3>7. g \in Connection /\ g.pc = k.pc /\ g.list = k.list /\ g.queue = k.queue /\ g.log = k.log /\ g.at = n /\ g.sent = s
      BY <1>3, <3>5, <3>6 DEF Connection
    <3> QED BY <1>3, <2>1, <3>1, <3>2, <3>7
  <2>2. CASE ~(k.at < Len(logs[k.log]))
    <3>1. k.at >= Len(logs[k.log])
      BY <1>3, <2>2
    <3>2. g = [k EXCEPT !.pc = "stream"]
      BY <1>4, <2>2
    <3>3. g \in Connection /\ g.pc = "stream" /\ g.list = k.list /\ g.queue = k.queue /\ g.log = k.log /\ g.at = k.at /\ g.sent = k.sent
      BY <1>3, <3>2 DEF Connection
    <3> QED BY <3>1, <3>3
  <2> QED BY <2>1, <2>2
<1>8. conn' = [conn EXCEPT ![c] = g]
  BY <1>2, <1>4 DEF Replay
<1>9. conn' \in [Clients -> Connection] /\ conn'[c] = g /\ \A d \in Clients : d # c => conn'[d] = conn[d]
  BY <1>7, <1>8
<1>10. TypeOK'
  BY <1>1, <1>9
<1>11. PublisherTypes'
  BY <1>1 DEF PublisherTypes
<1>12. ReplayTypes'
  BY <1>1, <1>2, <1>3, <1>7, <1>9 DEF ReplayTypes
<1> HIDE DEF TypeOK
<1> QED BY <1>1, <1>2, <1>7, <1>9, <1>10, <1>11, <1>12

\* remove takes out the one place of c and moves up those behind it.
LEMMA WithoutOnce ==
    ASSUME NEW list \in Seq(Clients), NEW c \in Clients, NEW k \in DOMAIN list, list[k] = c,
           \A j \in DOMAIN list : list[j] = c => j = k
    PROVE  /\ Without(list, c) \in Seq(Clients) /\ Len(Without(list, c)) = Len(list) - 1
           /\ \A j \in 1 .. Len(list) - 1 : /\ j < k => Without(list, c)[j] = list[j]
                                            /\ j >= k => Without(list, c)[j] = list[j + 1]
<1> DEFINE first(i) == list[i] = c /\ \A j \in 1 .. i - 1 : list[j] # c
           n == Len(list) - 1
           w == [j \in 1 .. n |-> list[IF j < k THEN j ELSE j + 1]]
<1>1. k \in 1 .. Len(list) /\ Len(list) \in Nat /\ n \in Nat
  OBVIOUS
<1>2. first(k)
  BY <1>1
<1>3. \A i \in DOMAIN list : first(i) => i = k
  OBVIOUS
<1>4. (CHOOSE i \in DOMAIN list : first(i)) = k
  BY <1>1, <1>2, <1>3
<1>5. Without(list, c) = w
  <2>1. \E i \in DOMAIN list : list[i] = c
    OBVIOUS
  <2> HIDE DEF first
  <2> QED BY <1>4, <2>1 DEF Without, first
<1>6. w \in [1 .. n -> Clients]
  <2>1. \A j \in 1 .. n : (IF j < k THEN j ELSE j + 1) \in 1 .. Len(list)
    BY <1>1
  <2> QED BY <2>1
<1>7. w \in Seq(Clients)
  BY <1>1, <1>6, SeqDef
<1>8. Len(w) = n
  BY <1>1, <1>6, <1>7
<1>9. \A j \in 1 .. n : /\ j < k => w[j] = list[j]
                        /\ j >= k => w[j] = list[j + 1]
  BY <1>1
<1> QED BY <1>5, <1>7, <1>8, <1>9

\* What leaving does: c goes from its list, those behind it move up, and an
\* empty list goes from the table with the log.
Left(c, k) ==
    /\ k \in DOMAIN lists[table] /\ lists[table][k] = c /\ table \in 1 .. Len(lists)
    /\ Len(lists') = Len(lists) /\ \A l \in 1 .. Len(lists) : l # table => lists'[l] = lists[l]
    /\ Len(lists'[table]) = Len(lists[table]) - 1
    /\ \A j \in 1 .. Len(lists[table]) - 1 : /\ j < k => lists'[table][j] = lists[table][j]
                                             /\ j >= k => lists'[table][j] = lists[table][j + 1]
    /\ IF Len(lists[table]) = 1 THEN table' = 0 /\ log' = 0 ELSE table' = table /\ log' = log
    /\ logs' = logs /\ pub'.pc = pub.pc /\ pub'.event = pub.event /\ pub'.list = pub.list /\ pub'.next = pub.next

LEMMA LeaveEffect ==
    ASSUME BroadcastTypes, ListsMatch, NEW c \in Clients, Connected(c), Leave(c)
    PROVE  /\ \E k \in Nat : Left(c, k)
           /\ lists' \in Seq(Seq(Clients)) /\ table' \in 0 .. Len(lists') /\ logs' \in Seq(Seq(Events))
           /\ log' \in 0 .. Len(logs') /\ pub' \in Publisher
           /\ PublisherTypes'
<1> USE DEF BroadcastTypes, TypeOK
<1>1. conn[c].list = table /\ c \in Members(table) /\ table \in 1 .. Len(lists)
  BY DEF ListsMatch
<1>2. PICK k \in DOMAIN lists[table] : lists[table][k] = c
  BY <1>1 DEF Members
<1>3. lists[table] \in Seq(Clients) /\ k \in 1 .. Len(lists[table]) /\ k \in Nat
  BY <1>1
<1>4. \A j \in DOMAIN lists[table] : lists[table][j] = c => j = k
  BY <1>1, <1>2 DEF ListsMatch
<1>5. PICK w : w = Without(lists[table], c)
  OBVIOUS
<1>6. /\ w \in Seq(Clients) /\ Len(w) = Len(lists[table]) - 1
      /\ \A j \in 1 .. Len(lists[table]) - 1 : /\ j < k => w[j] = lists[table][j]
                                               /\ j >= k => w[j] = lists[table][j + 1]
  <2> DEFINE v == Without(lists[table], c)
  <2>1. /\ v \in Seq(Clients) /\ Len(v) = Len(lists[table]) - 1
        /\ \A j \in 1 .. Len(lists[table]) - 1 : /\ j < k => v[j] = lists[table][j]
                                                 /\ j >= k => v[j] = lists[table][j + 1]
    BY <1>2, <1>3, <1>4, WithoutOnce
  <2> HIDE DEF v
  <2>2. w = v
    BY <1>5 DEF v
  <2> QED BY <2>1, <2>2
<1>7. w = <<>> <=> Len(lists[table]) = 1
  <2>1. Len(w) = 0 <=> w = <<>>
    BY <1>6, EmptySeq
  <2> QED BY <1>3, <1>6, <2>1
<1>8. lists' = [lists EXCEPT ![table] = w]
  BY <1>1, <1>5 DEF Leave
<1>9. lists' \in Seq(Seq(Clients)) /\ Len(lists') = Len(lists) /\ lists'[table] = w
      /\ \A l \in 1 .. Len(lists) : l # table => lists'[l] = lists[l]
  BY <1>1, <1>6, <1>8
<1>10. IF Len(lists[table]) = 1 THEN table' = 0 /\ log' = 0 ELSE table' = table /\ log' = log
  BY <1>1, <1>5, <1>7 DEF Leave
<1>11. pub' \in Publisher /\ pub'.pc = pub.pc /\ pub'.event = pub.event /\ pub'.list = pub.list /\ pub'.next = pub.next
  <2>1. PICK a : a = pub.audience \ {c}
    OBVIOUS
  <2>2. pub \in Publisher /\ a \in SUBSET Clients
    BY <2>1 DEF Publisher
  <2>3. pub' = [pub EXCEPT !.audience = a]
    BY <2>1 DEF Leave
  <2> QED BY <2>2, <2>3 DEF Publisher
<1>12. logs' = logs
  BY DEF Leave
<1>13. Left(c, k)
  BY <1>1, <1>2, <1>6, <1>9, <1>10, <1>11, <1>12 DEF Left
<1>14. table' \in 0 .. Len(lists') /\ log' \in 0 .. Len(logs')
  BY SMTT(40), <1>1, <1>9, <1>10, <1>12
<1>15. PublisherTypes'
  BY <1>9, <1>11 DEF PublisherTypes
<1> QED BY <1>3, <1>9, <1>11, <1>12, <1>13, <1>14, <1>15

\* A connection that is over, with what it was sent.
Closed(k, sent, at) ==
    k.pc = "out" /\ k.list = 0 /\ k.queue = <<>> /\ k.log = 0 /\ k.at = at /\ k.sent = sent

LEMMA ClosedIsTyped ==
    ASSUME BroadcastTypes, NEW sent \in Seq(Events), NEW at \in Nat, NEW c \in Clients,
           conn' = [conn EXCEPT ![c] = [NoConnection EXCEPT !.sent = sent, !.at = at]]
    PROVE  /\ conn' \in [Clients -> Connection] /\ Closed(conn'[c], sent, at)
           /\ \A d \in Clients : d # c => conn'[d] = conn[d]
<1>1. PICK g : g = [NoConnection EXCEPT !.sent = sent, !.at = at]
  OBVIOUS
<1>2. NoConnection = [pc |-> "out", list |-> 0, queue |-> <<>>, log |-> 0, at |-> 0, sent |-> <<>>]
  BY DEF NoConnection
<1>3. g = [pc |-> "out", list |-> 0, queue |-> <<>>, log |-> 0, at |-> at, sent |-> sent]
  BY <1>1, <1>2
<1>4. g \in Connection /\ Closed(g, sent, at)
  <2>1. <<>> \in Seq(Events)
    OBVIOUS
  <2> QED BY <1>3, <2>1 DEF Connection, Closed
<1>5. conn' = [conn EXCEPT ![c] = g] /\ conn \in [Clients -> Connection]
  BY <1>1 DEF BroadcastTypes, TypeOK
<1> QED BY <1>4, <1>5

LEMMA DisconnectEffect ==
    ASSUME BroadcastTypes, ListsMatch, NEW c \in Clients, Disconnect(c)
    PROVE  /\ Connected(c) /\ \E k \in Nat : Left(c, k)
           /\ Closed(conn'[c], <<>>, 0) /\ \A d \in Clients : d # c => conn'[d] = conn[d]
           /\ drops' = drops /\ leaves' = leaves + 1
           /\ BroadcastTypes'
<1>1. Connected(c) /\ Leave(c) /\ drops' = drops /\ leaves' = leaves + 1 /\ joins' = joins
  BY DEF Disconnect
<1>2. /\ \E k \in Nat : Left(c, k)
      /\ lists' \in Seq(Seq(Clients)) /\ table' \in 0 .. Len(lists') /\ logs' \in Seq(Seq(Events))
      /\ log' \in 0 .. Len(logs') /\ pub' \in Publisher
      /\ PublisherTypes'
  BY <1>1, LeaveEffect
<1>3. NoConnection \in Connection /\ Closed(NoConnection, <<>>, 0)
  BY DEF NoConnection, Connection, Closed
<1>4. conn' \in [Clients -> Connection] /\ Closed(conn'[c], <<>>, 0) /\ \A d \in Clients : d # c => conn'[d] = conn[d]
  <2>1. conn' = [conn EXCEPT ![c] = NoConnection] /\ conn \in [Clients -> Connection]
    BY DEF Disconnect, BroadcastTypes, TypeOK
  <2> QED BY <1>3, <2>1
<1>5. TypeOK'
  <2>1. drops \in Nat /\ joins \in Nat /\ leaves \in Nat
    BY DEF BroadcastTypes, TypeOK
  <2> QED BY <1>1, <1>2, <1>4, <2>1 DEF TypeOK
<1>6. ReplayTypes'
  <2>1. ReplayTypes /\ logs' = logs
    BY <1>2 DEF BroadcastTypes, Left
  <2> QED BY <1>4, <2>1 DEF ReplayTypes, Closed
<1> QED BY <1>1, <1>2, <1>4, <1>5, <1>6 DEF BroadcastTypes

LEMMA StreamEffect ==
    ASSUME BroadcastTypes, ListsMatch, NEW c \in Clients, Stream(c)
    PROVE  /\ conn[c].pc = "stream" /\ Connected(c) /\ conn[c].queue \in Seq(Events) /\ conn[c].queue # <<>>
           /\ conn[c].sent \in Seq(Events) /\ conn[c].at \in Nat
           /\ \A d \in Clients : d # c => conn'[d] = conn[d]
           /\ drops' = drops /\ leaves' = leaves
           /\ \/ /\ Head(conn[c].queue) = Terminal /\ \E k \in Nat : Left(c, k)
                 /\ Closed(conn'[c], Append(conn[c].sent, Head(conn[c].queue)), conn[c].at)
              \/ /\ Head(conn[c].queue) # Terminal
                 /\ lists' = lists /\ table' = table /\ logs' = logs /\ log' = log /\ pub' = pub
                 /\ conn'[c].pc = "stream" /\ conn'[c].list = conn[c].list /\ conn'[c].at = conn[c].at
                 /\ conn'[c].queue = Tail(conn[c].queue)
                 /\ conn'[c].sent = Append(conn[c].sent, Head(conn[c].queue))
           /\ BroadcastTypes'
<1>1. PICK k : k = conn[c]
  OBVIOUS
<1>2. k \in Connection /\ k.pc = "stream" /\ k.queue # <<>> /\ Connected(c) /\ k.queue \in Seq(Events) /\ k.sent \in Seq(Events) /\ k.at \in Nat
  BY <1>1 DEF Stream, BroadcastTypes, TypeOK, Connection, Connected
<1>3. Head(k.queue) \in Events /\ Tail(k.queue) \in Seq(Events) /\ Append(k.sent, Head(k.queue)) \in Seq(Events)
  <2>1. Head(k.queue) \in Events /\ Tail(k.queue) \in Seq(Events)
    BY <1>2
  <2> QED BY <1>2, <2>1
<1>4. drops' = drops /\ leaves' = leaves /\ joins' = joins /\ drops \in Nat /\ joins \in Nat /\ leaves \in Nat
  BY DEF Stream, BroadcastTypes, TypeOK
<1>5. PICK q \in Seq(Events) : q = Tail(k.queue)
  BY <1>3
<1>6. PICK s \in Seq(Events) : s = Append(k.sent, Head(k.queue))
  BY <1>3
<1>7. CASE Head(k.queue) = Terminal
  <2>1. Leave(c)
    BY <1>1, <1>7 DEF Stream
  <2>2. conn' = [conn EXCEPT ![c] = [NoConnection EXCEPT !.sent = s, !.at = k.at]]
    <3>1. [k EXCEPT !.queue = Tail(@), !.sent = Append(@, Head(k.queue))].sent = s
      BY <1>2, <1>6 DEF Connection
    <3> QED BY <1>1, <1>7, <3>1 DEF Stream
  <2>3. /\ \E i \in Nat : Left(c, i)
        /\ lists' \in Seq(Seq(Clients)) /\ table' \in 0 .. Len(lists') /\ logs' \in Seq(Seq(Events))
        /\ log' \in 0 .. Len(logs') /\ pub' \in Publisher
        /\ PublisherTypes'
    BY <1>2, <2>1, LeaveEffect
  <2>4. conn' \in [Clients -> Connection] /\ Closed(conn'[c], s, k.at) /\ \A d \in Clients : d # c => conn'[d] = conn[d]
    BY <1>2, <1>6, <2>2, ClosedIsTyped
  <2>5. TypeOK'
    BY <1>4, <2>3, <2>4 DEF TypeOK
  <2>6. ReplayTypes'
    <3>1. ReplayTypes /\ logs' = logs
      BY <2>3 DEF BroadcastTypes, Left
    <3> QED BY <2>4, <3>1 DEF ReplayTypes, Closed
  <2> QED BY <1>1, <1>2, <1>4, <1>6, <1>7, <2>3, <2>4, <2>5, <2>6 DEF BroadcastTypes
<1>8. CASE Head(k.queue) # Terminal
  <2>1. lists' = lists /\ table' = table /\ logs' = logs /\ log' = log /\ pub' = pub
    BY <1>1, <1>8 DEF Stream, book
  <2>2. PICK g : g = [k EXCEPT !.queue = q, !.sent = s]
    OBVIOUS
  <2>3. conn' = [conn EXCEPT ![c] = g]
    BY <1>1, <1>2, <1>5, <1>6, <1>8, <2>2 DEF Stream, Connection
  <2>4. g \in Connection /\ g.pc = "stream" /\ g.list = k.list /\ g.at = k.at /\ g.queue = q /\ g.sent = s
    BY <1>2, <2>2 DEF Connection
  <2>5. conn' \in [Clients -> Connection] /\ conn'[c] = g /\ \A d \in Clients : d # c => conn'[d] = conn[d]
    BY <2>3, <2>4 DEF BroadcastTypes, TypeOK
  <2>6. TypeOK'
    BY <1>4, <2>1, <2>5 DEF TypeOK, BroadcastTypes
  <2>7. PublisherTypes' /\ ReplayTypes'
    <3>1. PublisherTypes /\ ReplayTypes
      BY DEF BroadcastTypes
    <3>2. ReplayTypes'
      BY <2>1, <2>4, <2>5, <3>1 DEF ReplayTypes
    <3> QED BY <2>1, <3>1, <3>2 DEF PublisherTypes
  <2> QED BY <1>1, <1>2, <1>4, <1>5, <1>6, <1>8, <2>1, <2>4, <2>5, <2>6, <2>7 DEF BroadcastTypes
<1> QED BY <1>7, <1>8

-----------------------------------------------------------------------------
(* The subscriber lists.                                                    *)

LEMMA ListsSame ==
    ASSUME ListsMatch, lists' = lists, table' = table,
           \A c \in Clients : conn'[c].list = conn[c].list /\ (conn'[c].pc = "out" <=> conn[c].pc = "out"),
           BroadcastTypes
    PROVE  ListsMatch'
<1>1. \A l \in DOMAIN lists : \A i \in DOMAIN lists[l] : lists[l][i] \in Clients
  BY DEF BroadcastTypes, TypeOK
<1> QED BY <1>1 DEF ListsMatch, Connected, Members

LEMMA LookupLists ==
    ASSUME BroadcastTypes, ListsMatch, Lookup
    PROVE  ListsMatch'
<1>1. lists' = ListsWithKey /\ table' = ListOfKey /\ conn' = conn
  BY LookupEffect
<1>2. CASE table # 0
  BY <1>1, <1>2, ListOfKeyMade, ListsSame
<1>3. CASE table = 0
  <2>1. \A c \in Clients : ~Connected(c)
    BY <1>3 DEF ListsMatch
  <2>2. \A l \in DOMAIN lists : DOMAIN lists[l] = {}
    <3>1. \A l \in DOMAIN lists : \A i \in DOMAIN lists[l] : lists[l][i] \in Clients /\ Connected(lists[l][i])
      BY DEF ListsMatch, BroadcastTypes, TypeOK
    <3> QED BY <2>1, <3>1
  <2>3. \A l \in DOMAIN lists' : DOMAIN lists'[l] = {}
    <3>1. lists \in Seq(Seq(Clients)) /\ ListsWithKey \in Seq(Seq(Clients)) /\ DOMAIN <<>> = {}
      BY ListOfKeyMade DEF BroadcastTypes, TypeOK
    <3>2. \A l \in 1 .. Len(lists) + 1 : l \in 1 .. Len(lists) \/ l = Len(lists) + 1
      BY <3>1
    <3>3. Len(ListsWithKey) = Len(lists) + 1 /\ ListsWithKey[Len(lists) + 1] = <<>> /\ \A l \in 1 .. Len(lists) : ListsWithKey[l] = lists[l]
      BY <1>3, ListOfKeyMade
    <3>4. ASSUME NEW l \in 1 .. Len(lists) + 1 PROVE DOMAIN ListsWithKey[l] = {}
      <4>1. CASE l \in 1 .. Len(lists)
        <5>1. DOMAIN lists = 1 .. Len(lists)
          BY <3>1
        <5>2. ListsWithKey[l] = lists[l]
          BY <3>3, <4>1
        <5> QED BY <2>2, <4>1, <5>1, <5>2
      <4>2. CASE l = Len(lists) + 1
        BY <3>1, <3>3, <4>2
      <4> QED BY <3>2, <4>1, <4>2
    <3>5. DOMAIN ListsWithKey = 1 .. Len(lists) + 1
      BY <2>2, <2>3, <3>1, <3>3
    <3> QED BY <1>1, <3>4, <3>5
  <2> QED BY <1>1, <2>1, <2>3 DEF ListsMatch, Connected
<1> QED BY <1>2, <1>3

LEMMA JoinLists ==
    ASSUME BroadcastTypes, ListsMatch, NEW c \in Clients, Join(c)
    PROVE  ListsMatch'
<1> DEFINE L == ListOfKey
           W == ListsWithKey[L]
<1>1. /\ W \in Seq(Clients) /\ L \in 1 .. Len(ListsWithKey) /\ ListsWithKey \in Seq(Seq(Clients))
      /\ lists' \in Seq(Seq(Clients)) /\ Len(lists') = Len(ListsWithKey)
  BY SMTT(40), ListOfKeyMade, JoinEffect DEF BroadcastTypes, TypeOK
<1>2. /\ \A i \in 1 .. Len(W) : /\ W[i] \in Clients /\ Connected(W[i]) /\ conn[W[i]].list = L
                               /\ \A j \in 1 .. Len(W) : W[i] = W[j] => i = j
      /\ \A l \in 1 .. Len(ListsWithKey) : l # L => ListsWithKey[l] = <<>>
  <2>1. \A l \in 1 .. Len(lists) : l # table => lists[l] = <<>>
    <3> SUFFICES ASSUME NEW l \in 1 .. Len(lists), l # table, lists[l] # <<>> PROVE FALSE
      OBVIOUS
    <3>1. lists[l] \in Seq(Clients) /\ Len(lists[l]) # 0 /\ 1 \in DOMAIN lists[l] /\ lists[l][1] \in Clients
      BY EmptySeq DEF BroadcastTypes, TypeOK
    <3> QED BY <3>1 DEF ListsMatch
  <2>2. CASE table = 0
    <3>1. Len(lists) \in Nat /\ DOMAIN <<>> = {}
      BY DEF BroadcastTypes, TypeOK
    <3>2. \A l \in 1 .. Len(lists) + 1 : l \in 1 .. Len(lists) \/ l = Len(lists) + 1
      BY <3>1
    <3>3. W = <<>> /\ Len(ListsWithKey) = Len(lists) + 1 /\ L = Len(lists) + 1
      BY <2>2, ListOfKeyMade
    <3>4. \A l \in 1 .. Len(lists) : l # table /\ ListsWithKey[l] = lists[l]
      BY <2>2, ListOfKeyMade
    <3>5. 1 .. Len(W) = {}
      BY <3>3
    <3>6. \A l \in 1 .. Len(ListsWithKey) : l # L => ListsWithKey[l] = <<>>
      BY <2>1, <3>2, <3>3, <3>4
    <3> QED BY <3>5, <3>6
  <2>3. CASE table # 0
    <3>1. W = lists[table] /\ L = table /\ table \in DOMAIN lists /\ ListsWithKey = lists
      BY <1>1, <2>3, ListOfKeyMade
    <3> QED BY <1>1, <2>1, <3>1 DEF ListsMatch
  <2> QED BY <2>2, <2>3
<1>3. \A d \in Clients : Connected(d) => conn[d].list = L /\ \E i \in 1 .. Len(W) : W[i] = d
  <2> SUFFICES ASSUME NEW d \in Clients, Connected(d)
               PROVE  conn[d].list = L /\ \E i \in 1 .. Len(W) : W[i] = d
    OBVIOUS
  <2>1. conn[d].list = table /\ d \in Members(table) /\ table # 0
    BY DEF ListsMatch
  <2>2. L = table /\ ListsWithKey = lists
    BY <2>1, ListOfKeyMade
  <2> QED BY <1>1, <2>1, <2>2 DEF Members
<1>4. /\ table' = L /\ lists'[L] = Append(W, c) /\ conn[c].pc = "out"
      /\ conn'[c].pc = "hello" /\ conn'[c].list = L
      /\ \A d \in Clients : d # c => conn'[d] = conn[d]
      /\ \A l \in 1 .. Len(ListsWithKey) : l # L => lists'[l] = ListsWithKey[l]
  BY JoinEffect
<1> HIDE DEF L, W
<1>5. /\ Len(lists'[L]) = Len(W) + 1 /\ lists'[L][Len(W) + 1] = c /\ lists'[L] \in Seq(Clients)
      /\ \A i \in 1 .. Len(W) : lists'[L][i] = W[i]
  BY <1>1, <1>4
<1>6. /\ \A i \in 1 .. Len(W) + 1 : /\ conn'[lists'[L][i]].pc # "out" /\ conn'[lists'[L][i]].list = L
                                   /\ \A j \in 1 .. Len(W) + 1 : lists'[L][i] = lists'[L][j] => i = j
  <2>1. \A i \in 1 .. Len(W) : W[i] # c
    BY <1>2, <1>4 DEF Connected
  <2>2. \A i \in 1 .. Len(W) + 1 : i \in 1 .. Len(W) \/ i = Len(W) + 1
    BY <1>1
  <2>3. \A i \in 1 .. Len(W) : conn'[W[i]].pc # "out" /\ conn'[W[i]].list = L
    BY <1>2, <1>4, <2>1 DEF Connected
  <2>4. conn'[c].pc # "out" /\ conn'[c].list = L
    BY <1>4 DEF Connected
  <2> QED BY <1>2, <1>5, <2>1, <2>2, <2>3, <2>4
<1>7. \A d \in Clients : Connected(d)' => conn'[d].list = L /\ \E i \in 1 .. Len(W) + 1 : lists'[L][i] = d
  <2>1. \A i \in 1 .. Len(W) : i \in 1 .. Len(W) + 1
    BY <1>1
  <2>2. Len(W) + 1 \in 1 .. Len(W) + 1
    BY <1>1
  <2> QED BY <1>3, <1>4, <1>5, <2>1, <2>2 DEF Connected
<1>8. \A l \in 1 .. Len(lists') : l # L => DOMAIN lists'[l] = {}
  <2>1. DOMAIN <<>> = {}
    OBVIOUS
  <2> QED BY <1>1, <1>2, <1>4, <2>1
<1>9. DOMAIN lists' = 1 .. Len(lists') /\ DOMAIN lists'[L] = 1 .. Len(W) + 1 /\ L # 0
  BY <1>1, <1>5
<1>10. \A d \in Clients : Connected(d)' => conn'[d].list = table' /\ d \in Members(table)' /\ table' # 0
  BY <1>4, <1>7, <1>9 DEF Members
<1>11. \A l \in DOMAIN lists' : \A i \in DOMAIN lists'[l] :
           /\ conn'[lists'[l][i]].pc # "out" /\ conn'[lists'[l][i]].list = l
           /\ \A j \in DOMAIN lists'[l] : lists'[l][i] = lists'[l][j] => i = j
  BY <1>6, <1>8, <1>9
<1> QED BY <1>10, <1>11 DEF ListsMatch, Connected

\* A client that leaves is in no list any more, the others stay where they are.
LEMMA LeaveLists ==
    ASSUME BroadcastTypes, BroadcastTypes', ListsMatch, NEW c \in Clients, NEW k \in Nat, Left(c, k),
           conn'[c].pc = "out", \A d \in Clients : d # c => conn'[d] = conn[d]
    PROVE  ListsMatch'
<1>0. PICK L : L = table
  OBVIOUS
<1>1. PICK W : W = lists[L]
  OBVIOUS
<1>2. PICK n : n = Len(W)
  OBVIOUS
<1>3. /\ W \in Seq(Clients) /\ L \in 1 .. Len(lists) /\ n \in Nat /\ k \in 1 .. n /\ W[k] = c
      /\ Len(lists') = Len(lists) /\ lists' \in Seq(Seq(Clients)) /\ lists \in Seq(Seq(Clients))
      /\ \A l \in 1 .. Len(lists) : l # L => lists'[l] = lists[l]
      /\ Len(lists'[L]) = n - 1 /\ lists'[L] \in Seq(Clients)
      /\ \A j \in 1 .. n - 1 : (j < k => lists'[L][j] = W[j]) /\ (j >= k => lists'[L][j] = W[j + 1])
      /\ n # 1 => table' = L
  <2>1. L \in 1 .. Len(lists) /\ lists' \in Seq(Seq(Clients)) /\ lists \in Seq(Seq(Clients)) /\ Len(lists') = Len(lists)
    BY <1>0 DEF Left, BroadcastTypes, TypeOK
  <2>2. W \in Seq(Clients) /\ lists'[L] \in Seq(Clients)
    BY <1>1, <2>1
  <2>3. k \in 1 .. n /\ W[k] = c /\ n \in Nat
    BY <1>0, <1>1, <1>2, <2>2 DEF Left
  <2>4. \A l \in 1 .. Len(lists) : l # L => lists'[l] = lists[l]
    BY <1>0 DEF Left
  <2>5. Len(lists'[L]) = n - 1 /\ (n # 1 => table' = L)
    <3>1. Len(lists'[table]) = Len(lists[table]) - 1
      BY DEF Left
    <3>2. Len(lists[table]) # 1 => table' = table
      BY DEF Left
    <3>3. Len(lists'[L]) = n - 1
      BY <1>0, <1>1, <1>2, <3>1
    <3> QED BY <1>0, <1>1, <1>2, <3>2, <3>3
  <2>6. \A j \in 1 .. n - 1 : (j < k => lists'[L][j] = W[j]) /\ (j >= k => lists'[L][j] = W[j + 1])
    BY <1>0, <1>1, <1>2 DEF Left
  <2> QED BY <2>1, <2>2, <2>3, <2>4, <2>5, <2>6
<1>4. /\ \A i \in 1 .. n : /\ W[i] \in Clients /\ Connected(W[i]) /\ conn[W[i]].list = L
                           /\ \A j \in 1 .. n : W[i] = W[j] => i = j
      /\ \A d \in Clients : Connected(d) => conn[d].list = L /\ \E i \in 1 .. n : W[i] = d
  <2>1. DOMAIN lists = 1 .. Len(lists) /\ DOMAIN W = 1 .. n
    BY <1>2, <1>3
  <2>2. \A i \in DOMAIN lists[L] : /\ Connected(lists[L][i]) /\ conn[lists[L][i]].list = L
                                  /\ \A j \in DOMAIN lists[L] : lists[L][i] = lists[L][j] => i = j
    BY <1>3, <2>1 DEF ListsMatch
  <2>3. \A i \in 1 .. n : W[i] \in Clients
    BY <1>2, <1>3
  <2>4. ASSUME NEW d \in Clients, Connected(d)
        PROVE  conn[d].list = L /\ \E i \in 1 .. n : W[i] = d
    <3>1. conn[d].list = table /\ d \in Members(table)
      BY <2>4 DEF ListsMatch
    <3> QED BY <1>0, <1>1, <2>1, <3>1 DEF Members
  <2> QED BY <1>1, <2>1, <2>2, <2>3, <2>4
<1>5. \A l \in 1 .. Len(lists) : l # L => DOMAIN lists'[l] = {}
  <2>1. \A l \in 1 .. Len(lists) : \A i \in DOMAIN lists[l] : lists[l][i] \in Clients /\ Connected(lists[l][i]) /\ conn[lists[l][i]].list = l
    <3>1. DOMAIN lists = 1 .. Len(lists) /\ \A l \in 1 .. Len(lists) : \A i \in DOMAIN lists[l] : lists[l][i] \in Clients
      BY <1>3
    <3> QED BY <3>1 DEF ListsMatch
  <2>2. ASSUME NEW l \in 1 .. Len(lists), l # L, NEW i \in DOMAIN lists[l] PROVE FALSE
    <3>1. lists[l][i] \in Clients /\ Connected(lists[l][i]) /\ conn[lists[l][i]].list = l
      BY <2>1
    <3> QED BY <1>4, <2>2, <3>1
  <2> QED BY <1>3, <2>2
<1>6. ASSUME NEW j \in 1 .. n - 1
      PROVE  /\ lists'[L][j] \in Clients /\ lists'[L][j] # c
             /\ conn'[lists'[L][j]].pc # "out" /\ conn'[lists'[L][j]].list = L
  <2>1. PICK i \in 1 .. n : i # k /\ lists'[L][j] = W[i]
    <3>1. CASE j < k
      BY SMTT(40), <1>3, <3>1
    <3>2. CASE j >= k
      <4>1. j + 1 \in 1 .. n /\ j + 1 # k
        BY <1>3, <3>2
      <4> QED BY <1>3, <3>2, <4>1
    <3> QED BY <1>3, <3>1, <3>2
  <2>2. W[i] # c /\ W[i] \in Clients
    BY <1>3, <1>4, <2>1
  <2> QED BY <1>4, <2>1, <2>2 DEF Connected
<1>7. ASSUME NEW i \in 1 .. n - 1, NEW j \in 1 .. n - 1, lists'[L][i] = lists'[L][j]
      PROVE  i = j
  <2>1. i \in 1 .. n /\ j \in 1 .. n /\ i + 1 \in 1 .. n /\ j + 1 \in 1 .. n /\ i \in Nat /\ j \in Nat /\ k \in Nat
    BY <1>3
  <2>2. CASE i < k /\ j < k
    BY <1>3, <1>4, <1>7, <2>1, <2>2
  <2>3. CASE i < k /\ j >= k
    <3>0. W[i] = W[j + 1]
      BY <1>3, <1>7, <2>3
    <3>1. i = j + 1
      BY <1>4, <2>1, <3>0
    <3> QED BY <2>1, <2>3, <3>1
  <2>4. CASE i >= k /\ j < k
    <3>0. W[i + 1] = W[j]
      BY <1>3, <1>7, <2>4
    <3>1. i + 1 = j
      BY <1>4, <2>1, <3>0
    <3> QED BY <2>1, <2>4, <3>1
  <2>5. CASE i >= k /\ j >= k
    <3>0. W[i + 1] = W[j + 1]
      BY <1>3, <1>7, <2>5
    <3>1. i + 1 = j + 1
      BY <1>4, <2>1, <3>0
    <3> QED BY <2>1, <3>1
  <2> QED BY <2>1, <2>2, <2>3, <2>4, <2>5
<1>8. ASSUME NEW d \in Clients, Connected(d)'
      PROVE  conn'[d].list = L /\ table' = L /\ \E j \in 1 .. n - 1 : lists'[L][j] = d
  <2>1. d # c /\ Connected(d) /\ conn'[d] = conn[d]
    BY <1>8 DEF Connected
  <2>2. PICK i \in 1 .. n : W[i] = d
    BY <1>4, <2>1
  <2>3. i # k /\ n # 1 /\ i \in Nat
    BY <1>3, <2>1, <2>2
  <2>4. \E j \in 1 .. n - 1 : lists'[L][j] = d
    <3>1. CASE i < k
      <4>1. i \in 1 .. n - 1
        BY <1>3, <3>1
      <4> QED BY <1>3, <2>2, <3>1, <4>1
    <3>2. CASE i > k
      <4>1. i - 1 \in 1 .. n - 1 /\ i - 1 >= k /\ (i - 1) + 1 = i
        BY <1>3, <3>2
      <4>2. PICK j \in 1 .. n - 1 : j >= k /\ j + 1 = i
        BY <4>1
      <4> QED BY <1>3, <2>2, <4>2
    <3> QED BY <1>3, <2>3, <3>1, <3>2
  <2> QED BY <1>3, <1>4, <2>1, <2>3, <2>4
<1>9. DOMAIN lists' = 1 .. Len(lists) /\ DOMAIN lists'[L] = 1 .. n - 1 /\ L # 0
  BY <1>3
<1>10. \A d \in Clients : Connected(d)' => conn'[d].list = table' /\ d \in Members(table)' /\ table' # 0
  BY <1>8, <1>9 DEF Members
<1>11. \A l \in DOMAIN lists' : \A i \in DOMAIN lists'[l] :
           /\ conn'[lists'[l][i]].pc # "out" /\ conn'[lists'[l][i]].list = l
           /\ \A j \in DOMAIN lists'[l] : lists'[l][i] = lists'[l][j] => i = j
  BY <1>5, <1>6, <1>7, <1>9
<1> QED BY <1>10, <1>11 DEF ListsMatch, Connected

-----------------------------------------------------------------------------
(* Who is still owed the event that is being handed out.                    *)

LEMMA RecordOwes ==
    ASSUME BroadcastTypes, Record, NEW c \in Clients
    PROVE  ~Owed(c) /\ Owed(c)'
BY RecordEffect DEF Owed

LEMMA LookupOwes ==
    ASSUME BroadcastTypes, ListsMatch, Lookup, NEW c \in Clients
    PROVE  Owed(c) /\ (Connected(c) => Owed(c)')
<1>1. Owed(c)
  BY LookupEffect DEF Owed
<1>2. ASSUME Connected(c) PROVE Owed(c)'
  <2>1. lists' = lists /\ table' = table /\ table \in DOMAIN lists /\ c \in Members(table) /\ pub'.list = table /\ pub'.pc = "push" /\ pub'.next = 1
    BY SMTT(40), <1>2, ListOfKeyMade, LookupEffect DEF ListsMatch, BroadcastTypes, TypeOK
  <2>2. PICK i \in DOMAIN lists[table] : lists[table][i] = c
    BY <2>1 DEF Members
  <2>3. i >= 1
    BY <2>1, <2>2 DEF BroadcastTypes, TypeOK
  <2> QED BY <2>1, <2>2, <2>3 DEF Owed
<1> QED BY <1>1, <1>2

LEMMA PushOwes ==
    ASSUME BroadcastTypes, ListsMatch, Push, NEW c \in Clients
    PROVE  IF c = lists[pub.list][pub.next] THEN Owed(c) /\ ~Owed(c)' ELSE Owed(c)' <=> Owed(c)
<1>1. /\ pub.pc = "push" /\ pub'.pc = "push" /\ pub'.list = pub.list /\ pub'.next = pub.next + 1 /\ lists' = lists
      /\ pub.next \in DOMAIN lists[pub.list]
  BY PushEffect
<1>2. pub.list \in DOMAIN lists /\ DOMAIN lists[pub.list] = 1 .. Len(lists[pub.list]) /\ Len(lists[pub.list]) \in Nat /\ pub.next \in Nat
  BY <1>1 DEF BroadcastTypes, TypeOK, PublisherTypes, Publisher
<1>3. \A i \in DOMAIN lists[pub.list] : lists[pub.list][i] = lists[pub.list][pub.next] => i = pub.next
  BY <1>1, <1>2 DEF ListsMatch
<1>4. \A i \in DOMAIN lists[pub.list] : i >= pub.next <=> i = pub.next \/ i >= pub.next + 1
  BY <1>2
<1>5. pub.next >= pub.next /\ ~(pub.next >= pub.next + 1)
  BY <1>2
<1> QED BY <1>1, <1>3, <1>4, <1>5 DEF Owed

LEMMA PublishedOwes ==
    ASSUME BroadcastTypes, Published, NEW c \in Clients
    PROVE  ~Owed(c) /\ ~Owed(c)'
<1>1. pub.pc = "push" /\ pub.next > Len(lists[pub.list]) /\ pub'.pc = "idle"
  BY PublishedEffect
<1>2. DOMAIN lists[pub.list] = 1 .. Len(lists[pub.list]) /\ Len(lists[pub.list]) \in Nat /\ pub.next \in Nat
  BY <1>1 DEF BroadcastTypes, TypeOK, PublisherTypes, Publisher
<1>3. \A i \in DOMAIN lists[pub.list] : ~(i >= pub.next)
  BY <1>1, <1>2
<1> QED BY <1>1, <1>3 DEF Owed

LEMMA JoinOwes ==
    ASSUME BroadcastTypes, NEW c \in Clients, Join(c), NEW d \in Clients, d # c
    PROVE  Owed(d)' <=> Owed(d)
<1>1. /\ pub' = pub /\ lists'[ListOfKey] = Append(ListsWithKey[ListOfKey], c)
      /\ \A l \in 1 .. Len(ListsWithKey) : l # ListOfKey => lists'[l] = ListsWithKey[l]
  BY JoinEffect
<1>2. CASE pub.pc # "push"
  BY <1>1, <1>2 DEF Owed
<1>3. CASE pub.pc = "push"
  <2>1. PICK l : l = pub.list
    OBVIOUS
  <2>2. l \in 1 .. Len(lists) /\ lists[l] \in Seq(Clients) /\ l \in 1 .. Len(ListsWithKey) /\ ListsWithKey[l] = lists[l] /\ Len(lists) \in Nat
    BY <1>3, <2>1, ListOfKeyMade DEF BroadcastTypes, TypeOK, PublisherTypes
  <2>3. CASE l # ListOfKey
    BY <1>1, <2>1, <2>2, <2>3 DEF Owed
  <2>4. CASE l = ListOfKey
    <3>1. lists'[l] = Append(lists[l], c)
      BY <1>1, <2>2, <2>4
    <3>2. /\ DOMAIN lists[l] = 1 .. Len(lists[l]) /\ DOMAIN lists'[l] = 1 .. Len(lists[l]) + 1 /\ Len(lists[l]) \in Nat
          /\ lists'[l][Len(lists[l]) + 1] = c /\ \A i \in 1 .. Len(lists[l]) : lists'[l][i] = lists[l][i]
      BY <2>2, <3>1
    <3>3. \A i \in 1 .. Len(lists[l]) + 1 : i \in 1 .. Len(lists[l]) \/ i = Len(lists[l]) + 1
      BY <3>2
    <3>4. \A i \in 1 .. Len(lists[l]) : i \in 1 .. Len(lists[l]) + 1
      BY <3>2
    <3> QED BY <1>1, <1>3, <2>1, <3>2, <3>3, <3>4 DEF Owed
  <2> QED BY <2>3, <2>4
<1> QED BY <1>2, <1>3

LEMMA LeaveOwes ==
    ASSUME BroadcastTypes, BroadcastTypes', NEW c \in Clients, NEW k \in Nat, Left(c, k), NEW d \in Clients, Owed(d)'
    PROVE  Owed(d)
<1>1. pub'.pc = pub.pc /\ pub'.list = pub.list /\ pub'.next = pub.next
  BY DEF Left
<1>2. CASE pub.pc = "lookup"
  BY <1>2 DEF Owed
<1>3. CASE pub.pc = "push" /\ pub.list # table
  <2>1. pub.list \in 1 .. Len(lists)
    BY <1>3 DEF BroadcastTypes, PublisherTypes
  <2>2. lists'[pub.list] = lists[pub.list]
    BY <1>3, <2>1 DEF Left
  <2> QED BY <1>1, <1>3, <2>2 DEF Owed
<1>4. CASE pub.pc = "push" /\ pub.list = table
  <2>1. PICK W : W = lists[table]
    OBVIOUS
  <2>2. /\ W \in Seq(Clients) /\ lists'[table] \in Seq(Clients) /\ Len(lists'[table]) = Len(W) - 1 /\ pub.next \in Nat
        /\ \A j \in 1 .. Len(W) - 1 : /\ j < k => lists'[table][j] = W[j]
                                      /\ j >= k => lists'[table][j] = W[j + 1]
    <3>1. table \in 1 .. Len(lists) /\ Len(lists') = Len(lists)
      BY DEF Left
    <3>2. lists'[table] \in Seq(Clients) /\ W \in Seq(Clients)
      BY SMTT(40), <2>1, <3>1 DEF BroadcastTypes, TypeOK
    <3> QED BY <2>1, <3>2 DEF Left, BroadcastTypes, TypeOK, Publisher
  <2>3. PICK j \in DOMAIN lists'[table] : j >= pub.next /\ lists'[table][j] = d
    BY <1>1, <1>4 DEF Owed
  <2>4. j \in 1 .. Len(W) - 1 /\ j \in 1 .. Len(W) /\ j + 1 \in 1 .. Len(W) /\ j + 1 >= pub.next
    BY SMTT(40), <2>2, <2>3
  <2>5. PICK i \in 1 .. Len(W) : i >= pub.next /\ W[i] = d
    <3>1. CASE j < k
      BY <2>2, <2>3, <2>4, <3>1
    <3>2. CASE j >= k
      BY <2>2, <2>3, <2>4, <3>2
    <3> QED BY <2>4, <3>1, <3>2
  <2>6. DOMAIN W = 1 .. Len(W)
    BY <2>2
  <2> QED BY <1>4, <2>1, <2>5, <2>6 DEF Owed
<1>5. pub.pc \in {"lookup", "push"}
  BY <1>1 DEF Owed
<1> QED BY <1>2, <1>3, <1>4, <1>5

LEMMA SameOwes ==
    ASSUME pub' = pub, lists' = lists, NEW c \in Clients
    PROVE  Owed(c)' <=> Owed(c)
BY DEF Owed

-----------------------------------------------------------------------------
(* The order of what a client is streamed.                                  *)

LEMMA LimitTyped ==
    ASSUME BroadcastTypes, NEW c \in Clients
    PROVE  Limit(c) \in Nat /\ pub.event \in Nat
<1>1. pub.event \in Nat /\ (pub.pc # "idle" => pub.event # 0)
  BY DEF BroadcastTypes, TypeOK, PublisherTypes, Publisher
<1>2. Owed(c) => pub.pc # "idle"
  BY DEF Owed
<1> QED BY <1>1, <1>2 DEF Limit

LEMMA RisingLonger ==
    ASSUME NEW k \in Connection, NEW b \in Nat, NEW b2 \in Nat, b <= b2, Rising(k, b)
    PROVE  Rising(k, b2)
<1>1. \A i \in Live(k) : i \in DOMAIN k.sent /\ k.sent[i] \in Nat
  <2>1. k.at \in Nat /\ k.sent \in Seq(Events) /\ \A e \in Events : e \in Nat
    BY Terminals DEF Connection, Events
  <2> QED BY <2>1 DEF Live
<1>2. \A j \in DOMAIN k.queue : k.queue[j] \in Nat
  BY Terminals DEF Connection, Events
<1>3. k.pc # "out" => /\ \A i \in Live(k) : k.sent[i] <= b2
                      /\ \A j \in DOMAIN k.queue : k.queue[j] <= b2
  BY <1>1, <1>2 DEF Rising
<1> QED BY <1>3 DEF Rising

LEMMA OrderKept ==
    ASSUME BroadcastTypes, BroadcastTypes', InOrder, NEW c \in Clients, conn'[c] = conn[c], pub'.event = pub.event,
           Owed(c)' => Owed(c)
    PROVE  Rising(conn[c], Limit(c))'
<1>1. conn[c] \in Connection /\ Rising(conn[c], Limit(c))
  BY DEF InOrder, BroadcastTypes, TypeOK
<1>2. Limit(c) \in Nat /\ Limit(c)' \in Nat /\ pub.event \in Nat
  <2>1. pub'.event \in Nat /\ (pub'.pc # "idle" => pub'.event # 0)
    BY DEF BroadcastTypes, TypeOK, PublisherTypes, Publisher
  <2>2. Owed(c)' => pub'.pc # "idle"
    BY DEF Owed
  <2>3. Limit(c)' \in Nat
    BY <2>1, <2>2 DEF Limit
  <2> QED BY LimitTyped, <2>3
<1>3. Limit(c) <= Limit(c)'
  BY <1>2 DEF Limit
<1>4. Rising(conn[c], Limit(c)')
  BY <1>1, <1>2, <1>3, RisingLonger
<1> QED BY <1>4 DEF Rising, Live

LEMMA RecordOrder ==
    ASSUME BroadcastTypes, InOrder, Record
    PROVE  InOrder'
<1> SUFFICES ASSUME NEW c \in Clients PROVE Rising(conn[c], Limit(c))'
  BY DEF InOrder
<1>1. conn' = conn /\ pub'.event = pub.event + 1 /\ BroadcastTypes' /\ pub.event \in Nat
  BY RecordEffect, LimitTyped
<1>2. Limit(c)' = Limit(c)
  BY <1>1, RecordOwes DEF Limit
<1> QED BY <1>1, <1>2 DEF InOrder, Rising, Live

LEMMA PushOrder ==
    ASSUME BroadcastTypes, ListsMatch, InOrder, Push
    PROVE  InOrder'
<1> SUFFICES ASSUME NEW c \in Clients PROVE Rising(conn[c], Limit(c))'
  BY DEF InOrder
<1>1. /\ pub'.event = pub.event /\ BroadcastTypes' /\ SameButQueue(conn'[c], conn[c])
      /\ c # lists[pub.list][pub.next] => conn'[c] = conn[c]
      /\ \/ drops' = drops /\ conn'[lists[pub.list][pub.next]].queue = Append(conn[lists[pub.list][pub.next]].queue, pub.event)
         \/ drops' = drops + 1 /\ conn' = conn
  BY PushEffect
<1>2. CASE conn'[c] = conn[c]
  BY <1>1, <1>2, PushOwes, OrderKept
<1>3. CASE c = lists[pub.list][pub.next] /\ conn'[c].queue = Append(conn[c].queue, pub.event)
  <2>1. PICK k : k = conn[c]
    OBVIOUS
  <2>2. PICK m : m = conn'[c]
    OBVIOUS
  <2>3. PICK e : e = pub.event
    OBVIOUS
  <2>4. /\ k.queue \in Seq(Events) /\ k.sent \in Seq(Events) /\ k.at \in Nat /\ e \in Events /\ \A f \in Events : f \in Nat
        /\ e \in Nat /\ e - 1 \in Nat
    <3>1. e \in Events
      <4>1. pub.pc = "push"
        BY PushEffect
      <4> QED BY <2>3, <4>1, Terminals DEF BroadcastTypes, TypeOK, PublisherTypes, Publisher, Events
    <3> QED BY <2>1, <3>1, Terminals DEF BroadcastTypes, TypeOK, Connection, Events
  <2>5. Limit(c) = e - 1 /\ Limit(c)' = e
    BY <1>1, <1>3, <2>3, PushOwes DEF Limit
  <2>6. Rising(k, e - 1)
    BY <2>1, <2>5 DEF InOrder
  <2>7. m.pc = k.pc /\ m.at = k.at /\ m.sent = k.sent /\ m.queue = Append(k.queue, e)
    BY <1>1, <1>3, <2>1, <2>2, <2>3 DEF SameButQueue
  <2>8. /\ DOMAIN k.queue = 1 .. Len(k.queue) /\ DOMAIN m.queue = 1 .. Len(k.queue) + 1 /\ Len(k.queue) \in Nat
        /\ m.queue[Len(k.queue) + 1] = e /\ \A i \in 1 .. Len(k.queue) : m.queue[i] = k.queue[i] /\ m.queue[i] \in Nat
    <3>1. Len(k.queue) \in Nat /\ DOMAIN k.queue = 1 .. Len(k.queue) /\ \A i \in 1 .. Len(k.queue) : k.queue[i] \in Nat
      <4>1. k.queue \in Seq(Events) /\ \A f \in Events : f \in Nat
        BY <2>4
      <4> QED BY <4>1, ElementOfSeq, LenProperties
    <3>2. /\ DOMAIN Append(k.queue, e) = 1 .. Len(k.queue) + 1 /\ Append(k.queue, e)[Len(k.queue) + 1] = e
          /\ \A i \in 1 .. Len(k.queue) : Append(k.queue, e)[i] = k.queue[i]
      <4>1. PICK q \in Seq(Events) : q = k.queue
        BY <2>4
      <4>2. e \in Events
        BY <2>4
      <4>3. /\ DOMAIN Append(q, e) = 1 .. Len(q) + 1 /\ Append(q, e)[Len(q) + 1] = e
            /\ \A i \in 1 .. Len(q) : Append(q, e)[i] = q[i]
        BY <4>2
      <4> QED BY <4>1, <4>3
    <3> QED BY <2>7, <3>1, <3>2
  <2>9. \A i \in 1 .. Len(k.queue) + 1 : i \in 1 .. Len(k.queue) \/ i = Len(k.queue) + 1
    BY <2>8
  <2>10. \A i \in Live(k) : k.sent[i] \in Nat
    <3>1. Len(k.sent) \in Nat /\ \A i \in 1 .. Len(k.sent) : k.sent[i] \in Events
      BY <2>4, ElementOfSeq, LenProperties
    <3>2. k.at \in Nat /\ \A f \in Events : f \in Nat
      BY <2>4
    <3>3. \A i \in Live(k) : i \in 1 .. Len(k.sent)
      BY <3>1, <3>2 DEF Live
    <3> QED BY <3>1, <3>2, <3>3
  <2>11. k.pc # "out"
    <3>1. Connected(c)
      <4>1. pub.next \in DOMAIN lists[pub.list] /\ pub.list \in DOMAIN lists
        <5>1. pub.pc = "push" /\ pub.next \in DOMAIN lists[pub.list]
          BY PushEffect
        <5>2. lists \in Seq(Seq(Clients)) /\ pub.list \in 1 .. Len(lists)
          BY <5>1 DEF BroadcastTypes, TypeOK, PublisherTypes
        <5>3. DOMAIN lists = 1 .. Len(lists)
          BY <5>2, LenProperties
        <5> QED BY <5>1, <5>2, <5>3
      <4> QED BY <1>3, <4>1 DEF ListsMatch
    <3> QED BY <2>1, <3>1 DEF Connected
  <2>12. /\ \A i \in 1 .. Len(k.queue) : m.queue[i] <= e - 1 /\ m.queue[i] < e /\ m.queue[i] <= e
         /\ \A i \in Live(k) : k.sent[i] <= e - 1 /\ k.sent[i] < e /\ k.sent[i] <= e
    BY SMTT(40), <2>4, <2>6, <2>8, <2>10, <2>11 DEF Rising
  <2>13. Live(m) = Live(k)
    BY <2>7 DEF Live
  <2>14. \A i, j \in DOMAIN m.queue : i < j => m.queue[i] < m.queue[j]
    <3> SUFFICES ASSUME NEW i \in 1 .. Len(k.queue) + 1, NEW j \in 1 .. Len(k.queue) + 1, i < j
                 PROVE  m.queue[i] < m.queue[j]
      BY <2>8
    <3>1. i \in 1 .. Len(k.queue)
      BY <2>8
    <3>2. CASE j \in 1 .. Len(k.queue)
      BY <2>6, <2>8, <3>1, <3>2 DEF Rising
    <3>3. CASE j = Len(k.queue) + 1
      BY <2>8, <2>12, <3>1, <3>3
    <3> QED BY <2>9, <3>2, <3>3
  <2>15. \A i \in Live(m), j \in DOMAIN m.queue : m.sent[i] < m.queue[j]
    BY <2>6, <2>7, <2>8, <2>9, <2>12, <2>13 DEF Rising
  <2>16. /\ \A i \in Live(m) : m.sent[i] <= e
         /\ \A j \in DOMAIN m.queue : m.queue[j] <= e
    BY <2>4, <2>7, <2>8, <2>9, <2>12, <2>13
  <2>17. Rising(m, e)
    BY <2>6, <2>7, <2>13, <2>14, <2>15, <2>16 DEF Rising
  <2> QED BY <2>2, <2>5, <2>17 DEF Rising, Live
<1> QED BY <1>1, <1>2, <1>3

\* A connection to which nothing was streamed and for which nothing waits.
LEMMA RisingFresh ==
    ASSUME NEW k, k.queue = <<>>, k.at = Len(k.sent), k.sent \in Seq(Events), NEW b
    PROVE  Rising(k, b)
<1>1. DOMAIN k.queue = {} /\ Live(k) = {}
  BY DEF Live
<1> QED BY <1>1 DEF Rising

LEMMA ReplayOrder ==
    ASSUME BroadcastTypes, InOrder, NEW c \in Clients, Replay(c)
    PROVE  Rising(conn[c], Limit(c))'
<1>1. PICK k : k = conn[c]
  OBVIOUS
<1>2. PICK m : m = conn'[c]
  OBVIOUS
<1>3. k \in Connection /\ m \in Connection /\ Rising(k, Limit(c)) /\ k.at = Len(k.sent) /\ Limit(c)' = Limit(c)
  BY <1>1, <1>2, ReplayEffect, SameOwes DEF InOrder, Rising, BroadcastTypes, TypeOK, Limit
<1>4. /\ m.queue = k.queue /\ m.pc # "out" /\ k.pc # "out"
      /\ \/ m.at = k.at + 1 /\ m.sent = Append(k.sent, logs[k.log][k.at + 1])
         \/ m.at = k.at /\ m.sent = k.sent
  BY <1>1, <1>2, ReplayEffect
<1>5. k.sent \in Seq(Events) /\ m.sent \in Seq(Events)
  BY <1>3 DEF Connection
<1>6. Live(k) = {} /\ Live(m) = {} /\ m.at = Len(m.sent)
  BY <1>3, <1>4, <1>5 DEF Live
<1>7. Rising(m, Limit(c))
  BY <1>3, <1>4, <1>6 DEF Rising
<1> QED BY <1>2, <1>3, <1>7 DEF Rising, Live

\* The head of the queue moves to the end of what was streamed.
LEMMA StreamOrder ==
    ASSUME BroadcastTypes, NEW k \in Connection, k.pc = "stream", k.queue # <<>>, NEW b \in Nat, Rising(k, b),
           NEW m, m.at = k.at, m.sent = Append(k.sent, Head(k.queue)), m.queue \in {<<>>, Tail(k.queue)},
           m.pc \in {"out", "stream"}
    PROVE  Rising(m, b)
<1> DEFINE n == Len(k.sent)
           q == Len(k.queue)
<1>1. k.queue \in Seq(Events) /\ k.sent \in Seq(Events) /\ k.at \in Nat /\ \A e \in Events : e \in Nat
  BY Terminals DEF Connection, Events
<1>2. /\ n \in Nat /\ q \in Nat /\ 1 \in DOMAIN k.queue /\ Head(k.queue) = k.queue[1] /\ k.queue[1] \in Nat /\ q >= 1
      /\ Len(m.sent) = n + 1 /\ m.sent[n + 1] = k.queue[1]
      /\ \A i \in 1 .. n : m.sent[i] = k.sent[i] /\ k.sent[i] \in Nat
      /\ DOMAIN k.queue = 1 .. q
  BY SMTT(40), <1>1, EmptySeq
<1>3. \A j \in DOMAIN m.queue : j + 1 \in DOMAIN k.queue /\ m.queue[j] = k.queue[j + 1] /\ j >= 1 /\ j \in Nat /\ k.queue[j + 1] \in Nat
  <2>1. CASE m.queue = <<>>
    BY <2>1
  <2>2. CASE m.queue = Tail(k.queue)
    <3>1. Len(Tail(k.queue)) = q - 1 /\ Tail(k.queue) \in Seq(Events) /\ \A j \in 1 .. q - 1 : Tail(k.queue)[j] = k.queue[j + 1]
      BY <1>1, HeadTailProperties
    <3>2. DOMAIN m.queue = 1 .. q - 1 /\ \A j \in 1 .. q - 1 : m.queue[j] = k.queue[j + 1]
      BY <2>2, <3>1
    <3>3. \A j \in 1 .. q - 1 : j + 1 \in 1 .. q /\ j >= 1 /\ j \in Nat
      BY <1>2
    <3>4. \A j \in 1 .. q : k.queue[j] \in Nat
      BY <1>1, <1>2
    <3> HIDE DEF q
    <3> QED BY <1>2, <3>2, <3>3, <3>4
  <2> QED BY <2>1, <2>2
<1> HIDE DEF n, q
<1>4. Live(k) = k.at + 1 .. n /\ Live(m) = k.at + 1 .. n + 1
  BY <1>2 DEF Live, n
<1>5. \A i \in Live(m) : \/ i \in Live(k) /\ i \in 1 .. n /\ i <= n
                         \/ i = n + 1
  BY SMTT(40), <1>1, <1>2, <1>4
<1>6. \A i, j \in Live(m) : i < j => m.sent[i] < m.sent[j]
  <2> SUFFICES ASSUME NEW i \in Live(m), NEW j \in Live(m), i < j PROVE m.sent[i] < m.sent[j]
    OBVIOUS
  <2>1. i \in Live(k) /\ i \in 1 .. n
    <3>1. i \in k.at + 1 .. n + 1 /\ j \in k.at + 1 .. n + 1
      BY <1>4
    <3>2. i # n + 1
      BY <1>1, <1>2, <3>1
    <3> QED BY <1>5, <3>2
  <2>2. CASE j \in Live(k) /\ j \in 1 .. n
    BY <1>2, <2>1, <2>2 DEF Rising
  <2>3. CASE j = n + 1
    BY <1>2, <2>1, <2>3 DEF Rising
  <2> QED BY <1>5, <2>2, <2>3
<1>7. \A i, j \in DOMAIN m.queue : i < j => m.queue[i] < m.queue[j]
  <2> SUFFICES ASSUME NEW i \in DOMAIN m.queue, NEW j \in DOMAIN m.queue, i < j PROVE m.queue[i] < m.queue[j]
    OBVIOUS
  <2>1. i + 1 < j + 1
    BY <1>3
  <2> QED BY <1>3, <2>1 DEF Rising
<1>8. \A i \in Live(m), j \in DOMAIN m.queue : m.sent[i] < m.queue[j]
  <2> SUFFICES ASSUME NEW i \in Live(m), NEW j \in DOMAIN m.queue PROVE m.sent[i] < m.queue[j]
    OBVIOUS
  <2>1. CASE i \in Live(k) /\ i \in 1 .. n
    BY <1>2, <1>3, <2>1 DEF Rising
  <2>2. CASE i = n + 1
    <3>1. 1 < j + 1
      BY <1>3
    <3> QED BY <1>2, <1>3, <2>2, <3>1 DEF Rising
  <2> QED BY <1>5, <2>1, <2>2
<1>9. \A i \in Live(m) : m.sent[i] <= b
  BY <1>2, <1>5 DEF Rising
<1>10. \A j \in DOMAIN m.queue : m.queue[j] <= b
  BY <1>3 DEF Rising
<1> QED BY <1>6, <1>7, <1>8, <1>9, <1>10 DEF Rising

-----------------------------------------------------------------------------
(* Nothing is missed while no connection breaks and no queue overflows.     *)

Served(c) == Connected(c) => \E g \in 0 .. NumEvents : GivenTo(c, g)
SentWell(c) == GapFree(conn[c].sent) /\ (conn[c].pc = "hello" => conn[c].at = 0)

LEMMA EventTyped ==
    ASSUME BroadcastTypes
    PROVE  pub.event \in Nat /\ pub.event <= NumEvents /\ NumEvents \in Nat /\ NumEvents # 0 /\ Terminal = NumEvents
BY Terminals DEF BroadcastTypes, TypeOK, PublisherTypes, Publisher

LEMMA ServedKept ==
    ASSUME NEW c \in Clients, Served(c), conn'[c] = conn[c], pub'.event = pub.event, log' = log,
           Owed(c)' => Owed(c), pub.event # Terminal => (Owed(c) => Owed(c)')
    PROVE  Served(c)'
<1> SUFFICES ASSUME Connected(c)' PROVE \E g \in 0 .. NumEvents : GivenTo(c, g)'
  BY DEF Served
<1>1. PICK g \in 0 .. NumEvents : GivenTo(c, g)
  BY DEF Served, Connected
<1>2. GivenTo(c, g)'
  BY <1>1 DEF GivenTo, LastSent
<1> QED BY <1>2

LEMMA RecordMisses ==
    ASSUME BroadcastTypes, NothingMissed, Record
    PROVE  NothingMissed'
<1>1. /\ pub.pc = "idle" /\ pub'.pc = "lookup" /\ pub'.event = pub.event + 1 /\ conn' = conn
      /\ log' # 0 /\ (log # 0 => log' = log)
      /\ Len(logs'[log']) = 1 + (IF log = 0 THEN 0 ELSE Len(logs[log]))
      /\ logs'[log'][Len(logs'[log'])] = pub.event + 1
      /\ log # 0 => \A i \in DOMAIN logs[log] : logs'[log'][i] = logs[log][i]
  BY RecordEffect
<1>2. pub.event \in Nat /\ pub.event < NumEvents /\ NumEvents \in Nat /\ Terminal = NumEvents
  BY EventTyped DEF Record
<1>3. ~Over /\ ~Over' /\ LogComplete
  BY <1>1, <1>2 DEF Over, NothingMissed
<1>4. LogComplete'
  <2>1. CASE pub.event = 0
    <3>1. log = 0
      BY <1>3, <2>1 DEF LogComplete
    <3>2. Len(logs'[log']) = 1 /\ logs'[log'][1] = 1 /\ pub'.event = 1
      BY <1>1, <2>1, <3>1
    <3>3. \A i \in 1 .. 1 : i = 1
      OBVIOUS
    <3> QED BY <1>1, <3>2, <3>3 DEF LogComplete
  <2>2. CASE pub.event # 0
    <3>1. log # 0 /\ Len(logs[log]) = pub.event /\ \A i \in 1 .. pub.event : logs[log][i] = i
      BY <1>3, <2>2 DEF LogComplete
    <3>2. logs[log] \in Seq(Events) /\ DOMAIN logs[log] = 1 .. pub.event
      BY <3>1 DEF BroadcastTypes, TypeOK
    <3>3. Len(logs'[log']) = pub.event + 1 /\ logs'[log'][pub.event + 1] = pub.event + 1
          /\ \A i \in 1 .. pub.event : logs'[log'][i] = i
      <4>1. Len(logs'[log']) = 1 + pub.event
        BY <1>1, <3>1
      <4>2. \A i \in 1 .. pub.event : logs'[log'][i] = i
        BY <1>1, <3>1, <3>2
      <4> QED BY <1>1, <1>2, <4>1, <4>2
    <3>4. \A i \in 1 .. pub.event + 1 : i \in 1 .. pub.event \/ i = pub.event + 1
      BY <1>2
    <3>5. pub.event + 1 # 0
      BY <1>2
    <3> QED BY <1>1, <3>3, <3>4, <3>5 DEF LogComplete
  <2> QED BY <2>1, <2>2
<1>5. ASSUME NEW c \in Clients, Connected(c)' PROVE \E g \in 0 .. NumEvents : GivenTo(c, g)'
  <2>1. PICK g \in 0 .. NumEvents : GivenTo(c, g)
    BY <1>1, <1>3, <1>5 DEF NothingMissed, Connected
  <2>2. ~Owed(c) /\ Owed(c)' /\ pub.event = g
    BY <1>2, <2>1, RecordOwes DEF GivenTo
  <2>3. conn[c].pc = "replay" => conn[c].log = log' /\ conn[c].at <= pub'.event
    <3>1. conn[c].pc = "replay" => conn[c].log = log /\ conn[c].at <= pub.event /\ conn[c].at \in Nat /\ conn[c].log # 0
      BY <2>1 DEF GivenTo, BroadcastTypes, ReplayTypes, TypeOK, Connection
    <3> QED BY <1>1, <1>2, <3>1
  <2>4. g <= pub'.event /\ pub'.event <= g + 1 /\ pub'.event = g + 1
    BY <1>1, <1>2, <2>2
  <2>5. GivenTo(c, g)'
    BY <1>1, <2>1, <2>2, <2>3, <2>4 DEF GivenTo, LastSent
  <2> QED BY <2>5
<1>6. \A c \in Clients : SentWell(c)'
  BY <1>1 DEF NothingMissed, SentWell
<1> QED BY <1>3, <1>4, <1>5, <1>6 DEF NothingMissed, SentWell

LEMMA LookupMisses ==
    ASSUME BroadcastTypes, ListsMatch, NothingMissed, Lookup
    PROVE  NothingMissed'
<1>1. /\ pub.pc = "lookup" /\ pub'.pc = "push" /\ pub'.event = pub.event /\ pub'.list = table'
      /\ logs' = logs /\ log' = log /\ conn' = conn
  BY LookupEffect
<1>2. ~Over /\ ~Over' /\ LogComplete
  BY <1>1 DEF Over, OverHolds, NothingMissed
<1>3. LogComplete'
  BY <1>1, <1>2 DEF LogComplete
<1>4. ASSUME NEW c \in Clients PROVE Served(c)'
  <2>1. Served(c)
    BY <1>2 DEF NothingMissed, Served
  <2>2. CASE Connected(c)
    BY <1>1, <2>1, <2>2, LookupOwes, ServedKept
  <2>3. CASE ~Connected(c)
    BY <1>1, <2>3 DEF Served, Connected
  <2> QED BY <2>2, <2>3
<1>5. \A c \in Clients : SentWell(c)'
  BY <1>1 DEF NothingMissed, SentWell
<1> QED BY <1>2, <1>3, <1>4, <1>5 DEF NothingMissed, SentWell, Served

LEMMA PushMisses ==
    ASSUME BroadcastTypes, ListsMatch, NothingMissed, Push, drops' = drops
    PROVE  NothingMissed'
<1>0. PICK c : c = lists[pub.list][pub.next]
  OBVIOUS
<1>1. /\ pub.pc = "push" /\ pub.next \in DOMAIN lists[pub.list] /\ c \in Clients
      /\ pub'.pc = "push" /\ pub'.event = pub.event /\ pub'.list = pub.list
      /\ \A d \in Clients : SameButQueue(conn'[d], conn[d])
      /\ \A d \in Clients : d # c => conn'[d] = conn[d]
      /\ table' = table /\ logs' = logs /\ log' = log
  BY <1>0, PushEffect
<1>2. conn'[c].queue = Append(conn[c].queue, pub.event)
  <2>1. drops \in Nat /\ drops # drops + 1
    BY DEF BroadcastTypes, TypeOK
  <2> QED BY <1>0, <2>1, PushEffect
<1>3. ~Over /\ ~Over' /\ LogComplete
  <2>1. lists[pub.list] # <<>>
    BY <1>1
  <2> QED BY <1>1, <2>1 DEF Over, OverHolds, NothingMissed
<1>4. LogComplete'
  BY <1>1, <1>3 DEF LogComplete
<1>5. Owed(c) /\ ~Owed(c)' /\ \A d \in Clients : d # c => (Owed(d)' <=> Owed(d))
  BY <1>0, <1>1, PushOwes
<1>6. Connected(c)
  <2>1. pub.list \in DOMAIN lists
    BY <1>1 DEF BroadcastTypes, TypeOK, PublisherTypes
  <2> QED BY <1>0, <1>1, <2>1 DEF ListsMatch
<1>7. ASSUME NEW d \in Clients PROVE Served(d)'
  <2>1. Served(d)
    BY <1>3 DEF NothingMissed, Served
  <2>2. CASE d # c
    BY <1>1, <1>5, <2>1, <2>2, ServedKept
  <2>3. CASE d = c
    <3>1. PICK g \in 0 .. NumEvents : GivenTo(c, g)
      BY <1>6, <2>1, <2>3 DEF Served
    <3>2. pub.event = g + 1 /\ g \in Nat /\ pub.event \in Nat /\ pub.event <= NumEvents /\ pub.event \in 0 .. NumEvents
      BY <1>5, <3>1, EventTyped DEF GivenTo
    <3>3. PICK q : q = conn[c].queue
      OBVIOUS
    <3>4. PICK p : p = conn'[c].queue
      OBVIOUS
    <3>5. q \in Seq(Events) /\ p = Append(q, pub.event)
      BY <1>1, <1>2, <3>3, <3>4 DEF BroadcastTypes, TypeOK, Connection
    <3>6. /\ DOMAIN q = 1 .. Len(q) /\ Len(q) \in Nat /\ DOMAIN p = 1 .. Len(q) + 1 /\ Len(p) = Len(q) + 1
          /\ p[Len(q) + 1] = pub.event /\ \A i \in 1 .. Len(q) : p[i] = q[i] /\ q[i] \in Events
      BY <3>5
    <3>7. \A i \in DOMAIN p : p[i] + Len(p) = pub.event + i
      <4>1. ASSUME NEW i \in 1 .. Len(q) PROVE p[i] + Len(p) = pub.event + i
        <5>1. q[i] + Len(q) = g + i
          BY <3>1, <3>3, <3>6 DEF GivenTo
        <5>2. q[i] \in Nat /\ i \in Nat
          BY <3>6, Terminals DEF Events
        <5> QED BY <3>2, <3>6, <5>1, <5>2
      <4>2. p[Len(q) + 1] + Len(p) = pub.event + (Len(q) + 1)
        BY <3>6
      <4>3. \A i \in 1 .. Len(q) + 1 : i \in 1 .. Len(q) \/ i = Len(q) + 1
        BY <3>6
      <4> QED BY <3>6, <4>1, <4>2, <4>3
    <3>8. conn[c].pc = "stream" => pub.event <= LastSent(c) + Len(p)
      <4>1. conn[c].sent \in Seq(Events)
        BY <1>1 DEF BroadcastTypes, TypeOK, Connection
      <4>2. LastSent(c) \in Nat
        BY <4>1, EmptySeq, ElementOfSeq, Terminals DEF LastSent, Events
      <4>3. conn[c].pc = "stream" => g <= LastSent(c) + Len(q)
        BY <3>1, <3>3 DEF GivenTo
      <4> QED BY <3>2, <3>6, <4>2, <4>3
    <3>9. SameButQueue(conn'[c], conn[c])
      BY <1>1
    <3>10. GivenTo(c, pub.event)'
      <4>1. pub.event <= pub'.event /\ pub'.event <= pub.event + 1
        BY <1>1, <3>2
      <4> HIDE <1>1
      <4>2. pub'.event = pub.event /\ log' = log
        BY <1>1
      <4> QED BY <1>5, <3>1, <3>4, <3>7, <3>8, <3>9, <4>1, <4>2 DEF GivenTo, LastSent, SameButQueue
    <3> QED BY <1>1, <2>3, <3>2, <3>10 DEF Served
  <2> QED BY <2>2, <2>3
<1>8. \A d \in Clients : SentWell(d)'
  BY <1>1 DEF NothingMissed, SentWell, SameButQueue
<1> QED BY <1>3, <1>4, <1>7, <1>8 DEF NothingMissed, SentWell, Served

LEMMA PublishedMisses ==
    ASSUME BroadcastTypes, NothingMissed, Published
    PROVE  NothingMissed'
<1>1. /\ pub.pc = "push" /\ pub'.pc = "idle" /\ pub'.event = pub.event
      /\ lists' = lists /\ table' = table /\ logs' = logs /\ log' = log /\ conn' = conn
  BY PublishedEffect
<1>2. Over' <=> Over
  BY <1>1 DEF Over
<1>3. Over => OverHolds'
  BY <1>1 DEF OverHolds, NothingMissed, Connected
<1>4. ~Over => LogComplete'
  BY <1>1 DEF LogComplete, NothingMissed
<1>5. ~Over => \A c \in Clients : Served(c)'
  <2> SUFFICES ASSUME ~Over, NEW c \in Clients PROVE Served(c)'
    OBVIOUS
  <2>1. Served(c)
    BY DEF NothingMissed, Served
  <2> QED BY <1>1, <2>1, PublishedOwes, ServedKept
<1>6. \A c \in Clients : SentWell(c)'
  BY <1>1 DEF NothingMissed, SentWell
<1> QED BY <1>2, <1>3, <1>4, <1>5, <1>6 DEF NothingMissed, SentWell, Served

LEMMA JoinMisses ==
    ASSUME BroadcastTypes, ListsMatch, NothingMissed, NEW c \in Clients, Join(c)
    PROVE  NothingMissed'
<1>1. /\ conn'[c].pc = "hello" /\ conn'[c].queue = <<>> /\ conn'[c].sent = <<>> /\ conn'[c].at = 0
      /\ \A d \in Clients : d # c => conn'[d] = conn[d]
      /\ table' = ListOfKey
      /\ \A l \in 1 .. Len(ListsWithKey) : l # ListOfKey => lists'[l] = ListsWithKey[l]
      /\ logs' = logs /\ log' = log /\ pub' = pub
  BY JoinEffect
<1>2. Over' <=> Over
  BY <1>1 DEF Over
<1>3. pub.pc = "push" => pub.list \in 1 .. Len(lists) /\ Len(lists) \in Nat
  BY DEF BroadcastTypes, PublisherTypes, TypeOK
<1>4. ASSUME Over PROVE OverHolds'
  <2>1. pub.pc = "push" => lists'[pub.list] = <<>> /\ pub.list # table'
    <3> SUFFICES ASSUME pub.pc = "push" PROVE lists'[pub.list] = <<>> /\ pub.list # table'
      OBVIOUS
    <3>1. lists[pub.list] = <<>> /\ pub.list # table
      BY <1>4 DEF NothingMissed, OverHolds
    <3>2. pub.list # ListOfKey
      BY <1>3, <3>1, ListOfKeyMade
    <3>3. pub.list \in 1 .. Len(ListsWithKey) /\ ListsWithKey[pub.list] = lists[pub.list]
      BY <1>3, ListOfKeyMade DEF BroadcastTypes, TypeOK
    <3> QED BY <1>1, <3>1, <3>2, <3>3
  <2> QED BY <1>1, <1>4, <2>1 DEF NothingMissed, OverHolds, Connected
<1>5. ASSUME ~Over PROVE LogComplete'
  <2>1. pub.pc = "push" => ListOfKey = table
    BY <1>3, <1>5, ListOfKeyMade DEF NothingMissed, LogComplete
  <2> QED BY <1>1, <1>5, <2>1 DEF NothingMissed, LogComplete
<1>6. ASSUME ~Over, NEW d \in Clients PROVE Served(d)'
  <2>1. CASE d # c
    <3>1. Served(d)
      BY <1>6 DEF NothingMissed, Served
    <3> QED BY <1>1, <2>1, <3>1, JoinOwes, ServedKept
  <2>2. CASE d = c
    <3>1. pub.event \in Nat /\ pub.event <= NumEvents /\ NumEvents \in Nat /\ (pub.pc # "idle" => pub.event # 0)
      BY EventTyped DEF BroadcastTypes, PublisherTypes
    <3>2. Owed(c)' => pub.pc # "idle"
      BY <1>1 DEF Owed
    <3>3. PICK g \in 0 .. NumEvents : g = IF Owed(c)' THEN pub.event - 1 ELSE pub.event
      BY <3>1, <3>2
    <3>4. /\ g <= pub.event /\ pub.event <= g + 1 /\ (Owed(c)' => pub.event = g + 1) /\ (~Owed(c)' => pub.event = g)
      BY <3>1, <3>2, <3>3
    <3>5. DOMAIN conn'[c].queue = {}
      BY <1>1
    <3>6. GivenTo(c, g)'
      BY <1>1, <3>4, <3>5 DEF GivenTo
    <3> QED BY <2>2, <3>6 DEF Served
  <2> QED BY <2>1, <2>2
<1>7. ASSUME NEW d \in Clients PROVE SentWell(d)'
  <2>1. CASE d = c
    BY <1>1, <2>1 DEF SentWell, GapFree
  <2>2. CASE d # c
    BY <1>1, <2>2 DEF NothingMissed, SentWell
  <2> QED BY <2>1, <2>2
<1> QED BY <1>2, <1>4, <1>5, <1>6, <1>7 DEF NothingMissed, SentWell, Served

LEMMA BeginReplayMisses ==
    ASSUME BroadcastTypes, NothingMissed, NEW c \in Clients, BeginReplay(c)
    PROVE  NothingMissed'
<1>1. /\ conn[c].pc = "hello" /\ conn'[c].pc = (IF log = 0 THEN "stream" ELSE "replay")
      /\ conn'[c].list = conn[c].list /\ conn'[c].queue = conn[c].queue /\ conn'[c].log = log
      /\ conn'[c].at = conn[c].at /\ conn'[c].sent = conn[c].sent
      /\ \A d \in Clients : d # c => conn'[d] = conn[d]
      /\ lists' = lists /\ table' = table /\ logs' = logs /\ log' = log /\ pub' = pub
  BY BeginReplayEffect
<1>2. Over' <=> Over
  BY <1>1 DEF Over
<1>3. ASSUME Over PROVE OverHolds'
  <2>1. log = 0
    BY <1>3 DEF Over
  <2>2. conn'[c].pc = "stream" /\ Connected(c)
    BY <1>1, <2>1 DEF Connected
  <2>3. OverHolds
    BY <1>3 DEF NothingMissed
  <2>4. ASSUME NEW d \in Clients, Connected(d)'
        PROVE  conn'[d].queue = <<>> /\ conn'[d].sent = <<>> /\ conn'[d].pc # "replay"
    BY <1>1, <2>2, <2>3, <2>4 DEF OverHolds, Connected
  <2> QED BY <1>1, <2>3, <2>4 DEF OverHolds
<1>4. ~Over => LogComplete'
  BY <1>1 DEF LogComplete, NothingMissed
<1>5. ASSUME ~Over, NEW d \in Clients PROVE Served(d)'
  <2>1. Served(d) /\ LogComplete
    BY <1>5 DEF NothingMissed, Served
  <2>2. CASE d # c
    BY <1>1, <2>1, <2>2, SameOwes, ServedKept
  <2>3. CASE d = c
    <3>1. Connected(c)
      BY <1>1 DEF Connected
    <3>2. PICK g \in 0 .. NumEvents : GivenTo(c, g)
      BY <2>1, <2>3, <3>1 DEF Served
    <3>3. conn[c].sent = <<>> /\ conn[c].at = 0 /\ conn[c].queue \in Seq(Events) /\ pub.event \in Nat /\ g \in Nat /\ g <= pub.event
      BY SMTT(40), <1>1, <3>2, EventTyped DEF GivenTo, NothingMissed, BroadcastTypes, TypeOK, Connection
    <3>4. conn'[c].pc = "stream" => g <= LastSent(c)' + Len(conn[c].queue)
      <4>1. conn'[c].pc = "stream" => pub.event = 0
        BY <1>1, <2>1 DEF LogComplete
      <4>2. LastSent(c)' = 0 /\ Len(conn[c].queue) \in Nat
        BY <1>1, <3>3 DEF LastSent
      <4> QED BY <3>3, <4>1, <4>2
    <3>5. DOMAIN conn'[c].sent = {} /\ Len(conn'[c].sent) = 0
      BY <1>1, <3>3
    <3>6. 0 <= pub.event
      BY <3>3
    <3>7. conn'[c].pc # "hello"
      BY <1>1
    <3>8. Owed(c)' <=> Owed(c)
      BY <1>1, SameOwes
    <3>9. GivenTo(c, g)'
      BY <1>1, <3>2, <3>3, <3>4, <3>5, <3>6, <3>7, <3>8 DEF GivenTo
    <3> QED BY <2>3, <3>9 DEF Served
  <2> QED BY <2>2, <2>3
<1>6. ASSUME NEW d \in Clients PROVE SentWell(d)'
  <2>1. CASE d = c
    BY <1>1, <2>1 DEF NothingMissed, SentWell
  <2>2. CASE d # c
    BY <1>1, <2>2 DEF NothingMissed, SentWell
  <2> QED BY <2>1, <2>2
<1> QED BY <1>2, <1>3, <1>4, <1>5, <1>6 DEF NothingMissed, SentWell, Served

\* A sequence that is 1, 2, 3, ... has no gap; nor has one that grows by at
\* most the next.
LEMMA CountingGapFree ==
    ASSUME NEW s, \A i \in DOMAIN s : s[i] = i, NEW n \in Nat, DOMAIN s = 1 .. n
    PROVE  GapFree(s)
<1> SUFFICES ASSUME NEW i \in 1 .. n PROVE s[i] <= 1 + (IF i = 1 THEN 0 ELSE s[i - 1])
  BY DEF GapFree
<1>1. i = 1 \/ i - 1 \in 1 .. n
  OBVIOUS
<1> QED BY <1>1

LEMMA NextGapFree ==
    ASSUME NEW s \in Seq(Events), GapFree(s), NEW e \in Events, e <= 1 + (IF s = <<>> THEN 0 ELSE s[Len(s)])
    PROVE  GapFree(Append(s, e))
<1> DEFINE n == Len(s)
           t == Append(s, e)
<1>1. /\ n \in Nat /\ DOMAIN s = 1 .. n /\ DOMAIN t = 1 .. n + 1 /\ t[n + 1] = e
      /\ \A i \in 1 .. n : t[i] = s[i]
  OBVIOUS
<1>2. (s = <<>>) <=> n = 0
  BY EmptySeq
<1> HIDE DEF n, t
<1>3. ASSUME NEW i \in 1 .. n + 1 PROVE t[i] <= 1 + (IF i = 1 THEN 0 ELSE t[i - 1])
  <2>1. CASE i \in 1 .. n
    <3>1. s[i] <= 1 + (IF i = 1 THEN 0 ELSE s[i - 1])
      BY <1>1, <2>1 DEF GapFree
    <3>2. i = 1 \/ i - 1 \in 1 .. n
      BY <1>1, <2>1
    <3> QED BY <1>1, <2>1, <3>1, <3>2
  <2>2. CASE i = n + 1
    <3>1. CASE n = 0
      BY <1>1, <1>2, <2>2, <3>1
    <3>2. CASE n # 0
      <4>1. n \in 1 .. n /\ i # 1 /\ i - 1 = n /\ t[n] = s[n]
        BY <1>1, <2>2, <3>2
      <4> QED BY <1>1, <1>2, <2>2, <3>2, <4>1 DEF n
    <3> QED BY <3>1, <3>2
  <2> QED BY <1>1, <2>1, <2>2
<1> QED BY <1>1, <1>3 DEF GapFree, t

LEMMA ReplayMisses ==
    ASSUME BroadcastTypes, BroadcastTypes', NothingMissed, NEW c \in Clients, Replay(c)
    PROVE  NothingMissed'
<1>1. /\ conn[c].pc = "replay" /\ conn[c].log \in 1 .. Len(logs)
      /\ conn'[c].list = conn[c].list /\ conn'[c].queue = conn[c].queue /\ conn'[c].log = conn[c].log
      /\ \A d \in Clients : d # c => conn'[d] = conn[d]
      /\ lists' = lists /\ table' = table /\ logs' = logs /\ log' = log /\ pub' = pub
  BY ReplayEffect
<1>2. ~Over /\ ~Over' /\ LogComplete /\ LogComplete'
  <2>1. ~Over
    BY <1>1 DEF NothingMissed, OverHolds, Connected
  <2> QED BY <1>1, <2>1 DEF Over, NothingMissed, LogComplete
<1>3. PICK g \in 0 .. NumEvents : GivenTo(c, g)
  BY <1>1, <1>2 DEF NothingMissed, Connected
<1>4. PICK k : k = conn[c]
  OBVIOUS
<1>5. PICK m : m = conn'[c]
  OBVIOUS
<1>6. /\ k.log = log /\ k.at = Len(k.sent) /\ k.at <= pub.event /\ \A i \in DOMAIN k.sent : k.sent[i] = i
      /\ k.sent \in Seq(Events) /\ m.sent \in Seq(Events) /\ k.at \in Nat /\ pub.event \in Nat /\ g \in Nat /\ g <= pub.event
      /\ k.queue \in Seq(Events) /\ m.queue = k.queue /\ m.log = k.log
  BY SMTT(40), <1>1, <1>3, <1>4, <1>5, EventTyped DEF GivenTo, BroadcastTypes, TypeOK, Connection
<1>7. log # 0 /\ pub.event # 0 /\ Len(logs[log]) = pub.event /\ \A i \in 1 .. pub.event : logs[log][i] = i
  BY <1>1, <1>2, <1>4, <1>6 DEF LogComplete
<1>8. \/ /\ k.at < pub.event /\ m.pc = "replay" /\ m.at = k.at + 1 /\ m.sent = Append(k.sent, k.at + 1)
      \/ /\ k.at >= pub.event /\ m.pc = "stream" /\ m.at = k.at /\ m.sent = k.sent
  <2>1. \/ /\ k.at < Len(logs[k.log]) /\ m.pc = "replay" /\ m.at = k.at + 1
           /\ m.sent = Append(k.sent, logs[k.log][k.at + 1])
        \/ /\ k.at >= Len(logs[k.log]) /\ m.pc = "stream" /\ m.at = k.at /\ m.sent = k.sent
    BY <1>4, <1>5, ReplayEffect
  <2>2. k.at < pub.event => k.at + 1 \in 1 .. pub.event
    BY <1>6
  <2> QED BY <1>6, <1>7, <2>1, <2>2
<1>9. /\ Len(m.sent) = m.at /\ m.at \in Nat /\ m.at <= pub.event /\ \A i \in DOMAIN m.sent : m.sent[i] = i
      /\ DOMAIN m.sent = 1 .. m.at
  <2>1. CASE m.sent = k.sent /\ m.at = k.at
    BY <1>6, <2>1
  <2>2. CASE k.at < pub.event /\ m.at = k.at + 1 /\ m.sent = Append(k.sent, k.at + 1)
    <3>1. /\ DOMAIN k.sent = 1 .. k.at /\ DOMAIN m.sent = 1 .. k.at + 1 /\ Len(m.sent) = k.at + 1 /\ m.sent[k.at + 1] = k.at + 1
          /\ \A i \in 1 .. k.at : m.sent[i] = k.sent[i]
      <4>1. PICK s \in Seq(Events) : s = k.sent
        BY <1>6
      <4>2. PICK e \in Events : e = k.at + 1
        BY <1>6, <2>2, EventTyped DEF Events
      <4>3. /\ DOMAIN s = 1 .. Len(s) /\ DOMAIN Append(s, e) = 1 .. Len(s) + 1 /\ Len(Append(s, e)) = Len(s) + 1 /\ Append(s, e)[Len(s) + 1] = e
            /\ \A i \in 1 .. Len(s) : Append(s, e)[i] = s[i]
        OBVIOUS
      <4> QED BY <1>6, <2>2, <4>1, <4>2, <4>3
    <3>2. \A i \in 1 .. k.at + 1 : i \in 1 .. k.at \/ i = k.at + 1
      BY <1>6
    <3> QED BY <1>6, <2>2, <3>1, <3>2
  <2> QED BY <1>8, <2>1, <2>2
<1>10. GapFree(m.sent)
  BY <1>9, CountingGapFree
<1>11. m.pc = "stream" => g <= LastSent(c)' + Len(m.queue)
  <2> SUFFICES ASSUME m.pc = "stream" PROVE g <= LastSent(c)' + Len(m.queue)
    OBVIOUS
  <2>1. m.at = pub.event /\ m.at \in DOMAIN m.sent
    BY <1>6, <1>7, <1>8, <1>9
  <2>2. LastSent(c)' = pub.event
    <3>1. m.sent # <<>>
      BY <2>1
    <3> QED BY <1>5, <1>9, <2>1, <3>1 DEF LastSent
  <2>3. Len(m.queue) \in Nat
    BY <1>6
  <2> QED BY <1>6, <2>2, <2>3
<1>12. ASSUME NEW d \in Clients PROVE Served(d)'
  <2>1. Served(d)
    BY <1>2 DEF NothingMissed, Served
  <2>2. CASE d # c
    BY <1>1, <2>1, <2>2, SameOwes, ServedKept
  <2>3. CASE d = c
    <3>1. Owed(c)' <=> Owed(c)
      BY <1>1, SameOwes
    <3>2. m.pc # "hello"
      BY <1>8
    <3>3. /\ g <= pub.event /\ pub.event <= g + 1
          /\ Owed(c) => pub.event = g + 1
          /\ ~Owed(c) /\ pub.event # Terminal => pub.event = g
          /\ \A i \in DOMAIN k.queue : k.queue[i] + Len(k.queue) = g + i
      BY <1>3, <1>4 DEF GivenTo
    <3>4. m.pc = "replay" => m.log = log /\ m.at = Len(m.sent) /\ m.at <= pub.event /\ \A i \in DOMAIN m.sent : m.sent[i] = i
      BY <1>6, <1>9
    <3>5. GivenTo(c, g)'
      BY <1>1, <1>5, <1>6, <1>11, <3>1, <3>2, <3>3, <3>4 DEF GivenTo
    <3> QED BY <2>3, <3>5 DEF Served
  <2> QED BY <2>2, <2>3
<1>13. ASSUME NEW d \in Clients PROVE SentWell(d)'
  <2>1. CASE d = c
    BY <1>5, <1>8, <1>10, <2>1 DEF SentWell
  <2>2. CASE d # c
    BY <1>1, <2>2 DEF NothingMissed, SentWell
  <2> QED BY <2>1, <2>2
<1> QED BY <1>2, <1>12, <1>13 DEF NothingMissed, SentWell, Served

\* The head of the queue is the next event, or one that was sent before.
LEMMA HeadIsNext ==
    ASSUME BroadcastTypes, NothingMissed, ~Over, NEW c \in Clients, conn[c].pc = "stream", conn[c].queue # <<>>,
           NEW g \in 0 .. NumEvents, GivenTo(c, g)
    PROVE  /\ Head(conn[c].queue) \in Events /\ Head(conn[c].queue) + Len(conn[c].queue) = g + 1
           /\ Len(conn[c].queue) >= 1 /\ Len(conn[c].queue) \in Nat /\ g \in Nat /\ g <= pub.event
           /\ GapFree(Append(conn[c].sent, Head(conn[c].queue)))
<1>1. PICK q \in Seq(Events) : q = conn[c].queue
  BY DEF BroadcastTypes, TypeOK, Connection
<1>2. PICK s \in Seq(Events) : s = conn[c].sent
  BY DEF BroadcastTypes, TypeOK, Connection
<1>3. Len(q) \in Nat /\ Len(q) >= 1 /\ 1 \in DOMAIN q /\ Head(q) = q[1] /\ q[1] \in Events
  BY <1>1, EmptySeq
<1>4. q[1] + Len(q) = g + 1 /\ g <= pub.event /\ g <= LastSent(c) + Len(q) /\ g \in Nat
  BY <1>1, <1>3 DEF GivenTo
<1>5. LastSent(c) = (IF s = <<>> THEN 0 ELSE s[Len(s)]) /\ LastSent(c) \in Nat /\ q[1] \in Nat
  BY SMTT(40), <1>2, <1>3, EmptySeq, ElementOfSeq, Terminals DEF LastSent, Events
<1>6. q[1] <= 1 + LastSent(c)
  BY <1>3, <1>4, <1>5
<1>7. GapFree(s)
  BY <1>2 DEF NothingMissed
<1>8. GapFree(Append(s, q[1]))
  BY <1>3, <1>5, <1>6, <1>7, NextGapFree
<1> QED BY <1>1, <1>2, <1>3, <1>4, <1>8

LEMMA StreamMisses ==
    ASSUME BroadcastTypes, BroadcastTypes', ListsMatch, ListsMatch', NothingMissed, NEW c \in Clients, Stream(c)
    PROVE  NothingMissed'
<1>1. /\ conn[c].pc = "stream" /\ Connected(c) /\ conn[c].queue \in Seq(Events) /\ conn[c].queue # <<>>
      /\ \A d \in Clients : d # c => conn'[d] = conn[d]
  BY StreamEffect
<1>2. ~Over
  BY <1>1 DEF NothingMissed, OverHolds
<1>3. PICK g \in 0 .. NumEvents : GivenTo(c, g)
  BY <1>1, <1>2 DEF NothingMissed
<1>4. PICK e : e = Head(conn[c].queue)
  OBVIOUS
<1>5. PICK n : n = Len(conn[c].queue)
  OBVIOUS
<1>6. /\ e \in Events /\ e + n = g + 1 /\ n >= 1 /\ n \in Nat /\ g \in Nat /\ g <= pub.event /\ GapFree(Append(conn[c].sent, e))
  BY <1>1, <1>2, <1>3, <1>4, <1>5, HeadIsNext
<1>7. e \in Nat /\ e >= 1 /\ NumEvents \in Nat /\ e <= NumEvents /\ pub.event \in Nat /\ pub.event <= NumEvents /\ NumEvents # 0 /\ Terminal = NumEvents
  BY <1>6, EventTyped DEF Events
<1>8. CASE e # Terminal
  <2>1. /\ lists' = lists /\ table' = table /\ logs' = logs /\ log' = log /\ pub' = pub
        /\ conn'[c].pc = "stream" /\ conn'[c].list = conn[c].list /\ conn'[c].at = conn[c].at
        /\ conn'[c].queue = Tail(conn[c].queue)
        /\ conn'[c].sent = Append(conn[c].sent, e)
    BY <1>4, <1>8, StreamEffect
  <2>2. ~Over' /\ LogComplete'
    BY <1>2, <2>1 DEF Over, LogComplete, NothingMissed
  <2>3. PICK q \in Seq(Events) : q = conn[c].queue
    BY <1>1
  <2>4. PICK p : p = conn'[c].queue
    OBVIOUS
  <2>5. /\ Len(p) = n - 1 /\ DOMAIN p = 1 .. n - 1 /\ \A i \in 1 .. n - 1 : p[i] = q[i + 1]
    <3>1. p = Tail(q) /\ n = Len(q) /\ q # <<>>
      BY <1>1, <1>5, <2>1, <2>3, <2>4
    <3>2. Len(Tail(q)) = Len(q) - 1 /\ Tail(q) \in Seq(Events) /\ \A i \in 1 .. Len(Tail(q)) : Tail(q)[i] = q[i + 1]
      BY <3>1, HeadTailProperties
    <3>3. DOMAIN p = 1 .. Len(p) /\ Len(p) = n - 1
      BY <3>1, <3>2
    <3> QED BY <3>1, <3>2, <3>3
  <2>6. \A i \in DOMAIN p : p[i] + Len(p) = g + i
    <3> SUFFICES ASSUME NEW i \in 1 .. n - 1 PROVE p[i] + (n - 1) = g + i
      BY <2>5
    <3>1. i + 1 \in 1 .. n /\ i \in Nat /\ DOMAIN q = 1 .. n
      BY <1>5, <1>6, <2>3
    <3>2. q[i + 1] + n = g + (i + 1)
      BY <1>3, <1>5, <2>3, <3>1 DEF GivenTo
    <3>3. q[i + 1] \in Nat
      <4>1. q[i + 1] \in Events
        <5>1. i + 1 \in 1 .. Len(q) /\ q \in Seq(Events)
          BY <1>5, <2>3, <3>1
        <5> QED BY <5>1, ElementOfSeq
      <4> QED BY <4>1, Terminals DEF Events
    <3>4. q[i + 1] + (n - 1) = g + i
      BY <1>6, <3>1, <3>2, <3>3
    <3> QED BY <2>5, <3>4
  <2>7. LastSent(c)' = e
    <3>1. conn[c].sent \in Seq(Events)
      BY DEF BroadcastTypes, TypeOK, Connection
    <3>2. Append(conn[c].sent, e) # <<>> /\ Append(conn[c].sent, e)[Len(Append(conn[c].sent, e))] = e
      BY <3>1, <1>6
    <3> QED BY <2>1, <3>2 DEF LastSent
  <2>8. g <= LastSent(c)' + Len(p)
    BY <1>6, <1>7, <2>5, <2>7
  <2>9. ASSUME NEW d \in Clients PROVE Served(d)'
    <3>1. Served(d)
      BY <1>2 DEF NothingMissed, Served
    <3>2. CASE d # c
      BY <1>1, <2>1, <3>1, <3>2, SameOwes, ServedKept
    <3>3. CASE d = c
      <4>1. Owed(c)' <=> Owed(c)
        BY <2>1, SameOwes
      <4>2. /\ g <= pub.event /\ pub.event <= g + 1
            /\ Owed(c) => pub.event = g + 1
            /\ ~Owed(c) /\ pub.event # Terminal => pub.event = g
        BY <1>3 DEF GivenTo
      <4>3. GivenTo(c, g)'
        BY <2>1, <2>4, <2>6, <2>8, <4>1, <4>2 DEF GivenTo
      <4> QED BY <3>3, <4>3 DEF Served
    <3> QED BY <3>2, <3>3
  <2>10. ASSUME NEW d \in Clients PROVE SentWell(d)'
    <3>1. CASE d = c
      BY <1>6, <2>1, <3>1 DEF SentWell
    <3>2. CASE d # c
      BY <1>1, <3>2 DEF NothingMissed, SentWell
    <3> QED BY <3>1, <3>2
  <2> QED BY <2>2, <2>9, <2>10 DEF NothingMissed, SentWell, Served
<1>9. CASE e = Terminal
  <2>1. PICK k \in Nat : Left(c, k)
    BY <1>4, <1>9, StreamEffect
  <2>2. conn'[c].pc = "out" /\ conn'[c].sent = Append(conn[c].sent, e)
    BY <1>4, <1>9, StreamEffect DEF Closed
  <2>3. g = NumEvents /\ pub.event = NumEvents /\ n = 1
    BY <1>6, <1>7, <1>9
  <2>4. ~Owed(c)
    BY <1>3, <2>3, <1>7 DEF GivenTo
  <2>5. LogComplete /\ log # 0 /\ (pub.pc = "push" => pub.list = table) /\ pub.pc # "lookup"
    BY <1>2, <1>7, <2>3, <2>4 DEF NothingMissed, LogComplete, Owed
  <2>6. /\ pub'.pc = pub.pc /\ pub'.event = pub.event /\ pub'.list = pub.list /\ logs' = logs
        /\ Len(lists'[table]) = Len(lists[table]) - 1 /\ table \in 1 .. Len(lists) /\ Len(lists') = Len(lists)
        /\ IF Len(lists[table]) = 1 THEN table' = 0 /\ log' = 0 ELSE table' = table /\ log' = log
    BY <2>1 DEF Left
  <2>7. ASSUME NEW d \in Clients PROVE SentWell(d)'
    <3>1. CASE d = c
      BY <1>6, <2>2, <3>1 DEF SentWell
    <3>2. CASE d # c
      BY <1>1, <3>2 DEF NothingMissed, SentWell
    <3> QED BY <3>1, <3>2
  <2>8. CASE Len(lists[table]) = 1
    <3>1. table' = 0 /\ log' = 0 /\ Over'
      BY <1>7, <2>3, <2>6, <2>8 DEF Over
    <3>2. \A d \in Clients : ~Connected(d)'
      BY <3>1 DEF ListsMatch
    <3>3. lists'[table] = <<>>
      <4>1. lists'[table] \in Seq(Clients)
        BY SMTT(40), <2>6 DEF BroadcastTypes, TypeOK
      <4> QED BY <2>6, <2>8, <4>1, EmptySeq
    <3>4. pub.pc = "push" => lists'[pub.list] = <<>> /\ pub.list # 0
      BY <2>5, <2>6, <3>3
    <3>5. OverHolds'
      BY <2>5, <2>6, <3>1, <3>2, <3>4 DEF OverHolds
    <3> QED BY <2>7, <3>1, <3>5 DEF NothingMissed, SentWell
  <2>9. CASE Len(lists[table]) # 1
    <3>1. table' = table /\ log' = log
      BY <2>6, <2>9
    <3>2. ~Over' /\ LogComplete'
      BY <1>2, <2>5, <2>6, <3>1 DEF Over, LogComplete
    <3>3. ASSUME NEW d \in Clients PROVE Served(d)'
      <4>1. Served(d)
        BY <1>2 DEF NothingMissed, Served
      <4>2. CASE d # c
        <5>1. Owed(d)' => Owed(d)
          BY <2>1, LeaveOwes
        <5> QED BY <1>1, <1>7, <2>3, <2>6, <3>1, <4>1, <4>2, <5>1, ServedKept
      <4>3. CASE d = c
        BY <2>2, <4>3 DEF Served, Connected
      <4> QED BY <4>2, <4>3
    <3> QED BY <2>7, <3>2, <3>3 DEF NothingMissed, SentWell, Served
  <2> QED BY <2>8, <2>9
<1> QED BY <1>8, <1>9

-----------------------------------------------------------------------------
(* The invariant.                                                           *)

LEMMA InOrderKept ==
    ASSUME BroadcastTypes, BroadcastTypes', ListsMatch, InOrder, Next
    PROVE  InOrder'
<1>1. CASE Record
  BY <1>1, RecordOrder
<1>2. CASE Lookup
  <2>1. conn' = conn /\ pub'.event = pub.event
    BY <1>2, LookupEffect
  <2>2. \A c \in Clients : Owed(c)
    BY <1>2, LookupOwes
  <2> QED BY <2>1, <2>2, OrderKept DEF InOrder
<1>3. CASE Push
  BY <1>3, PushOrder
<1>4. CASE Published
  <2>1. conn' = conn /\ pub'.event = pub.event
    BY <1>4, PublishedEffect
  <2>2. \A c \in Clients : ~Owed(c)'
    BY <1>4, PublishedOwes
  <2> QED BY <2>1, <2>2, OrderKept DEF InOrder
<1>5. ASSUME NEW c \in Clients, Join(c) PROVE InOrder'
  <2>1. ASSUME NEW d \in Clients PROVE Rising(conn[d], Limit(d))'
    <3>1. CASE d # c
      <4>1. conn'[d] = conn[d] /\ pub'.event = pub.event
        BY <1>5, <3>1, JoinEffect
      <4> QED BY <1>5, <3>1, <4>1, JoinOwes, OrderKept
    <3>2. CASE d = c
      <4>1. PICK k : k = conn'[c]
        OBVIOUS
      <4>2. k.queue = <<>> /\ k.at = Len(k.sent) /\ k.sent \in Seq(Events)
        <5>1. k.queue = <<>> /\ k.sent = <<>> /\ k.at = 0
          BY <1>5, <4>1, JoinEffect
        <5> QED BY <5>1, EmptySeq
      <4>3. \A b : Rising(k, b)
        BY <4>2, RisingFresh
      <4> QED BY <3>2, <4>1, <4>3 DEF Rising, Live
    <3> QED BY <3>1, <3>2
  <2> QED BY <2>1 DEF InOrder
<1>6. ASSUME NEW c \in Clients, BeginReplay(c) PROVE InOrder'
  <2>1. /\ conn[c].pc = "hello" /\ conn'[c].pc = (IF log = 0 THEN "stream" ELSE "replay")
        /\ conn'[c].queue = conn[c].queue /\ conn'[c].at = conn[c].at /\ conn'[c].sent = conn[c].sent
        /\ \A d \in Clients : d # c => conn'[d] = conn[d]
        /\ lists' = lists /\ pub' = pub
    BY <1>6, BeginReplayEffect
  <2>2. ASSUME NEW d \in Clients PROVE Rising(conn[d], Limit(d))'
    <3>1. CASE d # c
      BY <2>1, <3>1, SameOwes, OrderKept
    <3>2. CASE d = c
      <4>1. Limit(c)' = Limit(c) /\ Rising(conn[c], Limit(c))
        BY <2>1, SameOwes DEF Limit, InOrder
      <4>2. Live(conn[c])' = Live(conn[c])
        BY <2>1 DEF Live
      <4> QED BY <2>1, <3>2, <4>1, <4>2 DEF Rising
    <3> QED BY <3>1, <3>2
  <2> QED BY <2>2 DEF InOrder
<1>7. ASSUME NEW c \in Clients, Replay(c) PROVE InOrder'
  <2>1. ASSUME NEW d \in Clients PROVE Rising(conn[d], Limit(d))'
    <3>1. CASE d # c
      <4>1. conn'[d] = conn[d] /\ pub' = pub /\ lists' = lists
        BY <1>7, <3>1, ReplayEffect
      <4> QED BY <4>1, SameOwes, OrderKept
    <3>2. CASE d = c
      BY <1>7, <3>2, ReplayOrder
    <3> QED BY <3>1, <3>2
  <2> QED BY <2>1 DEF InOrder
<1>8. ASSUME NEW c \in Clients, NEW k \in Nat, Left(c, k), conn'[c].pc = "out", conn'[c].queue = <<>>,
             \A d \in Clients : d # c => conn'[d] = conn[d],
             \A b \in Nat : Rising(conn[c], b) => Rising(conn'[c], b)
      PROVE  InOrder'
  <2>1. ASSUME NEW d \in Clients PROVE Rising(conn[d], Limit(d))'
    <3>1. CASE d # c
      <4>1. conn'[d] = conn[d] /\ pub'.event = pub.event
        BY <1>8, <3>1 DEF Left
      <4> QED BY <1>8, <4>1, LeaveOwes, OrderKept
    <3>2. CASE d = c
      <4>1. Rising(conn'[c], Limit(c))
        BY <1>8, LimitTyped DEF InOrder
      <4>2. PICK m : m = conn'[c]
        OBVIOUS
      <4>3. m.pc = "out" /\ DOMAIN m.queue = {} /\ Rising(m, Limit(c))
        BY <1>8, <4>1, <4>2
      <4>4. \A b : Rising(m, b)
        BY <4>3 DEF Rising
      <4> QED BY <3>2, <4>2, <4>4 DEF Rising, Live
    <3> QED BY <3>1, <3>2
  <2> QED BY <2>1 DEF InOrder
<1>9. ASSUME NEW c \in Clients, Stream(c) PROVE InOrder'
  <2>1. PICK k : k = conn[c]
    OBVIOUS
  <2>2. PICK m : m = conn'[c]
    OBVIOUS
  <2>3. k \in Connection /\ k.pc = "stream" /\ k.queue # <<>>
    BY <1>9, <2>1, StreamEffect DEF BroadcastTypes, TypeOK
  <2>4. /\ m.at = k.at /\ m.sent = Append(k.sent, Head(k.queue)) /\ m.queue \in {<<>>, Tail(k.queue)}
        /\ m.pc \in {"out", "stream"}
    BY <1>9, <2>1, <2>2, StreamEffect DEF Closed
  <2>5. \A b \in Nat : Rising(k, b) => Rising(m, b)
    BY <2>3, <2>4, StreamOrder
  <2>6. \A d \in Clients : d # c => conn'[d] = conn[d]
    BY <1>9, StreamEffect
  <2>7. CASE Head(k.queue) = Terminal
    <3>1. /\ \E i \in Nat : Left(c, i)
          /\ m.pc = "out" /\ m.queue = <<>>
      BY <1>9, <2>1, <2>2, <2>7, StreamEffect DEF Closed
    <3> QED BY <1>8, <2>1, <2>2, <2>5, <2>6, <3>1
  <2>8. CASE Head(k.queue) # Terminal
    <3>1. lists' = lists /\ pub' = pub
      BY <1>9, <2>1, <2>8, StreamEffect
    <3>2. ASSUME NEW d \in Clients PROVE Rising(conn[d], Limit(d))'
      <4>1. CASE d # c
        BY <2>6, <3>1, <4>1, SameOwes, OrderKept
      <4>2. CASE d = c
        <5>1. Limit(c)' = Limit(c) /\ Rising(k, Limit(c))
          BY <2>1, <3>1, SameOwes DEF Limit, InOrder
        <5>2. Rising(m, Limit(c)')
          BY <2>5, <5>1, LimitTyped
        <5> QED BY <2>2, <4>2, <5>2 DEF Rising, Live
      <4> QED BY <4>1, <4>2
    <3> QED BY <3>2 DEF InOrder
  <2> QED BY <2>7, <2>8
<1>10. ASSUME NEW c \in Clients, Disconnect(c) PROVE InOrder'
  <2>1. /\ \E k \in Nat : Left(c, k)
        /\ Closed(conn'[c], <<>>, 0) /\ \A d \in Clients : d # c => conn'[d] = conn[d]
    BY <1>10, DisconnectEffect
  <2>2. PICK m : m = conn'[c]
    OBVIOUS
  <2>3. m.pc = "out" /\ m.queue = <<>> /\ m.at = Len(m.sent) /\ m.sent \in Seq(Events)
    BY <2>1, <2>2, EmptySeq DEF Closed
  <2>4. \A b : Rising(m, b)
    BY <2>3, RisingFresh
  <2> QED BY <1>8, <2>1, <2>2, <2>3, <2>4
<1> QED BY <1>1, <1>2, <1>3, <1>4, <1>5, <1>6, <1>7, <1>9, <1>10 DEF Next, Publish, Serve

LEMMA BroadcastNext ==
    ASSUME BroadcastInv, [Next]_vars
    PROVE  BroadcastInv'
<1> USE DEF BroadcastInv
<1>1. CASE UNCHANGED vars
  <2>1. /\ lists' = lists /\ table' = table /\ logs' = logs /\ log' = log /\ pub' = pub /\ conn' = conn
        /\ drops' = drops /\ joins' = joins /\ leaves' = leaves
    BY <1>1 DEF vars
  <2>2. BroadcastTypes'
    BY <2>1 DEF BroadcastTypes, TypeOK, PublisherTypes, ReplayTypes
  <2>3. ListsMatch'
    BY <2>1, ListsSame
  <2>4. InOrder'
    BY <2>1, <2>2, SameOwes, OrderKept DEF InOrder
  <2>5. \A c \in Clients : Served(c) => Served(c)'
    BY <2>1, SameOwes, ServedKept
  <2>6. Quiet' => NothingMissed'
    <3> SUFFICES ASSUME Quiet PROVE NothingMissed'
      BY <2>1 DEF Quiet
    <3>1. NothingMissed
      OBVIOUS
    <3>2. (Over' <=> Over) /\ (OverHolds => OverHolds') /\ (LogComplete => LogComplete')
      BY <2>1 DEF Over, OverHolds, LogComplete, Connected
    <3>3. ~Over => \A c \in Clients : Served(c)'
      BY <2>5, <3>1 DEF NothingMissed, Served
    <3> QED BY <2>1, <3>1, <3>2, <3>3 DEF NothingMissed, Served
  <2> QED BY <2>2, <2>3, <2>4, <2>6
<1>2. CASE Next
  <2>1. BroadcastTypes'
    BY <1>2, RecordEffect, LookupEffect, PushEffect, PublishedEffect, JoinEffect, BeginReplayEffect, ReplayEffect,
       StreamEffect, DisconnectEffect DEF Next, Publish, Serve
  <2>2. InOrder'
    BY <1>2, <2>1, InOrderKept
  <2>3. ListsMatch' /\ (Quiet' => NothingMissed')
    <3> DEFINE Kept == ListsMatch' /\ (Quiet' => NothingMissed')
    <3>1. Quiet => NothingMissed
      OBVIOUS
    <3>2. CASE Record
      <4>1. lists' = lists /\ table' = table /\ conn' = conn /\ drops' = drops /\ leaves' = leaves
        BY <3>2, RecordEffect
      <4> QED BY <3>1, <3>2, <4>1, ListsSame, RecordMisses DEF Quiet
    <3>3. CASE Lookup
      <4>1. drops' = drops /\ leaves' = leaves
        BY <3>3, LookupEffect
      <4> QED BY <3>1, <3>3, <4>1, LookupLists, LookupMisses DEF Quiet
    <3>4. CASE Push
      <4>1. /\ lists' = lists /\ table' = table /\ leaves' = leaves /\ drops' \in {drops, drops + 1} /\ drops \in Nat
            /\ \A c \in Clients : conn'[c].list = conn[c].list /\ (conn'[c].pc = "out" <=> conn[c].pc = "out")
        BY <3>4, PushEffect DEF SameButQueue, BroadcastTypes, TypeOK
      <4>2. Quiet' => Quiet /\ drops' = drops
        BY <4>1 DEF Quiet
      <4> QED BY <3>1, <3>4, <4>1, <4>2, ListsSame, PushMisses
    <3>5. CASE Published
      <4>1. lists' = lists /\ table' = table /\ conn' = conn /\ drops' = drops /\ leaves' = leaves
        BY <3>5, PublishedEffect
      <4> QED BY <3>1, <3>5, <4>1, ListsSame, PublishedMisses DEF Quiet
    <3>6. ASSUME NEW c \in Clients, Join(c) PROVE Kept
      <4>1. drops' = drops /\ leaves' = leaves
        BY <3>6, JoinEffect
      <4> QED BY <3>1, <3>6, <4>1, JoinLists, JoinMisses DEF Quiet
    <3>7. ASSUME NEW c \in Clients, BeginReplay(c) PROVE Kept
      <4>1. /\ lists' = lists /\ table' = table /\ drops' = drops /\ leaves' = leaves
            /\ conn[c].pc = "hello" /\ conn'[c].pc \in {"stream", "replay"} /\ conn'[c].list = conn[c].list
            /\ \A d \in Clients : d # c => conn'[d] = conn[d]
        BY <3>7, BeginReplayEffect
      <4> QED BY <3>1, <3>7, <4>1, ListsSame, BeginReplayMisses DEF Quiet
    <3>8. ASSUME NEW c \in Clients, Replay(c) PROVE Kept
      <4>1. /\ lists' = lists /\ table' = table /\ drops' = drops /\ leaves' = leaves
            /\ conn[c].pc = "replay" /\ conn'[c].pc \in {"stream", "replay"} /\ conn'[c].list = conn[c].list
            /\ \A d \in Clients : d # c => conn'[d] = conn[d]
        BY <3>8, ReplayEffect
      <4> QED BY <2>1, <3>1, <3>8, <4>1, ListsSame, ReplayMisses DEF Quiet
    <3>9. ASSUME NEW c \in Clients, Stream(c) PROVE Kept
      <4>1. /\ drops' = drops /\ leaves' = leaves /\ \A d \in Clients : d # c => conn'[d] = conn[d]
            /\ conn[c].pc = "stream"
            /\ \/ conn'[c].pc = "out" /\ \E k \in Nat : Left(c, k)
               \/ lists' = lists /\ table' = table /\ conn'[c].pc = "stream" /\ conn'[c].list = conn[c].list
        BY <3>9, StreamEffect DEF Closed
      <4>2. ListsMatch'
        BY <2>1, <4>1, ListsSame, LeaveLists
      <4> QED BY <2>1, <3>1, <3>9, <4>1, <4>2, StreamMisses DEF Quiet
    <3>10. ASSUME NEW c \in Clients, Disconnect(c) PROVE Kept
      <4>1. /\ \E k \in Nat : Left(c, k)
            /\ conn'[c].pc = "out" /\ \A d \in Clients : d # c => conn'[d] = conn[d]
            /\ leaves' = leaves + 1 /\ leaves \in Nat
        BY <3>10, DisconnectEffect DEF Closed, BroadcastTypes, TypeOK
      <4>2. ListsMatch'
        BY <2>1, <4>1, LeaveLists
      <4>3. ~Quiet'
        BY <4>1 DEF Quiet
      <4> QED BY <4>2, <4>3
    <3> QED BY <1>2, <3>2, <3>3, <3>4, <3>5, <3>6, <3>7, <3>8, <3>9, <3>10 DEF Next, Publish, Serve
  <2> QED BY <2>1, <2>2, <2>3
<1> QED BY <1>1, <1>2

LEMMA BroadcastInvariant == Spec => []BroadcastInv
<1> QED BY BroadcastInit, BroadcastNext, PTL DEF Spec

(* Every queue, log, list and table entry of the broadcaster is what its    *)
(* fields say: no client replays a log, and no event is handed to a list,   *)
(* that was never made.                                                     *)
THEOREM BroadcastTypesHold == Spec => []TypeOK
<1>1. BroadcastInv => TypeOK
  BY DEF BroadcastInv, BroadcastTypes
<1> QED BY <1>1, BroadcastInvariant, PTL

(* Whoever is connected is in the list that the next publish will look up,  *)
(* however clients come and go, break off and come back: serve appends to   *)
(* the list in the table, and cleanup takes a list out of it only when      *)
(* nobody is left in it.                                                    *)
THEOREM ClientsStayReachable == Spec => []SubscribersReachable
<1>1. BroadcastInv => SubscribersReachable
  BY DEF BroadcastInv, ListsMatch, SubscribersReachable
<1> QED BY <1>1, BroadcastInvariant, PTL

(* While no connection breaks and no queue overflows, no client misses an   *)
(* event, whenever it joined: the log it replays and the queue it then      *)
(* streams from overlap or meet (publish logs before it hands out, serve    *)
(* subscribes before it replays).                                           *)
THEOREM NothingIsMissed == Spec => []NoGap
<1>1. BroadcastInv => NoGap
  BY DEF BroadcastInv, Quiet, NothingMissed, NoGap
<1> QED BY <1>1, BroadcastInvariant, PTL

(* What a client is streamed is in the order of publication, with full      *)
(* queues and broken connections as well.                                   *)
THEOREM EventsStayInOrder == Spec => []StreamedInOrder
<1>1. BroadcastInv => StreamedInOrder
  BY DEF BroadcastInv, InOrder, Rising, Live, StreamedInOrder
<1> QED BY <1>1, BroadcastInvariant, PTL
=============================================================================
