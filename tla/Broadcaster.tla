----------------------------- MODULE Broadcaster -----------------------------
(***************************************************************************)
(* The events of one extraction run on their way to WebSocket clients.     *)
(* Source: backend/app/api/ws_broadcast.py and ws_extraction.py.           *)
(*                                                                         *)
(* The run publishes from a thread of its own, with an event loop of its   *)
(* own; all clients are served by the server's event loop, where a handler *)
(* gives way only at an await.  Subscriber lists and event logs are Python *)
(* objects that a handler may still hold after cleanup took them out of    *)
(* the table, so both are numbered here.                                   *)
(***************************************************************************)
EXTENDS Naturals, Sequences

CONSTANTS
    Clients,
    NumEvents,  \* events of the run; the last one is terminal
    QueueSize,  \* _WS_QUEUE_MAXSIZE
    MaxJoins,   \* bound: connections made
    MaxLeaves   \* bound: connections that break

ASSUME BroadcasterBounds ==
    /\ NumEvents \in Nat \ {0} /\ QueueSize \in Nat \ {0}
    /\ MaxJoins \in Nat /\ MaxLeaves \in Nat

VARIABLES
    lists,   \* the subscriber lists made so far
    table,   \* _subscribers[key]: the number of one of them, 0 for none
    logs,    \* the event logs made so far
    log,     \* _history[key]: the number of one of them, 0 for none
    pub,     \* the publishing thread
    conn,    \* conn[c]: the connection of client c
    drops,   \* history: events dropped from full queues
    joins, leaves

vars == <<lists, table, logs, log, pub, conn, drops, joins, leaves>>
book == <<lists, table, logs, log>>

Events == 1 .. NumEvents
Terminal == NumEvents

Publisher ==
    [pc : {"idle", "lookup", "push"},
     event : Nat,                \* the last event published
     list : Nat, next : Nat,     \* the list iterated over, and where
     audience : SUBSET Clients]  \* history: who was in it when this began

Connection ==
    [pc : {"out", "hello", "replay", "stream"},
     list : Nat, queue : Seq(Events),
     log : Nat, at : Nat,        \* the log replayed, and how far
     sent : Seq(Events)]         \* history: the events sent

NoConnection ==
    [pc |-> "out", list |-> 0, queue |-> <<>>, log |-> 0, at |-> 0, sent |-> <<>>]

Connected(c) == conn[c].pc # "out"
Members(l) == {lists[l][i] : i \in DOMAIN lists[l]}

\* Mutant: the list that a subscriber adds itself to is not put in the table.
ListsWithoutKey == lists

\* The list of the key, made on demand (setdefault).
ListsWithKey == IF table = 0 THEN Append(lists, <<>>) ELSE lists
ListOfKey == IF table = 0 THEN Len(lists) + 1 ELSE table

-----------------------------------------------------------------------------
Init ==
    /\ lists = <<>> /\ table = 0
    /\ logs = <<>> /\ log = 0
    /\ pub = [pc |-> "idle", event |-> 0, list |-> 0, next |-> 1, audience |-> {}]
    /\ conn = [c \in Clients |-> NoConnection]
    /\ drops = 0 /\ joins = 0 /\ leaves = 0

-----------------------------------------------------------------------------
(* publish, in the thread of the run.                                       *)

\* Mutant: the event is logged after it was handed out.
RecordLate ==
    /\ pub.pc = "idle" /\ pub.event < NumEvents
    /\ pub' = [pub EXCEPT !.pc = "lookup", !.event = @ + 1]
    /\ LET known == IF log = 0 THEN Append(logs, <<>>) ELSE logs
           this == IF log = 0 THEN Len(logs) + 1 ELSE log IN
       /\ logs' = IF pub.event = 0 THEN known
                  ELSE [known EXCEPT ![this] = Append(@, pub.event)]
       /\ log' = this
    /\ UNCHANGED <<lists, table, conn, drops, joins, leaves>>

Record ==
    /\ pub.pc = "idle" /\ pub.event < NumEvents
    /\ pub' = [pub EXCEPT !.pc = "lookup", !.event = @ + 1]
    /\ IF log = 0
       THEN logs' = Append(logs, <<pub'.event>>) /\ log' = Len(logs')
       ELSE logs' = [logs EXCEPT ![log] = Append(@, pub'.event)] /\ UNCHANGED log
    /\ UNCHANGED <<lists, table, conn, drops, joins, leaves>>

Lookup ==
    /\ pub.pc = "lookup"
    /\ lists' = ListsWithKey /\ table' = ListOfKey
    /\ pub' = [pub EXCEPT !.pc = "push", !.list = ListOfKey, !.next = 1,
                          !.audience = {c \in Clients : conn[c].list = ListOfKey}]
    /\ UNCHANGED <<logs, log, conn, drops, joins, leaves>>

\* Mutant: the events that wait are taken newest first.
PushNewestFirst ==
    /\ pub.pc = "push" /\ pub.next <= Len(lists[pub.list])
    /\ LET c == lists[pub.list][pub.next] IN
       IF Len(conn[c].queue) < QueueSize
       THEN conn' = [conn EXCEPT ![c].queue = <<pub.event>> \o @] /\ UNCHANGED drops
       ELSE drops' = drops + 1 /\ UNCHANGED conn
    /\ pub' = [pub EXCEPT !.next = @ + 1]
    /\ UNCHANGED <<book, joins, leaves>>

\* The iterator is a position in the list.  A full queue drops the event.
Push ==
    /\ pub.pc = "push" /\ pub.next <= Len(lists[pub.list])
    /\ LET c == lists[pub.list][pub.next] IN
       IF Len(conn[c].queue) < QueueSize
       THEN conn' = [conn EXCEPT ![c].queue = Append(@, pub.event)] /\ UNCHANGED drops
       ELSE drops' = drops + 1 /\ UNCHANGED conn
    /\ pub' = [pub EXCEPT !.next = @ + 1]
    /\ UNCHANGED <<book, joins, leaves>>

Published ==
    /\ pub.pc = "push" /\ pub.next > Len(lists[pub.list])
    /\ pub' = [pub EXCEPT !.pc = "idle", !.audience = {}]
    /\ UNCHANGED <<book, conn, drops, joins, leaves>>

-----------------------------------------------------------------------------
(* serve, on the event loop of the server.                                  *)

Join(c) ==
    /\ ~Connected(c)
    /\ joins < MaxJoins /\ joins' = joins + 1
    /\ lists' = [ListsWithKey EXCEPT ![ListOfKey] = Append(@, c)]
    /\ table' = ListOfKey
    /\ conn' = [conn EXCEPT ![c] = [NoConnection EXCEPT !.pc = "hello", !.list = ListOfKey]]
    /\ UNCHANGED <<logs, log, pub, drops, leaves>>

\* "connected" has been sent.
BeginReplay(c) ==
    /\ conn[c].pc = "hello"
    /\ conn' = [conn EXCEPT ![c].pc = IF log = 0 THEN "stream" ELSE "replay",
                            ![c].log = log]
    /\ UNCHANGED <<book, pub, drops, joins, leaves>>

\* The log may grow while it is replayed.
Replay(c) ==
    LET k == conn[c] IN
    /\ k.pc = "replay"
    /\ conn' = [conn EXCEPT ![c] =
                   IF k.at < Len(logs[k.log])
                   THEN [k EXCEPT !.at = @ + 1,
                                  !.sent = Append(@, logs[k.log][k.at + 1])]
                   ELSE [k EXCEPT !.pc = "stream"]]
    /\ UNCHANGED <<book, pub, drops, joins, leaves>>

\* list.remove: the first one goes, those behind it move up.
Without(list, c) ==
    LET first(i) == list[i] = c /\ \A j \in 1 .. i - 1 : list[j] # c
        k == CHOOSE i \in DOMAIN list : first(i) IN
    IF \E i \in DOMAIN list : list[i] = c
    THEN [j \in 1 .. Len(list) - 1 |-> list[IF j < k THEN j ELSE j + 1]]
    ELSE list

\* Mutant: cleanup does not look whether others are in the list.
LeaveAndCleanup(c) ==
    LET l == conn[c].list IN
    /\ lists' = [lists EXCEPT ![l] = Without(@, c)]
    /\ table' = 0 /\ log' = 0
    /\ pub' = [pub EXCEPT !.audience = @ \ {c}]
    /\ UNCHANGED logs

\* The finally clause: the last one to leave takes list and log with it.
Leave(c) ==
    LET l == conn[c].list
        empty == Without(lists[l], c) = <<>> IN
    /\ lists' = [lists EXCEPT ![l] = Without(@, c)]
    /\ table' = IF empty THEN 0 ELSE table
    /\ log' = IF empty THEN 0 ELSE log
    /\ pub' = [pub EXCEPT !.audience = @ \ {c}]
    /\ UNCHANGED logs

\* Mutant: a terminal event does not end the loop.
StreamOn(c) ==
    LET k == conn[c] IN
    /\ k.pc = "stream" /\ k.queue # <<>>
    /\ conn' = [conn EXCEPT ![c].queue = Tail(@), ![c].sent = Append(@, Head(k.queue))]
    /\ UNCHANGED <<book, pub, drops, joins, leaves>>

\* The next event is sent; a terminal one ends the connection.  Heartbeats,
\* which only keep an idle connection busy, are left out.
Stream(c) ==
    LET k == conn[c]
        sent == [k EXCEPT !.queue = Tail(@), !.sent = Append(@, Head(k.queue))] IN
    /\ k.pc = "stream" /\ k.queue # <<>>
    /\ IF Head(k.queue) = Terminal
       THEN Leave(c) /\ conn' = [conn EXCEPT ![c] = [NoConnection EXCEPT !.sent = sent.sent,
                                                                         !.at = k.at]]
       ELSE UNCHANGED <<book, pub>> /\ conn' = [conn EXCEPT ![c] = sent]
    /\ UNCHANGED <<drops, joins, leaves>>

\* The client goes away, or a send fails.
Disconnect(c) ==
    /\ Connected(c)
    /\ leaves < MaxLeaves /\ leaves' = leaves + 1
    /\ Leave(c)
    /\ conn' = [conn EXCEPT ![c] = NoConnection]
    /\ UNCHANGED <<drops, joins>>

Publish == Record \/ Lookup \/ Push \/ Published
Serve(c) == BeginReplay(c) \/ Replay(c) \/ Stream(c)
Next == Publish \/ \E c \in Clients : Join(c) \/ Serve(c) \/ Disconnect(c)

Spec == Init /\ [][Next]_vars

\* The thread of the run and the event loop of the server both keep running.
FairSpec == Spec /\ WF_vars(Publish) /\ \A c \in Clients : WF_vars(Serve(c))

-----------------------------------------------------------------------------
(* Properties.                                                              *)

TypeOK ==
    /\ lists \in Seq(Seq(Clients)) /\ table \in 0 .. Len(lists)
    /\ logs \in Seq(Seq(Events)) /\ log \in 0 .. Len(logs)
    /\ pub \in Publisher
    /\ conn \in [Clients -> Connection]
    /\ drops \in Nat /\ joins \in Nat /\ leaves \in Nat

(* Whoever is connected is in the list that the next publish will look up,  *)
(* however clients come and go (cleanup happens only when the list is       *)
(* empty).                                                                  *)
SubscribersReachable ==
    \A c \in Clients : Connected(c) => table = conn[c].list /\ c \in Members(table)

(* While no connection breaks and no queue overflows, no client misses an   *)
(* event, whenever it joined: it is sent the first one first and never one  *)
(* beyond the next (publish logs an event before it hands it out, serve     *)
(* subscribes before it replays).                                           *)
GapFree(sent) == \A i \in DOMAIN sent : sent[i] <= 1 + (IF i = 1 THEN 0 ELSE sent[i - 1])
NoGap == leaves = 0 /\ drops = 0 => \A c \in Clients : GapFree(conn[c].sent)

(* What a client is streamed is in the order of publication, even if some   *)
(* of it was dropped (publish to a full queue drops the new event).         *)
StreamedInOrder ==
    \A c \in Clients : LET sent == conn[c].sent IN
        \A i, j \in conn[c].at + 1 .. Len(sent) : i < j => sent[i] < sent[j]

(* A client that is first in the list and has room in its queue when the    *)
(* terminal event is handed out is served to its end, whoever else comes    *)
(* and goes (serve breaks out of its loop then).  The others may be missed: *)
(* the iterator skips one when a client before it leaves.                   *)
ServedToTheEnd ==
    \A c \in Clients :
        (/\ pub.event = Terminal /\ pub.pc = "push" /\ pub.next = 1
         /\ lists[pub.list] # <<>> /\ Head(lists[pub.list]) = c
         /\ Len(conn[c].queue) < QueueSize) ~> ~Connected(c)
=============================================================================
