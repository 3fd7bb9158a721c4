---------------------------- MODULE MCBroadcaster ----------------------------
(* Instances of Broadcaster for TLC.                                        *)
EXTENDS Broadcaster

-----------------------------------------------------------------------------
(***************************************************************************)
(* What documents, comments and docstrings say where the code does         *)
(* something else.                                                         *)
(***************************************************************************)
(* ws_broadcast.py:42, of publish: "Publish an event to all subscribers for *)
(* *key*."  Whoever was subscribed when the handing out began, and still    *)
(* is, has the event in the end.                                            *)
PublishReachesAll ==
    [][Published => \A c \in pub.audience : \E seq \in {conn[c].queue, conn[c].sent} :
          \E i \in DOMAIN seq : seq[i] = pub.event]_vars

(* ws_extraction.py:49: "Replays any missed events on connect, then streams *)
(* live updates."  A client that comes back gets what it missed.            *)
MissedEventsReplayed == drops = 0 => \A c \in Clients : GapFree(conn[c].sent)
=============================================================================
