------------------------------ MODULE Realtime ------------------------------
(***************************************************************************)
(* The realtime hub and its sockets (realtime/hub.py, router.py,           *)
(* topics.py) for the topics of one workspace, with the writes elsewhere   *)
(* that take access away. Everything runs in one event loop: what has no   *)
(* await in it is one action. A connection has a reader, which handles one *)
(* frame at a time, and a writer.                                          *)
(***************************************************************************)
EXTENDS Naturals, Sequences, FiniteSets

CONSTANTS Conns,       \* sockets there may be
          Users,
          Topics,      \* decisions of the workspace
          None,
          OutboxSize,  \* OUTBOX_SIZE
          MaxPerUser,  \* MAX_CONNECTIONS_PER_USER
          MaxEvents,   \* bound: events published
          MaxRemovals  \* bound: times somebody loses access

VARIABLES
  member,    \* users with access to the workspace
  gone,      \* topics whose decision is deleted
  telling,   \* removals and deletions written, and not yet told to the hub
  conn,      \* each connection, as its reader and writer know it
  heard,     \* Hub._by_topic
  reader,    \* what the reader of a connection is doing
  events,    \* bound: events published so far
  removals,  \* bound
  due,       \* history: events published while a connection listened
  got        \* history: events written to its socket

vars == <<member, gone, telling, conn, heard, reader, events, removals, due, got>>
world == <<member, gone, telling, removals>>

Closed == [user |-> None, topics |-> {}, outbox |-> <<>>, closing |-> FALSE, age |-> "out"]
Waiting == [doing |-> "receive", topic |-> None, left |-> {}, allowed |-> FALSE]
Control == 0           \* a control frame; events are numbered from 1
Close == MaxEvents + 1 \* a CloseRequest

Connected(c) == conn[c].user # None
SocketsOf(u) == {c \in Conns : conn[c].user = u}

Init ==
  /\ member = Users
  /\ gone = {}
  /\ telling = {}
  /\ conn = [c \in Conns |-> Closed]
  /\ heard = [t \in Topics |-> {}]
  /\ reader = [c \in Conns |-> [Waiting EXCEPT !.doing = "away"]]
  /\ events = 0
  /\ removals = 0
  /\ due = [c \in Conns |-> {}]
  /\ got = [c \in Conns |-> <<>>]

-----------------------------------------------------------------------------
(* Connection.send and close, on a connection's record.                    *)

Shut(k) == IF k.closing THEN k ELSE [k EXCEPT !.closing = TRUE, !.outbox = <<Close>>]

\* Slip: a full outbox drops the frame and nothing else.
SendOrDrop(k, frame) ==
  IF k.closing \/ Len(k.outbox) = OutboxSize THEN k ELSE [k EXCEPT !.outbox = Append(@, frame)]

Send(k, frame) ==
  IF k.closing THEN k
  ELSE IF Len(k.outbox) = OutboxSize THEN Shut(k)
  ELSE [k EXCEPT !.outbox = Append(@, frame)]

(* Hub.unsubscribe of each topic, and after each the frame that says so.   *)
LeaveTopics(k, S) ==
  LET left == [k EXCEPT !.topics = @ \ S]
  IN IF k.closing THEN left
     ELSE IF Len(k.outbox) + Cardinality(S) > OutboxSize THEN Shut(left)
     ELSE [left EXCEPT !.outbox = @ \o [i \in 1..Cardinality(S) |-> Control]]

-----------------------------------------------------------------------------
(* A socket opens and goes.                                                *)

(* realtime, up to its writer's task: the user is known, and has room.     *)
Open(c, u) ==
  /\ reader[c].doing = "away" /\ ~Connected(c)
  /\ Cardinality(SocketsOf(u)) < MaxPerUser
  /\ conn' = [conn EXCEPT ![c] = Send([Closed EXCEPT !.user = u, !.age = "new"], Control)]
  /\ reader' = [reader EXCEPT ![c] = Waiting]
  /\ due' = [due EXCEPT ![c] = {}]
  /\ got' = [got EXCEPT ![c] = <<>>]
  /\ UNCHANGED <<world, heard, events>>

(* The reader ends: the client went, or the server asked to close and it   *)
(* is between two frames. Hub.remove; the writer sends a close that waits. *)
Disconnect(c) ==
  /\ Connected(c) /\ reader[c].doing = "receive"
  /\ conn' = [conn EXCEPT ![c] = Closed]
  /\ heard' = [t \in Topics |-> heard[t] \ {c}]
  /\ reader' = [reader EXCEPT ![c].doing = "away"]
  /\ due' = [due EXCEPT ![c] = {}]
  /\ got' = [got EXCEPT ![c] = <<>>]
  /\ UNCHANGED <<world, events>>

(* _write: one frame.                                                      *)
Write(c) ==
  /\ Connected(c) /\ conn[c].outbox # <<>> /\ Head(conn[c].outbox) # Close
  /\ conn' = [conn EXCEPT ![c].outbox = Tail(@)]
  /\ got' = [got EXCEPT ![c] = IF Head(conn[c].outbox) = Control THEN @ ELSE Append(@, Head(conn[c].outbox))]
  /\ UNCHANGED <<world, heard, reader, events, due>>

(* The access token gets old, and runs out.                                *)
Age(c) ==
  /\ Connected(c) /\ conn[c].age # "out"
  /\ conn' = [conn EXCEPT ![c].age = IF @ = "new" THEN "old" ELSE "out"]
  /\ UNCHANGED <<world, heard, reader, events, due, got>>

-----------------------------------------------------------------------------
(* _read and _handle.                                                      *)

Reads(c) == Connected(c) /\ reader[c].doing = "receive" /\ ~conn[c].closing /\ conn[c].age # "out"
Reader(c, r) == reader' = [reader EXCEPT ![c] = r]

TokenRunsOut(c) ==
  /\ Connected(c) /\ reader[c].doing = "receive" /\ ~conn[c].closing /\ conn[c].age = "out"
  /\ conn' = [conn EXCEPT ![c] = Shut(@)]
  /\ UNCHANGED <<world, heard, reader, events, due, got>>

(* A ping, or a frame that is refused; too many of them close the socket.  *)
Ping(c) ==
  /\ Reads(c)
  /\ \/ conn' = [conn EXCEPT ![c] = Send(@, Control)]
     \/ conn' = [conn EXCEPT ![c] = Shut(@)]
  /\ UNCHANGED <<world, heard, reader, events, due, got>>

AskSubscribe(c, t) ==
  /\ Reads(c)
  /\ Reader(c, [Waiting EXCEPT !.doing = "authorize", !.topic = t])
  /\ UNCHANGED <<world, conn, heard, events, due, got>>

(* topics.authorize: the decision is there, and its reader is a member.    *)
MaySee(c, t) == t \notin gone /\ conn[c].user \in member

Authorize(c) ==
  /\ reader[c].doing = "authorize"
  /\ Reader(c, [reader[c] EXCEPT !.doing = "authorized", !.allowed = MaySee(c, reader[c].topic)])
  /\ UNCHANGED <<world, conn, heard, events, due, got>>

Subscribe(c) ==
  LET t == reader[c].topic
  IN /\ reader[c].doing = "authorized" /\ reader[c].left = {}
     /\ IF reader[c].allowed
        THEN /\ conn' = [conn EXCEPT ![c] = Send([conn[c] EXCEPT !.topics = @ \cup {t}], Control)]
             /\ heard' = [heard EXCEPT ![t] = @ \cup {c}]
        ELSE conn' = [conn EXCEPT ![c] = Send(@, Control)] /\ UNCHANGED heard
     /\ Reader(c, Waiting)
     /\ UNCHANGED <<world, events, due, got>>

Unsubscribe(c, t) ==
  /\ Reads(c)
  /\ conn' = [conn EXCEPT ![c] = LeaveTopics(@, {t})]
  /\ heard' = [heard EXCEPT ![t] = @ \ {c}]
  /\ UNCHANGED <<world, reader, events, due, got>>

(* Auth: the client's new token, and _recheck of every topic in turn.      *)
Reauth(c) ==
  /\ Reads(c)
  /\ conn' = [conn EXCEPT ![c].age = "new"]
  /\ IF conn[c].topics = {} THEN UNCHANGED reader
     ELSE \E t \in conn[c].topics :
            Reader(c, [Waiting EXCEPT !.doing = "authorize", !.topic = t, !.left = conn[c].topics])
  /\ UNCHANGED <<world, heard, events, due, got>>

\* Slip: a refused topic is reported and kept.
RecheckOnly(c) ==
  LET left == reader[c].left \ {reader[c].topic}
  IN /\ reader[c].doing = "authorized" /\ reader[c].left # {}
     /\ conn' = [conn EXCEPT ![c] = IF reader[c].allowed THEN @ ELSE Send(@, Control)]
     /\ IF left = {} THEN Reader(c, Waiting)
        ELSE \E n \in left : Reader(c, [Waiting EXCEPT !.doing = "authorize", !.topic = n, !.left = left])
     /\ UNCHANGED <<world, heard, events, due, got>>

Recheck(c) ==
  LET t == reader[c].topic
      left == reader[c].left \ {t}
  IN /\ reader[c].doing = "authorized" /\ reader[c].left # {}
     /\ IF reader[c].allowed THEN UNCHANGED <<conn, heard>>
        ELSE /\ conn' = [conn EXCEPT ![c] = LeaveTopics(@, {t})]
             /\ heard' = [heard EXCEPT ![t] = @ \ {c}]
     /\ IF left = {} THEN Reader(c, Waiting)
        ELSE \E n \in left : Reader(c, [Waiting EXCEPT !.doing = "authorize", !.topic = n, !.left = left])
     /\ UNCHANGED <<world, events, due, got>>

-----------------------------------------------------------------------------
(* Hub.publish, of a comment or of a signal that u's other members get.    *)

Publish(t, u) ==
  LET out == {c \in heard[t] : conn[c].user # u}
      n == events + 1
  IN /\ n <= MaxEvents
     /\ u # None => \E c \in SocketsOf(u) : Reads(c) /\ t \in conn[c].topics
     /\ events' = n
     /\ conn' = [c \in Conns |-> IF c \in out THEN Send(conn[c], n) ELSE conn[c]]
     /\ due' = [c \in Conns |-> IF Connected(c) /\ t \in conn[c].topics /\ conn[c].user # u
                                THEN due[c] \cup {n} ELSE due[c]]
     /\ UNCHANGED <<world, heard, reader, got>>

-----------------------------------------------------------------------------
(* Access is taken away: the write, and after it the hub hears of it.      *)

Leave(u) ==
  /\ u \in member /\ removals < MaxRemovals
  /\ removals' = removals + 1
  /\ member' = member \ {u}
  /\ telling' = telling \cup {u}
  /\ UNCHANGED <<gone, conn, heard, reader, events, due, got>>

Rejoin(u) ==
  /\ u \notin member
  /\ member' = member \cup {u}
  /\ UNCHANGED <<gone, telling, removals, conn, heard, reader, events, due, got>>

(* Hub.revoke of a user who left; service.delete revokes everyone at once. *)
Revoke(u) ==
  /\ u \in telling
  /\ telling' = telling \ {u}
  /\ conn' = [c \in Conns |-> IF conn[c].user = u THEN LeaveTopics(conn[c], conn[c].topics) ELSE conn[c]]
  /\ heard' = [t \in Topics |-> heard[t] \ SocketsOf(u)]
  /\ UNCHANGED <<member, gone, removals, reader, events, due, got>>

(* suggest.dismiss: the decision is deleted; after its comments are, the   *)
(* topic is published to and closed.                                       *)
Dismiss(t) ==
  /\ t \notin gone
  /\ gone' = gone \cup {t}
  /\ telling' = telling \cup {t}
  /\ UNCHANGED <<member, removals, conn, heard, reader, events, due, got>>

CloseTopic(t) ==
  /\ t \in telling
  /\ telling' = telling \ {t}
  /\ conn' = [c \in Conns |-> IF c \in heard[t] THEN LeaveTopics(Send(conn[c], Control), {t}) ELSE conn[c]]
  /\ heard' = [heard EXCEPT ![t] = {}]
  /\ UNCHANGED <<member, gone, removals, reader, events, due, got>>

(* The request that took access away dies before it tells the hub.         *)
NeverTold(x) ==
  /\ x \in telling
  /\ telling' = telling \ {x}
  /\ UNCHANGED <<member, gone, removals, conn, heard, reader, events, due, got>>

Step(c) == Authorize(c) \/ Subscribe(c) \/ Recheck(c) \/ TokenRunsOut(c) \/ Age(c)
EndClosed(c) == conn[c].closing /\ Disconnect(c)

Next ==
  \/ \E c \in Conns :
       \/ Step(c) \/ Disconnect(c) \/ Write(c) \/ Ping(c) \/ Reauth(c)
       \/ \E u \in Users : Open(c, u)
       \/ \E t \in Topics : AskSubscribe(c, t) \/ Unsubscribe(c, t)
  \/ \E t \in Topics : Dismiss(t) \/ CloseTopic(t) \/ NeverTold(t) \/ \E u \in Users \cup {None} : Publish(t, u)
  \/ \E u \in Users : Leave(u) \/ Rejoin(u) \/ Revoke(u) \/ NeverTold(u)

Spec == Init /\ [][Next]_vars

(* The event loop runs every task, tokens run out, and a close ends both   *)
(* sides of a socket.                                                      *)
Fairness == \A c \in Conns :
  WF_vars(Authorize(c)) /\ WF_vars(Subscribe(c) \/ Recheck(c)) /\ WF_vars(TokenRunsOut(c))
  /\ WF_vars(Age(c)) /\ WF_vars(EndClosed(c))
FairSpec == Spec /\ Fairness
-----------------------------------------------------------------------------
TypeOK ==
  /\ member \subseteq Users /\ gone \subseteq Topics /\ telling \subseteq Users \cup Topics
  /\ \A c \in Conns :
       /\ conn[c].topics \subseteq Topics
       /\ Len(conn[c].outbox) <= OutboxSize
       /\ conn[c].closing => conn[c].outbox = <<Close>>
  /\ \A t \in Topics : heard[t] = {c \in Conns : t \in conn[c].topics}
  /\ \A u \in Users : Cardinality(SocketsOf(u)) <= MaxPerUser

(* "so it never silently misses an event" (hub.py:5): what was written to  *)
(* a socket that is not being closed, and what waits for it, is every      *)
(* event published while it listened, in order, however slow it is.        *)
NoSilentGap ==
  \A c \in Conns :
    LET sent == got[c] \o conn[c].outbox
    IN \/ conn[c].closing
       \/ /\ {sent[i] : i \in DOMAIN sent} \ {Control} = due[c]
          /\ \A i, j \in DOMAIN sent : i < j /\ Control \notin {sent[i], sent[j]} => sent[i] < sent[j]

(* Whoever lost access stops hearing the workspace, at the latest when     *)
(* the token runs out or is renewed: also when the revocation fell between *)
(* a subscription's check and its registration, or never came.             *)
EavesdropEnds ==
  \A c \in Conns, u \in Users :
    (conn[c].user = u /\ u \notin member /\ conn[c].topics # {})
      ~> (conn[c].user # u \/ u \in member \/ conn[c].topics = {} \/ conn[c].closing)
=============================================================================
