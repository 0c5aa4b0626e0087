------------------------------- MODULE EventFeed -------------------------------
(***************************************************************************)
(* The live feed.  Each WebSocket connection has an endpoint, which        *)
(* registers it under its user, greets it and pings it, and a subscriber   *)
(* of its own to the Redis channel.  A subscriber sends every message to   *)
(* all connections of its user.  When Redis does not take an event the     *)
(* publisher sends it to all connections itself.  A connection to which a  *)
(* send fails is taken off its user's list by whoever sent, and the        *)
(* removal raises when another was faster.                                 *)
(***************************************************************************)
EXTENDS Integers, SequencesExt

CONSTANTS
  Connections,
  Users,       \* "anonymous" is the user of a connection without a token
  Events       \* what is published, each at most once

ASSUME FeedAssumption == "anonymous" \in Users

VARIABLES
  socket,      \* the client's end of each connection
  user,
  list,        \* _connections
  endpoint,
  subscriber,
  publisher,   \* who publishes each event
  got          \* how often each connection was sent each event

feedVars == <<socket, user, list, endpoint, subscriber, publisher, got>>

\* "rest" are the connections that the event at hand is still to be sent to.
Subscriber ==
  [pc : {"none", "subscribing", "listening", "ended"}, inbox : Seq(Events),
   event : Events \cup {"none"}, rest : Seq(Connections)]

\* "users" are those whose turn is still to come.
Publisher ==
  [pc : {"none", "broadcast", "ended"}, users : SUBSET Users, rest : Seq(Connections)]

FeedTypeOK ==
  /\ socket \in [Connections -> {"new", "open", "gone"}]
  /\ user \in [Connections -> Users]
  /\ list \in [Users -> Seq(Connections)]
  /\ \A u \in Users : \A c \in Range(list[u]) : user[c] = u
  /\ endpoint \in [Connections -> {"none", "greeting", "sleeping", "ended"}]
  /\ subscriber \in [Connections -> Subscriber]
  /\ publisher \in [Events -> Publisher]
  /\ got \in [Connections -> [Events -> Nat]]

Idle(pc) == [pc |-> pc, inbox |-> <<>>, event |-> "none", rest |-> <<>>]

FeedInit ==
  /\ socket = [c \in Connections |-> "new"]
  /\ user = [c \in Connections |-> "anonymous"]
  /\ list = [u \in Users |-> <<>>]
  /\ endpoint = [c \in Connections |-> "none"]
  /\ subscriber = [c \in Connections |-> Idle("none")]
  /\ publisher = [e \in Events |-> [pc |-> "none", users |-> {}, rest |-> <<>>]]
  /\ got = [c \in Connections |-> [e \in Events |-> 0]]

Registered(c) == c \in Range(list[user[c]])

-----------------------------------------------------------------------------
(***************************************************************************)
(* The endpoint.                                                           *)
(***************************************************************************)

Listed(c, u) == [list EXCEPT ![u] = Append(@, c)]

\* The token names the user, a bad one or none leaves it anonymous.
Connect(c, u) ==
  /\ socket[c] = "new"
  /\ socket' = [socket EXCEPT ![c] = "open"]
  /\ user' = [user EXCEPT ![c] = u]
  /\ list' = Listed(c, u)
  /\ endpoint' = [endpoint EXCEPT ![c] = "greeting"]
  /\ subscriber' = [subscriber EXCEPT ![c] = Idle("subscribing")]
  /\ UNCHANGED <<publisher, got>>

\* The client leaves or its network does; the endpoint does not read, and
\* learns of it when it sends.
Leave(c) ==
  /\ socket[c] = "open"
  /\ socket' = [socket EXCEPT ![c] = "gone"]
  /\ UNCHANGED <<user, list, endpoint, subscriber, publisher, got>>

Greet(c) ==
  /\ endpoint[c] = "greeting"
  /\ socket[c] = "open"
  /\ endpoint' = [endpoint EXCEPT ![c] = "sleeping"]
  /\ UNCHANGED <<socket, user, list, subscriber, publisher, got>>

\* A slip: only a connection that was greeted is cleaned up after.
CleanUpGreeted(c) ==
  IF endpoint[c] = "sleeping"
  THEN /\ subscriber' = [subscriber EXCEPT ![c] = Idle("ended")]
       /\ list' = [list EXCEPT ![user[c]] = RemoveFirst(@, c)]
  ELSE UNCHANGED <<subscriber, list>>

\* The subscriber is cancelled where it waits.
CleanUp(c) ==
  /\ subscriber' = [subscriber EXCEPT ![c] = Idle("ended")]
  /\ list' = [list EXCEPT ![user[c]] = RemoveFirst(@, c)]

\* A slip: the endpoint looks for its entry instead of sending.
Unlisted(c) == ~Registered(c)

SendFails(c) == socket[c] = "gone"

\* The greeting or a ping fails.
Disconnect(c) ==
  /\ endpoint[c] \in {"greeting", "sleeping"}
  /\ SendFails(c)
  /\ endpoint' = [endpoint EXCEPT ![c] = "ended"]
  /\ CleanUp(c)
  /\ UNCHANGED <<socket, user, publisher, got>>

-----------------------------------------------------------------------------
(***************************************************************************)
(* Sending an event to one connection of a list that was read before.  A   *)
(* removal that raises ends the round, and the rest of the list goes       *)
(* without the event.                                                      *)
(***************************************************************************)
Removes(w) == socket[w] = "gone" /\ Registered(w)

Raises(w) == socket[w] = "gone" /\ ~Registered(w)

Send(w, e) ==
  /\ got' = IF socket[w] = "open" THEN [got EXCEPT ![w][e] = @ + 1] ELSE got
  /\ list' = IF Removes(w) THEN [list EXCEPT ![user[w]] = RemoveFirst(@, w)] ELSE list

-----------------------------------------------------------------------------
(***************************************************************************)
(* The subscriber of a connection.                                         *)
(***************************************************************************)
Subscribe(c) ==
  /\ subscriber[c].pc = "subscribing"
  /\ subscriber' = [subscriber EXCEPT ![c].pc = "listening"]
  /\ UNCHANGED <<socket, user, list, endpoint, publisher, got>>

\* Redis raises, or the channel has been silent for ten seconds: the time limit
\* of the pool's sockets holds for the subscriber too.  It is not started again.
SubscriberFails(c) ==
  /\ \/ subscriber[c].pc = "subscribing"
     \/ subscriber[c].pc = "listening" /\ subscriber[c].event = "none"
  /\ subscriber' = [subscriber EXCEPT ![c] = Idle("ended")]
  /\ UNCHANGED <<socket, user, list, endpoint, publisher, got>>

\* A slip: the subscriber is started before the token is read.
AnonymousAudience(c) == list["anonymous"]

Audience(c) == list[user[c]]

TakeEvent(c) ==
  /\ subscriber[c].pc = "listening"
  /\ subscriber[c].event = "none"
  /\ subscriber[c].inbox # <<>>
  /\ subscriber' = [subscriber EXCEPT ![c].event = Head(subscriber[c].inbox),
                                      ![c].inbox = Tail(@),
                                      ![c].rest = Audience(c)]
  /\ UNCHANGED <<socket, user, list, endpoint, publisher, got>>

Forward(c) ==
  LET rest == subscriber[c].rest
  IN  /\ rest # <<>>
      /\ Send(Head(rest), subscriber[c].event)
      /\ subscriber' = [subscriber EXCEPT ![c].rest =
                          IF Raises(Head(rest)) THEN <<>> ELSE Tail(rest)]
      /\ UNCHANGED <<socket, user, endpoint, publisher>>

RoundEnds(c) ==
  /\ subscriber[c].event # "none"
  /\ subscriber[c].rest = <<>>
  /\ subscriber' = [subscriber EXCEPT ![c].event = "none"]
  /\ UNCHANGED <<socket, user, list, endpoint, publisher, got>>

-----------------------------------------------------------------------------
(***************************************************************************)
(* Publishing.                                                             *)
(***************************************************************************)
Received(e) ==
  subscriber' = [c \in Connections |->
    IF subscriber[c].pc = "listening"
    THEN [subscriber[c] EXCEPT !.inbox = Append(@, e)] ELSE subscriber[c]]

Publish(e) ==
  /\ publisher[e].pc = "none"
  /\ Received(e)
  /\ publisher' = [publisher EXCEPT ![e].pc = "ended"]
  /\ UNCHANGED <<socket, user, list, endpoint, got>>

ListedUsers == {u \in Users : list[u] # <<>>}

\* Redis raises, with the event or without.
PublishFails(e) ==
  /\ publisher[e].pc = "none"
  /\ Received(e) \/ UNCHANGED subscriber
  /\ publisher' = [publisher EXCEPT ![e].pc = "broadcast", ![e].users = ListedUsers]
  /\ UNCHANGED <<socket, user, list, endpoint, got>>

\* A slip: a user's latest connection stands for all.
LatestOf(u) == IF list[u] = <<>> THEN <<>> ELSE <<Last(list[u])>>

ConnectionsOf(u) == list[u]

NextUser(e, u) ==
  /\ publisher[e].rest = <<>>
  /\ u \in publisher[e].users
  /\ publisher' = [publisher EXCEPT ![e].users = @ \ {u}, ![e].rest = ConnectionsOf(u)]
  /\ UNCHANGED <<socket, user, list, endpoint, subscriber, got>>

Broadcast(e) ==
  LET rest == publisher[e].rest
  IN  /\ rest # <<>>
      /\ Send(Head(rest), e)
      /\ publisher' = [publisher EXCEPT
           ![e].rest  = IF Raises(Head(rest)) THEN <<>> ELSE Tail(rest),
           ![e].users = IF Raises(Head(rest)) THEN {} ELSE @]
      /\ UNCHANGED <<socket, user, endpoint, subscriber>>

BroadcastEnds(e) ==
  /\ publisher[e] = [pc |-> "broadcast", users |-> {}, rest |-> <<>>]
  /\ publisher' = [publisher EXCEPT ![e].pc = "ended"]
  /\ UNCHANGED <<socket, user, list, endpoint, subscriber, got>>

-----------------------------------------------------------------------------
EndpointStep(c) == Greet(c) \/ Disconnect(c)

SubscriberStep(c) == Subscribe(c) \/ TakeEvent(c) \/ Forward(c) \/ RoundEnds(c)

PublisherStep(e) == (\E u \in Users : NextUser(e, u)) \/ Broadcast(e) \/ BroadcastEnds(e)

FeedNext ==
  \/ \E c \in Connections :
       \/ \E u \in Users : Connect(c, u)
       \/ Leave(c) \/ EndpointStep(c) \/ SubscriberStep(c) \/ SubscriberFails(c)
  \/ \E e \in Events : Publish(e) \/ PublishFails(e) \/ PublisherStep(e)

\* Coroutines run until they wait; a send to a client and a call of Redis return
\* or raise, and an endpoint sends every 25 seconds.
FeedSpec ==
  /\ FeedInit /\ [][FeedNext]_feedVars
  /\ \A c \in Connections : WF_feedVars(EndpointStep(c)) /\ WF_feedVars(SubscriberStep(c))
  /\ \A e \in Events : WF_feedVars(PublisherStep(e))

-----------------------------------------------------------------------------
\* The registry and the tasks are those of the endpoints that run, whoever
\* removes what and in which order: a connection is listed once, under its user,
\* and an endpoint that has ended leaves neither entry nor task (events.py:73-92).
NothingLeaks ==
  /\ \A u \in Users : IsInjective(list[u])
  /\ \A u \in Users : \A c \in Range(list[u]) :
       endpoint[c] \in {"greeting", "sleeping"}
  /\ \A c \in Connections :
       subscriber[c].pc \in {"subscribing", "listening"} =>
         endpoint[c] \in {"greeting", "sleeping"}

\* A connection that is gone is noticed and forgotten, whether or not anything is
\* published (events.py:80-92).
GoneIsForgotten ==
  \A c \in Connections :
    socket[c] = "gone" ~> endpoint[c] = "ended" /\ ~Registered(c)

Pending(c, e) == e \in Range(subscriber[c].inbox)

\* An event that a connection's subscriber has received reaches the connection,
\* with other subscribers of the user sending at the same time; only a connection
\* of the same user that is lost, or Redis, comes in between (events.py:95-112).
SubscriberDelivers ==
  \A c \in Connections, e \in Events :
    Pending(c, e) ~>
      \/ got[c][e] > 0
      \/ subscriber[c].pc = "ended"
      \/ \E d \in Connections : socket[d] = "gone" /\ user[d] = user[c]

\* Without Redis an event reaches every connection listed when it is published,
\* as long as none is lost (events.py:36-42, 53-56).
FallbackDelivers ==
  \A c \in Connections, e \in Events :
    (publisher[e].pc = "broadcast" /\ Registered(c) /\ user[c] \in publisher[e].users) ~>
      \/ got[c][e] > 0
      \/ \E d \in Connections : socket[d] = "gone"
=============================================================================
