------------------------------ MODULE LiveFeed ------------------------------
(***************************************************************************)
(* The live alert feed: alerts are published to a Redis channel, a task of *)
(* the Control Center listens to it and sends each one to the WebSockets   *)
(* of the dashboards (websocket/manager.py, websocket/handlers.py).        *)
(*                                                                         *)
(* All of it runs on one event loop: a step here lasts from one await to   *)
(* the next.  A broadcast iterates over the set of sockets itself and      *)
(* awaits every send, and meanwhile dashboards come and go.  The iterator  *)
(* of a Python set raises if the set has another size than at the start,   *)
(* which ends the broadcast; if the size is the same again, it may have    *)
(* lost its place.                                                         *)
(***************************************************************************)
EXTENDS Integers, Sequences, FiniteSets

CONSTANTS
  MaxSockets,  \* WebSockets are numbered as they are opened
  MaxAlerts,   \* alerts are numbered as they are published
  MaxFaults    \* failures of Redis, and restarts of the Control Center

ASSUME FeedAssumption ==
  MaxSockets \in Nat /\ MaxAlerts \in Nat /\ MaxFaults \in Nat

VARIABLES
  alerts,      \* alerts published so far
  channel,     \* those that have come to the listener and were not read yet
  subscribed,  \* Redis has the listener's subscription
  listener,    \* what _listen_redis does
  broadcast,   \* the broadcast under way
  conns,       \* _connections["dashboard"]
  sock,        \* what the handler of each socket does
  left,        \* sockets closed by the dashboard, noticed or not, or by an error
  got,         \* history: the alerts each dashboard has received
  owed,        \* history: alerts whose broadcast has not reached a dashboard
  spoiled,     \* history: alerts that were lost with the subscription, or
               \* during whose broadcast dashboards came or went
  faults

feedVars == <<channel, subscribed, listener, broadcast>>
sockVars == <<conns, sock, left>>
history == <<got, owed, spoiled>>
vars == <<alerts, feedVars, sockVars, history, faults>>

Socket == 1..MaxSockets

Alert == 1..MaxAlerts

Elems(s) == {s[i] : i \in 1..Len(s)}

\* A broadcast: its alert, the size the iterator has seen, what has happened
\* to the set since ("moved": its members may have other places now;
\* "replaced": the channel has another set), the sockets the iterator has yet
\* to reach, the one it sends to and those that failed; and, as history, the
\* sockets whose handlers had ended before it.
Broadcast ==
  [alert: Alert, size: Nat, set: {"same", "moved", "replaced"}, todo: SUBSET Socket,
   at: Socket, dead: SUBSET Socket, ghosts: SUBSET Socket]

Silence == [alert |-> 0]

Busy == listener = "busy"

TypeOK ==
  /\ alerts \in 0..MaxAlerts
  /\ channel \in Seq(Alert)
  /\ subscribed \in BOOLEAN
  /\ listener \in {"starting", "idle", "busy", "dead"}
  /\ broadcast \in {Silence} \union Broadcast
  /\ Busy <=> broadcast # Silence
  /\ conns \subseteq Socket
  /\ sock \in [Socket -> {"new", "greeting", "open", "gone"}]
  /\ left \subseteq Socket
  /\ got \in [Socket -> Seq(Alert)]
  /\ owed \subseteq Socket \X Alert
  /\ spoiled \subseteq Alert
  /\ faults \in 0..MaxFaults

Init ==
  /\ alerts = 0
  /\ channel = <<>>
  /\ subscribed = FALSE
  /\ listener = "starting"
  /\ broadcast = Silence
  /\ conns = {}
  /\ sock = [c \in Socket |-> "new"]
  /\ left = {}
  /\ got = [c \in Socket |-> <<>>]
  /\ owed = {}
  /\ spoiled = {}
  /\ faults = 0

Fault ==
  /\ faults < MaxFaults
  /\ faults' = faults + 1

-----------------------------------------------------------------------------
(***************************************************************************)
(* Redis.                                                                  *)
(***************************************************************************)

\* ingest_event_batch publishes the alert of a high or critical event, and
\* ignores a failure.
Publish ==
  /\ alerts < MaxAlerts
  /\ alerts' = alerts + 1
  /\ channel' = IF subscribed THEN Append(channel, alerts + 1) ELSE channel
  /\ spoiled' = IF subscribed THEN spoiled ELSE spoiled \union {alerts + 1}
  /\ UNCHANGED <<subscribed, listener, broadcast, sockVars, got, owed, faults>>

\* pubsub.subscribe
Subscribe ==
  /\ listener = "starting"
  /\ listener' = "idle"
  /\ subscribed' = TRUE
  /\ UNCHANGED <<alerts, channel, broadcast, sockVars, history, faults>>

\* It raises, which ends the task.  Nobody looks at it again.
SubscribeFails ==
  /\ Fault
  /\ listener = "starting"
  /\ listener' = "dead"
  /\ UNCHANGED <<alerts, channel, subscribed, broadcast, sockVars, history>>

\* The connection breaks, and with it what has not been read may be lost.
RedisDown ==
  /\ Fault
  /\ subscribed
  /\ subscribed' = FALSE
  /\ \/ UNCHANGED <<channel, spoiled>>
     \/ /\ channel' = <<>>
        /\ spoiled' = spoiled \union Elems(channel)
  /\ UNCHANGED <<alerts, listener, broadcast, sockVars, got, owed>>

\* The next read fails: the client subscribes once more, or pubsub.listen
\* raises and the task ends.
ReadFails ==
  /\ listener = "idle"
  /\ channel = <<>> /\ ~subscribed
  /\ listener' \in {"starting", "dead"}
  /\ UNCHANGED <<alerts, channel, subscribed, broadcast, sockVars, history, faults>>

-----------------------------------------------------------------------------
(***************************************************************************)
(* The listener.                                                           *)
(***************************************************************************)

\* The iterator finds the set as large as it was.
SameSize == broadcast.set # "replaced" /\ Cardinality(conns) = broadcast.size

\* What the iterator may have yet to reach: it has lost its place if the
\* members have moved.
Todo == IF broadcast.set = "moved" THEN SUBSET conns ELSE {broadcast.todo}

\* The next send.
SendTo(todo, c, dead) ==
  /\ SameSize
  /\ broadcast' = [broadcast EXCEPT !.set = "same", !.todo = todo \ {c}, !.at = c, !.dead = dead]
  /\ UNCHANGED <<listener, conns>>

\* Mutant of Discard: the failed sockets are kept.
Discard_Not(dead) == conns

\* The failed sockets are discarded, unless the iterator has raised.
Discard(dead) == IF SameSize THEN conns \ dead ELSE conns

\* Mutant of Proceed: the task does not survive an error of the iterator.
Proceed_Dies(dead) ==
  \E todo \in Todo :
    \/ \E c \in todo : SendTo(todo, c, dead)
    \/ /\ SameSize => todo = {}
       /\ broadcast' = Silence
       /\ listener' = IF SameSize THEN "idle" ELSE "dead"
       /\ conns' = Discard(dead)

\* From the end of a send to the next one: a socket the iterator has yet to
\* reach, or the end, also because the iterator has raised, which
\* _listen_redis ignores.
Proceed(dead) ==
  \E todo \in Todo :
    \/ \E c \in todo : SendTo(todo, c, dead)
    \/ /\ SameSize => todo = {}
       /\ broadcast' = Silence
       /\ listener' = "idle"
       /\ conns' = Discard(dead)

\* Mutant of Take: the newest message is read first.
Take_Newest ==
  /\ listener = "idle"
  /\ channel # <<>>
  /\ channel' = SubSeq(channel, 1, Len(channel) - 1)
  /\ \/ /\ conns = {}
        /\ UNCHANGED <<listener, broadcast, owed>>
     \/ \E c \in conns :
          /\ listener' = "busy"
          /\ broadcast' = [alert |-> channel[Len(channel)], size |-> Cardinality(conns),
                           set |-> "same", todo |-> conns \ {c}, at |-> c, dead |-> {},
                           ghosts |-> {d \in conns : sock[d] = "gone"}]
          /\ owed' = owed \union ((conns \ left) \X {channel[Len(channel)]})
  /\ UNCHANGED <<alerts, subscribed, sockVars, got, spoiled, faults>>

\* A message is read, and sent to the first socket if there is any.
Take ==
  /\ listener = "idle"
  /\ channel # <<>>
  /\ channel' = Tail(channel)
  /\ \/ /\ conns = {}
        /\ UNCHANGED <<listener, broadcast, owed>>
     \/ \E c \in conns :
          /\ listener' = "busy"
          /\ broadcast' = [alert |-> Head(channel), size |-> Cardinality(conns),
                           set |-> "same", todo |-> conns \ {c}, at |-> c, dead |-> {},
                           ghosts |-> {d \in conns : sock[d] = "gone"}]
          /\ owed' = owed \union ((conns \ left) \X {Head(channel)})
  /\ UNCHANGED <<alerts, subscribed, sockVars, got, spoiled, faults>>

\* A send ends.  If the server has not noticed yet that the dashboard is gone,
\* the message is lost.
Sent ==
  /\ Busy
  /\ LET c == broadcast.at IN
       /\ sock[c] # "gone"
       /\ got' = IF c \in left THEN got ELSE [got EXCEPT ![c] = Append(@, broadcast.alert)]
       /\ owed' = owed \ {<<c, broadcast.alert>>}
  /\ Proceed(broadcast.dead)
  /\ UNCHANGED <<alerts, channel, subscribed, sock, left, spoiled, faults>>

\* Mutant of SendFails: the exception ends the broadcast.
SendFails_Ends ==
  /\ Busy
  /\ broadcast.at \in left
  /\ broadcast' = Silence
  /\ listener' = "idle"
  /\ UNCHANGED <<alerts, channel, subscribed, sockVars, history, faults>>

\* A send raises.
SendFails ==
  /\ Busy
  /\ broadcast.at \in left
  /\ Proceed(broadcast.dead \union {broadcast.at})
  /\ UNCHANGED <<alerts, channel, subscribed, sock, left, history, faults>>

-----------------------------------------------------------------------------
(***************************************************************************)
(* The dashboards and their handlers.                                      *)
(***************************************************************************)
Disturb == spoiled' = IF Busy THEN spoiled \union {broadcast.alert} ELSE spoiled

\* Mutant of Connect: the socket is added after the greeting.
Connect_Unregistered(c) ==
  /\ sock[c] = "new"
  /\ sock' = [sock EXCEPT ![c] = "greeting"]
  /\ UNCHANGED <<alerts, feedVars, conns, left, history, faults>>

\* connect: the socket is accepted and added to the set, and the greeting is
\* on its way.  To add it may move the members of the set.
Connect(c) ==
  /\ sock[c] = "new"
  /\ \A d \in 1..(c - 1) : sock[d] # "new"
  /\ sock' = [sock EXCEPT ![c] = "greeting"]
  /\ conns' = conns \union {c}
  /\ broadcast' = IF Busy /\ broadcast.set = "same"
                  THEN [broadcast EXCEPT !.set = "moved"] ELSE broadcast
  /\ Disturb
  /\ UNCHANGED <<alerts, channel, subscribed, listener, left, got, owed, faults>>

\* The greeting has been sent.
Greeted(c) ==
  /\ sock[c] = "greeting"
  /\ sock' = [sock EXCEPT ![c] = "open"]
  /\ UNCHANGED <<alerts, feedVars, conns, left, history, faults>>

\* Sending the greeting raises: the handler ends before its try statement, and
\* the socket stays in the set.
GreetingFails(c) ==
  /\ sock[c] = "greeting" /\ c \in left
  /\ sock' = [sock EXCEPT ![c] = "gone"]
  /\ UNCHANGED <<alerts, feedVars, conns, left, history, faults>>

\* receive_text raises something else, on a frame that is not text: the
\* server closes the connection, and the socket stays in the set.
ReceiveFails(c) ==
  /\ sock[c] = "open" /\ c \notin left
  /\ sock' = [sock EXCEPT ![c] = "gone"]
  /\ left' = left \union {c}
  /\ owed' = {p \in owed : p[1] # c}
  /\ UNCHANGED <<alerts, feedVars, conns, got, spoiled, faults>>

\* The dashboard's page is closed.
Leave(c) ==
  /\ sock[c] \in {"greeting", "open"} /\ c \notin left
  /\ left' = left \union {c}
  /\ owed' = {p \in owed : p[1] # c}
  /\ UNCHANGED <<alerts, feedVars, conns, sock, got, spoiled, faults>>

\* The handler sees the WebSocketDisconnect: the socket is discarded, and an
\* empty set is deleted, which leaves the iterator with a set of its own.
Disconnect(c) ==
  /\ sock[c] = "open" /\ c \in left
  /\ sock' = [sock EXCEPT ![c] = "gone"]
  /\ conns' = conns \ {c}
  /\ broadcast' = IF Busy
                  THEN [broadcast EXCEPT !.todo = @ \ {c},
                                         !.set = IF conns' = {} THEN "replaced" ELSE @]
                  ELSE broadcast
  /\ IF c \in conns THEN Disturb ELSE UNCHANGED spoiled
  /\ UNCHANGED <<alerts, channel, subscribed, listener, left, got, owed, faults>>

\* The Control Center is started again.
Restart ==
  /\ Fault
  /\ listener' = "starting"
  /\ subscribed' = FALSE
  /\ channel' = <<>>
  /\ spoiled' = spoiled \union Elems(channel) \union (IF Busy THEN {broadcast.alert} ELSE {})
  /\ broadcast' = Silence
  /\ conns' = {}
  /\ sock' = [c \in Socket |-> IF sock[c] = "new" THEN "new" ELSE "gone"]
  /\ left' = left \union {c \in Socket : sock[c] # "new"}
  /\ owed' = {}
  /\ UNCHANGED <<alerts, got>>

-----------------------------------------------------------------------------
Listener == Subscribe \/ ReadFails \/ Take \/ Sent \/ SendFails

Dashboard(c) ==
  Connect(c) \/ Greeted(c) \/ GreetingFails(c) \/ ReceiveFails(c) \/ Leave(c) \/ Disconnect(c)

Next ==
  \/ Publish \/ SubscribeFails \/ RedisDown \/ Restart
  \/ Listener
  \/ \E c \in Socket : Dashboard(c)

Spec == Init /\ [][Next]_vars

\* The event loop runs the listener, and a send that a dashboard holds up
\* ends when the server closes the connection, at the latest.
FairSpec == Spec /\ WF_vars(Listener)

-----------------------------------------------------------------------------
(***************************************************************************)
(* Properties.                                                             *)
(***************************************************************************)

\* An open dashboard is in the set, whatever the broadcasts discard, and a
\* broadcast that nothing has disturbed still sees the set it began with.
Registered ==
  /\ \A c \in Socket : sock[c] \in {"greeting", "open"} /\ c \notin left => c \in conns
  /\ Busy /\ broadcast.alert \notin spoiled =>
       SameSize /\ broadcast.todo \union {broadcast.at} \subseteq conns

\* An alert is owed to dashboards only while it is being broadcast, unless
\* dashboards came or went meanwhile: every other broadcast reaches everybody
\* who is there, however many sockets fail.
NobodyForgotten ==
  \A p \in owed : p[2] \in spoiled \/ (Busy /\ p[2] = broadcast.alert)

\* A dashboard gets the alerts in the order in which they were published, and
\* none twice but one whose broadcast was disturbed.
InOrder ==
  \A c \in Socket : \A i, j \in 1..Len(got[c]) :
    i < j => \/ got[c][i] < got[c][j]
             \/ got[c][i] = got[c][j] /\ got[c][i] \in spoiled

\* A socket whose handler ended before a broadcast, and which is in the set
\* still since its greeting failed or its last frame was not text, is not in
\* it after the broadcast, unless that is disturbed.
GhostsGo ==
  [][Busy /\ listener' = "idle" /\ broadcast.alert \notin spoiled
       => broadcast.ghosts \cap conns' = {}]_vars

\* An alert that has come to the listener gets to the dashboards that are
\* there when it is read, unless it is lost with the connection to Redis or
\* others come and go meanwhile.
Delivered(a) ==
  /\ a \notin Elems(channel)
  /\ \A p \in owed : p[2] # a

AlertArrives == \A a \in Alert : a \in Elems(channel) ~> (Delivered(a) \/ a \in spoiled)
=============================================================================
