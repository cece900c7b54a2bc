--------------------------- MODULE LiveFeed_proofs ---------------------------
(***************************************************************************)
(* Proofs about the live alert feed, for any number of dashboards, alerts  *)
(* and faults: who is registered is told, in order, and sockets that are   *)
(* gone do not stay in the set.                                            *)
(*                                                                         *)
(* The inductive invariant says of a broadcast that nothing has disturbed  *)
(* that its iterator is where it should be: who is owed the alert is still *)
(* ahead of it or is being sent to, and who has it is behind; and of the   *)
(* channel that it is ahead of whatever anybody has received.              *)
(***************************************************************************)
EXTENDS LiveFeed, FiniteSetTheorems, TLAPS

\* Where a broadcast is: who was gone is ahead or has failed, who has the
\* alert is behind.
Going ==
  /\ broadcast.dead \subseteq left
  /\ broadcast.at \notin broadcast.todo
  /\ \A c \in broadcast.ghosts : sock[c] = "gone"
  /\ broadcast.alert \notin spoiled =>
       /\ broadcast.set = "same" /\ Cardinality(conns) = broadcast.size
       /\ broadcast.todo \union {broadcast.at} \subseteq conns
       /\ broadcast.ghosts \subseteq broadcast.todo \union {broadcast.at} \union broadcast.dead
       /\ \A c \in broadcast.todo \union {broadcast.at} :
            \A i \in 1..Len(got[c]) : got[c][i] # broadcast.alert

\* The open dashboards are in the set.
Present ==
  \A c \in Socket : sock[c] \in {"greeting", "open"} /\ c \notin left => c \in conns

\* The debts are those of the broadcast under way.
Debts ==
  \A p \in owed :
    /\ p[1] \notin left
    /\ p[2] \in spoiled \/ /\ Busy /\ p[2] = broadcast.alert
                           /\ p[1] \in broadcast.todo \union {broadcast.at}

\* The channel holds alerts in order.
Queued ==
  \A i \in 1..Len(channel) :
    channel[i] <= alerts /\ \A j \in 1..Len(channel) : i < j => channel[i] < channel[j]

\* An alert from before those in the channel.
Behind(a) == a <= alerts /\ \A j \in 1..Len(channel) : a < channel[j]

Order ==
  /\ Busy => Behind(broadcast.alert)
  /\ \A c \in Socket : \A i \in 1..Len(got[c]) :
       Behind(got[c][i]) /\ (Busy => got[c][i] <= broadcast.alert)
  /\ InOrder

FeedInv == TypeOK /\ (Busy => Going) /\ Present /\ Debts /\ Queued /\ Order

-----------------------------------------------------------------------------
LEMMA FiniteSize == ASSUME NEW S \in SUBSET Socket PROVE Cardinality(S) \in Nat
<1>1. IsFiniteSet(Socket)
  BY FS_Interval, FeedAssumption DEF Socket
<1>2. IsFiniteSet(S)
  BY <1>1, FS_Subset
<1> QED BY <1>2, FS_CardinalityType

LEMMA BusyFields ==
  ASSUME TypeOK, Busy
  PROVE  /\ broadcast \in Broadcast /\ broadcast # Silence
         /\ broadcast.alert \in Alert /\ broadcast.size \in Nat
         /\ broadcast.todo \subseteq Socket /\ broadcast.at \in Socket
         /\ broadcast.dead \subseteq Socket /\ broadcast.ghosts \subseteq Socket
BY DEF TypeOK, Broadcast

LEMMA NotSilence == \A b \in Broadcast : b # Silence
<1> SUFFICES ASSUME NEW b \in Broadcast PROVE b # Silence
  OBVIOUS
<1>1. b.alert \in 1..MaxAlerts
  BY DEF Broadcast, Alert
<1>2. Silence.alert = 0
  BY DEF Silence
<1> QED BY <1>1, <1>2, FeedAssumption

\* What may become of the channel leaves it in order, and what was behind it
\* stays behind.
LEMMA ChannelKept ==
  ASSUME TypeOK, Queued,
         \/ alerts' = alerts /\ channel' = channel
         \/ alerts' = alerts /\ channel' = <<>>
         \/ alerts' = alerts /\ channel # <<>> /\ channel' = Tail(channel)
         \/ alerts' = alerts + 1 /\ channel' = channel
         \/ alerts' = alerts + 1 /\ channel' = Append(channel, alerts + 1)
  PROVE  Queued' /\ \A a \in Int : Behind(a) => Behind(a)'
<1>1. /\ alerts \in Int /\ channel \in Seq(Alert)
      /\ \A i \in 1..Len(channel) : channel[i] \in Int
  BY FeedAssumption DEF TypeOK, Alert
<1>2. CASE alerts' = alerts /\ channel' = channel
  BY <1>2 DEF Queued, Behind
<1>3. CASE alerts' = alerts /\ channel' = <<>>
  BY <1>3 DEF Queued, Behind
<1>4. CASE alerts' = alerts /\ channel # <<>> /\ channel' = Tail(channel)
  <2>1. /\ Len(channel') = Len(channel) - 1 /\ Len(channel) \in Nat \ {0}
        /\ \A i \in 1..Len(channel') : channel'[i] = channel[i + 1]
    BY <1>1, <1>4
  <2>2. ASSUME NEW a \in Int, Behind(a)
        PROVE  Behind(a)'
    <3>1. \A j \in 1..Len(channel') : j + 1 \in 1..Len(channel)
      BY <2>1
    <3> QED BY <1>4, <2>1, <2>2, <3>1 DEF Behind
  <2>3. ASSUME NEW i \in 1..Len(channel')
        PROVE  /\ channel'[i] <= alerts
               /\ \A j \in 1..Len(channel') : i < j => channel'[i] < channel'[j]
    <3>1. i + 1 \in 1..Len(channel)
      BY <2>1
    <3>2. \A j \in 1..Len(channel') : j + 1 \in 1..Len(channel) /\ (i < j => i + 1 < j + 1)
      BY <2>1
    <3> QED BY <2>1, <3>1, <3>2 DEF Queued
  <2> QED BY <1>4, <2>2, <2>3 DEF Queued
<1>5. CASE alerts' = alerts + 1 /\ channel' = channel
  BY <1>1, <1>5 DEF Queued, Behind
<1>6. CASE alerts' = alerts + 1 /\ channel' = Append(channel, alerts + 1)
  <2>1. /\ Len(channel') = Len(channel) + 1 /\ Len(channel) \in Nat
        /\ \A i \in 1..Len(channel) : channel'[i] = channel[i]
        /\ channel'[Len(channel) + 1] = alerts + 1
    BY <1>1, <1>6
  <2> QED BY <1>1, <1>6, <2>1 DEF Queued, Behind
<1> QED BY <1>2, <1>3, <1>4, <1>5, <1>6

\* Steps after which the dashboards have received what they had, with no
\* other broadcast under way, keep the order.
LEMMA OrderKept ==
  ASSUME FeedInv, UNCHANGED got, spoiled \subseteq spoiled',
         \A a \in Int : Behind(a) => Behind(a)',
         Busy' => Busy /\ broadcast'.alert = broadcast.alert
  PROVE  Order'
<1>1. \A c \in Socket : \A i \in 1..Len(got[c]) : got[c][i] \in Int
  BY FeedAssumption DEF FeedInv, TypeOK, Alert
<1>2. Busy => broadcast.alert \in Int
  BY BusyFields, FeedAssumption DEF FeedInv, Alert
<1>3. InOrder'
  BY <1>1 DEF FeedInv, Order, InOrder
<1> QED BY <1>1, <1>2, <1>3 DEF FeedInv, Order
\* Steps of Redis and of the handlers between which no broadcast takes place
\* and nobody comes or goes.
LEMMA QuietStep ==
  ASSUME FeedInv, TypeOK', UNCHANGED <<broadcast, conns, left, got, owed>>, Busy' <=> Busy,
         spoiled \subseteq spoiled',
         \A c \in Socket : sock[c] = "gone" => sock'[c] = "gone",
         \A c \in Socket : sock'[c] \in {"greeting", "open"} => sock[c] \in {"greeting", "open"},
         Queued', \A a \in Int : Behind(a) => Behind(a)'
  PROVE  FeedInv'
<1>1. Order'
  BY OrderKept
<1>2. (Busy => Going)'
  <2> SUFFICES ASSUME Busy PROVE Going'
    OBVIOUS
  <2>1. Going /\ broadcast.ghosts \subseteq Socket
    BY BusyFields DEF FeedInv
  <2> QED BY <2>1 DEF Going
<1>3. Present'
  BY DEF FeedInv, Present
<1>4. Debts'
  BY DEF FeedInv, Debts
<1> QED BY <1>1, <1>2, <1>3, <1>4 DEF FeedInv

\* The listener reads an alert: it is later than what anybody has.
LEMMA TakeStep ==
  ASSUME FeedInv, TypeOK', Take
  PROVE  FeedInv'
<1>1. TypeOK /\ Queued /\ ~Busy
  BY DEF FeedInv, Take, Busy
<1>2. Queued' /\ \A a \in Int : Behind(a) => Behind(a)'
  BY <1>1, ChannelKept DEF Take
<1>3. Present'
  BY DEF FeedInv, Present, Take, sockVars
<1>4. CASE conns = {} /\ UNCHANGED <<listener, broadcast, owed>>
  <2>1. ~Busy'
    BY <1>1, <1>4 DEF Busy
  <2>2. Order'
    BY <1>2, <2>1, OrderKept DEF Take
  <2>3. Debts'
    BY <1>1, <1>4 DEF FeedInv, Debts, Take, sockVars
  <2> QED BY <1>2, <1>3, <2>1, <2>2, <2>3 DEF FeedInv
<1>5. ASSUME NEW c \in conns,
             listener' = "busy",
             broadcast' = [alert |-> Head(channel), size |-> Cardinality(conns),
                           set |-> "same", todo |-> conns \ {c}, at |-> c, dead |-> {},
                           ghosts |-> {d \in conns : sock[d] = "gone"}],
             owed' = owed \union ((conns \ left) \X {Head(channel)})
      PROVE  FeedInv'
  <2>1. /\ broadcast'.alert = Head(channel) /\ broadcast'.size = Cardinality(conns)
        /\ broadcast'.set = "same" /\ broadcast'.todo = conns \ {c} /\ broadcast'.at = c
        /\ broadcast'.dead = {} /\ broadcast'.ghosts = {d \in conns : sock[d] = "gone"}
    BY <1>5
  <2>2. UNCHANGED <<alerts, sock, left, conns, got, spoiled>> /\ channel' = Tail(channel) /\ Busy'
    BY <1>5 DEF Take, sockVars, Busy
  <2>3. /\ channel # <<>> /\ channel \in Seq(Alert) /\ Head(channel) = channel[1]
        /\ 1 \in 1..Len(channel) /\ Head(channel) \in Int
    BY <1>1, FeedAssumption DEF Take, TypeOK, Alert
  <2>4. \A d \in Socket : \A i \in 1..Len(got[d]) :
          got[d][i] \in Int /\ Behind(got[d][i]) /\ got[d][i] < Head(channel)
    <3>1. \A d \in Socket : \A i \in 1..Len(got[d]) : got[d][i] \in Int /\ Behind(got[d][i])
      BY <1>1, FeedAssumption DEF FeedInv, Order, TypeOK, Alert
    <3> QED BY <2>3, <3>1 DEF Behind
  <2>5. Behind(broadcast.alert)'
    <3>1. /\ Len(channel') = Len(channel) - 1 /\ Len(channel) \in Nat \ {0}
          /\ \A i \in 1..Len(channel') : channel'[i] = channel[i + 1]
      BY <2>2, <2>3
    <3>2. \A i \in 1..Len(channel') : i + 1 \in 1..Len(channel) /\ 1 < i + 1
      BY <3>1
    <3>3. \A i \in 1..Len(channel') : broadcast'.alert < channel'[i]
      BY <2>1, <2>3, <3>1, <3>2 DEF FeedInv, Queued
    <3>4. broadcast'.alert <= alerts'
      BY <2>1, <2>2, <2>3 DEF FeedInv, Queued
    <3> QED BY <3>3, <3>4 DEF Behind
  <2>6. Order'
    <3>1. InOrder'
      BY <2>2 DEF FeedInv, Order, InOrder
    <3>2. \A d \in Socket : \A i \in 1..Len(got[d]) :
            Behind(got[d][i])' /\ got'[d][i] <= broadcast'.alert
      BY <1>2, <2>1, <2>2, <2>3, <2>4
    <3> QED BY <2>2, <2>5, <3>1, <3>2 DEF Order
  <2>7. Going'
    <3>1. \A d \in Socket : \A i \in 1..Len(got[d]) : got[d][i] # Head(channel)
      BY <2>3, <2>4
    <3>2. conns \subseteq Socket
      BY <1>1 DEF TypeOK
    <3>3. /\ broadcast'.todo \union {broadcast'.at} = conns /\ broadcast'.ghosts \subseteq conns
          /\ broadcast'.at \notin broadcast'.todo
      BY <1>5, <2>1
    <3> QED BY <2>1, <2>2, <3>1, <3>2, <3>3 DEF Going
  <2>8. Debts'
    <3>1. \A p \in owed : p[1] \notin left /\ p[2] \in spoiled
      BY <1>1 DEF FeedInv, Debts
    <3>2. \A p \in (conns \ left) \X {Head(channel)} :
            /\ p[1] \notin left /\ p[2] = broadcast'.alert
            /\ p[1] \in broadcast'.todo \union {broadcast'.at}
      BY <1>5, <2>1
    <3>3. owed' = owed \union ((conns \ left) \X {Head(channel)})
      BY <1>5
    <3> QED BY <2>2, <3>1, <3>2, <3>3 DEF Debts
  <2> QED BY <1>2, <1>3, <2>6, <2>7, <2>8 DEF FeedInv
<1> QED BY <1>4, <1>5 DEF Take
\* What the iterator reaches next, if nothing has disturbed the broadcast.
LEMMA Iterator ==
  ASSUME TypeOK, Busy, Going, broadcast.alert \notin spoiled
  PROVE  SameSize /\ Todo = {broadcast.todo}
BY DEF Going, SameSize, Todo

\* A send ends, and the broadcast goes on or ends.
LEMMA ProceedStep ==
  ASSUME FeedInv, TypeOK', Busy, NEW dead \in SUBSET left, broadcast.dead \subseteq dead,
         Proceed(dead), UNCHANGED <<alerts, channel, sock, left, spoiled>>,
         owed' = owed \ {<<broadcast.at, broadcast.alert>>},
         \/ got' = got
         \/ got' = [got EXCEPT ![broadcast.at] = Append(@, broadcast.alert)],
         broadcast.at \in dead \/ sock[broadcast.at] # "gone"
  PROVE  /\ FeedInv'
         /\ listener' = "idle" /\ broadcast.alert \notin spoiled =>
              broadcast.ghosts \cap conns' = {}
<1> DEFINE b == broadcast
           c0 == broadcast.at
           a == broadcast.alert
<1>1. /\ TypeOK /\ Going /\ Present /\ Debts /\ Queued /\ Order
      /\ b \in Broadcast /\ a \in Alert /\ c0 \in Socket /\ b.todo \subseteq Socket
  BY BusyFields DEF FeedInv
<1>2. /\ a \in Int /\ got \in [Socket -> Seq(Alert)]
      /\ \A d \in Socket : \A i \in 1..Len(got[d]) : got[d][i] \in Int
  BY <1>1, FeedAssumption DEF TypeOK, Alert
<1>3. \A d \in Socket :
        \/ got'[d] = got[d]
        \/ /\ d = c0 /\ Len(got'[d]) = Len(got[d]) + 1 /\ got'[d][Len(got[d]) + 1] = a
           /\ \A i \in 1..Len(got[d]) : got'[d][i] = got[d][i]
  <2> SUFFICES ASSUME NEW d \in Socket, got' = [got EXCEPT ![c0] = Append(@, a)]
               PROVE  \/ got'[d] = got[d]
                      \/ /\ d = c0 /\ Len(got'[d]) = Len(got[d]) + 1
                         /\ got'[d][Len(got[d]) + 1] = a
                         /\ \A i \in 1..Len(got[d]) : got'[d][i] = got[d][i]
    OBVIOUS
  <2>1. d # c0 => got'[d] = got[d]
    BY <1>2
  <2>2. d = c0 => got'[d] = Append(got[d], a)
    BY <1>2
  <2>3. got[d] \in Seq(Alert)
    BY <1>2
  <2>4. /\ Len(Append(got[d], a)) = Len(got[d]) + 1
        /\ Append(got[d], a)[Len(got[d]) + 1] = a
        /\ \A i \in 1..Len(got[d]) : Append(got[d], a)[i] = got[d][i]
    BY <1>1, <2>3
  <2> HIDE DEF c0, a
  <2> QED BY <2>1, <2>2, <2>4
<1>4. Queued' /\ \A x \in Int : Behind(x) => Behind(x)'
  BY <1>1, ChannelKept
<1>5. Behind(a) /\ \A d \in Socket : \A i \in 1..Len(got[d]) : Behind(got[d][i]) /\ got[d][i] <= a
  BY <1>1 DEF Order
<1>6. \A d \in Socket : \A i \in 1..Len(got'[d]) :
        /\ got'[d][i] \in Int /\ Behind(got'[d][i]) /\ got'[d][i] <= a
        /\ got'[d][i] = a => \/ a \in spoiled \/ d = c0
                             \/ i \in 1..Len(got[d]) /\ got[d][i] = a
  <2> SUFFICES ASSUME NEW d \in Socket, NEW i \in 1..Len(got'[d])
               PROVE  /\ got'[d][i] \in Int /\ Behind(got'[d][i]) /\ got'[d][i] <= a
                      /\ got'[d][i] = a => \/ a \in spoiled \/ d = c0
                                           \/ i \in 1..Len(got[d]) /\ got[d][i] = a
    OBVIOUS
  <2>1. CASE i \in 1..Len(got[d]) /\ got'[d][i] = got[d][i]
    BY <1>2, <1>5, <2>1
  <2>2. CASE d = c0 /\ got'[d][i] = a
    BY <1>2, <1>5, <2>2
  <2>3. (i \in 1..Len(got[d]) /\ got'[d][i] = got[d][i]) \/ (d = c0 /\ got'[d][i] = a)
    BY <1>2, <1>3
  <2> QED BY <2>1, <2>2, <2>3
<1>7. InOrder'
  <2> SUFFICES ASSUME NEW d \in Socket, NEW i \in 1..Len(got'[d]), NEW j \in 1..Len(got'[d]), i < j
               PROVE  \/ got'[d][i] < got'[d][j]
                      \/ got'[d][i] = got'[d][j] /\ got'[d][i] \in spoiled
    BY DEF InOrder
  <2>1. CASE j \in 1..Len(got[d]) /\ i \in 1..Len(got[d])
    BY <1>1, <1>3, <2>1 DEF Order, InOrder
  <2>2. CASE ~(j \in 1..Len(got[d]))
    <3>1. d = c0 /\ j = Len(got[d]) + 1 /\ got'[d][j] = a /\ Len(got[d]) \in Nat
      BY <1>2, <1>3, <2>2
    <3>2. i \in 1..Len(got[d]) /\ got'[d][i] = got[d][i] /\ got[d][i] <= a
      BY <1>3, <1>5, <3>1
    <3>3. a \in spoiled \/ got[d][i] # a
      BY <1>1, <3>1, <3>2 DEF Going
    <3> QED BY <1>2, <3>1, <3>2, <3>3
  <2> QED BY <1>2, <1>3, <2>1, <2>2
<1>8. ASSUME NEW todo \in Todo, NEW c \in todo, SendTo(todo, c, dead)
      PROVE  FeedInv' /\ listener' # "idle"
  <2>1. b \in [alert: Alert, size: Nat, set: {"same", "moved", "replaced"}, todo: SUBSET Socket,
               at: Socket, dead: SUBSET Socket, ghosts: SUBSET Socket]
    BY <1>1 DEF Broadcast
  <2>2. /\ broadcast'.alert = a /\ broadcast'.size = b.size /\ broadcast'.set = "same"
        /\ broadcast'.todo = todo \ {c} /\ broadcast'.at = c /\ broadcast'.dead = dead
        /\ broadcast'.ghosts = b.ghosts
    BY <1>8, <2>1 DEF SendTo
  <2>3. UNCHANGED <<listener, conns>> /\ Busy'
    BY <1>8 DEF SendTo, Busy
  <2>4. broadcast'.todo \union {broadcast'.at} = todo
    BY <2>2
  <2>5. Going'
    <3>1. ASSUME a \notin spoiled
          PROVE  /\ Cardinality(conns) = b.size /\ todo = b.todo
                 /\ b.todo \subseteq conns /\ b.ghosts \subseteq b.todo \union dead
                 /\ \A d \in b.todo : \A i \in 1..Len(got'[d]) : got'[d][i] # a
      <4>1. todo = b.todo
        BY <1>1, <3>1, Iterator
      <4>2. \A d \in b.todo : d # c0 /\ got'[d] = got[d]
        BY <1>1, <1>3 DEF Going
      <4>3. \A d \in b.todo : \A i \in 1..Len(got[d]) : got[d][i] # a
        BY <1>1, <3>1 DEF Going
      <4>4. b.ghosts \subseteq b.todo \union dead
        BY <1>1, <3>1 DEF Going
      <4>5. Cardinality(conns) = b.size /\ b.todo \subseteq conns
        BY <1>1, <3>1 DEF Going
      <4> QED BY <4>1, <4>2, <4>3, <4>4, <4>5
    <3>2. \A d \in b.ghosts : sock'[d] = "gone"
      BY <1>1 DEF Going
    <3>3. dead \subseteq left' /\ c \notin todo \ {c}
      OBVIOUS
    <3> HIDE DEF b, a, c0
    <3> QED BY <2>2, <2>3, <2>4, <3>1, <3>2, <3>3 DEF Going, a
  <2>6. Present'
    BY <1>1, <2>3 DEF Present
  <2>7. Debts'
    <3>1. ASSUME NEW p \in owed', p[2] \notin spoiled
          PROVE  p[2] = a /\ p[1] \in todo
      <4>1. /\ p \in owed /\ p # <<c0, a>> /\ p[2] = a
            /\ p[1] \in b.todo \union {c0}
        BY <1>1, <3>1 DEF Debts
      <4>2. p = <<p[1], p[2]>>
        BY <1>1, <4>1 DEF TypeOK
      <4>3. todo = b.todo
        BY <1>1, <3>1, <4>1, Iterator
      <4> QED BY <4>1, <4>2, <4>3
    <3>2. \A p \in owed' : p[1] \notin left
      BY <1>1 DEF Debts
    <3> QED BY <2>2, <2>3, <2>4, <3>1, <3>2 DEF Debts
  <2>8. Order'
    BY <1>4, <1>5, <1>6, <1>7, <1>2, <2>2, <2>3 DEF Order
  <2> QED BY <1>4, <2>3, <2>5, <2>6, <2>7, <2>8, Busy DEF FeedInv, Busy
<1>9. ASSUME NEW todo \in Todo, SameSize => todo = {}, broadcast' = Silence,
             listener' = "idle", conns' = Discard(dead)
      PROVE  FeedInv' /\ (a \notin spoiled => b.ghosts \cap conns' = {})
  <2>1. ~Busy'
    BY <1>9 DEF Busy
  <2>2. Present'
    BY <1>1, <1>9 DEF Present, Discard
  <2>3. ASSUME a \notin spoiled
        PROVE  b.todo = {} /\ conns' = conns \ dead
    BY <1>1, <1>9, <2>3, Iterator DEF Discard
  <2>4. Debts'
    <3>1. ASSUME NEW p \in owed', p[2] \notin spoiled
          PROVE  FALSE
      <4>1. /\ p \in owed /\ p # <<c0, a>> /\ p[2] = a
            /\ p[1] \in b.todo \union {c0}
        BY <1>1, <3>1 DEF Debts
      <4>2. p = <<p[1], p[2]>>
        BY <1>1, <4>1 DEF TypeOK
      <4> QED BY <2>3, <3>1, <4>1, <4>2
    <3>2. \A p \in owed' : p[1] \notin left
      BY <1>1 DEF Debts
    <3> QED BY <3>1, <3>2 DEF Debts
  <2>5. Order'
    BY <1>2, <1>4, <1>6, <1>7, <2>1 DEF Order
  <2>6. a \notin spoiled => b.ghosts \cap conns' = {}
    <3> SUFFICES ASSUME a \notin spoiled PROVE b.ghosts \cap conns' = {}
      OBVIOUS
    <3>1. b.ghosts \subseteq {c0} \union dead
      BY <1>1, <2>3 DEF Going
    <3>2. c0 \in dead \/ c0 \notin b.ghosts
      BY <1>1 DEF Going
    <3> QED BY <2>3, <3>1, <3>2
  <2> QED BY <1>4, <2>1, <2>2, <2>4, <2>5, <2>6 DEF FeedInv
<1> QED BY <1>8, <1>9 DEF Proceed
\* A handler's step from one await to the next.
LEMMA DashboardStep ==
  ASSUME FeedInv, TypeOK', NEW k \in Socket, Dashboard(k)
  PROVE  FeedInv'
<1>1. TypeOK /\ Present /\ Debts /\ Queued /\ Order /\ (Busy => Going)
  BY DEF FeedInv
<1>2. UNCHANGED <<alerts, channel, listener, got>> /\ (Busy' <=> Busy)
  BY DEF Dashboard, Connect, Greeted, GreetingFails, ReceiveFails, Leave, Disconnect, feedVars,
         history, Busy
<1>3. Queued' /\ \A a \in Int : Behind(a) => Behind(a)'
  BY <1>1, <1>2, ChannelKept
<1>4. CASE Greeted(k) \/ GreetingFails(k)
  <2>1. UNCHANGED <<broadcast, conns, left, got, owed, spoiled>>
    BY <1>4 DEF Greeted, GreetingFails, feedVars, history
  <2>2. \/ sock[k] = "greeting" /\ sock' = [sock EXCEPT ![k] = "open"]
        \/ sock[k] = "greeting" /\ sock' = [sock EXCEPT ![k] = "gone"]
    BY <1>4 DEF Greeted, GreetingFails
  <2>3. /\ \A c \in Socket : sock[c] = "gone" => sock'[c] = "gone"
        /\ \A c \in Socket : sock'[c] \in {"greeting", "open"} => sock[c] \in {"greeting", "open"}
    BY <1>1, <2>2 DEF TypeOK
  <2> QED BY <1>2, <1>3, <2>1, <2>3, QuietStep
<1>5. CASE Connect(k)
  <2>1. /\ sock[k] = "new" /\ sock' = [sock EXCEPT ![k] = "greeting"]
        /\ conns' = conns \union {k} /\ UNCHANGED <<left, owed>>
        /\ spoiled' = IF Busy THEN spoiled \union {broadcast.alert} ELSE spoiled
        /\ broadcast' = IF Busy /\ broadcast.set = "same"
                        THEN [broadcast EXCEPT !.set = "moved"] ELSE broadcast
    BY <1>5 DEF Connect, Disturb
  <2>2. Busy => /\ broadcast'.alert = broadcast.alert /\ broadcast'.todo = broadcast.todo
                /\ broadcast'.at = broadcast.at /\ broadcast'.dead = broadcast.dead
                /\ broadcast'.ghosts = broadcast.ghosts
    BY <1>1, <2>1, BusyFields DEF Broadcast
  <2>3. Order'
    BY <1>2, <1>3, <2>1, <2>2, OrderKept
  <2>4. Present'
    BY <1>1, <2>1 DEF Present, TypeOK
  <2>5. Debts'
    BY <1>1, <1>2, <2>1, <2>2 DEF Debts
  <2>6. Busy => Going'
    <3> SUFFICES ASSUME Busy PROVE Going'
      OBVIOUS
    <3>1. \A c \in broadcast.ghosts : sock'[c] = "gone"
      BY <1>1, <2>1, BusyFields DEF Going, TypeOK
    <3>2. broadcast'.alert \in spoiled'
      BY <2>1, <2>2
    <3> QED BY <1>1, <2>1, <2>2, <3>1, <3>2 DEF Going
  <2> QED BY <1>2, <1>3, <2>3, <2>4, <2>5, <2>6 DEF FeedInv
<1>6. CASE Leave(k)
  <2>1. /\ left' = left \union {k} /\ owed' = {p \in owed : p[1] # k}
        /\ UNCHANGED <<broadcast, conns, sock, spoiled>>
    BY <1>6 DEF Leave, feedVars
  <2>2. Order'
    BY <1>2, <1>3, <2>1, OrderKept
  <2>3. Present'
    BY <1>1, <2>1 DEF Present
  <2>4. Debts'
    BY <1>1, <1>2, <2>1 DEF Debts
  <2>5. Busy => Going'
    BY <1>1, <1>2, <2>1 DEF Going
  <2> QED BY <1>2, <1>3, <2>2, <2>3, <2>4, <2>5 DEF FeedInv
<1>7. CASE Disconnect(k)
  <2>1. /\ sock[k] = "open" /\ k \in left /\ sock' = [sock EXCEPT ![k] = "gone"]
        /\ conns' = conns \ {k} /\ UNCHANGED <<left, owed>>
        /\ spoiled \subseteq spoiled'
        /\ k \in conns /\ Busy => broadcast.alert \in spoiled'
        /\ broadcast' = IF Busy
                        THEN [broadcast EXCEPT !.todo = @ \ {k},
                                               !.set = IF conns' = {} THEN "replaced" ELSE @]
                        ELSE broadcast
    BY <1>7 DEF Disconnect, Disturb
  <2>2. Busy => /\ broadcast'.alert = broadcast.alert /\ broadcast'.todo = broadcast.todo \ {k}
                /\ broadcast'.at = broadcast.at /\ broadcast'.dead = broadcast.dead
                /\ broadcast'.ghosts = broadcast.ghosts /\ broadcast'.size = broadcast.size
                /\ broadcast'.set = IF conns' = {} THEN "replaced" ELSE broadcast.set
    BY <1>1, <2>1, BusyFields DEF Broadcast
  <2>3. Order'
    BY <1>2, <1>3, <2>1, <2>2, OrderKept
  <2>4. Present'
    BY <1>1, <2>1 DEF Present, TypeOK
  <2>5. Debts'
    BY <1>1, <1>2, <2>1, <2>2 DEF Debts
  <2>6. Busy => Going'
    <3> SUFFICES ASSUME Busy PROVE Going'
      OBVIOUS
    <3>1. \A c \in broadcast.ghosts : sock'[c] = "gone"
      BY <1>1, <2>1, BusyFields DEF Going, TypeOK
    <3>2. CASE broadcast.alert \in spoiled'
      BY <1>1, <2>1, <2>2, <3>1, <3>2 DEF Going
    <3>3. CASE broadcast.alert \notin spoiled'
      <4>1. k \notin conns /\ conns' = conns /\ broadcast.alert \notin spoiled
        BY <2>1, <3>3
      <4>2. broadcast.at \in conns /\ k \notin broadcast.todo /\ k \notin broadcast.ghosts
        BY <1>1, <2>1, <4>1 DEF Going
      <4>3. broadcast'.set = broadcast.set /\ broadcast'.todo = broadcast.todo
        BY <2>2, <4>1, <4>2
      <4>4. /\ broadcast.set = "same" /\ Cardinality(conns) = broadcast.size
            /\ broadcast.todo \union {broadcast.at} \subseteq conns
            /\ broadcast.ghosts \subseteq broadcast.todo \union {broadcast.at} \union broadcast.dead
            /\ \A c \in broadcast.todo \union {broadcast.at} :
                 \A i \in 1..Len(got[c]) : got[c][i] # broadcast.alert
            /\ broadcast.at \notin broadcast.todo /\ broadcast.dead \subseteq left
        BY <1>1, <4>1 DEF Going
      <4>5. broadcast'.size = broadcast.size /\ broadcast'.alert = broadcast.alert
        BY <2>2
      <4>6. /\ broadcast'.at = broadcast.at /\ broadcast'.dead = broadcast.dead
            /\ broadcast'.ghosts = broadcast.ghosts /\ left' = left /\ got' = got
        BY <1>2, <2>1, <2>2
      <4> QED BY <3>1, <4>1, <4>3, <4>4, <4>5, <4>6 DEF Going
    <3> QED BY <3>2, <3>3
  <2> QED BY <1>2, <1>3, <2>3, <2>4, <2>5, <2>6 DEF FeedInv
<1>8. CASE ReceiveFails(k)
  <2>1. /\ sock[k] = "open" /\ sock' = [sock EXCEPT ![k] = "gone"]
        /\ left' = left \union {k} /\ owed' = {p \in owed : p[1] # k}
        /\ UNCHANGED <<broadcast, conns, spoiled>>
    BY <1>8 DEF ReceiveFails, feedVars
  <2>2. \A c \in Socket : sock[c] = "gone" => sock'[c] = "gone"
    BY <1>1, <2>1 DEF TypeOK
  <2>3. Order'
    BY <1>2, <1>3, <2>1, OrderKept
  <2>4. Present'
    BY <1>1, <2>1 DEF Present, TypeOK
  <2>5. Debts'
    BY <1>1, <1>2, <2>1 DEF Debts
  <2>6. Busy => Going'
    <3>1. Busy => broadcast.ghosts \subseteq Socket
      BY <1>1, BusyFields DEF Broadcast
    <3> QED BY <1>1, <1>2, <2>1, <2>2, <3>1 DEF Going
  <2> QED BY <1>2, <1>3, <2>3, <2>4, <2>5, <2>6 DEF FeedInv
<1> QED BY <1>4, <1>5, <1>6, <1>7, <1>8 DEF Dashboard

LEMMA RestartStep ==
  ASSUME FeedInv, TypeOK', Restart
  PROVE  FeedInv'
<1>1. TypeOK /\ Queued
  BY DEF FeedInv
<1>2. ~Busy' /\ UNCHANGED <<alerts, got>> /\ channel' = <<>> /\ spoiled \subseteq spoiled' /\ owed' = {}
  BY DEF Restart, Busy
<1>3. Queued' /\ \A a \in Int : Behind(a) => Behind(a)'
  BY <1>1, <1>2, ChannelKept
<1>4. Order'
  BY <1>2, <1>3, OrderKept
<1>5. Present' /\ Debts'
  BY <1>2 DEF Present, Debts, Restart
<1> QED BY <1>2, <1>3, <1>4, <1>5 DEF FeedInv
\* Every step keeps the types.
LEMMA TypeKept == ASSUME TypeOK, [Next]_vars PROVE TypeOK'
<1> USE DEF TypeOK, Busy
<1>0. alerts \in Nat /\ Alert \subseteq Nat /\ faults \in Nat
  BY FeedAssumption DEF Alert
<1>1. ASSUME NEW dead \in SUBSET Socket, Proceed(dead), Busy
      PROVE  /\ broadcast' \in {Silence} \union Broadcast /\ conns' \subseteq Socket
             /\ listener' \in {"idle", "busy"} /\ (Busy' <=> broadcast' # Silence)
  <2>1. broadcast \in Broadcast
    BY <1>1, BusyFields
  <2>2. ASSUME NEW todo \in Todo, NEW c \in todo, SendTo(todo, c, dead)
        PROVE  /\ broadcast' \in Broadcast /\ conns' = conns /\ listener' = listener
    <3>1. todo \subseteq Socket
      BY <2>1 DEF Todo, Broadcast
    <3> QED BY <2>1, <2>2, <3>1 DEF SendTo, Broadcast
  <2>3. CASE \E todo \in Todo : \E c \in todo : SendTo(todo, c, dead)
    BY <1>1, <2>2, <2>3, NotSilence
  <2>4. CASE broadcast' = Silence /\ listener' = "idle" /\ conns' = Discard(dead)
    BY <2>4 DEF Discard
  <2> QED BY <1>1, <2>3, <2>4 DEF Proceed
<1>a. Fault => faults' \in 0..MaxFaults
  BY <1>0, FeedAssumption DEF Fault
<1> HIDE DEF TypeOK
<1>2. CASE Publish
  <2>1. alerts' \in 0..MaxAlerts /\ alerts + 1 \in Alert
    BY <1>0, <1>2, FeedAssumption DEF Publish, TypeOK, Alert
  <2>2. channel' \in Seq(Alert)
    <3>1. channel \in Seq(Alert)
      BY DEF TypeOK
    <3>2. Append(channel, alerts + 1) \in Seq(Alert)
      BY <2>1, <3>1
    <3> QED BY <1>2, <3>1, <3>2 DEF Publish
  <2>3. spoiled' \subseteq Alert
    BY <1>2, <2>1 DEF Publish, TypeOK
  <2> QED BY <1>2, <2>1, <2>2, <2>3 DEF Publish, TypeOK, sockVars
<1>3. CASE Subscribe \/ SubscribeFails \/ ReadFails
  <2>1. faults' \in 0..MaxFaults
    BY <1>a, <1>3 DEF Subscribe, SubscribeFails, ReadFails, TypeOK
  <2>2. UNCHANGED <<alerts, channel, broadcast, conns, sock, left, got, owed, spoiled>>
    BY <1>3 DEF Subscribe, SubscribeFails, ReadFails, sockVars, history
  <2>3. /\ listener' \in {"starting", "idle", "dead"} /\ subscribed' \in BOOLEAN /\ ~Busy
    BY <1>3 DEF Subscribe, SubscribeFails, ReadFails, TypeOK
  <2> QED BY <2>1, <2>2, <2>3 DEF TypeOK
<1>4. CASE RedisDown
  <2>1. Elems(channel) \subseteq Alert
    BY DEF Elems, TypeOK
  <2>2. faults' \in 0..MaxFaults
    BY <1>a, <1>4 DEF RedisDown
  <2>3. /\ channel' = channel \/ channel' = <<>>
        /\ spoiled' = spoiled \/ spoiled' = spoiled \union Elems(channel)
    BY <1>4 DEF RedisDown
  <2>4. channel' \in Seq(Alert)
    <3>1. channel \in Seq(Alert) /\ <<>> \in Seq(Alert)
      BY DEF TypeOK
    <3> QED BY <2>3, <3>1
  <2>5. spoiled' \subseteq Alert
    BY <2>1, <2>3 DEF TypeOK
  <2> QED BY <1>4, <2>2, <2>4, <2>5 DEF RedisDown, sockVars, TypeOK
<1>5. CASE Restart
  <2>1. Elems(channel) \subseteq Alert
    BY DEF Elems, TypeOK
  <2>2. Busy => broadcast.alert \in Alert
    BY BusyFields
  <2>3. spoiled' \subseteq Alert
    BY <1>5, <2>1, <2>2 DEF Restart, TypeOK
  <2>4. faults' \in 0..MaxFaults
    BY <1>a, <1>5 DEF Restart
  <2>5. sock' \in [Socket -> {"new", "greeting", "open", "gone"}] /\ left' \subseteq Socket
    BY <1>5 DEF Restart, TypeOK
  <2>6. channel' \in Seq(Alert) /\ ~Busy' /\ broadcast' = Silence
    BY <1>5 DEF Restart
  <2> QED BY <1>5, <2>3, <2>4, <2>5, <2>6 DEF Restart, TypeOK
<1> USE DEF TypeOK
<1>6. CASE Take
  <2>1. channel # <<>> /\ channel \in Seq(Alert) /\ Head(channel) \in Alert /\ Tail(channel) \in Seq(Alert)
    BY <1>6 DEF Take
  <2>2. ASSUME NEW c \in conns,
               broadcast' = [alert |-> Head(channel), size |-> Cardinality(conns),
                             set |-> "same", todo |-> conns \ {c}, at |-> c, dead |-> {},
                             ghosts |-> {d \in conns : sock[d] = "gone"}]
        PROVE  broadcast' \in Broadcast
    <3>1. Cardinality(conns) \in Nat
      BY FiniteSize
    <3> QED BY <2>1, <2>2, <3>1 DEF Broadcast
  <2>3. CASE conns = {} /\ UNCHANGED <<listener, broadcast, owed>>
    BY <1>6, <2>1, <2>3 DEF Take, sockVars
  <2>4. CASE ~(conns = {} /\ UNCHANGED <<listener, broadcast, owed>>)
    <3>1. /\ broadcast' \in Broadcast /\ listener' = "busy"
          /\ owed' = owed \union ((conns \ left) \X {Head(channel)})
      BY <1>6, <2>2, <2>4 DEF Take
    <3>2. owed' \subseteq Socket \X Alert
      BY <2>1, <3>1
    <3> QED BY <1>6, <2>1, <3>1, <3>2, NotSilence DEF Take, sockVars
  <2> QED BY <2>3, <2>4
<1>7. CASE Sent \/ SendFails
  <2>1. /\ Busy /\ broadcast.at \in Socket /\ broadcast.alert \in Alert /\ broadcast.dead \subseteq Socket
    BY <1>7, BusyFields DEF Sent, SendFails
  <2>2. \E dead \in SUBSET Socket : Proceed(dead)
    BY <1>7, <2>1 DEF Sent, SendFails
  <2>3. /\ broadcast' \in {Silence} \union Broadcast /\ conns' \subseteq Socket
        /\ listener' \in {"idle", "busy"} /\ (Busy' <=> broadcast' # Silence)
    BY <1>1, <2>1, <2>2
  <2>4. \/ got' = got
        \/ got' = [got EXCEPT ![broadcast.at] = Append(@, broadcast.alert)]
    BY <1>7 DEF Sent, SendFails, history
  <2>5. got' \in [Socket -> Seq(Alert)]
    <3>1. got \in [Socket -> Seq(Alert)]
      OBVIOUS
    <3>2. Append(got[broadcast.at], broadcast.alert) \in Seq(Alert)
      BY <2>1, <3>1
    <3> HIDE DEF TypeOK
    <3> QED BY <2>1, <2>4, <3>1, <3>2
  <2> QED BY <1>7, <2>3, <2>5 DEF Sent, SendFails, history
<1>8. ASSUME NEW k \in Socket, Dashboard(k)
      PROVE  TypeOK'
  <2>1. Busy => /\ broadcast \in Broadcast /\ broadcast.alert \in Alert
    BY BusyFields
  <2>2. CASE Connect(k)
    <3>1. Busy => broadcast' \in Broadcast
      BY <2>1, <2>2 DEF Connect, Broadcast
    <3> QED BY <2>1, <2>2, <3>1, NotSilence DEF Connect, Disturb
  <2>3. CASE Disconnect(k)
    <3>1. Busy => broadcast' \in Broadcast
      BY <2>1, <2>3 DEF Disconnect, Broadcast
    <3> QED BY <2>1, <2>3, <3>1, NotSilence DEF Disconnect, Disturb
  <2>4. CASE Greeted(k) \/ GreetingFails(k) \/ ReceiveFails(k) \/ Leave(k)
    BY <2>4 DEF Greeted, GreetingFails, ReceiveFails, Leave, feedVars, history
  <2> QED BY <1>8, <2>2, <2>3, <2>4 DEF Dashboard
<1>9. CASE UNCHANGED vars
  BY <1>9 DEF vars, feedVars, sockVars, history
<1> QED BY <1>2, <1>3, <1>4, <1>5, <1>6, <1>7, <1>8, <1>9 DEF Next, Listener
LEMMA FeedInit == Init => FeedInv
<1> SUFFICES ASSUME Init PROVE FeedInv
  OBVIOUS
<1>1. ~Busy
  BY DEF Init, Busy
<1>2. TypeOK
  <2>1. <<>> \in Seq(Alert) /\ 0 \in 0..MaxAlerts /\ 0 \in 0..MaxFaults
    BY FeedAssumption
  <2>2. got \in [Socket -> Seq(Alert)] /\ sock \in [Socket -> {"new", "greeting", "open", "gone"}]
    BY <2>1 DEF Init
  <2> QED BY <1>1, <2>1, <2>2 DEF Init, TypeOK
<1> QED BY <1>1, <1>2 DEF Init, FeedInv, Present, Debts, Queued, Order, InOrder

LEMMA SentStep ==
  ASSUME FeedInv, TypeOK', Sent \/ SendFails
  PROVE  /\ FeedInv'
         /\ listener' = "idle" /\ broadcast.alert \notin spoiled =>
              broadcast.ghosts \cap conns' = {}
<1>1. Busy /\ Going /\ Debts /\ broadcast.dead \subseteq left
  BY DEF Sent, SendFails, FeedInv, Going
<1>2. UNCHANGED <<alerts, channel, sock, left, spoiled>>
  BY DEF Sent, SendFails, history
<1>3. CASE Sent
  <2>1. /\ Proceed(broadcast.dead) /\ sock[broadcast.at] # "gone"
        /\ owed' = owed \ {<<broadcast.at, broadcast.alert>>}
        /\ got' = got \/ got' = [got EXCEPT ![broadcast.at] = Append(@, broadcast.alert)]
    BY <1>3 DEF Sent
  <2> QED BY <1>1, <1>2, <2>1, ProceedStep
<1>4. CASE SendFails
  <2> DEFINE dead == broadcast.dead \union {broadcast.at}
  <2>1. Proceed(dead) /\ broadcast.at \in left /\ UNCHANGED <<owed, got>>
    BY <1>4 DEF SendFails, history
  <2>2. dead \in SUBSET left /\ broadcast.dead \subseteq dead /\ broadcast.at \in dead
    BY <1>1, <2>1
  <2>3. <<broadcast.at, broadcast.alert>> \notin owed
    BY <1>1, <2>1 DEF Debts
  <2>4. owed' = owed \ {<<broadcast.at, broadcast.alert>>}
    BY <2>1, <2>3
  <2> HIDE DEF dead
  <2> QED BY <1>1, <1>2, <2>1, <2>2, <2>4, ProceedStep
<1> QED BY <1>3, <1>4

LEMMA FeedStep == FeedInv /\ [Next]_vars => FeedInv'
<1> SUFFICES ASSUME FeedInv, [Next]_vars PROVE FeedInv'
  OBVIOUS
<1>1. TypeOK' /\ TypeOK /\ Queued
  BY TypeKept DEF FeedInv
<1>2. CASE Publish \/ Subscribe \/ SubscribeFails \/ ReadFails \/ RedisDown
  <2>1. UNCHANGED <<broadcast, conns, sock, left, got, owed>>
    BY <1>2 DEF Publish, Subscribe, SubscribeFails, ReadFails, RedisDown, sockVars, history
  <2>2. Busy' <=> Busy
    BY <1>2 DEF Publish, Subscribe, SubscribeFails, ReadFails, RedisDown, Busy
  <2>3. spoiled \subseteq spoiled'
    BY <1>2 DEF Publish, Subscribe, SubscribeFails, ReadFails, RedisDown, history
  <2>4. \/ alerts' = alerts /\ (channel' = channel \/ channel' = <<>>)
        \/ alerts' = alerts + 1 /\ (channel' = channel \/ channel' = Append(channel, alerts + 1))
    BY <1>2 DEF Publish, Subscribe, SubscribeFails, ReadFails, RedisDown
  <2>5. Queued' /\ \A a \in Int : Behind(a) => Behind(a)'
    BY <1>1, <2>4, ChannelKept
  <2> QED BY <1>1, <2>1, <2>2, <2>3, <2>5, QuietStep
<1>3. CASE UNCHANGED vars
  <2>1. UNCHANGED <<alerts, channel, listener, broadcast, conns, sock, left, got, owed, spoiled>>
    BY <1>3 DEF vars, feedVars, sockVars, history
  <2>2. Busy' <=> Busy
    BY <2>1 DEF Busy
  <2>3. Queued' /\ \A a \in Int : Behind(a) => Behind(a)'
    BY <1>1, <2>1, ChannelKept
  <2> QED BY <1>1, <2>1, <2>2, <2>3, QuietStep
<1> QED BY <1>1, <1>2, <1>3, TakeStep, SentStep, DashboardStep, RestartStep DEF Next, Listener

LEMMA FeedCorrect == Spec => []FeedInv
BY FeedInit, FeedStep, PTL DEF Spec

-----------------------------------------------------------------------------
\* The variables have their types, whatever the environment does.
THEOREM TypeCorrect == Spec => []TypeOK
<1>1. FeedInv => TypeOK
  BY DEF FeedInv
<1> QED BY <1>1, FeedCorrect, PTL

\* Every open dashboard is in the set the broadcasts go to: no broadcast
\* discards one that is still there, and while nothing disturbs a broadcast
\* its iterator sees the set it began with.
THEOREM RegisteredCorrect == Spec => []Registered
<1>1. FeedInv => Registered
  BY DEF FeedInv, Registered, Present, Going, SameSize
<1> QED BY <1>1, FeedCorrect, PTL

\* A broadcast that nobody disturbs leaves no dashboard out, whichever sends
\* fail.
THEOREM NobodyForgottenCorrect == Spec => []NobodyForgotten
<1>1. FeedInv => NobodyForgotten
  BY DEF FeedInv, NobodyForgotten, Debts
<1> QED BY <1>1, FeedCorrect, PTL

\* Every dashboard receives the alerts in the order of their publication, and
\* twice at most one whose broadcast was disturbed.
THEOREM InOrderCorrect == Spec => []InOrder
<1>1. FeedInv => InOrder
  BY DEF FeedInv, Order
<1> QED BY <1>1, FeedCorrect, PTL

\* Sockets that were gone before an undisturbed broadcast have left the set
\* when it ends.
THEOREM GhostsGoCorrect == Spec => GhostsGo
<1>1. FeedInv /\ [Next]_vars => [Busy /\ listener' = "idle" /\ broadcast.alert \notin spoiled
                                 => broadcast.ghosts \cap conns' = {}]_vars
  <2> SUFFICES ASSUME FeedInv, Next, Busy, listener' = "idle", broadcast.alert \notin spoiled
               PROVE  broadcast.ghosts \cap conns' = {}
    OBVIOUS
  <2>1. TypeOK'
    BY TypeKept DEF FeedInv
  <2>2. Sent \/ SendFails
    BY DEF Next, Listener, Busy, Publish, Subscribe, SubscribeFails, ReadFails, RedisDown, Take,
           Restart, Dashboard, Connect, Greeted, GreetingFails, ReceiveFails, Leave, Disconnect, feedVars
  <2> QED BY <2>1, <2>2, SentStep
<1> QED BY <1>1, FeedCorrect, PTL DEF Spec, GhostsGo
=============================================================================
