------------------------ MODULE DeviceControl_proofs ------------------------
(***************************************************************************)
(* Theorems about DeviceControl, for any number of connections, orders,    *)
(* policy versions and faults.                                             *)
(***************************************************************************)
EXTENDS DeviceControl, TLAPS

-----------------------------------------------------------------------------
\* What a request makes of the row it loaded is a row.
LEMMA AfterType ==
  ASSUME TypeOK, NEW c \in Client
  PROVE  After(c) \in Row
<1>1. before[c] \in Row
  BY DEF TypeOK
<1>2. CASE c \in Beat
  <2>1. body[c] \in Message
    BY <1>2 DEF TypeOK
  <2>2. AfterHeartbeat(before[c], body[c]) \in Row
    BY <1>1, <2>1 DEF AfterHeartbeat, Row, Message
  <2> QED BY <1>2, <2>2 DEF After
<1>3. CASE c \notin Beat
  <2>1. AfterQuarantine(before[c]) \in Row /\ AfterUnquarantine(before[c]) \in Row
    BY <1>1 DEF AfterQuarantine, AfterUnquarantine, Row, Policy
  <2> QED BY <1>3, <2>1 DEF After
<1> QED BY <1>2, <1>3

\* Merging column by column yields a row, with each column as it is or as the
\* request set it.
LEMMA MergeType ==
  ASSUME NEW n \in Row, NEW l \in Row, NEW s \in Row
  PROVE  /\ Merge(n, l, s) \in Row
         /\ Merge(n, l, s).quarantine = IF s.quarantine = l.quarantine THEN n.quarantine
                                        ELSE s.quarantine
         /\ Merge(n, l, s).reported = IF s.reported = l.reported THEN n.reported ELSE s.reported
BY DEF Merge, Row

-----------------------------------------------------------------------------
\* Every component of the state stays in its type.
THEOREM TypeCorrect == Spec => []TypeOK
<1>1. Init => TypeOK
  <2> SUFFICES ASSUME Init PROVE TypeOK
    OBVIOUS
  <2>1. /\ phase \in [Client -> {"idle", "posted", "read", "written"}]
        /\ order \in [Admin -> {"quarantine", "unquarantine"}]
    BY DEF Init
  <2>2. row \in Row /\ before \in [Client -> Row] /\ body \in [Beat -> Message]
    BY DEF Init, Enrolled, NoMessage, Row, Message, Policy
  <2>3. /\ published \in [Policy -> 1..MaxVersion]
        /\ orders \in 0..MaxOrders /\ faults \in 0..MaxFaults /\ version \in 0..1
    BY ConstantsAssumption DEF Init
  <2>4. cache \in Content /\ fetched \in [content : Content, version : 0..1]
    BY ConstantsAssumption DEF Init, NoReply, NoPolicy, Content
  <2>5. /\ stale \in BOOLEAN /\ ordered \in BOOLEAN /\ quarantined \in BOOLEAN
        /\ online \in BOOLEAN
    BY DEF Init
  <2> QED BY <2>1, <2>2, <2>3, <2>4, <2>5 DEF Init, TypeOK
<1>2. TypeOK /\ [Next]_vars => TypeOK'
  <2> SUFFICES ASSUME TypeOK, [Next]_vars PROVE TypeOK'
    OBVIOUS
  <2> USE ConstantsAssumption
  <2> USE DEF TypeOK, serverVars, requestVars, loopVars, syncVars, Fault
  <2>1. ASSUME NEW a \in Admin, NEW what \in {"quarantine", "unquarantine"}, Order(a, what)
        PROVE  TypeOK'
    BY <2>1 DEF Order, Client
  <2>2. ASSUME NEW c \in Client, Read(c) PROVE TypeOK'
    BY <2>2 DEF Read
  <2>3. ASSUME NEW c \in Client, Write(c) PROVE TypeOK'
    BY <2>3 DEF Write
  <2>4. ASSUME NEW c \in Client, Commit(c) PROVE TypeOK'
    <3>1. row' \in Row
      <4>1. After(c) \in Row /\ row \in Row /\ before[c] \in Row
        BY AfterType
      <4>2. row' = Merge(row, before[c], After(c))
        BY <2>4 DEF Commit
      <4> QED BY <4>1, <4>2, MergeType
    <3>2. Enrolled \in Row
      BY DEF Enrolled, Row, Policy
    <3>3. stale' \in BOOLEAN /\ ordered' \in BOOLEAN
      BY <2>4 DEF Commit
    <3> QED BY <2>4, <3>1, <3>2, <3>3 DEF Commit
  <2>5. CASE Tick
    BY <2>5 DEF Tick
  <2>6. CASE MarkOffline
    BY <2>6 DEF MarkOffline, Row
  <2>7. ASSUME NEW p \in Policy, Publish(p) PROVE TypeOK'
    BY <2>7 DEF Publish
  <2>8. CASE CCCrash
    <3>1. Enrolled \in Row
      BY DEF Enrolled, Row, Policy
    <3>2. online' \in BOOLEAN
      BY <2>8 DEF CCCrash
    <3>3. fetch' \in {"idle", "posted", "replied"} /\ booting' \in BOOLEAN
      BY <2>8 DEF CCCrash
    <3>4. faults' \in 0..MaxFaults
      BY <2>8 DEF CCCrash
    <3> QED BY <2>8, <3>1, <3>2, <3>3, <3>4 DEF CCCrash
  <2>9. ASSUME NEW h \in Beat, SendBeat(h) PROVE TypeOK'
    <3>1. [status |-> IF online THEN "online" ELSE "offline",
           quarantine |-> quarantined, version |-> version] \in Message
      BY DEF Message
    <3> QED BY <2>9, <3>1 DEF SendBeat, Client
  <2>10. CASE BeatFails
    <3>1. phase' \in [Client -> {"idle", "posted", "read", "written"}]
      <4>1. phase' = phase \/ phase' = [phase EXCEPT ![beating] = "idle"]
        BY <2>10 DEF BeatFails
      <4> QED BY <4>1
    <3>2. faults' \in 0..MaxFaults
      BY <2>10 DEF BeatFails
    <3> QED BY <2>10, <3>1, <3>2 DEF BeatFails
  <2>11. CASE QuarantineLocally
    BY <2>11 DEF QuarantineLocally
  <2>12. CASE StartSync
    BY <2>12 DEF StartSync
  <2>13. CASE ServePolicy
    <3>1. row.policy \in Policy /\ row.reported \in 0..1
      BY DEF Row
    <3>2. Effective \in Content
      BY <3>1 DEF Effective, Content
    <3> QED BY <2>13, <3>1, <3>2 DEF ServePolicy
  <2>14. CASE EndSync \/ SyncFails \/ Restart \/ TornCache
    <3>1. NoPolicy \in Content /\ NoReply \in [content : Content, version : 0..1]
      BY DEF NoPolicy, NoReply, Content
    <3>2. CASE EndSync
      <4>1. booting' \in BOOLEAN
        BY <3>2 DEF EndSync
      <4>2. cache' \in Content /\ version' \in 0..1
        BY <3>2 DEF EndSync
      <4> QED BY <3>1, <3>2, <4>1, <4>2 DEF EndSync
    <3>3. CASE SyncFails
      <4>1. booting' \in BOOLEAN
        BY <3>3 DEF SyncFails
      <4>2. faults' \in 0..MaxFaults
        BY <3>3 DEF SyncFails
      <4>3. /\ UNCHANGED <<serverVars, published, orders, quarantined, loopVars, version, cache>>
            /\ fetch' \in {"idle", "posted", "replied"}
            /\ fetched' \in [content : Content, version : 0..1]
        BY <3>1, <3>3 DEF SyncFails
      <4> HIDE DEF Fault
      <4> QED BY <4>1, <4>2, <4>3
    <3>4. CASE Restart
      BY <3>1, <3>4 DEF Restart, Reboot
    <3>5. CASE TornCache
      BY <3>1, <3>5 DEF TornCache, Reboot
    <3> QED BY <2>14, <3>2, <3>3, <3>4, <3>5
  <2>15. CASE UNCHANGED vars
    BY <2>15 DEF vars
  <2> HIDE DEF TypeOK, serverVars, requestVars, loopVars, syncVars, Fault
  <2> QED
    BY <2>1, <2>2, <2>3, <2>4, <2>5, <2>6, <2>7, <2>8, <2>9, <2>10, <2>11, <2>12, <2>13,
       <2>14, <2>15 DEF Next, ControlCenter, Sidecar
<1> QED BY <1>1, <1>2, PTL DEF Spec

-----------------------------------------------------------------------------
\* A row is quarantined only on an order or because the device is: the rows
\* and payloads that requests carry around never bring up another reason.
THEOREM QuarantineBacked == Spec => []BackedInv
<1>1. Init => BackedInv
  BY DEF Init, BackedInv, QuarantineIsBacked, Enrolled, NoMessage
<1>2. TypeOK /\ BackedInv /\ [Next]_vars => BackedInv'
  <2> SUFFICES ASSUME TypeOK, BackedInv, [Next]_vars PROVE BackedInv'
    OBVIOUS
  <2> USE DEF BackedInv, QuarantineIsBacked
  <2>1. ASSUME NEW c \in Client, Commit(c) PROVE BackedInv'
    <3>1. row \in Row /\ before[c] \in Row /\ After(c) \in Row
      BY AfterType DEF TypeOK
    <3>2. row'.quarantine = IF After(c).quarantine = before[c].quarantine THEN row.quarantine
                            ELSE After(c).quarantine
      BY <2>1, <3>1, MergeType DEF Commit
    <3>3. After(c).quarantine => ordered' \/ quarantined'
      <4>1. CASE c \in Beat
        BY <2>1, <3>1, <4>1 DEF After, AfterHeartbeat, Row, Commit
      <4>2. CASE c \notin Beat /\ order[c] = "quarantine"
        BY <2>1, <4>2 DEF Commit, Client
      <4>3. CASE c \notin Beat /\ order[c] # "quarantine"
        BY <3>1, <4>3 DEF After, AfterUnquarantine, Row
      <4> QED BY <4>1, <4>2, <4>3
    <3>4. QuarantineIsBacked'
      BY <2>1, <3>2, <3>3 DEF Commit
    <3>5. \A d \in Client : before'[d].quarantine => ordered' \/ quarantined'
      BY <2>1 DEF Commit, Enrolled, TypeOK
    <3> QED BY <2>1, <3>4, <3>5 DEF Commit
  <2>2. ASSUME NEW c \in Client, Read(c) PROVE BackedInv'
    BY <2>2 DEF Read, TypeOK, loopVars, syncVars
  <2>3. CASE MarkOffline
    BY <2>3 DEF MarkOffline, requestVars, TypeOK, Row
  <2>4. CASE CCCrash
    BY <2>4 DEF CCCrash, Enrolled
  <2>5. ASSUME NEW h \in Beat, SendBeat(h) PROVE BackedInv'
    BY <2>5 DEF SendBeat, TypeOK
  <2>6. CASE QuarantineLocally
    BY <2>6 DEF QuarantineLocally, serverVars, requestVars
  <2>7. CASE UNCHANGED <<row, before, body, ordered, quarantined>>
    BY <2>7
  <2>8. \/ \E c \in Client : Commit(c) \/ Read(c)
        \/ MarkOffline \/ CCCrash \/ QuarantineLocally
        \/ \E h \in Beat : SendBeat(h)
        \/ UNCHANGED <<row, before, body, ordered, quarantined>>
    BY DEF Next, ControlCenter, Sidecar, Order, Write, Publish, ServePolicy, BeatFails,
           StartSync, EndSync, SyncFails, Restart, TornCache, Reboot, Tick, vars, serverVars,
           requestVars
  <2> QED BY <2>1, <2>2, <2>3, <2>4, <2>5, <2>6, <2>7, <2>8
<1> QED BY <1>1, <1>2, TypeCorrect, PTL DEF Spec

-----------------------------------------------------------------------------
\* Locks have owners, and whoever waits has somebody to wait for.
LEMMA HeldStep ==
  ASSUME TypeOK, HeldInv, [Next]_vars
  PROVE  HeldInv'
<1> USE ConstantsAssumption DEF TypeOK, HeldInv, Client, loopVars, syncVars, serverVars, requestVars
<1>1. ASSUME NEW a \in Admin, NEW what \in {"quarantine", "unquarantine"}, Order(a, what)
      PROVE  HeldInv'
  BY <1>1 DEF Order
<1>2. ASSUME NEW c \in Client, Read(c) PROVE HeldInv'
  BY <1>2 DEF Read
<1>3. ASSUME NEW c \in Client, Write(c) PROVE HeldInv'
  BY <1>3 DEF Write
<1>4. ASSUME NEW c \in Client, Commit(c) PROVE HeldInv'
  BY <1>4 DEF Commit
<1>5. CASE CCCrash
  BY <1>5 DEF CCCrash
<1>6. ASSUME NEW h \in Beat, SendBeat(h) PROVE HeldInv'
  BY <1>6 DEF SendBeat
<1>7. CASE BeatFails
  BY <1>7 DEF BeatFails
<1>8. CASE StartSync
  BY <1>8 DEF StartSync
<1>9. CASE ServePolicy
  BY <1>9 DEF ServePolicy
<1>10. ASSUME booting' = FALSE, UNCHANGED <<lock, phase, beating>> PROVE HeldInv'
  BY <1>10
<1>11. ASSUME beating' = Nobody, fetch' = "posted", UNCHANGED <<lock, phase>> PROVE HeldInv'
  BY <1>11
<1>12. CASE UNCHANGED <<lock, phase, beating, booting, fetch>>
  BY <1>12
<1> QED
  BY <1>1, <1>2, <1>3, <1>4, <1>5, <1>6, <1>7, <1>8, <1>9, <1>10, <1>11, <1>12
  DEF Next, ControlCenter, Sidecar, Publish, MarkOffline, QuarantineLocally, EndSync,
      SyncFails, Restart, TornCache, Reboot, Tick, vars

\* What requests carry is backed and nobody waits in vain, for any number of
\* overlapping heartbeats, orders and faults.
THEOREM RequestsCorrect == Spec => []RequestsInv
<1>1. Init => HeldInv
  BY ConstantsAssumption DEF Init, HeldInv, Client
<1>2. TypeOK /\ HeldInv /\ [Next]_vars => HeldInv'
  BY HeldStep
<1>3. RequestsInv <=> BackedInv /\ HeldInv
  BY DEF RequestsInv
<1> QED BY <1>1, <1>2, <1>3, TypeCorrect, QuarantineBacked, PTL DEF Spec

-----------------------------------------------------------------------------
\* Only the commit of an unquarantine clears the flag.
THEOREM OnlyOrdersReleaseCorrect == Spec => OnlyOrdersRelease
<1>1. ASSUME TypeOK, [Next]_vars, row.quarantine, ~row'.quarantine
      PROVE  \E a \in Admin : phase[a] = "written" /\ order[a] = "unquarantine"
  <2>1. PICK c \in Client : Commit(c)
    <3>1. ~MarkOffline
      BY <1>1 DEF MarkOffline, TypeOK, Row
    <3> QED
      BY <1>1, <3>1 DEF Next, ControlCenter, Sidecar, Order, Read, Write, Publish, ServePolicy,
           CCCrash, SendBeat, BeatFails, QuarantineLocally, StartSync, EndSync, SyncFails,
           Restart, TornCache, Reboot, Tick, vars, serverVars, requestVars
  <2>2. row \in Row /\ before[c] \in Row /\ After(c) \in Row
    BY <1>1, AfterType DEF TypeOK
  <2>3. ~After(c).quarantine /\ before[c].quarantine
    BY <1>1, <2>1, <2>2, MergeType DEF Commit, Row
  <2>4. c \notin Beat
    BY <2>2, <2>3 DEF After, AfterHeartbeat, Row
  <2>5. order[c] # "quarantine"
    BY <2>2, <2>3, <2>4 DEF After, AfterQuarantine, Row
  <2> QED BY <1>1, <2>1, <2>4, <2>5 DEF Commit, Client, TypeOK
<1>2. TypeOK /\ [Next]_vars
        => [(row.quarantine /\ ~row'.quarantine)
             => \E a \in Admin : phase[a] = "written" /\ order[a] = "unquarantine"]_vars
  BY <1>1
<1> QED BY <1>2, TypeCorrect, PTL DEF Spec, OnlyOrdersRelease

-----------------------------------------------------------------------------
\* The device never has, and never reports, another version than 0.
ZeroInv == version = 0 /\ \A h \in Beat : body[h].version = 0

\* The sidecar gives every policy it caches the version 0.
LEMMA ZeroCorrect == Spec => []ZeroInv
<1>1. Init => ZeroInv
  BY DEF Init, ZeroInv, NoMessage
<1>2. TypeOK /\ ZeroInv /\ [Next]_vars => ZeroInv'
  <2> SUFFICES ASSUME TypeOK, ZeroInv, [Next]_vars PROVE ZeroInv'
    OBVIOUS
  <2> USE DEF ZeroInv
  <2>1. ASSUME NEW h \in Beat, SendBeat(h) PROVE ZeroInv'
    BY <2>1 DEF SendBeat, TypeOK, syncVars
  <2>2. CASE body' = body /\ version' \in {version, 0}
    BY <2>2
  <2>3. \/ \E h \in Beat : SendBeat(h)
        \/ body' = body /\ version' \in {version, 0}
    BY DEF Next, ControlCenter, Sidecar, Order, Read, Write, Commit, Publish, MarkOffline,
           ServePolicy, CCCrash, BeatFails, QuarantineLocally, StartSync, EndSync, SyncFails,
           Restart, TornCache, Reboot, Tick, vars, serverVars, requestVars, syncVars
  <2> QED BY <2>1, <2>2, <2>3
<1> QED BY <1>1, <1>2, TypeCorrect, PTL DEF Spec

\* A device that has a policy and has reported its version keeps that policy
\* for ever, whatever is published or assigned to it.
THEOREM PolicyIsFrozenCorrect == Spec => PolicyIsFrozen
<1>1. ASSUME TypeOK, ZeroInv, [Next]_vars, Frozen
      PROVE  Frozen' /\ cache' = cache
  <2> USE <1>1 DEF Frozen
  <2>1. row'.reported = 0
    <3>1. ASSUME NEW c \in Client, Commit(c) PROVE row'.reported = 0
      <4>1. row \in Row /\ before[c] \in Row /\ After(c) \in Row
        BY AfterType DEF TypeOK
      <4>2. row'.reported = IF After(c).reported = before[c].reported THEN row.reported
                            ELSE After(c).reported
        BY <3>1, <4>1, MergeType DEF Commit
      <4>3. CASE c \in Beat
        BY <4>1, <4>2, <4>3 DEF After, AfterHeartbeat, Row, ZeroInv
      <4>4. CASE c \notin Beat
        BY <4>1, <4>2, <4>4 DEF After, AfterQuarantine, AfterUnquarantine, Row
      <4> QED BY <4>3, <4>4
    <3>2. CASE MarkOffline
      BY <3>2 DEF MarkOffline, TypeOK, Row
    <3>3. \/ row' = row \/ MarkOffline \/ \E c \in Client : Commit(c)
      BY DEF Next, ControlCenter, Sidecar, Order, Read, Write, Publish, ServePolicy,
           CCCrash, SendBeat, BeatFails, QuarantineLocally, StartSync, EndSync, SyncFails,
           Restart, TornCache, Reboot, Tick, vars, serverVars, requestVars
    <3> QED BY <3>1, <3>2, <3>3
  <2>2. cache' = cache /\ (fetch' = "replied" => fetched'.version = 0)
    <3>1. CASE ServePolicy
      BY <3>1 DEF ServePolicy
    <3>2. CASE EndSync
      BY <3>2 DEF EndSync, Fresh, ZeroInv
    <3>3. CASE SyncFails
      BY <3>3 DEF SyncFails
    <3>4. CASE Restart
      BY <3>4 DEF Restart, Reboot
    <3>5. ~TornCache
      BY DEF TornCache, Fresh, ZeroInv
    <3>6. CASE UNCHANGED <<cache, fetched>> /\ fetch' \in {fetch, "idle", "posted"}
      BY <3>6
    <3>7. \/ ServePolicy \/ EndSync \/ SyncFails \/ Restart \/ TornCache
          \/ UNCHANGED <<cache, fetched>> /\ fetch' \in {fetch, "idle", "posted"}
      BY DEF Next, ControlCenter, Sidecar, Order, Read, Write, Commit, Publish, MarkOffline,
           CCCrash, SendBeat, BeatFails, QuarantineLocally, StartSync, Tick, vars, syncVars
    <3> QED BY <3>1, <3>2, <3>3, <3>4, <3>5, <3>6, <3>7
  <2> QED BY <2>1, <2>2
<1>2. TypeOK /\ ZeroInv /\ [Next]_vars => [Frozen => Frozen' /\ cache' = cache]_vars
  BY <1>1
<1> QED BY <1>2, TypeCorrect, ZeroCorrect, PTL DEF Spec, PolicyIsFrozen

-----------------------------------------------------------------------------
(***************************************************************************)
(* Orders against heartbeats.                                              *)
(***************************************************************************)

\* The columns an UPDATE leaves behind.
LEMMA MergeColumns ==
  ASSUME NEW n \in Row, NEW l \in Row, NEW s \in Row
  PROVE  /\ Merge(n, l, s).status = IF s.status = l.status THEN n.status ELSE s.status
         /\ Merge(n, l, s).quarantine = IF s.quarantine = l.quarantine THEN n.quarantine
                                        ELSE s.quarantine
         /\ Merge(n, l, s).policy = IF s.policy = l.policy THEN n.policy ELSE s.policy
BY DEF Merge, Row

\* A quarantine order leaves the row quarantined and shown so, although it
\* writes only what it did not find there.
LEMMA QuarantineSteady ==
  ASSUME TypeOK, SteadyInv, OneAtATime, NEW c \in Admin, Commit(c), order[c] = "quarantine"
  PROVE  SteadyInv'
<1> DEFINE b == before[c]
<1>1. row \in Row /\ b \in Row /\ After(c) \in Row /\ c \in Client /\ c \notin Beat
  BY AfterType, ConstantsAssumption DEF TypeOK, Client
<1>2. /\ After(c).status = "quarantined" /\ After(c).quarantine /\ After(c).policy = "lockdown"
      /\ After(c).quarantine \in BOOLEAN
  BY <1>1 DEF After, AfterQuarantine, Row
<1>3. /\ row'.status = IF b.status = "quarantined" THEN row.status ELSE "quarantined"
      /\ row'.quarantine = IF b.quarantine THEN row.quarantine ELSE TRUE
      /\ row'.policy = IF b.policy = "lockdown" THEN row.policy ELSE "lockdown"
  <2>1. b.quarantine \in BOOLEAN /\ row.quarantine \in BOOLEAN
    BY <1>1 DEF Row
  <2>2. /\ row'.status = IF After(c).status = b.status THEN row.status ELSE After(c).status
        /\ row'.quarantine = IF After(c).quarantine = b.quarantine THEN row.quarantine
                             ELSE After(c).quarantine
        /\ row'.policy = IF After(c).policy = b.policy THEN row.policy ELSE After(c).policy
    <3>1. row' = Merge(row, b, After(c))
      BY DEF Commit
    <3> QED BY <1>1, <3>1, MergeColumns
  <2> QED BY <1>2, <2>1, <2>2
<1>4. Loaded(c) /\ \A d \in Client : Loaded(d)' => d # c /\ Loaded(d) /\ before'[d] = before[d]
  BY <1>1 DEF Commit, Loaded, TypeOK
<1>5. \A a \in Admin : ~Loaded(a)'
  BY <1>1, <1>4, ConstantsAssumption DEF OneAtATime, Loaded, Client
<1>6. row'.quarantine
  BY <1>1, <1>3, <1>4 DEF SteadyInv, OrderInv
<1>7. ASSUME NEW h \in Beat, Loaded(h)', ~before'[h].quarantine
      PROVE  row'.status = "quarantined"
  <2>1. Loaded(h) /\ ~before[h].quarantine
    BY <1>4, <1>7 DEF Client
  <2>2. CASE b.status = "quarantined"
    <3>1. row.quarantine
      BY <1>4, <2>2 DEF SteadyInv, OrderInv
    <3> QED BY <1>3, <2>1, <2>2, <3>1 DEF SteadyInv, BeatInv
  <2> QED BY <1>3, <2>2
<1> QED BY <1>5, <1>6, <1>7 DEF SteadyInv, RowIsConsistent, OrderInv, BeatInv

\* An order that lifts a quarantine never leaves the row shown as quarantined
\* without the flag: a heartbeat in between that would cause it has seen the
\* flag, too.
LEMMA ReleaseSteady ==
  ASSUME TypeOK, SteadyInv, OneAtATime, NEW c \in Admin, Commit(c), order[c] # "quarantine"
  PROVE  SteadyInv'
<1> DEFINE b == before[c]
<1>1. row \in Row /\ b \in Row /\ After(c) \in Row /\ c \in Client /\ c \notin Beat
  BY AfterType, ConstantsAssumption DEF TypeOK, Client
<1>2. After(c).status = "online" /\ After(c).quarantine = FALSE /\ After(c).policy = "default"
  BY <1>1 DEF After, AfterUnquarantine, Row
<1>3. /\ row'.status = IF b.status = "online" THEN row.status ELSE "online"
      /\ row'.quarantine = IF b.quarantine THEN FALSE ELSE row.quarantine
      /\ row'.policy = IF b.policy = "default" THEN row.policy ELSE "default"
  <2>1. b.quarantine \in BOOLEAN /\ row.quarantine \in BOOLEAN
    BY <1>1 DEF Row
  <2>2. /\ row'.status = IF After(c).status = b.status THEN row.status ELSE After(c).status
        /\ row'.quarantine = IF After(c).quarantine = b.quarantine THEN row.quarantine
                             ELSE After(c).quarantine
        /\ row'.policy = IF After(c).policy = b.policy THEN row.policy ELSE After(c).policy
    <3>1. row' = Merge(row, b, After(c))
      BY DEF Commit
    <3> QED BY <1>1, <3>1, MergeColumns
  <2> QED BY <1>2, <2>1, <2>2
<1>4. Loaded(c) /\ \A d \in Client : Loaded(d)' => d # c /\ Loaded(d) /\ before'[d] = before[d]
  BY <1>1 DEF Commit, Loaded, TypeOK
<1>5. \A a \in Admin : ~Loaded(a)'
  BY <1>1, <1>4, ConstantsAssumption DEF OneAtATime, Loaded, Client
<1>6. row'.policy = "default"
  BY <1>1, <1>3, <1>4 DEF SteadyInv, OrderInv
<1>7. row'.status = "quarantined" => row'.quarantine
  BY <1>3, <1>4 DEF SteadyInv, OrderInv, RowIsConsistent
<1>8. ASSUME NEW h \in Beat, Loaded(h)', ~before'[h].quarantine
      PROVE  ~row'.quarantine
  <2>1. Loaded(h) /\ ~before[h].quarantine
    BY <1>4, <1>8 DEF Client
  <2> QED BY <1>3, <1>4, <2>1 DEF SteadyInv, BeatInv
<1> QED BY <1>5, <1>6, <1>7, <1>8 DEF SteadyInv, RowIsConsistent, OrderInv, BeatInv

\* A heartbeat never clears the flag, and shows the device as quarantined only
\* with the flag.
LEMMA BeatSteady ==
  ASSUME TypeOK, SteadyInv, OneAtATime, NEW c \in Beat, Commit(c)
  PROVE  SteadyInv'
<1> DEFINE b == before[c]
           m == body[c]
           first == m.quarantine /\ ~b.quarantine
<1>1. row \in Row /\ b \in Row /\ m \in Message /\ After(c) \in Row /\ c \in Client
  BY AfterType DEF TypeOK, Client
<1>2. /\ After(c).status = IF first THEN "quarantined" ELSE m.status
      /\ After(c).quarantine = (b.quarantine \/ m.quarantine)
      /\ After(c).policy = b.policy
  BY <1>1 DEF After, AfterHeartbeat, Row
<1>3. /\ row'.quarantine = IF first THEN TRUE ELSE row.quarantine
      /\ row'.policy = row.policy
      /\ ~first => row'.status = row.status \/ row'.status # "quarantined"
  <2>1. b.quarantine \in BOOLEAN /\ row.quarantine \in BOOLEAN
    BY <1>1 DEF Row
  <2>2. /\ row'.status = IF After(c).status = b.status THEN row.status ELSE After(c).status
        /\ row'.quarantine = IF After(c).quarantine = b.quarantine THEN row.quarantine
                             ELSE After(c).quarantine
        /\ row'.policy = IF After(c).policy = b.policy THEN row.policy ELSE After(c).policy
    <3>1. row' = Merge(row, b, After(c))
      BY DEF Commit
    <3> QED BY <1>1, <3>1, MergeColumns
  <2>3. m.quarantine \in BOOLEAN /\ m.status # "quarantined"
    BY <1>1 DEF Message
  <2>4. After(c).quarantine = (first \/ b.quarantine)
    BY <1>2, <2>1, <2>3
  <2> QED BY <1>2, <2>1, <2>2, <2>3, <2>4
<1>4. Loaded(c) /\ \A d \in Client : Loaded(d)' => d # c /\ Loaded(d) /\ before'[d] = before[d]
  BY <1>1 DEF Commit, Loaded, TypeOK
<1>5. \A h \in Beat : ~Loaded(h)'
  BY <1>1, <1>4 DEF OneAtATime, Loaded, Client
<1>6. RowIsConsistent'
  BY <1>3 DEF SteadyInv, RowIsConsistent
<1>7. ASSUME NEW a \in Admin, Loaded(a)'
      PROVE  /\ before'[a].policy = row'.policy
             /\ before'[a].status = "quarantined" => before'[a].quarantine
             /\ before'[a].quarantine =>
                  row'.quarantine /\ (before'[a].status = "online" => row'.status # "quarantined")
  <2>1. Loaded(a) /\ before'[a] = before[a]
    BY <1>4, <1>7 DEF Client
  <2>2. first /\ before[a].quarantine => before[a].status # "online"
    BY <1>4, <2>1 DEF SteadyInv, BeatInv
  <2> QED BY <1>3, <2>1, <2>2 DEF SteadyInv, OrderInv
<1> QED BY <1>5, <1>6, <1>7 DEF SteadyInv, OrderInv, BeatInv

LEMMA SteadyStep ==
  ASSUME TypeOK, SteadyInv, OneAtATime, [Next]_vars
  PROVE  SteadyInv'
<1>1. ASSUME NEW c \in Client, Commit(c) PROVE SteadyInv'
  BY <1>1, QuarantineSteady, ReleaseSteady, BeatSteady DEF Client
<1>2. ASSUME NEW c \in Client, Read(c) PROVE SteadyInv'
  <2>1. /\ row' = row /\ before'[c] = row
        /\ \A d \in Client \ {c} : before'[d] = before[d] /\ (Loaded(d)' => Loaded(d))
    BY <1>2 DEF Read, TypeOK, Loaded
  <2>2. c \in Admin => c \notin Beat
    BY ConstantsAssumption
  <2>3. OrderInv'
    <3> SUFFICES ASSUME NEW a \in Admin, Loaded(a)'
                 PROVE  /\ before'[a].policy = row.policy
                        /\ before'[a].status = "quarantined" => before'[a].quarantine
                        /\ before'[a].quarantine =>
                             /\ row.quarantine
                             /\ before'[a].status = "online" => row.status # "quarantined"
      BY <2>1 DEF OrderInv
    <3>1. CASE a = c
      BY <2>1, <3>1 DEF SteadyInv, RowIsConsistent
    <3>2. CASE a # c
      BY <2>1, <3>2 DEF SteadyInv, OrderInv, Client
    <3> QED BY <3>1, <3>2
  <2>4. BeatInv'
    <3> SUFFICES ASSUME NEW h \in Beat, Loaded(h)', ~before'[h].quarantine
                 PROVE  /\ row.quarantine => row.status = "quarantined"
                        /\ \A a \in Admin : Loaded(a)' =>
                             IF before'[a].quarantine THEN before'[a].status # "online"
                             ELSE ~row.quarantine
      BY <2>1 DEF BeatInv
    <3>1. CASE h = c
      BY <2>1, <2>2, <3>1 DEF SteadyInv, OrderInv, Client
    <3>2. CASE h # c
      <4>1. Loaded(h) /\ ~before[h].quarantine
        BY <2>1, <3>2 DEF Client
      <4>2. row.quarantine => row.status = "quarantined"
        BY <4>1 DEF SteadyInv, BeatInv
      <4>3. ASSUME NEW a \in Admin, Loaded(a)'
            PROVE  IF before'[a].quarantine THEN before'[a].status # "online"
                   ELSE ~row.quarantine
        <5>1. CASE a = c
          BY <2>1, <4>2, <5>1
        <5>2. CASE a # c
          BY <2>1, <4>1, <4>3, <5>2 DEF SteadyInv, BeatInv, Client
        <5> QED BY <5>1, <5>2
      <4> QED BY <4>2, <4>3
    <3> QED BY <3>1, <3>2
  <2> QED BY <2>1, <2>3, <2>4 DEF SteadyInv, RowIsConsistent
<1>3. CASE MarkOffline
  <2>1. /\ row.status = "online" /\ row'.status = "offline"
        /\ row'.quarantine = row.quarantine /\ row'.policy = row.policy
    BY <1>3 DEF MarkOffline, TypeOK, Row
  <2>2. before' = before /\ phase' = phase
    BY <1>3 DEF MarkOffline, requestVars
  <2> QED BY <2>1, <2>2 DEF SteadyInv, RowIsConsistent, OrderInv, BeatInv, Loaded
<1>4. ASSUME UNCHANGED row, \A c \in Client : Loaded(c)' => Loaded(c) /\ before'[c] = before[c]
      PROVE  SteadyInv'
  BY <1>4 DEF SteadyInv, RowIsConsistent, OrderInv, BeatInv, Client
<1>5. CASE CCCrash
  BY <1>4, <1>5 DEF CCCrash, Loaded
<1>6. ASSUME NEW c \in Client, \/ phase' = [phase EXCEPT ![c] = "posted"]
                               \/ phase' = [phase EXCEPT ![c] = "idle"]
                               \/ phase[c] = "read" /\ phase' = [phase EXCEPT ![c] = "written"],
             UNCHANGED <<row, before>>
      PROVE  SteadyInv'
  BY <1>4, <1>6 DEF Loaded, TypeOK
<1>7. CASE UNCHANGED <<row, before, phase>>
  BY <1>4, <1>7 DEF Loaded
<1>8. \/ \E c \in Client : Commit(c) \/ Read(c)
      \/ MarkOffline \/ CCCrash
      \/ \E c \in Client : /\ \/ phase' = [phase EXCEPT ![c] = "posted"]
                              \/ phase' = [phase EXCEPT ![c] = "idle"]
                              \/ phase[c] = "read" /\ phase' = [phase EXCEPT ![c] = "written"]
                           /\ UNCHANGED <<row, before>>
      \/ UNCHANGED <<row, before, phase>>
  BY DEF Next, ControlCenter, Sidecar, Client, TypeOK, Order, Write, Publish, ServePolicy, SendBeat,
         BeatFails, QuarantineLocally, StartSync, EndSync, SyncFails, Restart, TornCache, Reboot,
         Tick, vars, serverVars, requestVars
<1> QED BY <1>1, <1>2, <1>3, <1>5, <1>6, <1>7, <1>8

\* As long as no two orders and no two heartbeats overlap, an order and a
\* heartbeat may, and still no row is shown as quarantined, or locked down,
\* without its flag.
THEOREM RowIsConsistentCorrect == Spec /\ []OneAtATime => []RowIsConsistent
<1>1. Init => SteadyInv
  BY DEF Init, SteadyInv, RowIsConsistent, OrderInv, BeatInv, Loaded, Enrolled, Client
<1>2. TypeOK /\ SteadyInv /\ OneAtATime /\ [Next]_vars => SteadyInv'
  BY SteadyStep
<1>3. SteadyInv => RowIsConsistent
  BY DEF SteadyInv
<1> QED BY <1>1, <1>2, <1>3, TypeCorrect, PTL DEF Spec
=============================================================================
