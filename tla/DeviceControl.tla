---------------------------- MODULE DeviceControl ----------------------------
(***************************************************************************)
(* One enrolled device and its row in the Control Center's database.       *)
(*                                                                         *)
(* Control Center (services/device_service.py, api/v1/devices.py,          *)
(* main.py): heartbeats and an administrator's quarantine and unquarantine *)
(* each load the row, assign its attributes and flush.  The ORM writes the *)
(* columns whose value differs from the one it LOADED, so requests that    *)
(* overlap merge column by column.  A background task marks stale rows     *)
(* offline with one conditional UPDATE.  GET /devices/<id>/policy answers  *)
(* with the policy published under the row's policy_id, and with the       *)
(* row's policy_version, which is what the device last reported.           *)
(*                                                                         *)
(* Sidecar (heartbeat.py, policy_sync.py, quarantine.py, config.py): a     *)
(* heartbeat loop and a policy loop run side by side on one configuration, *)
(* which is saved, with the cached policy, at every change.                *)
(***************************************************************************)
EXTENDS Naturals

CONSTANTS Admin,       \* connections of administrators
          Beat,        \* connections of heartbeats
          Nobody,      \* neither
          MaxVersion,  \* versions published per policy
          MaxOrders,   \* orders administrators give
          Faults,      \* the faults of the environment that may happen
          MaxFaults    \* how many of them

FaultNames == {"lost_beat", "lost_sync", "restart", "torn_cache", "cc_crash"}

ASSUME ConstantsAssumption ==
  /\ Admin \cap Beat = {}
  /\ Nobody \notin Admin \union Beat
  /\ MaxVersion \in Nat \ {0}
  /\ MaxOrders \in Nat
  /\ Faults \subseteq FaultNames
  /\ MaxFaults \in Nat

Client == Admin \union Beat
Policy == {"default", "lockdown"}

VARIABLES
  row,         \* the committed row of the device
  stale,       \* its last_seen_at is older than the threshold
  published,   \* per policy, its newest published version
  phase,       \* per request: "idle", "posted", "read", "written"
  before,      \* per request, the row it loaded
  order,       \* per administrator, what the request asks for
  body,        \* per heartbeat, its payload
  lock,        \* whose transaction has written the row and not committed
  orders,      \* orders given so far
  ordered,     \* some administrator's quarantine has been committed
  quarantined, \* cfg.quarantine
  online,      \* HeartbeatLoop._online
  beating,     \* the heartbeat the sidecar awaits, or Nobody
  booting,     \* main awaits its first sync; loops and local API are to start
  version,     \* cfg.policy_version
  cache,       \* the cached policy
  fetch,       \* the policy request: "idle", "posted", "replied"
  fetched,     \* its reply
  faults       \* faults that have happened

requestVars == <<phase, before, order, body>>
serverVars == <<row, stale, requestVars, lock, ordered>>
loopVars == <<online, beating>>
syncVars == <<booting, version, cache, fetch, fetched>>
vars == <<serverVars, published, orders, quarantined, loopVars, syncVars, faults>>

Row == [status : {"online", "offline", "quarantined"}, quarantine : BOOLEAN,
        policy : Policy, reported : 0..1]
Message == [status : {"online", "offline"}, quarantine : BOOLEAN, version : 0..1]
Content == [policy : Policy \union {"none"}, version : 0..MaxVersion]

\* What enroll_device inserts.
Enrolled == [status |-> "online", quarantine |-> FALSE, policy |-> "default", reported |-> 1]
NoMessage == [status |-> "online", quarantine |-> FALSE, version |-> 0]
NoPolicy == [policy |-> "none", version |-> 0]
NoReply == [content |-> NoPolicy, version |-> 0]

TypeOK ==
  /\ row \in Row
  /\ stale \in BOOLEAN
  /\ published \in [Policy -> 1..MaxVersion]
  /\ phase \in [Client -> {"idle", "posted", "read", "written"}]
  /\ before \in [Client -> Row]
  /\ order \in [Admin -> {"quarantine", "unquarantine"}]
  /\ body \in [Beat -> Message]
  /\ lock \in Client \union {Nobody}
  /\ orders \in 0..MaxOrders
  /\ ordered \in BOOLEAN
  /\ quarantined \in BOOLEAN
  /\ online \in BOOLEAN
  /\ beating \in Beat \union {Nobody}
  /\ booting \in BOOLEAN
  /\ version \in 0..1
  /\ cache \in Content
  /\ fetch \in {"idle", "posted", "replied"}
  /\ fetched \in [content : Content, version : 0..1]
  /\ faults \in 0..MaxFaults

\* Just enrolled, with the seeded policies; the first sync is to come.
Init ==
  /\ row = Enrolled
  /\ stale = FALSE
  /\ published = [p \in Policy |-> 1]
  /\ phase = [c \in Client |-> "idle"]
  /\ before = [c \in Client |-> Enrolled]
  /\ order = [a \in Admin |-> "quarantine"]
  /\ body = [h \in Beat |-> NoMessage]
  /\ lock = Nobody
  /\ orders = 0
  /\ ordered = FALSE
  /\ quarantined = FALSE
  /\ online = TRUE
  /\ beating = Nobody
  /\ booting = TRUE
  /\ version = 0
  /\ cache = NoPolicy
  /\ fetch = "posted"
  /\ fetched = NoReply
  /\ faults = 0

Fault(name) ==
  /\ name \in Faults
  /\ faults < MaxFaults
  /\ faults' = faults + 1

-----------------------------------------------------------------------------
(***************************************************************************)
(* The Control Center: heartbeats and orders.                              *)
(***************************************************************************)

\* Mutant of AfterHeartbeat: a reported quarantine is shown and not flagged.
AfterHeartbeat_ShowsOnly(b, m) ==
  [b EXCEPT !.status = IF m.quarantine /\ ~b.quarantine THEN "quarantined" ELSE m.status,
            !.reported = m.version]

\* process_heartbeat: the row becomes what the device says it is; a device
\* that reports its quarantine for the first time is shown quarantined.
AfterHeartbeat(b, m) ==
  [b EXCEPT !.status = IF m.quarantine /\ ~b.quarantine THEN "quarantined" ELSE m.status,
            !.quarantine = b.quarantine \/ m.quarantine,
            !.reported = m.version]

\* quarantine_device
AfterQuarantine(b) ==
  [b EXCEPT !.status = "quarantined", !.quarantine = TRUE, !.policy = "lockdown"]

\* unquarantine_device
AfterUnquarantine(b) ==
  [b EXCEPT !.status = "online", !.quarantine = FALSE, !.policy = "default"]

After(c) == IF c \in Beat THEN AfterHeartbeat(before[c], body[c])
            ELSE IF order[c] = "quarantine" THEN AfterQuarantine(before[c])
            ELSE AfterUnquarantine(before[c])

\* Mutant of Merge: every column is written, changed or not.
Merge_WholeRow(now, loaded, set) == set

\* The UPDATE of the ORM: a column is written if it was set to another value
\* than the one loaded.
Merge(now, loaded, set) ==
  LET Column(n, l, s) == IF s = l THEN n ELSE s
  IN  [status     |-> Column(now.status, loaded.status, set.status),
       quarantine |-> Column(now.quarantine, loaded.quarantine, set.quarantine),
       policy     |-> Column(now.policy, loaded.policy, set.policy),
       reported   |-> Column(now.reported, loaded.reported, set.reported)]

\* An administrator's request, or a denial that asks for the quarantine.
Order(a, what) ==
  /\ orders < MaxOrders
  /\ phase[a] = "idle"
  /\ orders' = orders + 1
  /\ phase' = [phase EXCEPT ![a] = "posted"]
  /\ order' = [order EXCEPT ![a] = what]
  /\ UNCHANGED <<row, stale, published, before, body, lock, ordered, quarantined, loopVars,
                 syncVars, faults>>

\* The row is loaded: for a heartbeat already by get_current_device, in the
\* same session.
Read(c) ==
  /\ phase[c] = "posted"
  /\ phase' = [phase EXCEPT ![c] = "read"]
  /\ before' = [before EXCEPT ![c] = row]
  /\ UNCHANGED <<row, stale, published, order, body, lock, orders, ordered, quarantined,
                 loopVars, syncVars, faults>>

\* Mutant of Write: a heartbeat that comes through does not end "offline".
Write_StaysOffline(c) ==
  /\ phase[c] = "read"
  /\ lock = Nobody
  /\ lock' = c
  /\ phase' = [phase EXCEPT ![c] = "written"]
  /\ beating' = IF c = beating THEN Nobody ELSE beating
  /\ UNCHANGED <<row, stale, published, before, order, body, orders, ordered, quarantined,
                 online, syncVars, faults>>

\* The UPDATE at db.flush takes the row's lock; the reply leaves, and send()
\* returns True if it still waits.
Write(c) ==
  /\ phase[c] = "read"
  /\ lock = Nobody
  /\ lock' = c
  /\ phase' = [phase EXCEPT ![c] = "written"]
  /\ IF c = beating
     THEN beating' = Nobody /\ online' = TRUE
     ELSE UNCHANGED loopVars
  /\ UNCHANGED <<row, stale, published, before, order, body, orders, ordered, quarantined,
                 syncVars, faults>>

\* The commit after the reply.
Commit(c) ==
  /\ phase[c] = "written"
  /\ phase' = [phase EXCEPT ![c] = "idle"]
  /\ before' = [before EXCEPT ![c] = Enrolled]
  /\ lock' = Nobody
  /\ row' = Merge(row, before[c], After(c))
  /\ stale' = (stale /\ c \notin Beat)
  /\ ordered' = (ordered \/ (c \in Admin /\ order[c] = "quarantine"))
  /\ UNCHANGED <<published, order, body, orders, quarantined, loopVars, syncVars, faults>>

\* The threshold passes without a heartbeat.
Tick ==
  /\ ~stale
  /\ stale' = TRUE
  /\ UNCHANGED <<row, published, requestVars, lock, orders, ordered, quarantined, loopVars,
                 syncVars, faults>>

\* mark_offline_stale_devices, in one UPDATE whose condition is evaluated with
\* the row's lock held.
MarkOffline ==
  /\ stale
  /\ row.status = "online"
  /\ lock = Nobody
  /\ row' = [row EXCEPT !.status = "offline"]
  /\ UNCHANGED <<stale, published, requestVars, lock, orders, ordered, quarantined, loopVars,
                 syncVars, faults>>

\* publish_policy makes the latest version the published one.
Publish(p) ==
  /\ published[p] < MaxVersion
  /\ published' = [published EXCEPT ![p] = @ + 1]
  /\ UNCHANGED <<serverVars, orders, quarantined, loopVars, syncVars, faults>>

\* The process dies: transactions roll back, the sidecar's requests fail.
CCCrash ==
  /\ Fault("cc_crash")
  /\ phase' = [c \in Client |-> "idle"]
  /\ before' = [c \in Client |-> Enrolled]
  /\ lock' = Nobody
  /\ beating' = Nobody
  /\ online' = (online /\ beating = Nobody)
  /\ IF fetch = "posted" THEN fetch' = "idle" /\ booting' = FALSE
     ELSE UNCHANGED <<fetch, booting>>
  /\ UNCHANGED <<row, stale, published, order, body, orders, ordered, quarantined, version,
                 cache, fetched>>

-----------------------------------------------------------------------------
(***************************************************************************)
(* The sidecar: heartbeats and local quarantine.                           *)
(***************************************************************************)

\* send() posts the state of the configuration, and as status whether the
\* heartbeat BEFORE this one came through.
SendBeat(h) ==
  /\ ~booting
  /\ beating = Nobody
  /\ phase[h] = "idle"
  /\ beating' = h
  /\ phase' = [phase EXCEPT ![h] = "posted"]
  /\ body' = [body EXCEPT ![h] = [status |-> IF online THEN "online" ELSE "offline",
                                  quarantine |-> quarantined,
                                  version |-> version]]
  /\ UNCHANGED <<row, stale, published, before, order, lock, orders, ordered, quarantined,
                 online, syncVars, faults>>

\* send() returns False; the request may still be under way or be lost.
BeatFails ==
  /\ Fault("lost_beat")
  /\ beating # Nobody
  /\ beating' = Nobody
  /\ online' = FALSE
  /\ \/ UNCHANGED phase
     \/ /\ phase[beating] = "posted"
        /\ phase' = [phase EXCEPT ![beating] = "idle"]
  /\ UNCHANGED <<row, stale, published, before, order, body, lock, orders, ordered,
                 quarantined, syncVars>>

\* POST /local/quarantine/device.  No route of the local API lifts it.
QuarantineLocally ==
  /\ ~booting
  /\ ~quarantined
  /\ quarantined' = TRUE
  /\ UNCHANGED <<serverVars, published, orders, loopVars, syncVars, faults>>

-----------------------------------------------------------------------------
(***************************************************************************)
(* The sidecar: policy sync.                                               *)
(***************************************************************************)
Effective == [policy |-> row.policy, version |-> published[row.policy]]

StartSync ==
  /\ fetch = "idle"
  /\ fetch' = "posted"
  /\ UNCHANGED <<serverVars, published, orders, quarantined, loopVars, booting, version, cache,
                 fetched, faults>>

\* get_device_policy_route: the content of the effective policy, and the
\* version the DEVICE reported.
ServePolicy ==
  /\ fetch = "posted"
  /\ fetch' = "replied"
  /\ fetched' = [content |-> Effective, version |-> row.reported]
  /\ UNCHANGED <<serverVars, published, orders, quarantined, loopVars, booting, version, cache,
                 faults>>

Fresh == fetched.version > version \/ cache = NoPolicy

\* Mutant of EndSync: an equal version counts as an update.
EndSync_Equal ==
  /\ fetch = "replied"
  /\ fetch' = "idle"
  /\ booting' = FALSE
  /\ fetched' = NoReply
  /\ IF fetched.version >= version THEN cache' = fetched.content /\ version' = 0
     ELSE UNCHANGED <<cache, version>>
  /\ UNCHANGED <<serverVars, published, orders, quarantined, loopVars, faults>>

\* Mutant of EndSync: an empty cache is not a reason to take the reply.
EndSync_OnlyNewer ==
  /\ fetch = "replied"
  /\ fetch' = "idle"
  /\ booting' = FALSE
  /\ fetched' = NoReply
  /\ IF fetched.version > version THEN cache' = fetched.content /\ version' = 0
     ELSE UNCHANGED <<cache, version>>
  /\ UNCHANGED <<serverVars, published, orders, quarantined, loopVars, faults>>

\* A newer version, or the first, is cached.  _save_cache takes the new
\* version from the reply's "version", a field the reply does not have, so
\* cfg.policy_version is 0.
EndSync ==
  /\ fetch = "replied"
  /\ fetch' = "idle"
  /\ booting' = FALSE
  /\ fetched' = NoReply
  /\ IF Fresh THEN cache' = fetched.content /\ version' = 0
     ELSE UNCHANGED <<cache, version>>
  /\ UNCHANGED <<serverVars, published, orders, quarantined, loopVars, faults>>

SyncFails ==
  /\ Fault("lost_sync")
  /\ fetch # "idle"
  /\ fetch' = "idle"
  /\ booting' = FALSE
  /\ fetched' = NoReply
  /\ UNCHANGED <<serverVars, published, orders, quarantined, loopVars, version, cache>>

\* The sidecar starts again: the configuration and the cache are read back,
\* and a sync runs before the loops do.
Reboot ==
  /\ beating' = Nobody
  /\ online' = TRUE
  /\ fetch' = "posted"
  /\ booting' = TRUE
  /\ fetched' = NoReply
  /\ version' = IF cache' # NoPolicy THEN 0 ELSE version
  /\ UNCHANGED <<serverVars, published, orders>>

\* Mutant of Restart: the quarantine was not saved.
Restart_ForgetsQuarantine ==
  /\ Fault("restart")
  /\ UNCHANGED cache
  /\ quarantined' = FALSE
  /\ Reboot

Restart ==
  /\ Fault("restart")
  /\ UNCHANGED <<cache, quarantined>>
  /\ Reboot

\* It dies while _save_cache writes the file, which it cannot read back.
TornCache ==
  /\ Fault("torn_cache")
  /\ fetch = "replied"
  /\ Fresh
  /\ cache' = NoPolicy
  /\ UNCHANGED quarantined
  /\ Reboot

-----------------------------------------------------------------------------
ControlCenter ==
  \/ \E a \in Admin, what \in {"quarantine", "unquarantine"} : Order(a, what)
  \/ \E c \in Client : Read(c) \/ Write(c) \/ Commit(c)
  \/ \E p \in Policy : Publish(p)
  \/ MarkOffline \/ ServePolicy \/ CCCrash

Sidecar ==
  \/ \E h \in Beat : SendBeat(h)
  \/ BeatFails \/ QuarantineLocally
  \/ StartSync \/ EndSync \/ SyncFails \/ Restart \/ TornCache

Next == ControlCenter \/ Sidecar \/ Tick

Spec == Init /\ [][Next]_vars

\* Both loops go round and handlers run to their end.  Nobody has to give an
\* order, publish a policy or quarantine anything.
Fairness ==
  /\ WF_vars(\E h \in Beat : SendBeat(h))
  /\ WF_vars(StartSync) /\ WF_vars(ServePolicy) /\ WF_vars(EndSync)
  /\ \A c \in Client : WF_vars(Read(c)) /\ WF_vars(Write(c)) /\ WF_vars(Commit(c))

FairSpec == Spec /\ Fairness

-----------------------------------------------------------------------------
(***************************************************************************)
(* Properties.                                                             *)
(***************************************************************************)

\* A row is quarantined only on an administrator's order or because the
\* device itself is, whatever overlaps, restarts or gets lost.
QuarantineIsBacked == row.quarantine => ordered \/ quarantined

\* Why: no request under way carries a quarantine that is not backed either.
BackedInv ==
  /\ \A h \in Beat : body[h].quarantine => quarantined
  /\ \A c \in Client : before[c].quarantine => ordered \/ quarantined
  /\ QuarantineIsBacked

\* The row's lock is held by a request that has written and goes on to commit;
\* a heartbeat that the sidecar awaits has a handler that has not replied; and
\* a sidecar that has not started its loops awaits a policy.
HeldInv ==
  /\ \A c \in Client : lock = c <=> phase[c] = "written"
  /\ beating # Nobody => phase[beating] \in {"posted", "read"} /\ ~booting
  /\ booting => fetch # "idle"

\* The inductive invariant about requests under way: what they carry is
\* backed, and nobody waits for one that has come to its end, whatever
\* overlaps, restarts or gets lost.  It is the safety half of OfflineHeals,
\* QuarantineIsReported and PolicyIsCached.
RequestsInv == BackedInv /\ HeldInv

\* A row shown as quarantined, or assigned the lockdown policy, has its
\* quarantine flag set.  Holds while requests of one kind do not overlap:
\* column-wise merging of two orders, or two heartbeats, can break it.
RowIsConsistent == row.status = "quarantined" \/ row.policy = "lockdown" => row.quarantine

\* No two orders, and no two heartbeats, are under way at once.
OneAtATime ==
  \A c, d \in Client :
    phase[c] # "idle" /\ phase[d] # "idle" /\ (c \in Beat <=> d \in Beat) => c = d

\* A request that has loaded the row and not committed.
Loaded(c) == phase[c] \in {"read", "written"}

\* An order overlaps a heartbeat: what it will write still agrees with the row
\* as the heartbeat leaves it.
OrderInv ==
  \A a \in Admin : Loaded(a) =>
    /\ before[a].policy = row.policy
    /\ before[a].status = "quarantined" => before[a].quarantine
    /\ before[a].quarantine =>
         row.quarantine /\ (before[a].status = "online" => row.status # "quarantined")

\* A heartbeat that will show a quarantine has not seen the flag, so who has
\* set it since shows it too.
BeatInv ==
  \A h \in Beat : Loaded(h) /\ ~before[h].quarantine =>
    /\ row.quarantine => row.status = "quarantined"
    /\ \A a \in Admin : Loaded(a) =>
         IF before[a].quarantine THEN before[a].status # "online" ELSE ~row.quarantine

\* The inductive invariant while requests of one kind do not overlap.
SteadyInv == RowIsConsistent /\ OrderInv /\ BeatInv

\* Only an administrator's unquarantine clears the flag: no heartbeat that
\* loaded the row earlier, no sweep and no crash does.
OnlyOrdersRelease ==
  [][(row.quarantine /\ ~row'.quarantine)
       => \E a \in Admin : phase[a] = "written" /\ order[a] = "unquarantine"]_vars

\* Once the device has a policy and has reported the version 0 that it gives
\* every policy, and the reply under way says so too ...
Frozen ==
  /\ cache # NoPolicy
  /\ row.reported = 0
  /\ fetch = "replied" => fetched.version = 0

\* ... no later policy ever reaches it, restarts included.
PolicyIsFrozen == [][Frozen => Frozen' /\ cache' = cache]_vars

\* The device's own quarantine is reported, again and again if an
\* administrator lifts it in the row only.
QuarantineIsReported == [](quarantined => <>row.quarantine)

\* A device whose heartbeats come through does not stay offline.
OfflineHeals == (row.status = "offline") ~> (row.status # "offline")

\* A device without a policy gets one, also after a torn cache file.
PolicyIsCached == (cache = NoPolicy) ~> (cache # NoPolicy)

\* The policy in effect reaches the device: a newly published version, and the
\* lockdown policy that a quarantine assigns.  Fails: see PolicyIsFrozen.
PolicyArrives == (cache # Effective) ~> (cache = Effective)
=============================================================================
