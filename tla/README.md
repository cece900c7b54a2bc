# AgentFleetControl: a TLA+ verification project

AgentFleetControl watches and restrains AI coding agents on employee machines.
A **plugin** (TypeScript, inside the agent) asks the **sidecar** (Python, one per
device) whether a tool call may run and hands it security events; the sidecar
talks to the **Control Center** (FastAPI and PostgreSQL), where administrators see
the fleet, publish policies, decide on approvals and quarantine devices.

This directory holds TLA+ modules for the parts of that system whose behaviour
depends on interleaving, failure and ordering, TLC configurations that check
them, and proofs for TLAPS. Paths below are relative to the repository.

## 1. Inventory

| Component | State | Operations | Talks to | What is hard, and what makes it correct |
|---|---|---|---|---|
| Event queue and upload (`sidecar/.../event_queue.py`, `main.py`) | in-memory list, a file mirroring it, `last_event_id` | push, flush, load, save, last flush at shutdown | Control Center by POST | pushes during the POST, lost replies, crash in a save. No event lost, doubled or reordered |
| Event ingestion (`services/event_service.py`, `api/v1/events.py`, `database.py`) | events table, Redis alerts | batch insert in one transaction | sidecar, live feed | reply before commit, unique ids, whole batches refused, alerts before commit. One row per event, no alert without a row |
| Approval workflow (`services/approval_service.py`, `api/v1/approvals.py`, `main.py`, sidecar `local_api.py`) | approval row, audit entries, device flag; polls of the sidecar | create, approve, deny (with quarantine), poll, expire twice over | plugin, sidecar, administrators | check and write apart, two expiries, late answers. A tool runs only on a recorded approval |
| Device state (`services/device_service.py`, `api/v1/devices.py`; sidecar `heartbeat.py`, `quarantine.py`, `config.py`) | device row; `config.json` | heartbeat, quarantine, unquarantine, offline sweep, local quarantine | sidecar, administrators | rows loaded before others commit, merged by column. Quarantine never lost, never invented |
| Policy sync (`policy_sync.py`) | cached policy file, `policy_version` | sync | Control Center | the version makes a round trip; torn cache. The policy in force reaches the device |
| Policy store (`services/policy_service.py`) | policies and their versions | create, update, publish, archive | administrators | concurrent updates compute the same version; overlapping publications. Updates are not lost; one version is in effect |
| Local policy decision (sidecar `local_api.py`, `engine/policy_evaluator.py`) | sessions, cached policy | decide on a tool call | plugin | quarantine is asked first; what happens when the sidecar cannot answer |
| Enrollment and authentication (`enrollment.py`, `api/v1/auth.py`, `deps.py`) | tokens, device secrets | enroll, login | sidecar | overlapping uses of an id or token, lost replies, restarts. A sidecar's secret is one the Control Center knows |
| Risk engine (`engine/`) | none | five rules, capped sum, bands | ingestion | caps and maxima of two scores, the bands twice over. A severity agrees with the stored score |
| Event queries (`services/event_service.py`, `frontend/src/pages/Events.tsx`) | the page's cursor and rows | cursor pagination, filters | frontend | ties of timestamps, rows that appear in another order than their timestamps. No event is skipped |
| Live alert feed (`websocket/`) | set of connections, the listener's task | connect, disconnect, broadcast, listen | Redis, browsers | the set changes across the awaits of a broadcast; one task for all browsers. Who is there gets the alerts, in order |
| Plugin hooks and sessions (`openclaw-plugin/src/`) | active flag, taint and risk per session | hooks | agent, sidecar | state written after an await and read under another name of the session, one attempt at activation. A tainted session's risky tool needs a decision |
| Integrity checks (`integrity.py`) | hashes | periodic check | event queue | a producer of events |
| Audit log and dashboard | append-only table | insert, aggregate | administrators | decisions must be recorded with what they decide; a summary's figures are statements of their own |
| Rest of the frontend, migrations, seeds, deployment | - | - | - | no protocol of their own |

Two facts about the code recur in all modules:

- **The reply leaves before the commit.** `get_db` (`database.py`) commits after its
  `yield`, as the exit code of a FastAPI dependency: the response has been sent by
  then. Every handler therefore has a step that replies and a later step that
  commits, and a crash of the Control Center may come in between.
- **Checks are in Python, writes are at the flush.** A handler loads a row, tests
  it, assigns attributes, and `db.flush` issues an UPDATE of the columns whose value
  differs from the one loaded. PostgreSQL runs at READ COMMITTED, so the UPDATE
  waits for a competing writer's transaction and then goes ahead. The modules
  have a step for the read, one for the write that takes the row's lock, and
  one for the commit.

## 2. Modules

| Module | Models |
|---|---|
| `EventLog` | abstract: recorded events and a table that grows by batches of fresh ones |
| `EventDelivery` | sidecar queue, file, worker, shutdown; ingestion transactions |
| `EventDelivery_proofs` | theorems about `EventDelivery` |
| `ApprovalGate` | abstract: decisions on record, one conclusion on the device |
| `Approvals` | one approval: creation, decisions, polls, both expiries, the sidecar's wait |
| `Approvals_proofs` | theorems about `Approvals` |
| `DeviceControl` | one device's row and sidecar: heartbeats, orders, sweep, policy sync |
| `DeviceControl_proofs` | theorems about `DeviceControl` |
| `Enrollment` | machines, ids, tokens, enrollment transactions, restarts |
| `RiskEngine` | the rules, the score, the bands, what ingestion stores, as operators |
| `EventStore` | the rows that ingestion writes, and their readers: the paged listing and the dashboard's summary |
| `MCEventStore` | adds four events, one per way the two scores can lie |
| `LiveFeed` | alerts, the Redis listener, broadcasts, the browsers' sockets |
| `PolicyStore` | the versions of one policy under concurrent administrators |
| `ToolGate` | plugin hooks, sessions, quarantine, the sidecar's decision |
| `EventStore_proofs`, `LiveFeed_proofs`, `Enrollment_proofs`, `PolicyStore_proofs`, `ToolGate_proofs` | theorems about the module of that name |

`DeviceControl` and `PolicyStore` meet in `get_effective_policy_for_device`: the former
takes the newest published version as a counter that grows, which `PolicyStore` shows to be
right as long as publications do not overlap (`NoRollback`). `ToolGate` takes the device's
quarantine, whose life `DeviceControl` models, as a flag. `EventStore` extends `RiskEngine`, and takes up the
transactions of `EventDelivery` where their batch is flushed; `LiveFeed` begins with the alerts those
publish. `Approvals` begins where a hook
gets `require_approval`.

### EventDelivery

The sidecar is one asyncio process, so code between two awaits is one step. `Push`
is a whole `push` (stamp, append, save). `flush` is split at its `await`: `StartFlush`
copies the queue and posts it on a connection of its own, `FlushAccepted` and
`FlushFailed` are what follows the reply. The number accepted that the handler returns is
always the length of the batch, so it is not a variable. `Shutdown` cancels the
worker's flush and posts once more, as the clean-up of `main` does, while the
cancelled flush's handler goes on.

The Control Center has one handler per connection: `posted`, `flushed` (rows
inserted, alerts published), `replied`, and gone after `Commit`. `Refused` has the four reasons for which
a batch is refused as a whole (`Reject`), in the order of the code: the device's secret is in no row (401,
`get_current_device`), the batch is too long (422), it holds an event of another device id (403, `Foreign`), or a stored
event id (500, `Duplicate`). A batch that holds an id another open transaction has inserted waits.

`push` stamps each event with `cfg.device_id` (`Stamp`). `identity` says whether that is the id of the row the
secret belongs to: a container that starts again without a configured id makes up another one
(`NewContainer`), and the events it pushes from then on are `foreign`. An enrollment whose commit was lost
(`Enrollment`) leaves a secret that no row has; `Init` may start there.

Faults, each allowed by name in `Faults` and counted by `MaxFaults`: `refuse` (no connection, or a failing database),
`timeout` (no answer in time, or the reply is lost), `crash` (sidecar), `shutdown`, `torn` (crash inside
`write_text`, which leaves a prefix), `cc_crash` (Control Center), `new_container`, and `lost_enrollment`, which is the
initial state just named.

`EventLog` is the contract: the events pushed and the table's rows implement
`recorded` and `table`. This holds under all faults; what the faults can cost is
completeness (section 6), never duplicates or invented rows.

### RiskEngine and EventStore

`RiskEngine` is a pure module. A `RiskContext` says of an event what the five rules can find in it: its
type, its category, whether its source is untrusted, and how often, or whether, the patterns of a
rule match its text. Each rule is an operator, as is the capped sum (`Score`), the band
(`Band` in `risk_scorer.py`, `ScoreToSeverity` in `event_service.py`), and the two things ingestion stores: the
greater score, and the scorer's severity unless that is low.

`EventStore` has the table, the handlers' transactions and a clock. A row takes its `created_at` when its INSERT
is built and becomes visible when its transaction commits, so a row may appear behind a
cursor that has passed its time. One administrator looks at one `view`: the listing of `Events.tsx`, filtered or not
(`FirstPage`, then `NextPage` until the reply has no `next_cursor`), or the summary (`CountAll`, `CountCritical`, `Average`:
three SELECTs at READ COMMITTED, each of which sees what is committed by then). `native` is the database: on
PostgreSQL the cursor's id is compared with a UUID column; on SQLite, which `scripts/start_dev.sh:9`,
`scripts/install_control_center.sh:45` and `.env.local` choose (`config.py:18` defaults to PostgreSQL), the `GUID` type
converts parameters and fails on a string (`NextPageFails`). `due`, `twice` and `late` are history variables.

### LiveFeed

All of it is one event loop, so a step lasts from one await to the next. `Take` reads a message and starts a
broadcast, `Sent` and `SendFails` end one send and go to the next (`Proceed`). The broadcast iterates over the set of
sockets itself: CPython raises if the set has another size than at the start, and `_listen_redis` ignores the exception;
if one socket came and one went, the size is the same and the iterator's place is anywhere (`Todo`). `Disconnect` deletes an
empty set, and the broadcast under way keeps the old one (`replaced`). A socket is `greeting` between its entry into the
set and the end of its first send; if that fails nobody removes it (`GreetingFails`), nor when `receive_text` raises
on a frame that is not text (`ReceiveFails`). The listener ends when `subscribe` or
`listen` raises (`SubscribeFails`, `ReadFails`); only `Restart` of the Control Center starts it again. `owed`, `got` and `spoiled` are
history variables: `spoiled` holds the alerts that were lost with the subscription, or during whose broadcast browsers
came or went.

### Approvals

One approval row with two or more administrators who each decide once at most,
the status requests of one sidecar, the background sweep, and the device's wait.
`DecisionReads`, `DecisionWrites` and `DecisionCommits` are the three stages of
`approve_approval` and `deny_approval`; the audit entry and, on a denial that asks for
it, the device's quarantine are in the same transaction. The route quarantines
the device for `quarantine_device`; `quarantine_session` is accepted and not looked at.
`ProbeReads`/`ProbeWrites`/`ProbeCommits` are `check_approval_status`, which expires an overdue row
itself; `Sweep` is the background task's single conditional UPDATE.

The device: `RequestApproval`, then at most `MaxPolls` turns of `wait_approval`. A
request that timed out leaves a handler behind whose answer nobody takes. The
plugin runs the tool on `approved` only; on a failed fetch its hook throws, which
the model records as `error`.

`ApprovalGate` is the contract: the conclusion `approved` (or `denied`) comes only
when an administrator's decision of that kind is in the audit log.

### DeviceControl

The row (`status`, `quarantine`, `policy`, and the version the device last `reported`) with
any number of overlapping heartbeats and orders. `Read` is where the session loads
the row (for a heartbeat, in `get_current_device`), `Write` the flush, `Commit` the commit, and
`Merge` the ORM's column-wise UPDATE. `Order` is an administrator's quarantine or
unquarantine; `MarkOffline` the sweep. A versioned policy store is reduced to
the newest published version per policy id.

The sidecar: `SendBeat` posts the state of `cfg` and, as status, whether the heartbeat
BEFORE this one came through; `StartSync`, `ServePolicy`, `EndSync` are the policy loop,
with `_save_cache` reading a field the reply does not have; `booting` is the time between
a start and the first sync, during which neither loops nor local API run. `Restart` reads
`config.json` and the cache back; `TornCache` dies inside the cache's save.

### Enrollment

Machines go from `off` (no container) to `enrolling` and `enrolled`, or `down` when the
sidecar has exited. `Boot` is `entrypoint.sh` up to the start of the sidecar: it
generates an id where none is configured and asks for a token of its own, which it may
not get; `Launch` is the start of `main`, which enrolls only without a saved secret; `Restart` is the
entrypoint's loop. An attempt names a request and the secret its handler generates.
`MatchToken`, `CheckId`, `Write` and `Commit` are the handler: the token is compared, the id looked
for, row and token written in one flush, reply, commit. A request whose sidecar has
given up goes on. On "already registered" the sidecar prints its advice (`Advise`), and the user may
follow it (`FollowAdvice` deletes `config.json`; the entrypoint starts the sidecar again). `config.json` is written whole.

### PolicyStore

One request per administrator at a time: `ReadLatest` (or `ReadNothing` for a create), then
`Insert` and `CommitInsert`, or `Scan`, `Archive`, `SetPublished` and `CommitPublish`. `Scan` is the
moment from which the archiving UPDATE takes its list of rows, `ArchiveRow` takes the lock of one of them and looks at
it again, and `Archive` is the end of the statement. `CCCrash` rolls back every open transaction, also one whose
reply has left. The ORM knows that the UPDATE has
archived the version it holds and writes `published` back. Row locks can close a
circle of publications, which PostgreSQL breaks (`Abort`). `saved` (acknowledged insertions of a version), `lost` (those a crash has
undone) and `overlapped` are history variables of the properties.

### ToolGate

One `call` is one run of a hook that decides (`before_tool_call`, `message_sending`,
`before_install`), one `message` a run of `message_received`. `Ask` is the hook up to its `fetch`,
with the risk it computes; `Judge` is `submit_event` and the hook's reading of its reply;
`JudgeFails` the same when the queue file cannot be written: the sidecar answers 500, and
`submitEvent` refuses a risk of 60 or more and allows the rest. A `fetch` that does not
connect rejects, and the hook throws (`thrown`): what the agent makes of that is outside the repository.
A session has up to three names, and each hook picks its own: a tool call takes `ctx.sessionId`, else `ctx.sessionKey`
(`CallName`), the message hooks take `sessionKey` only (`MessageName`), and who has neither is `Unknown`, a name that all
such sessions share. What the gateway puts into `ctx` is outside the repository, so every set `given` of these fields is tried.
Taint and quarantine are kept by name (`tainted`, `held`); `heard` is a history variable: which session was tainted under which name.
`Load` is the plugin's only attempt to reach the sidecar; without it hooks return at once
(`ungoverned`).

The local policy does not appear, because it decides nothing: the cache is the reply
to the policy request, which has neither `rules` nor `default_action`, so `_evaluate_policy`
answers `allow`; without a cache the action is `deny`, which no hook knows and therefore lets pass.
No reply of the sidecar is ever `require_approval`; an unsigned package from an untrusted source
gets there by the hook's own condition.

## 3. Runs

Passing runs:

| Run | Instance | Shows |
|---|---|---|
| `delivery_all` | 3 events, 2 connections, batch limit 2, 2 faults of 8 kinds | `DeliveryInv`, no loss before data is destroyed, order, no phantom alert, and the refinement of `EventLog` under every fault; a stored event left in the queue blocks it for ever, and so does one of another id; a flush always comes back; events stay at the sidecar only behind a stored or a foreign one, in a queue that is too long, or with a secret that is in no row |
| `approvals_all` | 2 administrators, 2 status connections, 2 polls, 2 faults of 4 kinds | audit, `WorkflowInv`, refinement of `ApprovalGate`; the wait ends, no row stays pending |
| `device_all` | 1 heartbeat and 1 order, overlapping, 2 versions, 1 fault of 5 kinds | `RequestsInv`: quarantine is backed and nobody waits for a request that is over; only an unquarantine clears it; status, policy and flag agree; the policy freezes; a local quarantine is reported, offline heals, a lost cache is refilled |
| `enrollment_all` | 2 machines, one with a configured id, 3 ids, 2 tokens, 3 attempts, 2 starts of containers, 1 fault of 2 kinds | a saved secret is a registered device's, and of a configured id its own; a machine gets in unless its token or id has been used up |
| `policy_store_all` | 2 administrators, 3 versions, 2 crashes | an acknowledged update is lost only by a crash before its commit, a published version for good, two of them or a step back only after overlapping publications, requests end |
| `event_store` | 2 handlers, 4 events, 2 rows a batch, 2 rows a page, a window of 1 in a time of 2 | a finished listing has every event that was there when it began, repeats are ties, the listing ends unless more events share one timestamp than a page holds; severities fit scores; a summary is off by what was committed meanwhile |
| `live_feed` | 3 sockets, 2 alerts, 1 fault | open sockets are registered, an undisturbed broadcast reaches everybody, alerts are in order, dead sockets go, an alert that came to the listener gets out |
| `tool_gate_all` | 1 session with all its names, 1 call, 1 message hook, 2 faults of 3 kinds | quarantine holds for a governing plugin, a taint found under the call's name reaches the limit |

Runs that TLC must refute, each a disagreement between a statement in the
repository and the code:

| Run | Property | What the counterexample does |
|---|---|---|
| `delivery_lost_reply` | `EventuallyStored` | the reply is lost after the commit; the retry contains a stored id and is refused, with every later event |
| `approvals_overwritten` | `DecisionIsFinal` | two transactions pass the `pending` check; the later write wins |
| `device_policy_update` | `PolicyArrives` | version 0 goes round and 0 > 0 never holds, so a published version, or the lockdown policy of a quarantine, is never cached |
| `enrollment_re_enroll` | `ReEnrolls` | the reply to an enrollment is lost; the retry is told to delete `config.json`, does so, and is refused again |

### Bounds, and why they are enough

- *Three events*: one stored, one in flight and one pushed meanwhile is the
  smallest case in which a wrong cut of the queue loses or repeats something. With
  `MaxBatch = 2` the third also makes the queue too long.
- *Connections*: two give a retry, or the flush of a shutdown, beside the handler of its timed-out predecessor. More of
  them at once are left to the proofs.
- *Faults*: two let a fault hit the recovery from another one. *Two crashes* of the Control Center in `PolicyStore`: a version
  acknowledged, taken back, acknowledged and taken back again.
- *Four events, two to a page*: two full pages, or a page, a tie across its end and a row that is committed
  late; the four lie on all sides of the bands' limits. *Two handlers*: commits in another order than the timestamps.
- *Three sockets, two alerts*: one that the broadcast has reached, one it has not, and one that comes or goes; the second
  alert shows what the first left behind. *One fault* ends the listener, the subscription or the process.
- *Two administrators, two status connections*: the conflicts are pairwise (decision
  with decision, decision with expiry, late answer with next poll). `MaxPolls` is 24
  in the code; 2 reaches every branch of the loop.
- *One heartbeat, one order*, each at any point of the other, and the sweep beside both: the columns that two of them
  write are what the merge can mix up. More heartbeats and orders at once (a timed-out heartbeat beside the next) are left to
  the proofs of `RequestsInv`, `OnlyOrdersRelease` and `PolicyIsFrozen`, which hold for any number. *Two versions*: one in the
  cache and one newer.

- *Two machines, three attempts*: two attempts for one id (a retry beside its predecessor) and one of
  another machine with the same token. `enrollment_re_enroll` has one machine: nobody else is needed to fail. *Two starts*: one more than a machine needs.
- *Two administrators*: two updates that read the same version, an update beside a publication, and two
  publications that overlap and then wait for each other's rows. *Three versions*: two published and a draft.
- *One call*: hooks do not read each other's state; what a call meets is quarantines,
  messages and faults. *One session* has three names, one of them shared with every nameless session; taint and
  quarantine are kept by name only, so the names of a second session would behave like the first one's.

Type invariants are not among the runs: each is proved, or is part of an inductive invariant that a run checks.
The proofs (section 5) lift the safety properties they state to every value of the constants.

`CHECK_DEADLOCK FALSE` is set in the runs of `EventDelivery`, `Approvals`, `Enrollment`,
`PolicyStore`, `EventStore` and `LiveFeed`, where the system really comes to rest: all events pushed and stored, the approval
decided and the device done, all machines enrolled or out of tokens and attempts, no version left
under the bound, all sockets and alerts used up. `DeviceControl` and `ToolGate` have steps
that never stop, and their runs check for deadlock.

## 4. Fairness

Liveness is checked under weak fairness, on what the code keeps doing:

- `upload_worker`, `HeartbeatLoop.run` and the policy loop are `while True` tasks that
  catch the exceptions of their bodies;
- handlers run to their end: nothing in them waits but row locks, and a lock's
  holder is another handler;
- the background tasks of `main.py` sleep and run again, time passes (`Tick`);
- a sidecar that died is started again: `docker/employee/entrypoint.sh:143-160`
  supervises it (`Restart` in `EventDelivery` and `Enrollment`).

`PolicyStore` alone assumes strong fairness, of each administrator's request: one that waits for a row
may see it locked and unlocked again and again by others, and PostgreSQL's lock queues
give it its turn.

In `EventStore` the administrator keeps loading pages; in `LiveFeed` the event loop runs the listener's task, and a send
that a stuck browser holds up ends when uvicorn's ping timeout closes the connection.

No fault, push, order, publication, decision, or deletion of `config.json` is ever fair: nobody has to act.

## 5. Proofs

| Theorem | Statement | Assumes besides the module's named assumption |
|---|---|---|
| `EventDelivery_proofs!TypeCorrect` | `Spec => []TypeOK` | |
| `SnapshotCorrect` | `Spec => []SnapshotIsHead` | |
| `DeliveryCorrect` | `Spec => []DeliveryInv` | |
| `StoredOnceCorrect` | `Spec => []StoredOnce` | |
| `NothingLostCorrect` | `Spec => []NothingLost` | |
| `FlushIsServedCorrect` | `Spec => []ServedInv` | |
| `QueueIsTailOfPushedCorrect` | `Spec => []QueueIsTailOfPushed` | |
| `NoPhantomAlertCorrect` | `Spec => []NoPhantomAlert` | |
| `PoisonIsForeverCorrect` | `Spec => PoisonIsForever` | |
| `ForeignIsForeverCorrect` | `Spec => ForeignIsForever` | |
| `LogImplemented` | `Spec => ImplementsEventLog` | |
| `Approvals_proofs!TypeCorrect` | `Spec => []TypeOK` | |
| `DecisionAuditedCorrect` | `Spec => []DecisionAudited` | |
| `GateCorrect` | `Spec => []GateInv` | |
| `WorkflowCorrect` | `Spec => []WorkflowInv` | |
| `GateImplemented` | `Spec => ImplementsGate` | |
| `DeviceControl_proofs!TypeCorrect` | `Spec => []TypeOK` | |
| `QuarantineBacked` | `Spec => []BackedInv` | |
| `RequestsCorrect` | `Spec => []RequestsInv` | |
| `OnlyOrdersReleaseCorrect` | `Spec => OnlyOrdersRelease` | |
| `PolicyIsFrozenCorrect` | `Spec => PolicyIsFrozen` | |
| `RowIsConsistentCorrect` | `Spec /\ []OneAtATime => []RowIsConsistent` | `[]OneAtATime`, in the statement |
| `Enrollment_proofs!TypeCorrect` | `Spec => []TypeOK` | |
| `EnrolledIsKnownCorrect` | `Spec => []EnrolledIsKnown` | |
| `SpentOnDeviceCorrect` | `Spec => []SpentOnDevice` | |
| `OrphanIsForeverCorrect` | `Spec => OrphanIsForever` | |
| `PolicyStore_proofs!TypeCorrect` | `Spec => []TypeOK` | |
| `UpdatesKeptCorrect` | `Spec => []UpdatesKept` | |
| `PublishedForGoodCorrect` | `Spec => PublishedForGood` | |
| `OnePublishedCorrect` | `Spec => []OnePublished` | |
| `NoRollbackCorrect` | `Spec => NoRollback` | |
| `EventStore_proofs!ScoreIsBounded` | `Score(c) \in 0..100` | `c \in RiskContext` |
| `ScoreIsMonotone` | `Score(c) <= Score(d)` | `AtLeast(d, c)`: all that is in `c` is in `d` |
| `SeverityIsMonotone` | the severity stored for `d` is not below that for `c` | `AtLeast(d, c)`, and the device reports no more than `Score(c)` |
| `SeverityCanFall` | without the latter it may be | |
| `TypeCorrect` | `Spec => []TypeOK` | |
| `SeverityFitsCorrect` | `Spec => []SeverityFits` | |
| `ListingIsCompleteCorrect` | `Spec => []ListingIsComplete` | |
| `RepeatsAreTiesCorrect` | `Spec => []RepeatsAreTies` | |
| `PagesGoBackCorrect` | `Spec => PagesGoBack` | |
| `SummaryAgreesCorrect` | `Spec => []SummaryAgrees` | |
| `LiveFeed_proofs!TypeCorrect` | `Spec => []TypeOK` | |
| `RegisteredCorrect` | `Spec => []Registered` | |
| `NobodyForgottenCorrect` | `Spec => []NobodyForgotten` | |
| `InOrderCorrect` | `Spec => []InOrder` | |
| `GhostsGoCorrect` | `Spec => GhostsGo` | |
| `ToolGate_proofs!TypeCorrect` | `Spec => []TypeOK` | |
| `QuarantineHoldsCorrect` | `Spec => []QuarantineHolds` | |
| `TaintCountsCorrect` | `Spec => []TaintCounts` | |

The arguments:

- **Delivery.** `SnapshotIsHead` is not inductive: one has to know that a handler's batch is the
  snapshot being awaited (`FlightInv`). `StoredOnce` needs that no two open transactions, and
  no transaction and the table, share an event (`TxnsInv`), which rests on every copy of an
  event going back to one push (`CopiesInv`). Their conjunction `DeliveryInv` is inductive under
  all faults, and gives the refinement: a `Commit` is a `StoreBatch`, a push a
  `Record`, all else stutters. `NothingLost` adds that the file mirrors the queue and that a 200 is backed by a transaction about to commit or by
  rows (`CustodyInv`), true until a fault destroys data, which `faults.damage` records.
  `QueueIsTailOfPushed` is inductive given that the file mirrors the queue: the snapshot is the head of the queue, so removing
  as many events as were accepted drops a prefix, and `lastEvent` is the last one of it. `PoisonIsForever` needs that
  what was pushed during a flush is in no batch and not stored (`TailIsFresh`), so that a 200 never comes while a
  stored event is in the queue. `ForeignIsForever` needs that a batch with a foreign event is never past its refusal: what a
  handler has inserted, and what a 200 removes, was addressed to the device's own row (`AddressedInv`). `ServedInv` says that
  an awaited flush has a handler that is going to answer: what is left of `FlushEnds` for TLC is fairness.
- **Approvals.** A recorded decision stays recorded, and a reply that carries one was
  read off a row whose decision is in the audit log (`GateInv` with `DecisionAudited`). That is enough for the gate,
  although the row itself may be overwritten. `LockInv` and `AwaitedInv` are the safety half of
  `PendingEnds` and `WaitEnds`: no lock without a transaction that will commit, no awaited reply without a handler.
- **DeviceControl.** A payload or a row that a request loaded earlier carries a quarantine only
  if there is a reason for it by now (`BackedInv`); reasons do not go away, so any
  column-wise merge of such rows is backed. `PolicyIsFrozen` needs that every version
  the sidecar ever holds is 0 (`ZeroInv`), so no reply is newer. `RowIsConsistent` is not inductive even for serial
  requests, since an order overlaps a heartbeat: `SteadyInv` adds what the row an order has loaded still has in
  common with the row (`OrderInv`), and that who has set the flag since a heartbeat loaded the row also shows it (`BeatInv`).
  One lemma per pair (an order or a heartbeat that commits, the other that is under way) proves the step.
- **Enrollment.** A secret stays known because no commit replaces a row: what is about to be
  committed is not there and nobody else is about to commit the same id (`WriteInv`). An orphaned id
  stays orphaned because a machine only awaits an attempt for its own id (`AwaitInv`), which the
  unique index refuses; deleting `config.json` changes neither. It is why `ReEnrolls` fails on every instance. That a configured id goes with its own row's secret needs that an attempt
  never changes the id it was made for (`OwnInv`).
- **PolicyStore.** An acknowledged version that no crash has taken back is counted once because an insertion that is open is
  neither committed nor shared (`InsertInv`); a crash moves exactly the open ones to `lost`. While publications have not overlapped, one is under
  way at most and nobody else changes what is published, so it archives exactly that, and
  nothing of it is newer than the version it read (`PublishInv`). `PublishedForGood` needs none of
  this: a commit always publishes the version it read.
- **EventStore.** `ListingIsComplete` is about the end of a listing; on the way (`CursorInv`) each event that is due is shown or
  still matches after the cursor, and nothing shown is older than the cursor. That the page's last row bounds the rest
  rests on (`at`, `id`) being a total order, hence on `KeysAreUnique`. A row committed late can only add to what the cursor has yet to
  reach, or be behind it, and is not due then. `SummaryAgrees` needs that later statements see what the first did and
  what was committed since (`SummaryInv`). `PagesGoBack` is the safety half of `ListingEnds`: a full page without more ties than fit
  ends strictly before its cursor. The rules are monotone in the evidence, and so is their capped sum;
  the stored severity is not, because the device's score decides it only when the server's own band is low (`SeverityCanFall`).
- **LiveFeed.** `FeedInv`: in a broadcast that nothing disturbed the set has the members it began with, those still to be
  reached have not got its alert, and what it owes it owes to them (`Going`, `Debts`); a channel in order, all
  of whose alerts are newer than what was taken from it (`Queued`, `Order`), gives `InOrder`.
- **ToolGate.** While a call is open, a quarantine it asked under still stands, since only the end of the
  sidecar lifts one and that ends the call too; and a warned tool's risk is at least 60,
  since a name under which a session was heard stays tainted (`OpenCalls`). Both together are inductive.

What stays with TLC is liveness: fairness and ENABLED are beyond the prover (`OrphanIsForever` is the reverse: proved, and
in no run, since its run would only say what `ReEnrolls` shows from the advice's side). Every other property of a
passing run is a theorem. No module declares a recursive operator.

`RowIsConsistent` is a property of requests of one kind that do not overlap (one
heartbeat and one order at a time): two overlapping orders, or two overlapping heartbeats, can break it,
because the merge takes the columns of both. The code has no lock or version column
that would exclude this; the theorem and the run show what holds when clients are serial. `device_all` has
one connection of each kind.

## 6. Findings

Each of these is a run whose property TLC refutes:

1. *Lost reply.* A retried batch with a stored id is refused as a whole and for ever
   (`PoisonIsForever`), against "Events queue up and replay on reconnect."
2. *Decisions are not final.* Check and write are apart.
3. *Policies do not update.* `_save_cache` reads `version`, the reply has `policy_version`.
   The same goes for the lockdown policy: a remote quarantine changes the row, and
   nothing tells a device that has reported its version.
4. *The advice to re-enroll does not help.* An enrollment reply that is lost leaves a row whose secret nobody has. `enrollment.py:58`
   then says "Or delete ~/.afc/config.json and re-enroll.", which with a configured id leads to the same refusal, now and always
   (`OrphanIsForever`).

Seen on the way, and visible in the modules, without a run of their own:

- *A new id is refused for ever.* `docker/employee/entrypoint.sh:23-26` generates a device id whenever none is configured, enrolled
  or not (its comment says: if it is not registered yet), and `config.py:82` lets it override the saved one. A container that
  starts again stamps its events with an id its secret does not belong to, and `api/v1/events.py:57` refuses every batch that
  holds one, with those queued before (`ForeignIsForever`). Heartbeats get 403, too (`api/v1/devices.py:82`), and `EnrolledIsKnown` asks
  for the own row's secret of configured ids only.
- *A taint is not found under another name.* `types.ts:12` says of `sessionHasUntrustedInput` "True if this session has previously seen untrusted
  input", but a tool call that carries both fields is looked up by `sessionId`, and messages are filed under `sessionKey` (`index.ts:105`, `152`).
  `TaintCounts` and `QuarantineHolds` are about the name that the hook reports; a quarantine set under the other one is not found either.
- A queue that outgrows the schema's limit of 1000 events is refused as a whole from then on
  (the `Len(queue) > MaxBatch` in `HeldLeaves`).
- The sidecar deletes events that the Control Center has not committed (`NothingLost` holds without
  `cc_crash` only); an enrollment may be lost the same way, and an acknowledged policy version, whose number is then
  given out again (`lost` in `UpdatesKept`).
- The status in a heartbeat is about the heartbeat before, so the first one after a failure sets the row
  offline; and one that loaded the row before the sweep finds its own `online` unchanged and
  does not write it (`OfflineHeals` says it gets better).
- Two overlapping enrollments can both use a token that `api/v1/auth.py:78` calls one-time.
- Sessions that no field names share the entry `unknown`: one's message taints the other's tools (`TaintCounts` is about names).
- Overlapping publications can leave two versions published, or an older one in effect.
- The unique index on policy versions is in the migration and not in the ORM model: databases made by
  `create_all` (`scripts/start_dev.sh`, `scripts/install_control_center.sh`) lack it, and `UpdatesKept` fails
  without it, as its mutant shows. `PolicyStore` models a migrated database.
- A plugin that is loaded while the sidecar is down never governs.
- On SQLite, the database of the local set-ups (`scripts/start_dev.sh:9`, `scripts/install_control_center.sh:45`), the second page of any listing is answered with 500: the cursor's id is a string, and
  the `GUID` type binds UUIDs (`NextPageFails`).
- The cursor excludes one id and keeps its timestamp, so ties come again, and when more events than a page holds share one
  timestamp the pages can go in a circle (`LongTie` in `ListingEnds`).
- A device's own score can raise the stored score without raising the severity: reported 70 with a server
  score of 20 is stored as `high`, with a server score of 40 as `medium`, and only the former is published as an alert.
- The listener of the live feed is not started again when it ends. `main.py:57-59` does not see that Redis is down:
  the client connects lazily and fails in the task. A broadcast during which a browser comes or goes is cut short, and browsers
  not yet reached miss the alert (`spoiled`).
- The event page sends `timestamp_from` and `timestamp_to`, which the API does not take (`from_date`, `to_date`).

## 7. Not modelled, and the plan

What the modules leave to later work, most important behaviour first:

1. The other wiring of the plugin (`core/plugin.ts` and its adapters) as a second instance of `ToolGate`.
2. `PolicyEvaluator` and `_evaluate_policy`'s matching, as operators like `RiskEngine`: nothing calls the former, and the latter's
   input never has rules (section 2), so neither affects a run of today's program.

Theorems to add: abstract specifications of `Enrollment` (a registry whose entries are never replaced) and of `PolicyStore`
(one published version) that they implement, and the safety halves of `RequestsEnd`, `AlertArrives` and `EnrollsOrCannot`.

Left out for good: cryptography (passwords, JWT, device secrets), the regular expressions
of the risk rules and of the plugin's classification, file hashing, the frontend's
presentation but for the event page's paging, the risk trend, migrations and deployment. In the modules above: the wording of
replies, the listings of other tables, filters by device, type or time, and in `EventDelivery` scores (an event is *alerting* or not;
`EventStore` has them); in `DeviceControl` a second sync beside the first, which `GET /local/policy` starts
when nothing is cached (`local_api.py:77-80`): whichever of them saves last, the version it saves is 0. `config.json` is
taken to be written whole: a sidecar that cannot read it does not start and has no
further behaviour.
