---------------------------- MODULE EventDelivery ----------------------------
(***************************************************************************)
(* The path of an event from the sidecar's queue to the events table.      *)
(*                                                                         *)
(* Sidecar (event_queue.py, main.py): an in-memory queue mirrored to a     *)
(* file; a worker that POSTs a snapshot of the whole queue and, when the   *)
(* reply comes, drops as many events from the head as the Control Center   *)
(* accepted; a last flush on shutdown.  Pushes interleave with the POST.   *)
(*                                                                         *)
(* Control Center (api/v1/events.py, services/event_service.py,            *)
(* database.py): one handler per request, running in a transaction of its  *)
(* own.  It inserts the rows, publishes the alerts, sends the reply, and   *)
(* only then commits: the exit code of the get_db dependency runs after    *)
(* the response has been sent.  A handler whose client is gone runs on.    *)
(***************************************************************************)
EXTENDS Naturals, Sequences, FiniteSets

CONSTANTS Event,      \* events the plugin and the integrity loop may report
          Alerting,   \* those whose severity is high or critical
          Conn,       \* connections: bounds the requests in progress at once
          NoConn,     \* "no flush is waiting"
          NoEvent,    \* the empty last_event_id
          MaxBatch,   \* longest batch the API's schema lets through (1000)
          Faults,     \* the faults of the environment that may happen
          MaxFaults   \* how many of them

FaultNames == {"refuse", "timeout", "crash", "shutdown", "torn", "cc_crash",
               "new_container", "lost_enrollment"}

ASSUME ConstantsAssumption ==
  /\ Alerting \subseteq Event
  /\ NoConn \notin Conn
  /\ NoEvent \notin Event
  /\ MaxBatch \in Nat \ {0}
  /\ Faults \subseteq FaultNames
  /\ MaxFaults \in Nat

VARIABLES
  pushed,     \* history: every event handed to push, in order
  identity,   \* cfg.device_id is the "own" id of the row that the device's
              \* secret belongs to, or an "other" one; or the secret belongs
              \* to no row ("unknown")
  foreign,    \* events stamped with an id other than that row's
  queue,      \* EventQueue._queue
  disk,       \* the event queue file, as _load_from_disk would read it
  phase,      \* "up", "draining" (the flush of main's cleanup) or "down"
  conn,       \* connection whose reply a flush awaits, or NoConn
  sending,    \* events_to_send of that flush
  reply,      \* what has come back on conn: "none", "ok" or "error"
  lastEvent,  \* cfg.last_event_id
  handler,    \* per connection, the Control Center's handler and its batch
  rows,       \* the events table (committed rows, in commit order)
  published,  \* events sent to Redis for the live alert feed
  faults      \* how many faults have happened, and whether one destroyed data

sidecarVars == <<queue, disk, phase, conn, sending, reply, lastEvent>>
serverVars == <<handler, rows, published>>
stampVars == <<identity, foreign>>
vars == <<pushed, stampVars, sidecarVars, serverVars, faults>>

\* The elements of a sequence.
Elems(s) == {s[i] : i \in 1..Len(s)}

\* No element occurs twice.
Distinct(s) == \A i, j \in 1..Len(s) : s[i] = s[j] => i = j

\* What is left of q once its first n events are gone (queue[accepted:]).
Drop(q, n) == SubSeq(q, n + 1, Len(q))

\* The first n events of q.
Take(q, n) == SubSeq(q, 1, n)

Idle == [st |-> "none", batch |-> <<>>]
Running(c) == handler[c].st # "none"

\* A transaction has inserted its batch and not committed yet.
InTxn(c) == handler[c].st \in {"flushed", "replied"}
Uncommitted == UNION {Elems(handler[c].batch) : c \in {d \in Conn : InTxn(d)}}

TypeOK ==
  /\ pushed \in Seq(Event)
  /\ identity \in {"own", "other", "unknown"}
  /\ foreign \in SUBSET Event
  /\ queue \in Seq(Event)
  /\ disk \in Seq(Event)
  /\ phase \in {"up", "draining", "down"}
  /\ conn \in Conn \union {NoConn}
  /\ sending \in Seq(Event)
  /\ reply \in {"none", "ok", "error"}
  /\ lastEvent \in Event \union {NoEvent}
  /\ handler \in [Conn -> [st : {"none", "posted", "flushed", "replied"},
                           batch : Seq(Event)]]
  /\ rows \in Seq(Event)
  /\ published \in SUBSET Event
  /\ faults \in [count : 0..MaxFaults, damage : BOOLEAN]

\* The sidecar is enrolled; the Control Center may have died between the
\* reply to the enrollment and its commit (module Enrollment).
Init ==
  /\ pushed = <<>>
  /\ identity \in IF "lost_enrollment" \in Faults THEN {"own", "unknown"} ELSE {"own"}
  /\ foreign = {}
  /\ queue = <<>>
  /\ disk = <<>>
  /\ phase = "up"
  /\ conn = NoConn
  /\ sending = <<>>
  /\ reply = "none"
  /\ lastEvent = NoEvent
  /\ handler = [c \in Conn |-> Idle]
  /\ rows = <<>>
  /\ published = {}
  /\ faults = [count |-> 0, damage |-> FALSE]

(***************************************************************************)
(* The environment's faults are bounded by MaxFaults.  Two of them destroy *)
(* data: a crash that tears the queue file, and the death of the Control   *)
(* Center, which may come between a reply and its commit.                  *)
(***************************************************************************)
Destructive == {"torn", "cc_crash"}

Fault(name) ==
  /\ name \in Faults
  /\ faults.count < MaxFaults
  /\ faults' = [count |-> faults.count + 1,
                damage |-> faults.damage \/ name \in Destructive]

-----------------------------------------------------------------------------
(***************************************************************************)
(* The sidecar.                                                            *)
(***************************************************************************)

\* The event gets cfg.device_id.
Stamp(e) == foreign' = IF identity = "other" THEN foreign \union {e} ELSE foreign

\* Mutant of Push: the newest event goes to the head.
Push_NewestFirst(e) ==
  /\ phase = "up"
  /\ e \notin Elems(pushed)
  /\ pushed' = Append(pushed, e)
  /\ queue' = <<e>> \o queue
  /\ disk' = queue'
  /\ Stamp(e)
  /\ UNCHANGED <<identity, phase, conn, sending, reply, lastEvent, serverVars, faults>>

\* push: stamp the event, append it, save the queue; nothing in the critical
\* section awaits, so the three are one step.  The id is fresh.
Push(e) ==
  /\ phase = "up"
  /\ e \notin Elems(pushed)
  /\ pushed' = Append(pushed, e)
  /\ queue' = Append(queue, e)
  /\ disk' = queue'
  /\ Stamp(e)
  /\ UNCHANGED <<identity, phase, conn, sending, reply, lastEvent, serverVars, faults>>

\* The part of flush before the await: an empty queue returns at once, else
\* the whole queue is copied and posted on a new connection.
Post(c) ==
  /\ queue # <<>>
  /\ ~Running(c) /\ c # conn
  /\ conn' = c
  /\ sending' = queue
  /\ reply' = "none"
  /\ handler' = [handler EXCEPT ![c] = [st |-> "posted", batch |-> queue]]

\* A turn of upload_worker; the worker is one task, so it never overlaps
\* itself.
StartFlush(c) ==
  /\ phase = "up"
  /\ conn = NoConn
  /\ Post(c)
  /\ UNCHANGED <<pushed, stampVars, queue, disk, phase, lastEvent, rows, published, faults>>

\* flush returns: the worker sleeps again, and main's last flush is the end
\* of the process.
FlushReturns ==
  /\ conn' = NoConn
  /\ sending' = <<>>
  /\ reply' = "none"
  /\ phase' = IF phase = "draining" THEN "down" ELSE phase

\* Mutant of FlushAccepted: the whole queue is cleared.
FlushAccepted_ClearsQueue ==
  /\ reply = "ok"
  /\ queue' = <<>>
  /\ disk' = queue'
  /\ lastEvent' = sending[Len(sending)]
  /\ FlushReturns
  /\ UNCHANGED <<pushed, stampVars, serverVars, faults>>

\* The part of flush after a 200: drop what was accepted, which the handler
\* reports as the length of the batch, save, and remember the last id.
FlushAccepted ==
  /\ reply = "ok"
  /\ queue' = Drop(queue, Len(sending))
  /\ disk' = queue'
  /\ lastEvent' = sending[Len(sending)]
  /\ FlushReturns
  /\ UNCHANGED <<pushed, stampVars, serverVars, faults>>

\* raise_for_status or httpx raised: `except Exception: return 0`.
FlushFailed ==
  /\ reply = "error"
  /\ FlushReturns
  /\ UNCHANGED <<pushed, stampVars, queue, disk, lastEvent, serverVars, faults>>

\* The client's 30 s run out, or the reply is lost on the way.  The handler
\* is not told.
Timeout ==
  /\ Fault("timeout")
  /\ conn # NoConn
  /\ reply # "error"
  /\ FlushReturns
  /\ UNCHANGED <<pushed, stampVars, queue, disk, lastEvent, serverVars>>

\* A request never reaches the Control Center, or its database fails it
\* (500, rollback).
Refuse(c) ==
  /\ Fault("refuse")
  /\ handler[c].st = "posted"
  /\ handler' = [handler EXCEPT ![c] = Idle]
  /\ reply' = IF c = conn THEN "error" ELSE reply
  /\ UNCHANGED <<pushed, stampVars, queue, disk, phase, conn, sending, lastEvent, rows, published>>

\* main's cleanup: the worker is cancelled, and with it the flush that awaits
\* a reply (CancelledError passes `except Exception`), while main itself
\* flushes once more.  With an empty queue that flush returns at once.
Shutdown ==
  /\ Fault("shutdown")
  /\ phase = "up"
  /\ \/ /\ phase' = "draining"
        /\ \E c \in Conn : Post(c)
     \/ /\ queue = <<>>
        /\ phase' = "down"
        /\ conn' = NoConn
        /\ sending' = <<>>
        /\ reply' = "none"
        /\ UNCHANGED handler
  /\ UNCHANGED <<pushed, stampVars, queue, disk, lastEvent, rows, published>>

\* The process is gone, and with it everything but the files.
Dies ==
  /\ phase' = "down"
  /\ conn' = NoConn
  /\ sending' = <<>>
  /\ reply' = "none"

Crash ==
  /\ Fault("crash")
  /\ phase # "down"
  /\ Dies
  /\ UNCHANGED <<pushed, stampVars, queue, disk, lastEvent, serverVars>>

\* write_text truncates the file and then writes it.  A crash in between
\* leaves a file that reads back as some prefix: cut at a line's end it keeps
\* the lines before, cut elsewhere json.loads fails and the queue is empty.
TornSave(q) ==
  /\ Fault("torn")
  /\ \E n \in 0..Len(q) : disk' = Take(q, n)
  /\ Dies
  /\ UNCHANGED <<identity, lastEvent, serverVars>>

CrashInPush(e) ==
  /\ phase = "up"
  /\ e \notin Elems(pushed)
  /\ pushed' = Append(pushed, e)
  /\ queue' = Append(queue, e)
  /\ Stamp(e)
  /\ TornSave(queue')

CrashInFlush ==
  /\ reply = "ok"
  /\ queue' = Drop(queue, Len(sending))
  /\ TornSave(queue')
  /\ UNCHANGED <<pushed, foreign>>

\* The container is stopped and started again.  Without a configured
\* AFC_DEVICE_ID its entrypoint makes up a new id, which overrides the one in
\* the config file; secret and queue file are on a volume.
NewContainer ==
  /\ Fault("new_container")
  /\ identity = "own"
  /\ identity' = "other"
  /\ Dies
  /\ UNCHANGED <<pushed, foreign, queue, disk, lastEvent, serverVars>>

\* The supervisor starts the sidecar again: __init__ loads the file.
Restart ==
  /\ phase = "down"
  /\ phase' = "up"
  /\ queue' = disk
  /\ UNCHANGED <<pushed, stampVars, disk, conn, sending, reply, lastEvent, serverVars, faults>>

-----------------------------------------------------------------------------
(***************************************************************************)
(* The Control Center.                                                     *)
(***************************************************************************)

\* The client, if it still waits on c, gets r.
Answer(c, r) == reply' = IF c = conn THEN r ELSE reply

\* Mutant of TooLong: a batch of the greatest length is refused, too.
TooLong_OffByOne(c) == Len(handler[c].batch) >= MaxBatch

TooLong(c) == Len(handler[c].batch) > MaxBatch

\* Mutant of Duplicate: event_id has no unique index.
Duplicate_NoIndex(c) == FALSE

Duplicate(c) == Elems(handler[c].batch) \cap Elems(rows) # {}

\* Mutant of Foreign: any registered device may report for any other.
Foreign_Unchecked(c) == FALSE

Foreign(c) == Elems(handler[c].batch) \cap foreign # {}

\* The whole batch is refused: the secret is no device's (401), the schema's
\* max_length (422), an event of another device (403), or the unique index on
\* event_id at db.flush (IntegrityError, rollback, 500).
Refused(c) == identity = "unknown" \/ TooLong(c) \/ Foreign(c) \/ Duplicate(c)

\* Mutant of Reject: the refusal is never sent.
Reject_NoAnswer(c) ==
  /\ handler[c].st = "posted"
  /\ Refused(c)
  /\ handler' = [handler EXCEPT ![c] = Idle]
  /\ UNCHANGED <<pushed, stampVars, sidecarVars, rows, published, faults>>

Reject(c) ==
  /\ handler[c].st = "posted"
  /\ Refused(c)
  /\ handler' = [handler EXCEPT ![c] = Idle]
  /\ Answer(c, "error")
  /\ UNCHANGED <<pushed, stampVars, queue, disk, phase, conn, sending, lastEvent, rows, published, faults>>

\* ingest_event_batch up to its return: every event is scored and inserted
\* by db.flush, which waits while another transaction holds the same ids;
\* high and critical events go to Redis before anything is committed.
Ingest(c) ==
  /\ handler[c].st = "posted"
  /\ ~Refused(c)
  /\ Elems(handler[c].batch) \cap Uncommitted = {}
  /\ handler' = [handler EXCEPT ![c].st = "flushed"]
  /\ published' = published \union (Elems(handler[c].batch) \cap Alerting)
  /\ UNCHANGED <<pushed, stampVars, sidecarVars, rows, faults>>

\* The response leaves before get_db resumes.
Respond(c) ==
  /\ handler[c].st = "flushed"
  /\ handler' = [handler EXCEPT ![c].st = "replied"]
  /\ Answer(c, "ok")
  /\ UNCHANGED <<pushed, stampVars, queue, disk, phase, conn, sending, lastEvent, rows, published, faults>>

\* Mutant of Commit: the session is closed without a commit.
Commit_Missing(c) ==
  /\ handler[c].st = "replied"
  /\ handler' = [handler EXCEPT ![c] = Idle]
  /\ UNCHANGED <<pushed, stampVars, sidecarVars, rows, published, faults>>

\* get_db's `await session.commit()`.
Commit(c) ==
  /\ handler[c].st = "replied"
  /\ rows' = rows \o handler[c].batch
  /\ handler' = [handler EXCEPT ![c] = Idle]
  /\ UNCHANGED <<pushed, stampVars, sidecarVars, published, faults>>

\* The Control Center or its database connection dies: open transactions
\* roll back, and a client with no answer yet sees the connection drop.
CCCrash ==
  /\ Fault("cc_crash")
  /\ \E c \in Conn : Running(c)
  /\ handler' = [c \in Conn |-> Idle]
  /\ reply' = IF conn # NoConn /\ reply = "none" THEN "error" ELSE reply
  /\ UNCHANGED <<pushed, stampVars, queue, disk, phase, conn, sending, lastEvent, rows, published>>

-----------------------------------------------------------------------------
Sidecar ==
  \/ \E e \in Event : Push(e) \/ CrashInPush(e)
  \/ \E c \in Conn : StartFlush(c) \/ Refuse(c)
  \/ FlushAccepted \/ FlushFailed \/ Timeout
  \/ Shutdown \/ Crash \/ CrashInFlush \/ NewContainer \/ Restart

ControlCenter ==
  \/ \E c \in Conn : Reject(c) \/ Ingest(c) \/ Respond(c) \/ Commit(c)
  \/ CCCrash

Next == Sidecar \/ ControlCenter

Spec == Init /\ [][Next]_vars

\* The worker loops for ever, handlers run to their end, the supervisor
\* restarts the sidecar.  No fault and no push has to happen.
Fairness ==
  /\ WF_vars(\E c \in Conn : StartFlush(c))
  /\ WF_vars(FlushAccepted \/ FlushFailed)
  /\ WF_vars(Restart)
  /\ \A c \in Conn : WF_vars(Reject(c) \/ Ingest(c) \/ Respond(c) \/ Commit(c))

FairSpec == Spec /\ Fairness

-----------------------------------------------------------------------------
(***************************************************************************)
(* Properties.                                                             *)
(***************************************************************************)

\* What the sidecar would still upload: memory, or the file when it is down.
Held == IF phase = "down" THEN disk ELSE queue

\* Events whose removal from the queue is already answered for by a
\* transaction that will commit them.
Answered == UNION {Elems(handler[c].batch) :
                     c \in {d \in Conn : handler[d].st = "replied"}}

\* Whatever was pushed while the POST was awaited, the events it carried are
\* still the head of the queue: `self._queue[accepted:]` cuts off exactly
\* what was sent.
SnapshotIsHead ==
  conn # NoConn => /\ Len(sending) <= Len(queue)
                   /\ sending = Take(queue, Len(sending))

Intact == ~faults.damage

\* As long as nothing has destroyed data, no event is dropped between the two
\* ends: each one pushed is still in the queue (or its file), in the table, or
\* in a transaction about to commit.
NothingLost ==
  Intact => Elems(pushed) \subseteq Elems(Held) \union Elems(rows) \union Answered

\* An event has one row, whatever was retried: two handlers may hold the same
\* batch at once after a timeout or a shutdown.
StoredOnce == Distinct(rows)

\* The file follows the queue: a crash that tears no file loses nothing.
MirroredToDisk == phase # "down" => disk = queue

\* Events are kept, and sent again, in the order they were pushed, as long as
\* no file is torn, and cfg.last_event_id, which heartbeats report, names one
\* that has left the queue.
QueueIsTailOfPushed ==
  Intact => \E n \in 0..Len(pushed) :
              /\ Held = Drop(pushed, n)
              /\ lastEvent \in {NoEvent} \union Elems(Take(pushed, n))

\* The live feed shows no event that will not be found in the table, although
\* alerts are published before the commit, unless the Control Center dies in
\* between.
NoPhantomAlert == Intact => published \subseteq Elems(rows) \union Uncommitted

\* A stored event still at the sidecar, and no acknowledgement on its way.
Poisoned == Elems(Held) \cap Elems(rows) # {} /\ reply # "ok"

\* Once a stored event is left in the queue (a lost reply, a crash, a second
\* POST at shutdown), every later batch is refused as a whole: the sidecar
\* never gets rid of it, unless a torn file takes it away.
PoisonIsForever == [][Poisoned /\ Intact' => Poisoned']_vars

\* An event stamped with an id that is not the device's stays at the sidecar
\* for good: no batch that holds it is accepted (events.py), and restarts,
\* lost replies and second POSTs never drop it unseen.
ForeignIsForever == [][Intact' => foreign \cap Elems(Held) \subseteq Elems(Held')]_vars

\* A flush always comes back: handlers that wait for each other's row locks
\* do not wait for ever.
FlushEnds == (conn # NoConn) ~> (conn = NoConn)

\* Events do not stay at the sidecar but for four reasons: the queue holds a
\* stored event, or one of another id, it has outgrown the batch limit, or
\* the device's secret is in no row.
HeldLeaves ==
  \A e \in Event : (e \in Elems(Held)) ~>
                     \/ e \notin Elems(Held)
                     \/ Poisoned
                     \/ Elems(Held) \cap foreign # {}
                     \/ Len(queue) > MaxBatch
                     \/ identity = "unknown"

\* "Upload all queued events": what was pushed is stored in the end.  Fails
\* for each of the four reasons.
EventuallyStored == \A e \in Event : (e \in Elems(pushed)) ~> (e \in Elems(rows))

\* What ties a flush to its handler.  The snapshot argument is inductive only
\* with it.
FlightInv ==
  /\ phase = "down" => conn = NoConn
  /\ conn = NoConn => reply = "none"
  /\ conn # NoConn => sending # <<>>
  /\ conn # NoConn /\ Running(conn) => handler[conn].batch = sending
  /\ \A c \in Conn : Running(c) => handler[c].batch # <<>>
  /\ SnapshotIsHead

\* Every copy of an event (in the queue, the file or a batch) goes back to the
\* one push of it.
CopiesInv ==
  /\ Distinct(queue) /\ Elems(queue) \subseteq Elems(pushed)
  /\ Distinct(disk) /\ Elems(disk) \subseteq Elems(pushed)
  /\ \A c \in Conn : /\ Distinct(handler[c].batch)
                     /\ Elems(handler[c].batch) \subseteq Elems(pushed)

\* Two transactions, or a transaction and the table, never hold the same event.
TxnsInv ==
  /\ Elems(rows) \subseteq Elems(pushed)
  /\ \A c \in Conn : InTxn(c) => Elems(handler[c].batch) \cap Elems(rows) = {}
  /\ \A c, d \in Conn : InTxn(c) /\ InTxn(d) /\ c # d
                          => Elems(handler[c].batch) \cap Elems(handler[d].batch) = {}
  /\ StoredOnce

\* Nothing is stored for a device, or acknowledged to it, under another id.
AddressedInv ==
  /\ foreign \subseteq Elems(pushed)
  /\ Elems(rows) \cap foreign = {}
  /\ \A c \in Conn : InTxn(c) => Elems(handler[c].batch) \cap foreign = {}
  /\ reply = "ok" => Elems(sending) \cap foreign = {}

\* A flush that waits has its request under way or its answer there: it never
\* waits for nobody.  The safety half of FlushEnds.
ServedInv ==
  conn # NoConn =>
    /\ reply = "none" => handler[conn].st \in {"posted", "flushed"}
    /\ handler[conn].st = "replied" => reply = "ok"

\* The inductive invariant, for any faults.
DeliveryInv == TypeOK /\ FlightInv /\ CopiesInv /\ TxnsInv /\ ServedInv /\ AddressedInv

\* A 200 is backed by a transaction or by rows: without it the removal of the
\* sent events could lose them.
AnswerBacked == reply = "ok" => \/ /\ handler[conn].st = "replied"
                                   /\ handler[conn].batch = sending
                                \/ Elems(sending) \subseteq Elems(rows)

\* The inductive invariant behind NothingLost.
CustodyInv == MirroredToDisk /\ (Intact => AnswerBacked) /\ NothingLost

\* What was pushed since a flush began is in no batch and not stored, so a 200
\* does not come back while a stored event is in the queue.
TailIsFresh ==
  conn # NoConn =>
    \A i \in (Len(sending) + 1)..Len(queue) :
      /\ queue[i] \notin Elems(rows)
      /\ \A c \in Conn : queue[i] \notin Elems(handler[c].batch)

\* The queue, the network and the transactions together implement the plain
\* event log: batches of fresh events, whole or not at all.
Log == INSTANCE EventLog WITH recorded <- Elems(pushed), table <- rows
ImplementsEventLog == Log!Spec
=============================================================================
