----------------------------- MODULE EventStore -----------------------------
(***************************************************************************)
(* The events table of the Control Center and its readers: batches are     *)
(* scored, flushed and committed by concurrent handlers while an           *)
(* administrator pages through the events (query_events) or looks at the   *)
(* dashboard's figures (get_dashboard_summary).                            *)
(*                                                                         *)
(* A row gets its created_at when it is flushed and becomes visible when   *)
(* its transaction commits: rows do not appear in the order of their       *)
(* timestamps.  A page is one SELECT; the figures of a summary are SELECTs *)
(* of their own, each of which sees what is committed by then.             *)
(***************************************************************************)
EXTENDS RiskEngine, FiniteSets

CONSTANTS
  Request,    \* ingestion handlers that may run at once
  Id,         \* primary keys (UUIDs): numbers, since listings sort by them
  Sent,       \* for each key, what the device sent: a score and a context
  MaxBatch,   \* rows of a batch
  Limit,      \* rows of a page
  Day,        \* ticks of the clock in the dashboard's 24 hours
  MaxTime     \* the clock stops here

ASSUME StoreAssumption ==
  /\ Id \subseteq Nat
  /\ Sent \in [Id -> [reported: Int, context: RiskContext]]
  /\ MaxBatch \in Nat /\ Day \in Nat /\ MaxTime \in Nat
  /\ Limit \in Nat \ {0}

VARIABLES
  clock,      \* datetime.now
  rows,       \* the committed rows
  txn,        \* for each handler, the rows its transaction has flushed
  native,     \* the database has a UUID type (PostgreSQL) or not (SQLite)
  view        \* what an administrator looks at

vars == <<clock, rows, txn, native, view>>

Time == 0..MaxTime

Row == [id: Id, at: Time, score: Nat, severity: Severity]

\* No row: the listing has no cursor.
None == [id |-> -1]

\* A listing: the severities it is filtered by, the last row of the last page
\* and, as history, the keys it has shown, those shown twice and those that
\* were there when it began.
Listing ==
  [kind: {"listing"}, stage: {"open", "failed", "done"}, only: SUBSET Severity,
   cursor: Row \union {None}, shown: SUBSET Id, twice: SUBSET Id, due: SUBSET Id]

\* A summary: the time it counts from, its figures so far and, as history,
\* how many rows were committed since the first.
Summary ==
  [kind: {"summary"}, stage: {"total", "critical", "done"}, since: Int,
   total: Nat, critical: Nat, risky: BOOLEAN, late: Nat]

Nothing == [kind |-> "nothing"]

TypeOK ==
  /\ clock \in Time
  /\ rows \subseteq Row
  /\ txn \in [Request -> SUBSET Row]
  /\ native \in BOOLEAN
  /\ view \in {Nothing} \union Listing \union Summary

Init ==
  /\ clock = 0
  /\ rows = {}
  /\ txn = [r \in Request |-> {}]
  /\ native \in BOOLEAN
  /\ view = Nothing

-----------------------------------------------------------------------------
(***************************************************************************)
(* The writers.                                                            *)
(***************************************************************************)
Tick ==
  /\ clock < MaxTime
  /\ clock' = clock + 1
  /\ UNCHANGED <<rows, txn, native, view>>

Flushed == UNION {txn[r] : r \in Request}

Ids(S) == {x.id : x \in S}

\* The row ingest_event_batch makes of what the device sent.
Scored(i) ==
  [id |-> i, at |-> clock,
   score |-> StoredScore(Sent[i].reported, Sent[i].context),
   severity |-> StoredSeverity(Sent[i].reported, Sent[i].context)]

\* db.flush: each row of a batch gets the time at which its INSERT is built.
Ingest(r) ==
  /\ Cardinality(txn[r]) < MaxBatch
  /\ \E i \in Id \ Ids(rows \union Flushed) :
       txn' = [txn EXCEPT ![r] = @ \union {Scored(i)}]
  /\ UNCHANGED <<clock, rows, native, view>>

\* The commit of get_db.
Commit(r) ==
  /\ txn[r] # {}
  /\ rows' = rows \union txn[r]
  /\ txn' = [txn EXCEPT ![r] = {}]
  /\ view' = IF view.kind = "summary" THEN [view EXCEPT !.late = @ + Cardinality(txn[r])] ELSE view
  /\ UNCHANGED <<clock, native>>

\* An event of the batch is stored already, or the process dies.
Rollback(r) ==
  /\ txn[r] # {}
  /\ txn' = [txn EXCEPT ![r] = {}]
  /\ UNCHANGED <<clock, rows, native, view>>

-----------------------------------------------------------------------------
(***************************************************************************)
(* The listing.                                                            *)
(***************************************************************************)
\* The order of the listing: created_at and then id, both descending.
Before(x, y) == x.at > y.at \/ (x.at = y.at /\ x.id > y.id)

\* Mutant of After: rows of the cursor's own time are left out.
After_Older(cursor) == {x \in rows : cursor = None \/ x.at < cursor.at}

\* Mutant of After: the cursor's row is shown again.
After_Inclusive(cursor) == {x \in rows : cursor = None \/ x.at <= cursor.at}

\* created_at <= cursor_ts AND id != cursor_id
After(cursor) == {x \in rows : cursor = None \/ (x.at <= cursor.at /\ x.id # cursor.id)}

Matching(only, cursor) == {x \in After(cursor) : x.severity \in only}

\* The first n of S.
Newest(S, n) == {x \in S : Cardinality({y \in S : Before(y, x)}) < n}

Oldest(S) == CHOOSE x \in S : \A y \in S \ {x} : Before(y, x)

\* The listing goes on with the rows after the cursor; there is a next cursor
\* if one row more than the limit is found.
Page(listing) ==
  LET found == Matching(listing.only, listing.cursor)
      page == Newest(found, Limit)
      more == Cardinality(found) > Limit
  IN  [listing EXCEPT !.stage  = IF more THEN "open" ELSE "done",
                      !.cursor = IF more THEN Oldest(page) ELSE None,
                      !.twice  = @ \union (listing.shown \cap Ids(page)),
                      !.shown  = @ \union Ids(page)]

\* The page is closed, or another filter is chosen.
Leave ==
  /\ view # Nothing
  /\ view' = Nothing
  /\ UNCHANGED <<clock, rows, txn, native>>

\* fetchEvents(null, true)
FirstPage(only) ==
  /\ view = Nothing
  /\ view' = Page([kind |-> "listing", stage |-> "open", only |-> only, cursor |-> None,
                   shown |-> {}, twice |-> {}, due |-> Ids(Matching(only, None))])
  /\ UNCHANGED <<clock, rows, txn, native>>

\* Load more.
NextPage ==
  /\ native
  /\ view.kind = "listing" /\ view.stage = "open"
  /\ view' = Page(view)
  /\ UNCHANGED <<clock, rows, txn, native>>

\* Without a UUID type the ORM converts the parameters of the id column, and
\* cannot convert the string that the cursor holds: 500.
NextPageFails ==
  /\ ~native
  /\ view.kind = "listing" /\ view.stage = "open"
  /\ view' = [view EXCEPT !.stage = "failed"]
  /\ UNCHANGED <<clock, rows, txn, native>>

-----------------------------------------------------------------------------
(***************************************************************************)
(* The summary.                                                            *)
(***************************************************************************)
Since(t) == {x \in rows : x.at >= t}

\* The window is fixed and the events in it are counted.
CountAll ==
  /\ view = Nothing
  /\ view' = [kind |-> "summary", stage |-> "total", since |-> clock - Day,
              total |-> Cardinality(Since(clock - Day)), critical |-> 0,
              risky |-> FALSE, late |-> 0]
  /\ UNCHANGED <<clock, rows, txn, native>>

\* Mutant of CountCritical: the critical events of all time.
CountCritical_Ever ==
  /\ view.kind = "summary" /\ view.stage = "total"
  /\ view' = [view EXCEPT !.stage = "critical",
                          !.critical = Cardinality({x \in rows : x.severity = "critical"})]
  /\ UNCHANGED <<clock, rows, txn, native>>

CountCritical ==
  /\ view.kind = "summary" /\ view.stage = "total"
  /\ view' = [view EXCEPT
       !.stage = "critical",
       !.critical = Cardinality({x \in Since(view.since) : x.severity = "critical"})]
  /\ UNCHANGED <<clock, rows, txn, native>>

\* The average, of which only is kept whether it is above 0.
Average ==
  /\ view.kind = "summary" /\ view.stage = "critical"
  /\ view' = [view EXCEPT !.stage = "done",
                          !.risky = \E x \in Since(view.since) : x.score > 0]
  /\ UNCHANGED <<clock, rows, txn, native>>

-----------------------------------------------------------------------------
Reader ==
  \/ Leave
  \/ \E only \in {Severity, {"critical"}} : FirstPage(only)
  \/ NextPage \/ NextPageFails
  \/ CountAll \/ CountCritical \/ Average

Next ==
  \/ Tick
  \/ \E r \in Request : Ingest(r) \/ Commit(r) \/ Rollback(r)
  \/ Reader

Spec == Init /\ [][Next]_vars

\* The administrator keeps loading more.  Nothing has to be ingested.
FairSpec == Spec /\ WF_vars(NextPage) /\ WF_vars(NextPageFails)

-----------------------------------------------------------------------------
(***************************************************************************)
(* Properties.                                                             *)
(***************************************************************************)

\* The stored severity never exceeds the band of the stored score, and is low
\* exactly for the scores of that band: an event that either side finds risky
\* is at least medium.
Level == [low |-> 0, medium |-> 1, high |-> 2, critical |-> 3]

SeverityFits ==
  \A x \in rows \union Flushed :
    /\ Level[x.severity] <= Level[Band(x.score)]
    /\ x.severity = "low" <=> Band(x.score) = "low"

\* A listing that comes to its end has shown every event that was committed
\* when it began, whatever is ingested meanwhile and in whatever order
\* transactions commit: cursor pagination skips nothing.
ListingIsComplete ==
  view.kind = "listing" /\ view.stage = "done" => view.due \subseteq view.shown

\* An event is shown twice only if others have its very timestamp.
RepeatsAreTies ==
  view.kind = "listing" =>
    \A x \in rows : x.id \in view.twice => \E y \in rows \ {x} : y.at = x.at

\* Why: an open listing has yet to reach every event it is due to show and
\* has not shown, and has shown nothing older than its cursor.
CursorInv ==
  view.kind = "listing" =>
    /\ view.twice \subseteq view.shown /\ view.shown \subseteq Ids(rows)
    /\ view.stage = "open" =>
         /\ view.cursor \in rows
         /\ \A x \in rows : x.id \in view.shown => x.at >= view.cursor.at
         /\ view.due \subseteq view.shown \union Ids(Matching(view.only, view.cursor))

\* A key has one row, and no stored row is in a transaction still.
KeysAreUnique ==
  /\ \A x, y \in rows \union Flushed : x.id = y.id => x = y
  /\ \A q, r \in Request : q # r => txn[q] \cap txn[r] = {}
  /\ rows \cap Flushed = {}

\* The inductive invariant.
StoreInv ==
  /\ TypeOK
  /\ IsFiniteSet(rows) /\ \A r \in Request : IsFiniteSet(txn[r])
  /\ KeysAreUnique /\ CursorInv /\ ListingIsComplete /\ RepeatsAreTies

\* More rows of one time than a page holds.
LongTie == \E t \in Time : Cardinality({x \in rows : x.at = t}) > Limit

\* Otherwise each further page is the last or reaches an earlier timestamp, of
\* which there are finitely many: why listings end.
PagesGoBack ==
  [][NextPage => LongTie \/ view'.stage = "done" \/ view'.cursor.at < view.cursor.at]_vars

\* A listing comes to its end or is left, unless more events have one
\* timestamp than a page holds; or there is no second page at all.
ListingEnds ==
  (view.kind = "listing" /\ view.stage = "open")
    ~> (view = Nothing \/ view.stage = "done" \/ LongTie \/ ~native)

\* The figures of a summary, each of a SELECT of its own, differ by no more
\* than what was committed between them.
SummaryAgrees ==
  view.kind = "summary" /\ view.stage = "done" =>
    /\ view.critical <= view.total + view.late
    /\ view.risky => view.total + view.late > 0
=============================================================================
