------------------------------ MODULE PolicyStore ------------------------------
(***************************************************************************)
(* The versions of one policy under concurrent administrators              *)
(* (services/policy_service.py, api/v1/policies.py).                       *)
(*                                                                         *)
(* create and update insert a draft behind the latest version; publish     *)
(* archives every published version and publishes the latest one.  Each    *)
(* request reads the latest version first and writes later, in a READ      *)
(* COMMITTED transaction; the reply leaves before the commit (get_db), so  *)
(* a Control Center that dies in between loses what it has acknowledged.   *)
(* The unique index on policy and version, which the migrations create and *)
(* a database made by create_all lacks, makes a second insert of a version *)
(* wait for the first and fail.  The UPDATE that archives matches          *)
(* the rows published when it starts and goes through them: it waits for   *)
(* the lock of each and looks at that row again.                           *)
(***************************************************************************)
EXTENDS Naturals, FiniteSets

CONSTANTS Admin,      \* administrators, with one request at a time each
          MaxVersion, \* bound on the versions
          MaxCrashes  \* bound on the crashes of the Control Center

ASSUME ConstantsAssumption == MaxVersion \in Nat \ {0} /\ MaxCrashes \in Nat

Version == 1..MaxVersion
Operation == {"create", "update", "publish"}

VARIABLES
  status,     \* per version: "none", "draft", "published", "archived"
  req,        \* per administrator, the request under way
  saved,      \* per version, how many inserts of it were acknowledged
  lost,       \* per version, how many of those a crash has undone
  overlapped, \* a publish has read while another one was under way
  crashes     \* crashes of the Control Center

vars == <<status, req, saved, lost, overlapped, crashes>>

\* base: the version read (0 for a create); seen: rows that the archiving
\* UPDATE found published and has not come to; hit: those it has archived.
Idle == [stage |-> "idle", op |-> "create", base |-> 0, seen |-> {}, hit |-> {}]
Request == [stage : {"idle", "posted", "read", "scanned", "archived", "written"},
            op : Operation, base : 0..MaxVersion, seen : SUBSET Version, hit : SUBSET Version]

TypeOK ==
  /\ status \in [Version -> {"none", "draft", "published", "archived"}]
  /\ req \in [Admin -> Request]
  /\ \A a \in Admin : req[a].stage = "idle" => req[a] = Idle
  /\ saved \in [Version -> Nat]
  /\ lost \in [Version -> Nat]
  /\ overlapped \in BOOLEAN
  /\ crashes \in 0..MaxCrashes

\* A policy that is not there yet, or a seeded one.
Init ==
  /\ \/ status = [v \in Version |-> "none"]
     \/ status = [v \in Version |-> IF v = 1 THEN "published" ELSE "none"]
  /\ req = [a \in Admin |-> Idle]
  /\ saved = [v \in Version |-> 0]
  /\ lost = [v \in Version |-> 0]
  /\ overlapped = FALSE
  /\ crashes = 0

Exists(v) == status[v] # "none"
Published == {v \in Version : status[v] = "published"}
IsLatest(v) == v \in Version /\ Exists(v) /\ \A w \in Version : Exists(w) => w <= v
Empty == \A v \in Version : ~Exists(v)

\* What get_effective_policy_for_device serves: the highest published
\* version, or 0 for the file default.yaml.
IsEffective(v) == \/ v \in Published /\ \A w \in Published : w <= v
                  \/ v = 0 /\ Published = {}

GoOn(a, stage) == req' = [req EXCEPT ![a].stage = stage]

\* Mutant of End: the transaction is left open.
End_StageOnly(a) == req' = [req EXCEPT ![a].stage = "idle"]

End(a) == req' = [req EXCEPT ![a] = Idle]

-----------------------------------------------------------------------------
Post(a, op) ==
  /\ req[a].stage = "idle"
  /\ req' = [req EXCEPT ![a] = [Idle EXCEPT !.stage = "posted", !.op = op]]
  /\ UNCHANGED <<status, saved, lost, overlapped, crashes>>

\* create_policy reads nothing; its version is 1.
ReadNothing(a) ==
  /\ req[a].stage = "posted" /\ req[a].op = "create"
  /\ GoOn(a, "read")
  /\ UNCHANGED <<status, saved, lost, overlapped, crashes>>

\* A publish other than a's has read and not committed yet.
PublishUnderWay(a) == \E b \in Admin \ {a} : req[b].op = "publish" /\ req[b].stage \notin {"idle", "posted"}

\* The latest version; 404 if there is none.  (An update at the bound
\* MaxVersion is left out.)
ReadLatest(a) ==
  /\ req[a].stage = "posted" /\ req[a].op # "create"
  /\ \/ /\ Empty
        /\ End(a)
        /\ UNCHANGED overlapped
     \/ \E v \in Version :
          /\ IsLatest(v)
          /\ req[a].op = "update" => v < MaxVersion
          /\ req' = [req EXCEPT ![a].stage = "read", ![a].base = v]
          /\ overlapped' = (overlapped \/ (req[a].op = "publish" /\ PublishUnderWay(a)))
  /\ UNCHANGED <<status, saved, lost, crashes>>

Inserts(a) == req[a].op # "publish"
Next1(a) == req[a].base + 1

\* a's insertion of v is acknowledged and not committed.
Inserting(a, v) == req[a].stage = "written" /\ Inserts(a) /\ Next1(a) = v

\* Mutant of Insert: no unique index.
Insert_NoIndex(a) ==
  /\ req[a].stage = "read" /\ Inserts(a)
  /\ GoOn(a, "written")
  /\ saved' = [saved EXCEPT ![Next1(a)] = @ + 1]
  /\ UNCHANGED <<status, lost, overlapped, crashes>>

\* db.flush inserts the version after the one read: it waits for another
\* transaction that has inserted it, and is refused (409 or 500) if it is
\* there by now.  Else the reply leaves.
Insert(a) ==
  /\ req[a].stage = "read" /\ Inserts(a)
  /\ \A b \in Admin \ {a} : ~Inserting(b, Next1(a))
  /\ IF Exists(Next1(a)) THEN End(a) /\ UNCHANGED saved
     ELSE GoOn(a, "written") /\ saved' = [saved EXCEPT ![Next1(a)] = @ + 1]
  /\ UNCHANGED <<status, lost, overlapped, crashes>>

\* Mutant of CommitInsert: the new version is published at once.
CommitInsert_Published(a) ==
  /\ req[a].stage = "written" /\ Inserts(a)
  /\ status' = [status EXCEPT ![Next1(a)] = "published"]
  /\ End(a)
  /\ UNCHANGED <<saved, lost, overlapped, crashes>>

CommitInsert(a) ==
  /\ req[a].stage = "written" /\ Inserts(a)
  /\ status' = [status EXCEPT ![Next1(a)] = "draft"]
  /\ End(a)
  /\ UNCHANGED <<saved, lost, overlapped, crashes>>

\* The rows that b's publish has written and not committed.
Locked(b) == req[b].hit \union (IF req[b].stage = "written" /\ ~Inserts(b) THEN {req[b].base} ELSE {})
LockedByOther(a, v) == \E b \in Admin \ {a} : v \in Locked(b)

\* Mutant of Scan: only the latest version is looked at.
Scan_LatestOnly(a) ==
  /\ req[a].stage = "read" /\ ~Inserts(a)
  /\ req' = [req EXCEPT ![a].stage = "scanned", ![a].seen = Published \cap {req[a].base}]
  /\ UNCHANGED <<status, saved, lost, overlapped, crashes>>

\* UPDATE ... WHERE status = 'published' starts.
Scan(a) ==
  /\ req[a].stage = "read" /\ ~Inserts(a)
  /\ req' = [req EXCEPT ![a].stage = "scanned", ![a].seen = Published]
  /\ UNCHANGED <<status, saved, lost, overlapped, crashes>>

\* It comes to a row, gets its lock and archives it if it is still published.
ArchiveRow(a, v) ==
  /\ req[a].stage = "scanned"
  /\ v \in req[a].seen
  /\ ~LockedByOther(a, v)
  /\ req' = [req EXCEPT ![a].seen = @ \ {v}, ![a].hit = @ \union ({v} \cap Published)]
  /\ UNCHANGED <<status, saved, lost, overlapped, crashes>>

\* It is through.
Archive(a) ==
  /\ req[a].stage = "scanned"
  /\ req[a].seen = {}
  /\ GoOn(a, "archived")
  /\ UNCHANGED <<status, saved, lost, overlapped, crashes>>

\* db.flush sets the version that was read to published, whatever has become
\* of it; the reply leaves.
SetPublished(a) ==
  /\ req[a].stage = "archived"
  /\ ~LockedByOther(a, req[a].base)
  /\ GoOn(a, "written")
  /\ UNCHANGED <<status, saved, lost, overlapped, crashes>>

\* Mutant of CommitPublish: archiving comes last, and takes the version just
\* published when it was published before.
CommitPublish_ArchivesLast(a) ==
  /\ req[a].stage = "written" /\ ~Inserts(a)
  /\ status' = [v \in Version |-> IF v \in req[a].hit THEN "archived"
                                  ELSE IF v = req[a].base THEN "published" ELSE status[v]]
  /\ End(a)
  /\ UNCHANGED <<saved, lost, overlapped, crashes>>

\* The ORM has noticed that the UPDATE archived the version it holds, if it
\* was published before, and writes its status back.
CommitPublish(a) ==
  /\ req[a].stage = "written" /\ ~Inserts(a)
  /\ status' = [v \in Version |-> IF v = req[a].base THEN "published"
                                  ELSE IF v \in req[a].hit THEN "archived" ELSE status[v]]
  /\ End(a)
  /\ UNCHANGED <<saved, lost, overlapped, crashes>>

\* a waits for something that b has written.
WaitsFor(a, b) ==
  \/ req[a].stage = "read" /\ Inserts(a) /\ Inserting(b, Next1(a))
  \/ req[a].stage = "scanned" /\ req[a].seen \cap Locked(b) # {}
  \/ req[a].stage = "archived" /\ req[a].base \in Locked(b)

\* Transactions that wait for each other in a circle: PostgreSQL ends one of
\* them (500).
Abort(a) ==
  /\ \E D \in SUBSET Admin :
       /\ a \in D
       /\ \A x \in D : /\ \E y \in D \ {x} : WaitsFor(x, y)
                      /\ \E y \in D \ {x} : WaitsFor(y, x)
  /\ End(a)
  /\ UNCHANGED <<status, saved, lost, overlapped, crashes>>

\* The Control Center is killed and started again: open transactions are
\* rolled back, also those whose reply has left.
CCCrash ==
  /\ crashes < MaxCrashes
  /\ crashes' = crashes + 1
  /\ req' = [a \in Admin |-> Idle]
  /\ lost' = [v \in Version |-> lost[v] + (IF \E a \in Admin : Inserting(a, v) THEN 1 ELSE 0)]
  /\ UNCHANGED <<status, saved, overlapped>>

-----------------------------------------------------------------------------
Handler(a) ==
  \/ ReadNothing(a) \/ ReadLatest(a)
  \/ Insert(a) \/ CommitInsert(a)
  \/ Scan(a) \/ (\E v \in Version : ArchiveRow(a, v)) \/ Archive(a) \/ SetPublished(a) \/ CommitPublish(a)
  \/ Abort(a)

Next ==
  \/ \E a \in Admin : Handler(a) \/ \E op \in Operation : Post(a, op)
  \/ CCCrash

Spec == Init /\ [][Next]_vars

\* Handlers run to their end; one that waits for a lock gets it in its turn,
\* which PostgreSQL's queues see to.  Nobody has to post anything.
FairSpec == Spec /\ \A a \in Admin : SF_vars(Handler(a))

-----------------------------------------------------------------------------
(***************************************************************************)
(* Properties.                                                             *)
(***************************************************************************)

\* Apart from what a crash of the Control Center took back between the reply
\* and the commit, at most one insertion of a version is acknowledged, and
\* the version is there then or about to be committed: of two updates that
\* read the same latest version, one is refused and none is lost, and a
\* version number is given out again only if a crash has taken it back.
UpdatesKept ==
  \A v \in Version :
    /\ saved[v] <= lost[v] + 1
    /\ saved[v] = lost[v] + 1 => Exists(v) \/ \E a \in Admin : Inserting(a, v)

\* Once a version is published the devices always get a published version,
\* however archiving and publishing of several requests interleave: they
\* never fall back to the default.yaml file.
PublishedForGood == [][Published # {} => Published' # {}]_vars

\* Two versions are published at the same time only after two publish
\* requests have overlapped: updates in between do no harm.
OnePublished == ~overlapped => Cardinality(Published) <= 1

\* The version in effect goes back only after such an overlap, although a
\* publish may publish a version that is not the latest any more.
NoRollback ==
  [][~overlapped' => \A v \in 0..MaxVersion, w \in 0..MaxVersion :
                       IsEffective(v) /\ IsEffective(w)' => v <= w]_vars

\* Every request ends, also when requests wait for each other's rows in a
\* circle.
RequestsEnd == \A a \in Admin : req[a].stage = "read" ~> req[a].stage = "idle"
=============================================================================
