--------------------------- MODULE PolicyStore_proofs ---------------------------
(***************************************************************************)
(* Proofs about PolicyStore, for any number of administrators and          *)
(* versions.                                                               *)
(*                                                                         *)
(* Updates: the version a request is about to insert is neither committed  *)
(* nor held by another open insertion, so an acknowledged one is counted   *)
(* once, and a crash of the Control Center takes the count back with the   *)
(* insertion.  Publications: while none has overlapped, there is one under way  *)
(* at most; only its commit changes what is published, so what it found    *)
(* published is what it archives, and nothing of it is newer than what it  *)
(* publishes.                                                              *)
(***************************************************************************)
EXTENDS PolicyStore, FiniteSetTheorems, TLAPS

\* a's publish has read and not ended.
UnderWay(a) == req[a].op = "publish" /\ req[a].stage \notin {"idle", "posted"}

\* a's insertion waits for its commit.
Inserted(a) == req[a].stage = "written" /\ Inserts(a)

\* What a request has read fits its stage.
Consistent(a) ==
  /\ req[a].stage = "posted" => req[a].base = 0
  /\ req[a].stage \in {"posted", "read"} => req[a].hit = {}
  /\ req[a].stage \in {"scanned", "archived"} => req[a].op = "publish"
  /\ req[a].stage \in {"read", "written"} /\ Inserts(a) => Next1(a) \in Version
  /\ UnderWay(a) => req[a].base \in Version /\ Exists(req[a].base)
  /\ \A v \in req[a].hit : Exists(v)

StageInv == \A a \in Admin : Consistent(a)

InsertInv ==
  /\ \A a \in Admin : Inserted(a) => ~Exists(Next1(a))
  /\ \A a, b \in Admin : Inserted(a) /\ Inserted(b) /\ Next1(a) = Next1(b) => a = b
  /\ UpdatesKept

PublishInv ==
  ~overlapped =>
    /\ \A a, b \in Admin : UnderWay(a) /\ UnderWay(b) => a = b
    /\ \A v, w \in Published : v = w
    /\ \A a \in Admin : UnderWay(a) =>
         /\ \A v \in Published : v <= req[a].base
         /\ req[a].stage = "scanned" => req[a].seen \union req[a].hit = Published
         /\ req[a].stage \in {"archived", "written"} => req[a].hit = Published

Inv == TypeOK /\ StageInv /\ InsertInv /\ PublishInv

-----------------------------------------------------------------------------
(***************************************************************************)
(* Types.                                                                  *)
(***************************************************************************)
\* A request that has ended is one.
LEMMA IdleType == Idle \in Request
BY ConstantsAssumption DEF Idle, Request, Operation

\* Every step preserves the types.
LEMMA TypeStep ==
  ASSUME TypeOK, StageInv, [Next]_vars
  PROVE  TypeOK'
<1>. USE ConstantsAssumption DEF TypeOK
<1>1. ASSUME NEW a \in Admin, End(a)
      PROVE  /\ req' \in [Admin -> Request]
             /\ \A b \in Admin : req'[b].stage = "idle" => req'[b] = Idle
  BY <1>1, IdleType DEF End
<1>2. ASSUME NEW a \in Admin, NEW r \in Request, r.stage # "idle",
             req' = [req EXCEPT ![a] = r]
      PROVE  /\ req' \in [Admin -> Request]
             /\ \A b \in Admin : req'[b].stage = "idle" => req'[b] = Idle
  BY <1>2
<1>3. ASSUME NEW a \in Admin, NEW stage \in {"read", "scanned", "archived", "written"},
             GoOn(a, stage)
      PROVE  /\ req' \in [Admin -> Request]
             /\ \A b \in Admin : req'[b].stage = "idle" => req'[b] = Idle
  BY <1>3 DEF GoOn, Request
<1>4. ASSUME NEW a \in Admin, NEW op \in Operation, Post(a, op)
      PROVE  TypeOK'
  <2>1. [Idle EXCEPT !.stage = "posted", !.op = op] \in Request
    BY IdleType DEF Request, Idle
  <2>. QED  BY <1>2, <1>4, <2>1 DEF Post, Idle
<1>5. ASSUME NEW a \in Admin, ReadNothing(a) \/ Archive(a) \/ SetPublished(a)
      PROVE  TypeOK'
  BY <1>3, <1>5 DEF ReadNothing, Archive, SetPublished
<1>6. ASSUME NEW a \in Admin, ReadLatest(a)
      PROVE  TypeOK'
  <2>1. CASE End(a)
    BY <1>1, <1>6, <2>1 DEF ReadLatest
  <2>2. ASSUME NEW v \in Version, req' = [req EXCEPT ![a].stage = "read", ![a].base = v]
        PROVE  TypeOK'
    <3>1. [req[a] EXCEPT !.stage = "read", !.base = v] \in Request
      <4>1. v \in 0..MaxVersion
        BY DEF Version
      <4>2. req[a] \in Request
        OBVIOUS
      <4>. QED  BY <4>1, <4>2 DEF Request
    <3>2. req' = [req EXCEPT ![a] = [req[a] EXCEPT !.stage = "read", !.base = v]]
      BY <2>2
    <3>3. [req[a] EXCEPT !.stage = "read", !.base = v].stage # "idle"
      BY DEF Request
    <3>4. overlapped' \in BOOLEAN
      BY <1>6 DEF ReadLatest
    <3>. QED  BY <1>2, <1>6, <3>1, <3>2, <3>3, <3>4 DEF ReadLatest
  <2>. QED  BY <1>6, <2>1, <2>2 DEF ReadLatest
<1>7. ASSUME NEW a \in Admin, Insert(a)
      PROVE  TypeOK'
  <2>1. Next1(a) \in Version
    BY <1>7 DEF Insert, StageInv, Consistent
  <2>2. saved' \in [Version -> Nat]
    BY <1>7, <2>1 DEF Insert
  <2>. QED  BY <1>1, <1>3, <1>7, <2>2 DEF Insert
<1>8. ASSUME NEW a \in Admin, CommitInsert(a)
      PROVE  TypeOK'
  BY <1>1, <1>8 DEF CommitInsert
<1>9. ASSUME NEW a \in Admin, Scan(a)
      PROVE  TypeOK'
  <2>. DEFINE r == [req[a] EXCEPT !.stage = "scanned", !.seen = Published]
  <2>1. r \in Request /\ r.stage # "idle"
    BY DEF Request, Published
  <2>2. req' = [req EXCEPT ![a] = r]
    BY <1>9 DEF Scan
  <2>. QED  BY <1>2, <1>9, <2>1, <2>2 DEF Scan
<1>10. ASSUME NEW a \in Admin, NEW v \in Version, ArchiveRow(a, v)
       PROVE  TypeOK'
  <2>. DEFINE r == [req[a] EXCEPT !.seen = @ \ {v}, !.hit = @ \union ({v} \cap Published)]
  <2>1. r \in Request /\ r.stage # "idle"
    BY <1>10 DEF ArchiveRow, Request, Published
  <2>2. req' = [req EXCEPT ![a] = r]
    BY <1>10 DEF ArchiveRow
  <2>. QED  BY <1>2, <1>10, <2>1, <2>2 DEF ArchiveRow
<1>11. ASSUME NEW a \in Admin, CommitPublish(a)
       PROVE  TypeOK'
  BY <1>1, <1>11 DEF CommitPublish
<1>12. ASSUME NEW a \in Admin, Abort(a)
       PROVE  TypeOK'
  BY <1>1, <1>12 DEF Abort
<1>13. CASE CCCrash
  <2>1. req' \in [Admin -> Request] /\ \A a \in Admin : req'[a] = Idle
    BY <1>13, IdleType DEF CCCrash
  <2>2. lost' \in [Version -> Nat]
    BY <1>13 DEF CCCrash
  <2>. QED  BY <1>13, <2>1, <2>2 DEF CCCrash
<1>14. CASE UNCHANGED vars
  BY <1>14 DEF vars
<1>. QED  BY <1>4, <1>5, <1>6, <1>7, <1>8, <1>9, <1>10, <1>11, <1>12, <1>13, <1>14 DEF Next, Handler

-----------------------------------------------------------------------------
(***************************************************************************)
(* Stages.                                                                 *)
(***************************************************************************)

\* A version that is there stays there.
LEMMA ExistsStays ==
  ASSUME TypeOK, [Next]_vars, NEW v \in Version, Exists(v)
  PROVE  Exists(v)'
<1>1. CASE \E a \in Admin : CommitInsert(a)
  BY <1>1 DEF CommitInsert, Exists, TypeOK
<1>2. CASE \E a \in Admin : CommitPublish(a)
  BY <1>2 DEF CommitPublish, Exists, TypeOK
<1>3. CASE status' = status
  BY <1>3 DEF Exists
<1>4. \/ \E a \in Admin : CommitInsert(a) \/ CommitPublish(a)
      \/ status' = status
  BY DEF Next, Handler, Post, ReadNothing, ReadLatest, Insert, Scan, ArchiveRow, Archive,
         SetPublished, Abort, CCCrash, vars
<1>. QED  BY <1>1, <1>2, <1>3, <1>4

\* A step of a's request leaves the others alone.
LEMMA OthersStay ==
  ASSUME TypeOK, NEW a \in Admin, Handler(a) \/ \E op \in Operation : Post(a, op)
  PROVE  \A b \in Admin \ {a} : req'[b] = req[b]
BY DEF Handler, Post, ReadNothing, ReadLatest, Insert, CommitInsert, Scan, ArchiveRow, Archive,
       SetPublished, CommitPublish, Abort, End, GoOn, TypeOK

\* Every step preserves what fits the stages: a request reads before it
\* writes, and what it has read or archived stays there.
LEMMA StageStep ==
  ASSUME TypeOK, StageInv, [Next]_vars
  PROVE  StageInv'
<1>1. ASSUME NEW b \in Admin, req'[b] = req[b]
      PROVE  Consistent(b)'
  <2>1. Consistent(b) /\ req[b] \in Request
    BY DEF StageInv, TypeOK
  <2>2. req[b].hit \subseteq Version
    BY <2>1 DEF Request
  <2>. QED  BY <1>1, <2>1, <2>2, ExistsStays DEF Consistent, UnderWay, Inserts, Next1
<1>2. ASSUME NEW a \in Admin, Handler(a) \/ \E op \in Operation : Post(a, op)
      PROVE  Consistent(a)'
  <2>. USE ConstantsAssumption DEF Consistent, UnderWay, Inserts, Next1
  <2>. Consistent(a) /\ req[a] \in Request
    BY DEF StageInv, TypeOK
  <2>1. CASE End(a)
    BY <2>1 DEF End, Idle, TypeOK
  <2>2. CASE \E op \in Operation : Post(a, op)
    BY <2>2 DEF Post, Idle, TypeOK
  <2>3. CASE ReadNothing(a)
    BY <2>3 DEF ReadNothing, GoOn, Version, TypeOK, Exists, Request
  <2>4. CASE ReadLatest(a)
    <3>1. ASSUME NEW v \in Version, IsLatest(v), req[a].op = "update" => v < MaxVersion,
                 req' = [req EXCEPT ![a].stage = "read", ![a].base = v]
          PROVE  Consistent(a)'
      <4>1. req'[a].stage = "read" /\ req'[a].op = req[a].op /\ req'[a].base = v
            /\ req'[a].hit = req[a].hit
        BY <3>1 DEF TypeOK, Request
      <4>2. status' = status /\ Exists(v)
        BY <2>4, <3>1 DEF ReadLatest, IsLatest
      <4>3. req[a].op \in {"update", "publish"}
        BY <2>4 DEF ReadLatest, Request, Operation
      <4>4. \A w \in req'[a].hit : Exists(w)'
        BY <4>1, <4>2 DEF Exists
      <4>5. Exists(v)' /\ v \in Nat /\ 1 <= v /\ v <= MaxVersion
        BY <4>2 DEF Exists, Version
      <4>6. Inserts(a)' => v + 1 \in Version
        BY <3>1, <4>1, <4>3, <4>5 DEF Version
      <4>7. req'[a].hit = {}
        BY <2>4, <4>1 DEF ReadLatest
      <4>. QED  BY <3>1, <4>1, <4>4, <4>5, <4>6, <4>7
    <3>. QED  BY <2>1, <2>4, <3>1 DEF ReadLatest
  <2>5. CASE Insert(a)
    BY <2>1, <2>5 DEF Insert, GoOn, TypeOK, Request, Exists
  <2>6. CASE Scan(a) \/ Archive(a) \/ SetPublished(a)
    <3>1. /\ req'[a].op = req[a].op /\ req[a].op = "publish"
          /\ req'[a].base = req[a].base
          /\ req'[a].stage \in {"scanned", "archived", "written"}
      BY <2>6 DEF Scan, Archive, SetPublished, GoOn, TypeOK, Request
    <3>2. UnderWay(a) /\ status' = status
      BY <2>6, <3>1 DEF Scan, Archive, SetPublished
    <3>3. \A v \in req'[a].hit : Exists(v)
      BY <2>6 DEF Scan, Archive, SetPublished, GoOn, TypeOK, Request, Published, Exists
    <3>. QED  BY <3>1, <3>2, <3>3 DEF Exists
  <2>7. ASSUME NEW v \in Version, ArchiveRow(a, v)
        PROVE  Consistent(a)'
    <3>1. /\ req'[a].op = req[a].op /\ req'[a].base = req[a].base
          /\ req'[a].stage = "scanned" /\ req[a].stage = "scanned"
          /\ req'[a].hit = req[a].hit \union ({v} \cap Published)
      BY <2>7 DEF ArchiveRow, TypeOK
    <3>2. status' = status
      BY <2>7 DEF ArchiveRow
    <3>. QED  BY <3>1, <3>2 DEF Exists, Published
  <2>. QED  BY <1>2, <2>1, <2>2, <2>3, <2>4, <2>5, <2>6, <2>7
            DEF Handler, CommitInsert, CommitPublish, Abort
<1>3. CASE UNCHANGED vars
  BY <1>1, <1>3 DEF vars, StageInv
<1>4. CASE CCCrash
  BY <1>4, ConstantsAssumption DEF CCCrash, StageInv, Consistent, UnderWay, Idle
<1>. QED  BY <1>1, <1>2, <1>3, <1>4, OthersStay DEF Next, StageInv

-----------------------------------------------------------------------------
(***************************************************************************)
(* Updates.                                                                *)
(***************************************************************************)

\* Apart from three actions no step of a request changes the versions or an
\* insertion.
LEMMA QuietStep ==
  ASSUME TypeOK, StageInv, NEW a \in Admin,
         Handler(a) \/ \E op \in Operation : Post(a, op),
         ~Insert(a), ~CommitInsert(a), ~CommitPublish(a)
  PROVE  /\ status' = status /\ saved' = saved /\ lost' = lost
         /\ ~Inserted(a) /\ ~Inserted(a)'
<1>. USE DEF Inserted, Inserts
<1>1. CASE ReadNothing(a)
  BY <1>1 DEF ReadNothing, GoOn, TypeOK, Request
<1>2. CASE ReadLatest(a)
  <2>1. req'[a].stage \in {"idle", "read"}
    BY <1>2 DEF ReadLatest, End, Idle, TypeOK, Request
  <2>. QED  BY <1>2, <2>1 DEF ReadLatest
<1>3. CASE \E op \in Operation : Post(a, op)
  BY <1>3 DEF Post, Idle, TypeOK
<1>4. CASE Scan(a)
  BY <1>4 DEF Scan, TypeOK, Request
<1>5. CASE \E v \in Version : ArchiveRow(a, v)
  BY <1>5 DEF ArchiveRow, TypeOK, Request
<1>6. CASE Archive(a)
  BY <1>6 DEF Archive, GoOn, TypeOK, Request
<1>7. CASE SetPublished(a)
  <2>1. ~Inserts(a)
    BY <1>7 DEF SetPublished, StageInv, Consistent
  <2>. QED  BY <1>7, <2>1 DEF SetPublished, GoOn, TypeOK, Request
<1>8. CASE Abort(a)
  BY <1>8 DEF Abort, WaitsFor, End, Idle, TypeOK
<1>. QED  BY <1>1, <1>2, <1>3, <1>4, <1>5, <1>6, <1>7, <1>8 DEF Handler

\* Every step preserves InsertInv: an insertion that meets another open one
\* waits, and one that meets a committed version is refused.
LEMMA InsertStep ==
  ASSUME TypeOK, StageInv, InsertInv, [Next]_vars
  PROVE  InsertInv'
<1>. USE DEF InsertInv
<1>0. \A a \in Admin, v \in Version : Inserting(a, v) <=> Inserted(a) /\ Next1(a) = v
  BY DEF Inserting, Inserted
<1>1. ASSUME NEW a \in Admin, Handler(a) \/ \E op \in Operation : Post(a, op),
             ~Insert(a), ~CommitInsert(a), ~CommitPublish(a)
      PROVE  InsertInv'
  <2>1. /\ status' = status /\ saved' = saved /\ lost' = lost
        /\ ~Inserted(a) /\ ~Inserted(a)'
    BY <1>1, QuietStep
  <2>2. \A b \in Admin \ {a} : req'[b] = req[b]
    BY <1>1, OthersStay
  <2>. QED  BY <2>1, <2>2 DEF Inserting, Inserted, Inserts, Next1, Exists, UpdatesKept
<1>2. ASSUME NEW a \in Admin, Insert(a)
      PROVE  InsertInv'
  <2>1. \A b \in Admin \ {a} : req'[b] = req[b]
    BY <1>2, OthersStay DEF Handler
  <2>2. CASE Exists(Next1(a))
    <3>1. status' = status /\ saved' = saved /\ lost' = lost /\ ~Inserted(a) /\ ~Inserted(a)'
      BY <1>2, <2>2 DEF Insert, End, Idle, Inserted, TypeOK
    <3>. QED  BY <2>1, <3>1 DEF Inserting, Inserted, Inserts, Next1, Exists, UpdatesKept
  <2>3. CASE ~Exists(Next1(a))
    <3>1. /\ status' = status /\ saved' = [saved EXCEPT ![Next1(a)] = @ + 1] /\ lost' = lost
          /\ ~Inserted(a) /\ Inserted(a)' /\ Next1(a)' = Next1(a)
      BY <1>2, <2>3 DEF Insert, GoOn, Inserted, Inserts, Next1, TypeOK, Request
    <3>2. \A b \in Admin \ {a} : Inserted(b) => Next1(b) # Next1(a)
      BY <1>2 DEF Insert, Inserted, Inserting
    <3>3. Next1(a) \in Version /\ saved[Next1(a)] <= lost[Next1(a)]
      <4>1. Next1(a) \in Version
        BY <1>2 DEF Insert, StageInv, Consistent
      <4>2. ~\E b \in Admin : Inserting(b, Next1(a))
        BY <3>1, <3>2 DEF Inserting, Inserted
      <4>. QED  BY <2>3, <4>1, <4>2 DEF UpdatesKept, TypeOK
    <3>4. \A b \in Admin \ {a} : /\ Inserted(b)' <=> Inserted(b)
                                /\ Next1(b)' = Next1(b)
      BY <2>1 DEF Inserted, Inserts, Next1
    <3>5. UpdatesKept'
      <4>1. ASSUME NEW v \in Version, v # Next1(a), saved[v] = lost[v] + 1, ~Exists(v)
            PROVE  \E b \in Admin : Inserting(b, v)'
        <5>1. PICK b \in Admin : Inserting(b, v)
          BY <4>1 DEF UpdatesKept
        <5>. QED  BY <3>1, <3>4, <5>1 DEF Inserting, Inserted
      <4>2. Inserting(a, Next1(a))'
        BY <3>1 DEF Inserting, Inserted
      <4>. QED  BY <3>1, <3>3, <4>1, <4>2 DEF UpdatesKept, Exists, TypeOK
    <3>. QED  BY <2>3, <3>1, <3>2, <3>4, <3>5 DEF Exists
  <2>. QED  BY <2>2, <2>3
<1>3. ASSUME NEW a \in Admin, CommitInsert(a)
      PROVE  InsertInv'
  <2>1. \A b \in Admin \ {a} : req'[b] = req[b]
    BY <1>3, OthersStay DEF Handler
  <2>2. /\ status' = [status EXCEPT ![Next1(a)] = "draft"] /\ saved' = saved /\ lost' = lost
        /\ Inserted(a) /\ ~Inserted(a)' /\ Next1(a) \in Version
    BY <1>3 DEF CommitInsert, End, Idle, Inserted, TypeOK, StageInv, Consistent
  <2>3. \A b \in Admin \ {a} : /\ Inserted(b)' <=> Inserted(b)
                              /\ Next1(b)' = Next1(b)
    BY <2>1 DEF Inserted, Inserts, Next1
  <2>4. \A b \in Admin \ {a} : Inserted(b) => Next1(b) # Next1(a) /\ Next1(b) \in Version
    BY <2>2 DEF Inserted, StageInv, Consistent
  <2>5. UpdatesKept'
    <3>1. status'[Next1(a)] # "none"
      BY <2>2 DEF Exists, TypeOK
    <3>2. \A v \in Version : Exists(v) => Exists(v)'
      BY <2>2 DEF Exists, TypeOK
    <3>3. \A v \in Version, b \in Admin : Inserting(b, v) => (b = a /\ v = Next1(a)) \/ Inserting(b, v)'
      BY <2>3 DEF Inserting, Inserted
    <3>. QED  BY <2>2, <3>1, <3>2, <3>3 DEF UpdatesKept, Exists
  <2>. QED  BY <2>2, <2>3, <2>4, <2>5 DEF Exists, TypeOK
<1>4. ASSUME NEW a \in Admin, CommitPublish(a)
      PROVE  InsertInv'
  <2>1. \A b \in Admin \ {a} : req'[b] = req[b]
    BY <1>4, OthersStay DEF Handler
  <2>2. saved' = saved /\ lost' = lost /\ ~Inserted(a) /\ ~Inserted(a)'
    BY <1>4 DEF CommitPublish, End, Idle, Inserted, TypeOK
  <2>3. \A v \in Version : Exists(v)' <=> Exists(v)
    <3>1. Exists(req[a].base) /\ \A v \in req[a].hit : Exists(v)
      BY <1>4 DEF CommitPublish, StageInv, Consistent, UnderWay, Inserts
    <3>. QED  BY <1>4, <3>1 DEF CommitPublish, Exists, TypeOK
  <2>4. \A b \in Admin : Inserted(b) => Next1(b) \in Version
    BY DEF Inserted, StageInv, Consistent
  <2>5. \A b \in Admin \ {a} : /\ Inserted(b)' <=> Inserted(b)
                              /\ Next1(b)' = Next1(b)
    BY <2>1 DEF Inserted, Inserts, Next1
  <2>6. UpdatesKept'
    BY <2>2, <2>3, <2>5 DEF UpdatesKept, Inserting, Inserted
  <2>. QED  BY <2>2, <2>3, <2>4, <2>5, <2>6 DEF Exists
<1>5. CASE CCCrash
  <2>1. status' = status /\ saved' = saved /\ \A a \in Admin : ~Inserted(a)'
    BY <1>5 DEF CCCrash, Inserted, Idle
  <2>2. ASSUME NEW v \in Version
        PROVE  lost'[v] = lost[v] + (IF \E a \in Admin : Inserting(a, v) THEN 1 ELSE 0)
    BY <1>5 DEF CCCrash
  <2>3. ASSUME NEW v \in Version
        PROVE  /\ saved'[v] <= lost'[v] + 1
               /\ saved'[v] = lost'[v] + 1 => Exists(v)'
    <3>1. saved[v] \in Nat /\ lost[v] \in Nat
      BY DEF TypeOK
    <3>2. CASE \E a \in Admin : Inserting(a, v)
      BY <2>1, <2>2, <3>1, <3>2 DEF UpdatesKept
    <3>3. CASE ~\E a \in Admin : Inserting(a, v)
      BY <2>1, <2>2, <3>1, <3>3 DEF UpdatesKept, Exists
    <3>. QED  BY <3>2, <3>3
  <2>. QED  BY <2>1, <2>3 DEF UpdatesKept
<1>6. CASE UNCHANGED vars
  BY <1>6 DEF vars, Inserting, Inserted, Inserts, Next1, Exists, UpdatesKept
<1>. QED  BY <1>1, <1>2, <1>3, <1>4, <1>5, <1>6 DEF Next

-----------------------------------------------------------------------------
(***************************************************************************)
(* Publications.                                                           *)
(***************************************************************************)

\* A new draft was not there before, so not published either.
LEMMA CommitInserted ==
  ASSUME TypeOK, InsertInv, NEW a \in Admin, CommitInsert(a)
  PROVE  Published' = Published
<1>1. status[Next1(a)] = "none"
  BY DEF CommitInsert, InsertInv, Inserted, Exists
<1>. QED  BY <1>1 DEF CommitInsert, Published, TypeOK

\* Only the commit of a publish changes what is published.
LEMMA PublishedStep ==
  ASSUME TypeOK, StageInv, InsertInv, [Next]_vars
  PROVE  \/ Published' = Published
         \/ \E a \in Admin : CommitPublish(a)
<1>1. CASE status' = status
  BY <1>1 DEF Published
<1>2. \/ \E a \in Admin : CommitInsert(a) \/ CommitPublish(a)
      \/ status' = status
  BY DEF Next, Handler, Post, ReadNothing, ReadLatest, Insert, Scan, ArchiveRow, Archive,
         SetPublished, Abort, CCCrash, vars
<1>. QED  BY <1>1, <1>2, CommitInserted

\* The commit publishes the version that was read and unpublishes what the
\* UPDATE has hit, and that alone.
LEMMA CommitPublished ==
  ASSUME TypeOK, StageInv, NEW a \in Admin, CommitPublish(a)
  PROVE  Published' = {req[a].base} \union (Published \ req[a].hit)
<1>1. req[a].base \in Version
  BY DEF CommitPublish, StageInv, Consistent, UnderWay, Inserts
<1>. QED  BY <1>1 DEF CommitPublish, Published, TypeOK

\* That publications have overlapped is not forgotten.
LEMMA OverlapStays ==
  ASSUME [Next]_vars, ~overlapped'
  PROVE  ~overlapped
BY DEF Next, Handler, Post, ReadNothing, ReadLatest, Insert, CommitInsert, Scan, ArchiveRow,
       Archive, SetPublished, CommitPublish, Abort, CCCrash, vars

\* Every step preserves PublishInv: a publish that reads while no other is
\* under way has everything published before it, and nobody touches that
\* until it commits.
LEMMA PublishStep ==
  ASSUME TypeOK, StageInv, InsertInv, PublishInv, [Next]_vars
  PROVE  PublishInv'
<1>. SUFFICES ASSUME ~overlapped'
              PROVE  PublishInv'
  BY DEF PublishInv
<1>1. ~overlapped
  BY OverlapStays
<1>2. ASSUME NEW a \in Admin, Published' = Published, ~UnderWay(a)',
             \A b \in Admin \ {a} : req'[b] = req[b]
      PROVE  PublishInv'
  BY <1>1, <1>2 DEF PublishInv, UnderWay
<1>3. ASSUME NEW a \in Admin, Published' = Published, UnderWay(a), UnderWay(a)',
             \A b \in Admin \ {a} : req'[b] = req[b],
             req'[a].base = req[a].base,
             req'[a].stage = "scanned" => req'[a].seen \union req'[a].hit = Published,
             req'[a].stage \in {"archived", "written"} => req'[a].hit = Published
      PROVE  PublishInv'
  BY <1>1, <1>3 DEF PublishInv, UnderWay
<1>4. ASSUME NEW a \in Admin, ReadLatest(a)
      PROVE  PublishInv'
  <2>1. Published' = Published
    BY <1>4 DEF ReadLatest, Published
  <2>2. \A b \in Admin \ {a} : req'[b] = req[b]
    BY <1>4, OthersStay DEF Handler
  <2>3. CASE ~UnderWay(a)'
    BY <1>2, <2>1, <2>2, <2>3
  <2>4. CASE UnderWay(a)'
    <3>1. PICK v \in Version :
            /\ IsLatest(v)
            /\ req' = [req EXCEPT ![a].stage = "read", ![a].base = v]
            /\ overlapped' = (overlapped \/ (req[a].op = "publish" /\ PublishUnderWay(a)))
      BY <1>4, <2>4 DEF ReadLatest, UnderWay, End, Idle, TypeOK
    <3>2. req'[a].stage = "read" /\ req'[a].base = v /\ req[a].op = "publish"
      BY <2>4, <3>1 DEF UnderWay, TypeOK, Request
    <3>3. \A b \in Admin \ {a} : ~UnderWay(b)
      BY <3>1, <3>2 DEF PublishUnderWay, UnderWay
    <3>4. \A b \in Admin \ {a} : ~UnderWay(b)'
      BY <2>2, <3>3 DEF UnderWay
    <3>5. \A w \in Published : w <= v
      BY <3>1 DEF IsLatest, Published, Exists
    <3>. QED  BY <1>1, <2>1, <3>2, <3>4, <3>5 DEF PublishInv
  <2>. QED  BY <2>3, <2>4
<1>5. ASSUME NEW a \in Admin,
             Scan(a) \/ (\E v \in Version : ArchiveRow(a, v)) \/ Archive(a) \/ SetPublished(a)
      PROVE  PublishInv'
  <2>1. Published' = Published
    BY <1>5 DEF Scan, ArchiveRow, Archive, SetPublished, Published
  <2>2. \A b \in Admin \ {a} : req'[b] = req[b]
    BY <1>5, OthersStay DEF Handler
  <2>3. UnderWay(a)
    BY <1>5 DEF Scan, ArchiveRow, Archive, SetPublished, UnderWay, Inserts, StageInv, Consistent
  <2>4. /\ req[a].stage = "scanned" => req[a].seen \union req[a].hit = Published
        /\ req[a].stage \in {"archived", "written"} => req[a].hit = Published
    BY <1>1, <2>3 DEF PublishInv
  <2>5. /\ UnderWay(a)' /\ req'[a].base = req[a].base
        /\ req'[a].stage = "scanned" => req'[a].seen \union req'[a].hit = Published
        /\ req'[a].stage \in {"archived", "written"} => req'[a].hit = Published
    <3>1. CASE Scan(a)
      BY <2>3, <3>1 DEF Scan, UnderWay, TypeOK, Request, StageInv, Consistent
    <3>2. ASSUME NEW v \in Version, ArchiveRow(a, v)
          PROVE  /\ UnderWay(a)' /\ req'[a].base = req[a].base
                 /\ req'[a].stage = "scanned" => req'[a].seen \union req'[a].hit = Published
                 /\ req'[a].stage \in {"archived", "written"} => req'[a].hit = Published
      BY <2>3, <2>4, <3>2 DEF ArchiveRow, UnderWay, TypeOK, Request
    <3>4. CASE Archive(a)
      BY <2>3, <2>4, <3>4 DEF Archive, GoOn, UnderWay, TypeOK, Request
    <3>3. CASE SetPublished(a)
      BY <2>3, <2>4, <3>3 DEF SetPublished, GoOn, UnderWay, TypeOK, Request
    <3>. QED  BY <1>5, <3>1, <3>2, <3>3, <3>4
  <2>. QED  BY <1>3, <2>1, <2>2, <2>3, <2>5
<1>6. ASSUME NEW a \in Admin, CommitPublish(a)
      PROVE  PublishInv'
  <2>1. UnderWay(a) /\ req[a].stage = "written"
    BY <1>6 DEF CommitPublish, UnderWay, Inserts
  <2>2. req[a].hit = Published
    BY <1>1, <2>1 DEF PublishInv
  <2>3. Published' = {req[a].base}
    BY <1>6, <2>2, CommitPublished
  <2>4. \A b \in Admin : ~UnderWay(b)'
    <3>1. \A b \in Admin \ {a} : ~UnderWay(b) /\ req'[b] = req[b]
      BY <1>1, <1>6, <2>1, OthersStay DEF PublishInv, Handler
    <3>2. ~UnderWay(a)'
      BY <1>6 DEF CommitPublish, End, Idle, UnderWay, TypeOK
    <3>. QED  BY <3>1, <3>2 DEF UnderWay
  <2>. QED  BY <2>3, <2>4 DEF PublishInv
<1>7. ASSUME NEW a \in Admin,
             \/ ReadNothing(a) \/ Insert(a) \/ CommitInsert(a) \/ Abort(a)
             \/ \E op \in Operation : Post(a, op)
      PROVE  PublishInv'
  <2>1. Handler(a) \/ \E op \in Operation : Post(a, op)
    BY <1>7 DEF Handler
  <2>2. \A b \in Admin \ {a} : req'[b] = req[b]
    BY <2>1, OthersStay
  <2>3. ~UnderWay(a)'
    <3>1. CASE End(a)
      BY <3>1 DEF End, Idle, UnderWay, TypeOK
    <3>2. CASE ReadNothing(a)
      BY <3>2 DEF ReadNothing, GoOn, UnderWay, TypeOK, Request
    <3>3. CASE Insert(a)
      BY <3>1, <3>3 DEF Insert, GoOn, Inserts, UnderWay, TypeOK, Request
    <3>4. CASE \E op \in Operation : Post(a, op)
      BY <3>4 DEF Post, Idle, UnderWay, TypeOK
    <3>. QED  BY <1>7, <3>1, <3>2, <3>3, <3>4 DEF CommitInsert, Abort
  <2>4. Published' = Published
    <3>1. CASE CommitInsert(a)
      BY <3>1, CommitInserted
    <3>2. CASE status' = status
      BY <3>2 DEF Published
    <3>. QED  BY <1>7, <3>1, <3>2 DEF ReadNothing, Insert, Abort, Post
  <2>. QED  BY <1>2, <2>2, <2>3, <2>4
<1>8. CASE CCCrash
  BY <1>1, <1>8 DEF CCCrash, PublishInv, UnderWay, Published, Idle
<1>9. CASE UNCHANGED vars
  BY <1>1, <1>9 DEF vars, PublishInv, UnderWay, Published
<1>. QED  BY <1>4, <1>5, <1>6, <1>7, <1>8, <1>9 DEF Next, Handler

-----------------------------------------------------------------------------
(***************************************************************************)
(* Theorems.                                                               *)
(***************************************************************************)

\* Inv is inductive.
LEMMA InvCorrect == Spec => []Inv
<1>1. Init => Inv
  <2>. SUFFICES ASSUME Init
                PROVE  Inv
    OBVIOUS
  <2>. USE ConstantsAssumption DEF Init, Version
  <2>1. TypeOK
    <3>1. status \in [1..MaxVersion -> {"none", "draft", "published", "archived"}]
      OBVIOUS
    <3>2. req \in [Admin -> Request] /\ \A a \in Admin : req[a] = Idle
      BY IdleType
    <3>3. saved \in [1..MaxVersion -> Nat] /\ lost \in [1..MaxVersion -> Nat]
      OBVIOUS
    <3>4. overlapped = FALSE /\ crashes = 0 /\ 0 \in 0..MaxCrashes
      OBVIOUS
    <3>. HIDE DEF Init
    <3>. QED  BY <3>1, <3>2, <3>3, <3>4 DEF TypeOK
  <2>2. StageInv
    BY DEF StageInv, Consistent, UnderWay, Idle
  <2>3. InsertInv
    BY DEF InsertInv, Inserted, UpdatesKept, Idle
  <2>4. PublishInv
    BY DEF PublishInv, UnderWay, Idle, Published
  <2>. QED  BY <2>1, <2>2, <2>3, <2>4 DEF Inv
<1>2. Inv /\ [Next]_vars => Inv'
  BY TypeStep, StageStep, InsertStep, PublishStep DEF Inv
<1>. QED  BY <1>1, <1>2, PTL DEF Spec

\* The variables keep their types.
THEOREM TypeCorrect == Spec => []TypeOK
<1>1. Inv => TypeOK
  BY DEF Inv
<1>. QED  BY <1>1, InvCorrect, PTL

\* An acknowledged update is lost only in a crash of the Control Center
\* between its reply and its commit, and a version is acknowledged again only
\* after that; between two updates none is lost.
THEOREM UpdatesKeptCorrect == Spec => []UpdatesKept
<1>1. Inv => UpdatesKept
  BY DEF Inv, InsertInv
<1>. QED  BY <1>1, InvCorrect, PTL

\* The devices never fall back to the default file once a version has been
\* published, whether publications overlap or not.
THEOREM PublishedForGoodCorrect == Spec => PublishedForGood
<1>1. Inv /\ [Next]_vars => [Published # {} => Published' # {}]_vars
  <2>. SUFFICES ASSUME Inv, [Next]_vars, Published # {}
                PROVE  Published' # {}
    OBVIOUS
  <2>1. CASE Published' = Published
    BY <2>1
  <2>2. ASSUME NEW a \in Admin, CommitPublish(a)
        PROVE  Published' # {}
    BY <2>2, CommitPublished DEF Inv
  <2>. QED  BY <2>1, <2>2, PublishedStep DEF Inv
<1>. QED  BY <1>1, InvCorrect, PTL DEF Spec, PublishedForGood

\* One version is published at most, as long as publications have not
\* overlapped.
THEOREM OnePublishedCorrect == Spec => []OnePublished
<1>1. Inv => OnePublished
  <2>. SUFFICES ASSUME Inv, ~overlapped
                PROVE  Cardinality(Published) <= 1
    BY DEF OnePublished
  <2>1. CASE Published = {}
    BY <2>1, FS_EmptySet
  <2>2. ASSUME NEW v \in Published
        PROVE  Cardinality(Published) <= 1
    <3>1. Published = {v}
      BY <2>2 DEF Inv, PublishInv
    <3>2. Cardinality({v}) = 1
      BY FS_Singleton, Zenon
    <3>. QED  BY <3>1, <3>2
  <2>. QED  BY <2>1, <2>2
<1>. QED  BY <1>1, InvCorrect, PTL

\* The version in effect does not go back, as long as publications have not
\* overlapped.
THEOREM NoRollbackCorrect == Spec => NoRollback
<1>. DEFINE Forward == \A v \in 0..MaxVersion, w \in 0..MaxVersion :
                         IsEffective(v) /\ IsEffective(w)' => v <= w
<1>1. Inv /\ [Next]_vars => [~overlapped' => Forward]_vars
  <2>. SUFFICES ASSUME Inv, [Next]_vars, ~overlapped',
                       NEW v \in 0..MaxVersion, NEW w \in 0..MaxVersion,
                       IsEffective(v), IsEffective(w)'
                PROVE  v <= w
    OBVIOUS
  <2>. USE ConstantsAssumption DEF IsEffective
  <2>1. CASE Published' = Published
    <3>1. v \in Nat /\ w \in Nat
      OBVIOUS
    <3>2. CASE v = 0
      BY <3>1, <3>2
    <3>3. CASE v \in Published
      <4>1. \A x \in Published' : x <= w
        BY <2>1, <3>3
      <4>. QED  BY <2>1, <3>3, <4>1
    <3>. QED  BY <3>2, <3>3
  <2>2. ASSUME NEW a \in Admin, CommitPublish(a)
        PROVE  v <= w
    <3>1. UnderWay(a) /\ req[a].stage = "written"
      BY <2>2 DEF CommitPublish, UnderWay, Inserts
    <3>2. req[a].hit = Published /\ \A x \in Published : x <= req[a].base
      BY <3>1, OverlapStays DEF Inv, PublishInv
    <3>3. Published' = {req[a].base}
      BY <2>2, <3>2, CommitPublished DEF Inv
    <3>4. w = req[a].base
      BY <3>3
    <3>. QED  BY <3>2, <3>4
  <2>. QED  BY <2>1, <2>2, PublishedStep DEF Inv
<1>. QED  BY <1>1, InvCorrect, PTL DEF Spec, NoRollback
=============================================================================
