--------------------------- MODULE EventStore_proofs ---------------------------
(***************************************************************************)
(* Proofs about RiskEngine and EventStore, for any number of handlers,     *)
(* events and rows of a page.                                              *)
(*                                                                         *)
(* The listing: rows are only added, and never change.  What the listing   *)
(* is due to show and has not shown lies behind its cursor, and a page     *)
(* leaves out only rows behind its last one, which is the next cursor.     *)
(***************************************************************************)
EXTENDS EventStore, FiniteSetTheorems, TLAPS

(***************************************************************************)
(* The risk engine.                                                        *)
(***************************************************************************)

\* Every rule gives a score from 0 to 100.
LEMMA RulesAreCapped ==
  ASSUME NEW c \in RiskContext
  PROVE  /\ DangerousShell(c) \in 0..100 /\ SensitivePath(c) \in 0..100
         /\ Exfiltration(c) \in 0..100 /\ PromptInjection(c) \in 0..100
         /\ Persistence(c) \in 0..100
<1>1. /\ c.commands \in Nat /\ c.paths \in Nat /\ c.injections \in Nat
      /\ c.untrusted \in BOOLEAN /\ c.host \in BOOLEAN /\ c.mail \in BOOLEAN
      /\ c.startup \in BOOLEAN
  BY DEF RiskContext
<1>2. \A n \in Nat : Cap(n) \in 0..100
  BY DEF Cap
<1>3. \A found \in BOOLEAN : \A n \in Nat : Points(found, n) \in Nat
  BY DEF Points
<1>4. DangerousShell(c) \in 0..100
  BY <1>1, <1>2 DEF DangerousShell
<1>5. SensitivePath(c) \in 0..100
  BY <1>1, <1>2 DEF SensitivePath
<1>6. PromptInjection(c) \in 0..100
  BY <1>1, <1>2 DEF PromptInjection
<1>7. Exfiltration(c) \in 0..100
  BY <1>1, <1>2, <1>3 DEF Exfiltration
<1>8. Persistence(c) \in 0..100
  BY <1>1, <1>2 DEF Persistence, Points
<1> QED BY <1>4, <1>5, <1>6, <1>7, <1>8

\* The score of an event lies between 0 and 100, as risk_scorer.py's bands
\* presume, whatever the rules find.
THEOREM ScoreIsBounded ==
  ASSUME NEW c \in RiskContext
  PROVE  Score(c) \in 0..100
<1> DEFINE sum == DangerousShell(c) + SensitivePath(c) + Exfiltration(c) + PromptInjection(c)
                    + Persistence(c)
<1>1. sum \in Nat
  <2>1. /\ DangerousShell(c) \in Nat /\ SensitivePath(c) \in Nat /\ Exfiltration(c) \in Nat
        /\ PromptInjection(c) \in Nat /\ Persistence(c) \in Nat
    BY RulesAreCapped
  <2> QED BY <2>1
<1>2. \A n \in Nat : Cap(n) \in 0..100
  BY DEF Cap
<1>3. Cap(sum) \in 0..100
  BY <1>1, <1>2
<1> QED BY <1>3 DEF Score

\* d is an event of c's kind in which the rules find all they find in c, and
\* maybe more.
AtLeast(d, c) ==
  /\ d.type = c.type /\ d.category = c.category
  /\ c.commands <= d.commands /\ c.paths <= d.paths /\ c.injections <= d.injections
  /\ c.untrusted => d.untrusted
  /\ c.host => d.host
  /\ c.mail => d.mail
  /\ c.startup => d.startup

\* The cap keeps the order.
LEMMA CapIsMonotone ==
  ASSUME NEW m \in Nat, NEW n \in Nat, m <= n
  PROVE  Cap(m) <= Cap(n) /\ Cap(m) \in Nat /\ Cap(n) \in Nat
BY DEF Cap

\* So does what a flag is worth.
LEMMA PointsAreMonotone ==
  ASSUME NEW f \in BOOLEAN, NEW g \in BOOLEAN, f => g, NEW n \in Nat
  PROVE  Points(f, n) <= Points(g, n) /\ Points(f, n) \in Nat /\ Points(g, n) \in Nat
BY DEF Points

\* No rule lets one thing it finds hide another.
LEMMA RulesAreMonotone ==
  ASSUME NEW c \in RiskContext, NEW d \in RiskContext, AtLeast(d, c)
  PROVE  /\ DangerousShell(c) <= DangerousShell(d) /\ SensitivePath(c) <= SensitivePath(d)
         /\ Exfiltration(c) <= Exfiltration(d) /\ PromptInjection(c) <= PromptInjection(d)
         /\ Persistence(c) <= Persistence(d)
<1>1. /\ c.commands \in Nat /\ c.paths \in Nat /\ c.injections \in Nat
      /\ d.commands \in Nat /\ d.paths \in Nat /\ d.injections \in Nat
      /\ c.untrusted \in BOOLEAN /\ c.host \in BOOLEAN /\ c.mail \in BOOLEAN
      /\ c.startup \in BOOLEAN /\ d.untrusted \in BOOLEAN /\ d.host \in BOOLEAN
      /\ d.mail \in BOOLEAN /\ d.startup \in BOOLEAN
  BY DEF RiskContext
<1>2. /\ d.type = c.type /\ d.category = c.category
      /\ c.commands <= d.commands /\ c.paths <= d.paths /\ c.injections <= d.injections
      /\ c.untrusted => d.untrusted
      /\ c.host => d.host
      /\ c.mail => d.mail
      /\ c.startup => d.startup
  BY DEF AtLeast
<1>3. \A m, n \in Nat : m <= n => Cap(m) <= Cap(n) /\ Cap(0) = 0 /\ 0 <= Cap(n)
  BY DEF Cap
<1>4. DangerousShell(c) <= DangerousShell(d)
  <2>1. 60 * c.commands \in Nat /\ 60 * d.commands \in Nat /\ 60 * c.commands <= 60 * d.commands
    BY <1>1, <1>2
  <2> QED BY <1>2, <1>3, <2>1 DEF DangerousShell
<1>5. SensitivePath(c) <= SensitivePath(d)
  <2>1. 40 * c.paths \in Nat /\ 40 * d.paths \in Nat /\ 40 * c.paths <= 40 * d.paths
    BY <1>1, <1>2
  <2> QED BY <1>2, <1>3, <2>1 DEF SensitivePath
<1>6. PromptInjection(c) <= PromptInjection(d)
  <2>1. /\ 30 * c.injections \in Nat /\ 30 * d.injections \in Nat
        /\ 30 * c.injections <= 30 * d.injections
    BY <1>1, <1>2
  <2> QED BY <1>2, <1>3, <2>1 DEF PromptInjection
<1>7. Exfiltration(c) <= Exfiltration(d)
  <2> DEFINE found(x) == 30 + Points(x.host, 40) + Points(x.untrusted, 30) + Points(x.mail, 20)
  <2>1. /\ Points(c.host, 40) <= Points(d.host, 40)
        /\ Points(c.host, 40) \in Nat /\ Points(d.host, 40) \in Nat
    BY <1>1, <1>2, PointsAreMonotone
  <2>2. /\ Points(c.untrusted, 30) <= Points(d.untrusted, 30)
        /\ Points(c.untrusted, 30) \in Nat /\ Points(d.untrusted, 30) \in Nat
    BY <1>1, <1>2, PointsAreMonotone
  <2>3. /\ Points(c.mail, 20) <= Points(d.mail, 20)
        /\ Points(c.mail, 20) \in Nat /\ Points(d.mail, 20) \in Nat
    BY <1>1, <1>2, PointsAreMonotone
  <2>4. found(c) \in Nat /\ found(d) \in Nat /\ found(c) <= found(d)
    BY <2>1, <2>2, <2>3
  <2>5. Cap(found(c)) <= Cap(found(d))
    BY <1>3, <2>4
  <2> QED BY <1>2, <2>5 DEF Exfiltration
<1>8. Persistence(c) <= Persistence(d)
  <2> DEFINE found(x) == Points(x.type \in PersistenceEvent, 30) + Points(x.type \in Install, 20)
                           + Points(x.startup, 20)
             all(x) == found(x) + Points(x.untrusted /\ found(x) > 0, 20)
  <2>1. found(c) \in Nat /\ found(d) \in Nat /\ found(c) <= found(d)
    <3> DEFINE kind == Points(c.type \in PersistenceEvent, 30) + Points(c.type \in Install, 20)
    <3>1. /\ Points(c.startup, 20) \in Nat /\ Points(d.startup, 20) \in Nat
          /\ Points(c.startup, 20) <= Points(d.startup, 20)
      BY <1>1, <1>2, PointsAreMonotone
    <3>2. kind \in Nat
      BY DEF Points
    <3>3. /\ found(c) = kind + Points(c.startup, 20)
          /\ found(d) = kind + Points(d.startup, 20)
      BY <1>2
    <3> HIDE DEF kind, found
    <3> QED BY <3>1, <3>2, <3>3
  <2> HIDE DEF found
  <2>2. all(c) \in Nat /\ all(d) \in Nat /\ all(c) <= all(d)
    BY <1>1, <1>2, <2>1 DEF Points
  <2>3. Cap(all(c)) <= Cap(all(d))
    BY <1>3, <2>2
  <2> QED BY <2>3 DEF Persistence, found
<1> QED BY <1>4, <1>5, <1>6, <1>7, <1>8

\* The rules are summed and capped, so whoever adds a dangerous command or a
\* sensitive path to an event never lowers its score by it.
THEOREM ScoreIsMonotone ==
  ASSUME NEW c \in RiskContext, NEW d \in RiskContext, AtLeast(d, c)
  PROVE  Score(c) <= Score(d)
<1> DEFINE sum(x) == DangerousShell(x) + SensitivePath(x) + Exfiltration(x) + PromptInjection(x)
                       + Persistence(x)
<1>1. \A x \in {c, d} : /\ DangerousShell(x) \in Nat /\ SensitivePath(x) \in Nat
                        /\ Exfiltration(x) \in Nat /\ PromptInjection(x) \in Nat
                        /\ Persistence(x) \in Nat
  BY RulesAreCapped
<1>2. sum(c) \in Nat /\ sum(d) \in Nat /\ sum(c) <= sum(d)
  BY <1>1, RulesAreMonotone
<1>3. Cap(sum(c)) <= Cap(sum(d))
  BY <1>2, CapIsMonotone
<1> QED BY <1>3 DEF Score

LEMMA BandCases ==
  ASSUME NEW s \in Int
  PROVE  /\ Band(s) \in Severity
         /\ s >= 80 <=> Band(s) = "critical"
         /\ s >= 60 /\ s < 80 <=> Band(s) = "high"
         /\ s >= 30 /\ s < 60 <=> Band(s) = "medium"
         /\ s < 30 <=> Band(s) = "low"
BY DEF Band, Severity

\* The two copies of the bands agree.
LEMMA BandsAgree ==
  ASSUME NEW s \in Int
  PROVE  ScoreToSeverity(s) = Band(s)
BY DEF Band, ScoreToSeverity

\* A higher score never has a lower severity.
LEMMA BandIsMonotone ==
  ASSUME NEW s \in Int, NEW t \in Int, s <= t
  PROVE  Level[Band(s)] <= Level[Band(t)]
BY BandCases DEF Level

\* What the ingestion stores, whatever the device reports.
LEMMA StoredFits ==
  ASSUME NEW n \in Int, NEW c \in RiskContext
  PROVE  /\ StoredScore(n, c) \in Nat /\ StoredSeverity(n, c) \in Severity
         /\ Level[StoredSeverity(n, c)] <= Level[Band(StoredScore(n, c))]
         /\ StoredSeverity(n, c) = "low" <=> Band(StoredScore(n, c)) = "low"
<1>1. Score(c) \in 0..100
  BY ScoreIsBounded
<1>2. StoredScore(n, c) \in Nat /\ Score(c) <= StoredScore(n, c)
  BY <1>1 DEF StoredScore
<1>3. CASE Band(Score(c)) = "low"
  <2>1. StoredSeverity(n, c) = Band(StoredScore(n, c))
    BY <1>2, <1>3, BandsAgree DEF StoredSeverity
  <2> QED BY <1>2, <2>1, BandCases, BandIsMonotone
<1>4. CASE Band(Score(c)) # "low"
  <2>1. StoredSeverity(n, c) = Band(Score(c))
    BY <1>4 DEF StoredSeverity
  <2>2. Band(StoredScore(n, c)) # "low"
    BY <1>1, <1>2, <1>4, BandCases
  <2> QED BY <1>1, <1>2, <1>4, <2>1, <2>2, BandCases, BandIsMonotone
<1> QED BY <1>3, <1>4

\* An event in which more is found is not stored with a lower severity, if the
\* device claims no more than the server finds by itself.
THEOREM SeverityIsMonotone ==
  ASSUME NEW c \in RiskContext, NEW d \in RiskContext, AtLeast(d, c),
         NEW n \in Int, n <= Score(c)
  PROVE  Level[StoredSeverity(n, c)] <= Level[StoredSeverity(n, d)]
<1>1. Score(c) \in 0..100 /\ Score(d) \in 0..100 /\ Score(c) <= Score(d)
  BY ScoreIsBounded, ScoreIsMonotone
<1>2. StoredScore(n, c) = Score(c) /\ StoredScore(n, d) = Score(d)
  BY <1>1 DEF StoredScore
<1>3. StoredSeverity(n, c) = Band(Score(c)) /\ StoredSeverity(n, d) = Band(Score(d))
  BY <1>1, <1>2, BandsAgree DEF StoredSeverity
<1>4. Score(c) \in Int /\ Score(d) \in Int
  BY <1>1
<1>5. Level[Band(Score(c))] <= Level[Band(Score(d))]
  BY <1>1, <1>4, BandIsMonotone
<1> QED BY <1>3, <1>5

\* If the device claims more, it can be: its score decides the severity only
\* of an event in which the server finds next to nothing.  A device's 90 makes
\* a file access critical, and one that names a sensitive path medium.
THEOREM SeverityCanFall ==
  \E n \in Int, c \in RiskContext, d \in RiskContext :
    AtLeast(d, c) /\ Level[StoredSeverity(n, d)] < Level[StoredSeverity(n, c)]
<1> DEFINE Access(n) == [type |-> "other", category |-> "file", untrusted |-> FALSE,
                         commands |-> 0, paths |-> n, injections |-> 0,
                         host |-> FALSE, mail |-> FALSE, startup |-> FALSE]
<1>1. \A n \in Nat : Access(n) \in RiskContext
  BY DEF RiskContext, EventType, Category
<1>2. AtLeast(Access(1), Access(0))
  BY DEF AtLeast
<1>3. \A n \in {0, 1} : /\ DangerousShell(Access(n)) = 0 /\ SensitivePath(Access(n)) = 40 * n
                       /\ Exfiltration(Access(n)) = 0 /\ PromptInjection(Access(n)) = 0
                       /\ Persistence(Access(n)) = 0
  BY DEF DangerousShell, SensitivePath, Exfiltration, PromptInjection, Persistence, Points, Cap,
         External, PersistenceEvent, Install
<1>4. Score(Access(0)) = 0 /\ Score(Access(1)) = 40
  BY <1>3 DEF Score, Cap
<1> HIDE DEF Access
<1>5. StoredSeverity(90, Access(0)) = "critical" /\ StoredSeverity(90, Access(1)) = "medium"
  BY <1>4 DEF StoredSeverity, StoredScore, Band, ScoreToSeverity
<1>6. Level["medium"] < Level["critical"]
  BY DEF Level
<1> QED BY <1>1, <1>2, <1>5, <1>6

-----------------------------------------------------------------------------
(***************************************************************************)
(* Types, and keys.                                                        *)
(***************************************************************************)
All == rows \union Flushed

LEMMA ScoredIsRow ==
  ASSUME TypeOK, NEW i \in Id
  PROVE  Scored(i) \in Row
<1>1. Sent[i].reported \in Int /\ Sent[i].context \in RiskContext
  BY StoreAssumption
<1>2. clock \in Time
  BY DEF TypeOK
<1> QED BY <1>1, <1>2, StoredFits DEF Scored, Row

\* A page, field by field.
LEMMA PageFields ==
  ASSUME NEW v \in Listing
  PROVE  LET found == Matching(v.only, v.cursor)
             page == Newest(found, Limit)
             more == Cardinality(found) > Limit
         IN  Page(v) = [kind |-> "listing", stage |-> IF more THEN "open" ELSE "done",
                        only |-> v.only, cursor |-> IF more THEN Oldest(page) ELSE None,
                        shown |-> v.shown \union Ids(page),
                        twice |-> v.twice \union (v.shown \cap Ids(page)), due |-> v.due]
<1> DEFINE found == Matching(v.only, v.cursor)
           page == Newest(found, Limit)
           stage == IF Cardinality(found) > Limit THEN "open" ELSE "done"
           cursor == IF Cardinality(found) > Limit THEN Oldest(page) ELSE None
           shown == v.shown \union Ids(page)
           twice == v.twice \union (v.shown \cap Ids(page))
<1>1. Page(v) = [v EXCEPT !.stage = stage, !.cursor = cursor, !.twice = twice, !.shown = shown]
  BY DEF Page
<1> HIDE DEF stage, cursor, shown, twice
<1>2. Page(v) = [kind |-> "listing", stage |-> stage, only |-> v.only, cursor |-> cursor,
                 shown |-> shown, twice |-> twice, due |-> v.due]
  BY <1>1 DEF Listing
<1> QED BY <1>2 DEF stage, cursor, shown, twice

-----------------------------------------------------------------------------
(***************************************************************************)
(* The order of a listing.                                                 *)
(***************************************************************************)
Base ==
  /\ TypeOK
  /\ IsFiniteSet(rows) /\ \A r \in Request : IsFiniteSet(txn[r])
  /\ KeysAreUnique

\* A finite set has a least element in a strict order.
LEMMA LeastExists ==
  ASSUME NEW S, IsFiniteSet(S), S # {}, NEW R,
         \A x \in S : <<x, x>> \notin R,
         \A x, y, z \in S : <<x, y>> \in R /\ <<y, z>> \in R => <<x, z>> \in R
  PROVE  \E x \in S : \A y \in S : <<y, x>> \notin R
<1> DEFINE Below(x) == {y \in S : <<y, x>> \in R}
           T == {Below(x) : x \in S}
<1>1. T \subseteq FiniteSubsetsOf(S) /\ T # {}
  <2>1. \A x \in S : Below(x) \in SUBSET S /\ IsFiniteSet(Below(x))
    BY FS_Subset
  <2>2. PICK x \in S : TRUE
    OBVIOUS
  <2> HIDE DEF Below
  <2>3. Below(x) \in T
    OBVIOUS
  <2>4. \A U \in T : U \in FiniteSubsetsOf(S)
    BY <2>1 DEF FiniteSubsetsOf
  <2> QED BY <2>3, <2>4
<1>2. PICK U \in T : \A V \in T : <<V, U>> \notin StrictSubsetOrdering(S)
  <2> HIDE DEF T
  <2> QED BY <1>1, FS_StrictSubsetOrderingWellFounded, WFMin
<1>3. PICK x \in S : U = Below(x)
  OBVIOUS
<1>4. ASSUME NEW y \in S, <<y, x>> \in R PROVE FALSE
  <2>1. Below(y) \subseteq Below(x) /\ y \in Below(x) /\ y \notin Below(y)
    BY <1>4
  <2>2. <<Below(y), Below(x)>> \in StrictSubsetOrdering(S)
    BY <2>1 DEF StrictSubsetOrdering
  <2> QED BY <1>2, <1>3, <2>2
<1> QED BY <1>4

\* Rows are ordered strictly, and no two are equal in the order.
LEMMA RowOrder ==
  ASSUME Base
  PROVE  /\ \A x \in rows : ~Before(x, x)
         /\ \A x, y, z \in rows : Before(x, y) /\ Before(y, z) => Before(x, z)
         /\ \A x, y \in rows : x # y => Before(x, y) \/ Before(y, x)
<1>1. \A x \in rows : x.at \in Nat /\ x.id \in Nat
  <2>1. \A x \in rows : x.at \in Time /\ x.id \in Id
    BY DEF Base, TypeOK, Row
  <2>2. \A t \in Time : t \in Nat
    BY StoreAssumption DEF Time
  <2>3. \A i \in Id : i \in Nat
    BY StoreAssumption
  <2> QED BY <2>1, <2>2, <2>3
<1>2. \A x, y \in rows : x.id = y.id => x = y
  BY DEF Base, KeysAreUnique
<1> QED BY <1>1, <1>2 DEF Before

LEMMA OldestIsLast ==
  ASSUME Base, NEW S \in SUBSET rows, S # {}
  PROVE  Oldest(S) \in S /\ \A y \in S \ {Oldest(S)} : Before(y, Oldest(S))
<1> DEFINE R == {p \in rows \X rows : Before(p[2], p[1])}
<1>1. IsFiniteSet(S)
  BY FS_Subset DEF Base
<1>2. \A x, y \in S : <<x, y>> \in R <=> Before(y, x)
  OBVIOUS
<1>3. /\ \A x \in S : <<x, x>> \notin R
      /\ \A x, y, z \in S : <<x, y>> \in R /\ <<y, z>> \in R => <<x, z>> \in R
  BY <1>2, RowOrder
<1> HIDE DEF R
<1>4. PICK x \in S : \A y \in S : <<y, x>> \notin R
  BY <1>1, <1>3, LeastExists
<1>5. \A y \in S \ {x} : Before(y, x)
  BY <1>2, <1>4, RowOrder
<1> QED BY <1>5 DEF Oldest

\* A page holds the newest of what is found, and not nothing.
LEMMA PageCut ==
  ASSUME Base, NEW found \in SUBSET rows
  PROVE  LET page == Newest(found, Limit)
             more == Cardinality(found) > Limit
         IN  /\ page \subseteq found
             /\ ~more => page = found
             /\ more => /\ page # {}
                        /\ \A x \in found \ page : Before(Oldest(page), x)
<1> DEFINE page == Newest(found, Limit)
           above(x) == {y \in found : Before(y, x)}
           R == {p \in rows \X rows : Before(p[1], p[2])}
<1>1. IsFiniteSet(found) /\ Cardinality(found) \in Nat
  BY FS_Subset, FS_CardinalityType DEF Base
<1>2. \A x \in found : IsFiniteSet(above(x)) /\ Cardinality(above(x)) \in Nat
  BY <1>1, FS_Subset, FS_CardinalityType
<1>3. page \subseteq found /\ \A x \in found : x \in page <=> Cardinality(above(x)) < Limit
  BY DEF Newest
<1>4. ASSUME Cardinality(found) <= Limit, NEW x \in found PROVE x \in page
  <2>1. above(x) \in SUBSET found /\ above(x) # found
    BY RowOrder
  <2>2. /\ Cardinality(above(x)) <= Cardinality(found)
        /\ Cardinality(above(x)) # Cardinality(found)
    BY <1>1, <2>1, FS_Subset
  <2> QED BY <1>1, <1>2, <1>3, <1>4, <2>2, StoreAssumption
<1>5. ASSUME Cardinality(found) > Limit
      PROVE  page # {} /\ \A x \in found \ page : Before(Oldest(page), x)
  <2>1. found # {}
    BY <1>5, StoreAssumption, FS_EmptySet
  <2>2. \A x, y \in found : <<x, y>> \in R <=> Before(x, y)
    OBVIOUS
  <2>3. /\ \A x \in found : <<x, x>> \notin R
        /\ \A x, y, z \in found : <<x, y>> \in R /\ <<y, z>> \in R => <<x, z>> \in R
    BY <2>2, RowOrder
  <2> HIDE DEF R
  <2>4. PICK x \in found : \A y \in found : <<y, x>> \notin R
    BY <1>1, <2>1, <2>3, LeastExists
  <2>5. x \in page
    <3>1. above(x) = {}
      BY <2>2, <2>4
    <3> QED BY <1>3, <3>1, FS_EmptySet, StoreAssumption
  <2> DEFINE c == Oldest(page)
  <2>6. c \in page
    BY <1>3, <2>5, OldestIsLast
  <2> HIDE DEF c
  <2>7. ASSUME NEW y \in found \ page PROVE Before(c, y)
    <3>1. ASSUME Before(y, c) PROVE FALSE
      <4>1. above(y) \in SUBSET above(c)
        BY <1>3, <2>6, <3>1, RowOrder
      <4>2. Cardinality(above(y)) <= Cardinality(above(c))
        BY <1>2, <1>3, <2>6, <4>1, FS_Subset
      <4>3. Cardinality(above(c)) < Limit /\ ~(Cardinality(above(y)) < Limit)
        BY <1>3, <2>6, <2>7
      <4>4. Cardinality(above(c)) \in Nat /\ Cardinality(above(y)) \in Nat
        BY <1>2, <1>3, <2>6, <2>7
      <4> HIDE DEF above
      <4> QED BY <4>2, <4>3, <4>4, StoreAssumption
    <3> QED BY <1>3, <2>6, <2>7, <3>1, RowOrder
  <2> QED BY <2>5, <2>7 DEF c
<1> QED BY <1>1, <1>3, <1>4, <1>5, StoreAssumption

-----------------------------------------------------------------------------
(***************************************************************************)
(* The listing.                                                            *)
(***************************************************************************)

\* The invariants of a listing, for any view.
Sound(v) ==
  /\ v.twice \subseteq v.shown /\ v.shown \subseteq Ids(rows)
  /\ \A x \in rows : x.id \in v.twice => \E y \in rows \ {x} : y.at = x.at
  /\ v.stage = "done" => v.due \subseteq v.shown
  /\ v.stage = "open" =>
       /\ v.cursor \in rows
       /\ \A x \in rows : x.id \in v.shown => x.at >= v.cursor.at
       /\ v.due \subseteq v.shown \union Ids(Matching(v.only, v.cursor))

LEMMA SoundListing ==
  StoreInv <=> Base /\ (view.kind = "listing" => Sound(view))
BY DEF StoreInv, Base, Sound, CursorInv, ListingIsComplete, RepeatsAreTies

\* What a page needs: a listing that is open, or has not begun.
Ready(v) ==
  \/ v.cursor = None /\ v.shown = {} /\ v.twice = {} /\ v.due = Ids(Matching(v.only, None))
  \/ v.stage = "open" /\ Sound(v)

LEMMA NoneIsNoRow ==
  ASSUME Base
  PROVE  None \notin rows
<1>1. \A x \in rows : x.id \in Nat
  BY StoreAssumption DEF Base, TypeOK, Row
<1> QED BY <1>1 DEF None

\* A page keeps the invariants.
LEMMA PageSound ==
  ASSUME Base, NEW v \in Listing, Ready(v)
  PROVE  Page(v) \in Listing /\ Page(v).kind = "listing" /\ Sound(Page(v))
<1> DEFINE found == Matching(v.only, v.cursor)
           page == Newest(found, Limit)
           more == Cardinality(found) > Limit
           w == Page(v)
<1>1. /\ w.kind = "listing" /\ w.stage = (IF more THEN "open" ELSE "done") /\ w.only = v.only
      /\ w.cursor = (IF more THEN Oldest(page) ELSE None)
      /\ w.shown = v.shown \union Ids(page) /\ w.due = v.due
      /\ w.twice = v.twice \union (v.shown \cap Ids(page))
  BY PageFields
<1>2. found \in SUBSET rows
  BY DEF Matching, After
<1>3. /\ page \subseteq found
      /\ ~more => page = found
      /\ more => page # {} /\ \A x \in found \ page : Before(Oldest(page), x)
  BY <1>2, PageCut
<1>4. more => Oldest(page) \in page /\ \A y \in page \ {Oldest(page)} : Before(y, Oldest(page))
  BY <1>2, <1>3, OldestIsLast
<1>5. \A x, y \in rows : x.id = y.id => x = y
  BY DEF Base, KeysAreUnique
<1>6. v.shown \subseteq Ids(rows) /\ v.twice \subseteq v.shown
  BY DEF Ready, Sound
<1>7. v.due \subseteq v.shown \union Ids(found)
  BY DEF Ready, Sound
<1>8. \A x \in rows : x.id \in v.shown => v.cursor \in rows /\ x.at >= v.cursor.at
  BY DEF Ready, Sound
<1>9. \A x \in found : v.cursor = None \/ (x.at <= v.cursor.at /\ x # v.cursor)
  BY DEF Matching, After
<1>10. \A x \in rows : x.at \in Nat /\ x.id \in Nat /\ x.id \in Id
  <2>1. \A x \in rows : x.at \in Time /\ x.id \in Id
    BY DEF Base, TypeOK, Row
  <2>2. \A t \in Time : t \in Nat
    BY StoreAssumption DEF Time
  <2>3. \A i \in Id : i \in Nat
    BY StoreAssumption
  <2> QED BY <2>1, <2>2, <2>3
<1>11. v.cursor # None => \A x \in found : x.at <= v.cursor.at /\ x # v.cursor
  BY <1>9
<1>12. v.cursor \in rows => v.cursor # None
  BY NoneIsNoRow
<1> HIDE DEF found, page, w
<1> DEFINE last == Oldest(page)
<1>13. \A x \in rows : x.id \in Ids(page) <=> x \in page
  BY <1>2, <1>3, <1>5 DEF Ids
<1>14. w \in Listing
  <2>1. Ids(page) \subseteq Id
    BY <1>2, <1>3, <1>10 DEF Ids
  <2>2. more => last \in Row
    BY <1>2, <1>3, <1>4 DEF Base, TypeOK
  <2>3. w = [kind |-> "listing", stage |-> IF more THEN "open" ELSE "done",
             only |-> v.only, cursor |-> IF more THEN last ELSE None,
             shown |-> v.shown \union Ids(page),
             twice |-> v.twice \union (v.shown \cap Ids(page)), due |-> v.due]
    BY PageFields DEF w, page, found
  <2> HIDE DEF more, last
  <2> QED BY <2>1, <2>2, <2>3 DEF Listing
<1>15. w.twice \subseteq w.shown /\ w.shown \subseteq Ids(rows)
  <2>1. Ids(page) \subseteq Ids(rows)
    BY <1>2, <1>3 DEF Ids
  <2> QED BY <1>1, <1>6, <2>1
<1>16. ASSUME NEW x \in rows, x.id \in w.twice
       PROVE  \E y \in rows \ {x} : y.at = x.at
  <2>1. CASE x.id \in v.twice
    BY <2>1 DEF Ready, Sound
  <2>2. CASE x.id \in v.shown /\ x \in page
    <3>1. v.cursor \in rows /\ x.at >= v.cursor.at /\ x.at <= v.cursor.at /\ x # v.cursor
      BY <1>3, <1>8, <1>11, <1>12, <2>2
    <3>2. x.at = v.cursor.at
      BY <1>10, <3>1
    <3> QED BY <3>1, <3>2
  <2> QED BY <1>1, <1>13, <1>16, <2>1, <2>2
<1>17. w.stage = "done" => w.due \subseteq w.shown
  BY <1>1, <1>3, <1>7
<1>18. ASSUME w.stage = "open"
       PROVE  /\ w.cursor \in rows
              /\ \A x \in rows : x.id \in w.shown => x.at >= w.cursor.at
              /\ w.due \subseteq w.shown \union Ids(Matching(w.only, w.cursor))
  <2>1. more
    BY <1>1, <1>18
  <2>2. w.cursor = last /\ last \in page /\ last \in found /\ last \in rows
    BY <1>1, <1>2, <1>3, <1>4, <2>1
  <2>3. ASSUME NEW x \in rows, x.id \in w.shown PROVE x.at >= last.at
    <3>1. CASE x.id \in v.shown
      <4>1. v.cursor \in rows /\ x.at >= v.cursor.at /\ last.at <= v.cursor.at
        BY <1>8, <1>11, <1>12, <2>2, <3>1
      <4> QED BY <1>10, <2>2, <4>1
    <3>2. CASE x \in page
      <4>1. x = last \/ Before(x, last)
        BY <1>4, <2>1, <3>2
      <4> QED BY <1>10, <2>2, <4>1 DEF Before
    <3> QED BY <1>1, <1>13, <2>3, <3>1, <3>2
  <2>4. ASSUME NEW x \in found \ page PROVE x \in Matching(w.only, last)
    <3>1. Before(last, x)
      BY <1>3, <2>1, <2>4
    <3>2. x.at <= last.at /\ x.id # last.id /\ x \in rows /\ x.severity \in v.only
      BY <1>2, <1>5, <1>10, <2>2, <2>4, <3>1 DEF Before, found, Matching
    <3> HIDE DEF last
    <3> QED BY <1>1, <3>2 DEF Matching, After
  <2>5. ASSUME NEW i \in w.due
        PROVE  i \in w.shown \union Ids(Matching(w.only, last))
    <3>1. CASE i \in v.shown
      BY <1>1, <3>1
    <3>2. ASSUME NEW x \in found, i = x.id PROVE i \in w.shown \union Ids(Matching(w.only, last))
      <4>1. CASE x \in page
        BY <1>1, <1>2, <1>13, <3>2, <4>1
      <4>2. CASE x \notin page
        <5>1. x \in Matching(w.only, last)
          BY <2>4, <4>2
        <5> QED BY <3>2, <5>1 DEF Ids
      <4> QED BY <4>1, <4>2
    <3> QED BY <1>1, <1>7, <2>5, <3>1, <3>2 DEF Ids
  <2> HIDE DEF last
  <2> QED BY <2>2, <2>3, <2>5
<1> QED BY <1>1, <1>14, <1>15, <1>16, <1>17, <1>18 DEF Sound, w

\* Rows that are added do not disturb a listing.
LEMMA SoundKept ==
  ASSUME Base, Base', rows \subseteq rows', view' = view, Sound(view)
  PROVE  Sound(view)'
<1>1. Ids(rows) \subseteq Ids(rows)'
  BY DEF Ids
<1>2. \A x, y \in rows' : x.id = y.id => x = y
  BY DEF Base, KeysAreUnique
<1>3. ASSUME NEW x \in rows', x.id \in view.shown PROVE x \in rows
  <2>1. PICK y \in rows : y.id = x.id
    BY <1>3 DEF Sound, Ids
  <2> QED BY <1>2, <2>1
<1>4. \A x \in rows' : x.id \in view.twice => \E y \in rows' \ {x} : y.at = x.at
  BY <1>3 DEF Sound
<1>5. Ids(Matching(view.only, view.cursor)) \subseteq Ids(Matching(view.only, view.cursor))'
  <2>1. Matching(view.only, view.cursor) \subseteq Matching(view.only, view.cursor)'
    BY DEF Matching, After
  <2> QED BY <2>1 DEF Ids
<1> QED BY <1>1, <1>3, <1>4, <1>5 DEF Sound

LEMMA BaseFinite ==
  ASSUME Base
  PROVE  \A S \in SUBSET rows : IsFiniteSet(S) /\ Cardinality(S) \in Nat
BY FS_Subset, FS_CardinalityType DEF Base

LEMMA KindOfView ==
  ASSUME TypeOK
  PROVE  /\ view = Nothing => view.kind = "nothing"
         /\ view.kind = "listing" => view \in Listing
         /\ view.kind = "summary" => view \in Summary
BY DEF TypeOK, Nothing, Listing, Summary

LEMMA StoreInit == Init => StoreInv
<1> SUFFICES ASSUME Init PROVE StoreInv
  OBVIOUS
<1>1. TypeOK
  BY StoreAssumption DEF Init, TypeOK, Time
<1>2. IsFiniteSet(rows) /\ \A r \in Request : IsFiniteSet(txn[r])
  BY FS_EmptySet DEF Init
<1>3. KeysAreUnique
  BY DEF Init, KeysAreUnique, Flushed
<1>4. view.kind # "listing"
  BY DEF Init, Nothing
<1> QED BY <1>1, <1>2, <1>3, <1>4, SoundListing DEF Base

\* What an ingestion adds has a key of its own.
LEMMA IngestStep ==
  ASSUME Base, NEW r \in Request, Ingest(r)
  PROVE  Base'
<1>1. PICK i \in Id : /\ i \notin Ids(rows \union Flushed)
                     /\ txn' = [txn EXCEPT ![r] = @ \union {Scored(i)}]
  BY DEF Ingest
<1>2. Scored(i) \in Row /\ Scored(i).id = i
  BY ScoredIsRow DEF Base, Scored
<1>3. UNCHANGED <<clock, rows, native, view>>
  BY DEF Ingest
<1>4. txn \in [Request -> SUBSET Row]
  BY DEF Base, TypeOK
<1> DEFINE new == Scored(i)
<1>5. /\ txn'[r] = txn[r] \union {new}
      /\ \A q \in Request \ {r} : txn'[q] = txn[q]
  BY <1>1, <1>4
<1>6. TypeOK'
  BY <1>1, <1>2, <1>3, <1>4 DEF Base, TypeOK
<1> HIDE DEF new
<1>7. Flushed' = Flushed \union {new}
  BY <1>5 DEF Flushed
<1>8. \A x \in rows \union Flushed : x.id # new.id
  BY <1>1, <1>2 DEF Ids, new
<1>9. \A q \in Request : IsFiniteSet(txn'[q])
  BY <1>5, FS_AddElement DEF Base
<1>10. KeysAreUnique'
  <2>1. \A q \in Request : txn[q] \subseteq Flushed
    BY DEF Flushed
  <2>2. new \notin rows \union Flushed
    BY <1>8
  <2>3. \A x, y \in rows \union Flushed' : x.id = y.id => x = y
    BY <1>7, <1>8 DEF Base, KeysAreUnique
  <2>4. \A p, q \in Request : p # q => txn'[p] \cap txn'[q] = {}
    BY <1>5, <2>1, <2>2 DEF Base, KeysAreUnique
  <2>5. rows \cap Flushed' = {}
    BY <1>7, <2>2 DEF Base, KeysAreUnique
  <2> QED BY <1>3, <2>3, <2>4, <2>5 DEF KeysAreUnique
<1> QED BY <1>3, <1>6, <1>9, <1>10 DEF Base

\* A transaction leaves no row behind when it ends.
LEMMA EndStep ==
  ASSUME Base, NEW r \in Request, TypeOK', txn' = [txn EXCEPT ![r] = {}],
         rows' \in {rows, rows \union txn[r]}
  PROVE  Base'
<1>1. txn \in [Request -> SUBSET Row]
  BY DEF Base, TypeOK
<1>2. txn'[r] = {} /\ \A q \in Request \ {r} : txn'[q] = txn[q]
  BY <1>1
<1>3. Flushed' \subseteq Flushed /\ txn[r] \subseteq Flushed
  BY <1>2 DEF Flushed
<1>4. Flushed' \cap txn[r] = {}
  BY <1>2 DEF Flushed, Base, KeysAreUnique
<1>5. IsFiniteSet(rows')
  BY FS_Union DEF Base
<1>6. \A q \in Request : IsFiniteSet(txn'[q])
  BY <1>2, FS_EmptySet DEF Base
<1>7. \A x, y \in rows' \union Flushed' : x.id = y.id => x = y
  BY <1>3 DEF Base, KeysAreUnique
<1>8. \A p, q \in Request : p # q => txn'[p] \cap txn'[q] = {}
  BY <1>2 DEF Base, KeysAreUnique
<1>9. rows' \cap Flushed' = {}
  BY <1>3, <1>4 DEF Base, KeysAreUnique
<1> QED BY <1>5, <1>6, <1>7, <1>8, <1>9 DEF Base, KeysAreUnique

\* What a reader does to its view.
LEMMA ReadStep ==
  ASSUME StoreInv, Reader
  PROVE  /\ UNCHANGED <<clock, rows, txn, native>>
         /\ view' \in {Nothing} \union Listing \union Summary
         /\ view'.kind = "listing" => view' \in Listing /\ Sound(view')
         /\ view'.kind = "summary" => CountAll \/ CountCritical \/ Average
<1>1. Base /\ (view.kind = "listing" => Sound(view))
  BY SoundListing
<1>2. TypeOK
  BY <1>1 DEF Base
<1>3. CASE Leave
  BY <1>3 DEF Leave, Nothing
<1>4. ASSUME NEW only \in {Severity, {"critical"}}, FirstPage(only)
      PROVE  /\ UNCHANGED <<clock, rows, txn, native>>
             /\ view' \in Listing /\ Sound(view')
  <2> DEFINE v == [kind |-> "listing", stage |-> "open", only |-> only, cursor |-> None,
                   shown |-> {}, twice |-> {}, due |-> Ids(Matching(only, None))]
  <2>1. only \in SUBSET Severity
    BY DEF Severity
  <2>2. Ids(Matching(only, None)) \subseteq Id
    BY <1>2 DEF Ids, Matching, After, TypeOK, Row
  <2>3. v \in Listing
    BY <2>1, <2>2 DEF Listing
  <2>4. Ready(v)
    BY DEF Ready
  <2>5. view' = Page(v) /\ UNCHANGED <<clock, rows, txn, native>>
    BY <1>4 DEF FirstPage
  <2> HIDE DEF v
  <2> QED BY <1>1, <2>3, <2>4, <2>5, PageSound
<1>5. CASE NextPage
  <2>1. view \in Listing /\ Ready(view)
    BY <1>1, <1>2, <1>5, KindOfView DEF NextPage, Ready
  <2> QED BY <1>1, <1>5, <2>1, PageSound DEF NextPage
<1>6. CASE NextPageFails
  <2>1. view \in Listing /\ Sound(view)
    BY <1>1, <1>2, <1>6, KindOfView DEF NextPageFails
  <2>2. view' = [view EXCEPT !.stage = "failed"] /\ UNCHANGED <<clock, rows, txn, native>>
    BY <1>6 DEF NextPageFails
  <2>3. /\ view' \in Listing /\ view'.stage = "failed" /\ view'.shown = view.shown
        /\ view'.twice = view.twice /\ view'.kind = "listing"
    BY <2>1, <2>2 DEF Listing
  <2>4. Sound(view')
    BY <2>1, <2>2, <2>3 DEF Sound
  <2> QED BY <2>2, <2>3, <2>4
<1>7. ASSUME CountAll \/ CountCritical \/ Average
      PROVE  UNCHANGED <<clock, rows, txn, native>> /\ view' \in Summary /\ view'.kind = "summary"
  <2>1. \A t \in Int : Cardinality(Since(t)) \in Nat
    BY <1>1, BaseFinite DEF Since
  <2>2. CASE CountAll
    <3>1. clock - Day \in Int
      BY <1>2, StoreAssumption DEF TypeOK, Time
    <3>2. Cardinality(Since(clock - Day)) \in Nat
      BY <2>1, <3>1
    <3> QED BY <2>2, <3>1, <3>2 DEF CountAll, Summary
  <2>3. CASE CountCritical
    <3>1. view \in Summary
      BY <1>2, <2>3, KindOfView DEF CountCritical
    <3>2. Cardinality({x \in Since(view.since) : x.severity = "critical"}) \in Nat
      BY <1>1, BaseFinite DEF Since
    <3> QED BY <2>3, <3>1, <3>2 DEF CountCritical, Summary
  <2>4. CASE Average
    <3>1. view \in Summary
      BY <1>2, <2>4, KindOfView DEF Average
    <3>2. (\E x \in Since(view.since) : x.score > 0) \in BOOLEAN
      OBVIOUS
    <3> QED BY <2>4, <3>1, <3>2 DEF Average, Summary
  <2> QED BY <1>7, <2>2, <2>3, <2>4
<1>8. \A v \in Listing : v.kind = "listing"
  BY DEF Listing
<1>9. CASE \E only \in {Severity, {"critical"}} : FirstPage(only)
  <2>1. UNCHANGED <<clock, rows, txn, native>> /\ view' \in Listing /\ Sound(view')
    BY <1>4, <1>9
  <2> QED BY <2>1, <1>8
<1>10. CASE CountAll \/ CountCritical \/ Average
  <2>1. UNCHANGED <<clock, rows, txn, native>> /\ view' \in Summary /\ view'.kind = "summary"
    BY <1>7, <1>10
  <2> QED BY <2>1, <1>10
<1> QED BY <1>3, <1>5, <1>6, <1>9, <1>10 DEF Reader

LEMMA CommitStep ==
  ASSUME StoreInv, NEW r \in Request, Commit(r)
  PROVE  /\ Base' /\ rows \subseteq rows'
         /\ view' = view \/ (view'.kind = "summary" /\ view.kind = "summary")
<1>1. Base
  BY SoundListing
<1>2. txn[r] \subseteq Row /\ Cardinality(txn[r]) \in Nat
  BY <1>1, FS_CardinalityType DEF Base, TypeOK
<1>3. rows' = rows \union txn[r] /\ txn' = [txn EXCEPT ![r] = {}] /\ UNCHANGED <<clock, native>>
  BY DEF Commit
<1>4. /\ view' = view \/ (view'.kind = "summary" /\ view.kind = "summary")
      /\ view' \in {Nothing} \union Listing \union Summary
  <2>1. CASE view.kind = "summary"
    <3>1. view \in Summary
      BY <1>1, <2>1, KindOfView DEF Base
    <3>2. view' = [view EXCEPT !.late = @ + Cardinality(txn[r])]
      BY <2>1 DEF Commit
    <3>3. view' \in Summary /\ view'.kind = "summary"
      BY <1>2, <3>1, <3>2 DEF Summary
    <3> QED BY <2>1, <3>3
  <2>2. CASE view.kind # "summary"
    BY <1>1, <2>2 DEF Commit, Base, TypeOK
  <2> QED BY <2>1, <2>2
<1>5. TypeOK'
  BY <1>1, <1>2, <1>3, <1>4 DEF Base, TypeOK
<1> QED BY <1>1, <1>3, <1>4, <1>5, EndStep

LEMMA StoreStep == StoreInv /\ [Next]_vars => StoreInv'
<1> SUFFICES ASSUME StoreInv, [Next]_vars PROVE StoreInv'
  OBVIOUS
<1>1. Base /\ (view.kind = "listing" => Sound(view))
  BY SoundListing
<1>2. Base' /\ (view'.kind = "listing" => Sound(view)') => StoreInv'
  BY SoundListing DEF StoreInv, Base, Sound, CursorInv, ListingIsComplete, RepeatsAreTies
<1>3. ASSUME Base', rows \subseteq rows', view' = view PROVE StoreInv'
  BY <1>1, <1>2, <1>3, SoundKept
<1>4. CASE Tick
  <2>1. TypeOK'
    BY <1>1, <1>4, StoreAssumption DEF Base, TypeOK, Tick, Time
  <2>2. Base'
    BY <1>1, <1>4, <2>1 DEF Base, Tick, KeysAreUnique, Flushed
  <2> QED BY <1>3, <1>4, <2>2 DEF Tick
<1>5. ASSUME NEW r \in Request, Ingest(r) PROVE StoreInv'
  BY <1>1, <1>3, <1>5, IngestStep DEF Ingest
<1>6. ASSUME NEW r \in Request, Commit(r) PROVE StoreInv'
  BY <1>2, <1>3, <1>6, CommitStep
<1>7. ASSUME NEW r \in Request, Rollback(r) PROVE StoreInv'
  <2>1. TypeOK'
    BY <1>1, <1>7 DEF Base, TypeOK, Rollback
  <2>2. Base'
    BY <1>1, <1>7, <2>1, EndStep DEF Rollback
  <2> QED BY <1>3, <1>7, <2>2 DEF Rollback
<1>8. CASE Reader
  <2>1. /\ UNCHANGED <<clock, rows, txn, native>>
        /\ view' \in {Nothing} \union Listing \union Summary
        /\ view'.kind = "listing" => Sound(view')
    BY <1>8, ReadStep
  <2>2. Base'
    BY <1>1, <2>1 DEF Base, TypeOK, KeysAreUnique, Flushed
  <2>3. view'.kind = "listing" => Sound(view)'
    BY <2>1 DEF Sound, Matching, After
  <2> QED BY <1>2, <2>2, <2>3
<1>9. CASE UNCHANGED vars
  <2>1. Base'
    BY <1>1, <1>9 DEF vars, Base, TypeOK, KeysAreUnique, Flushed
  <2> QED BY <1>3, <1>9, <2>1 DEF vars
<1> QED BY <1>4, <1>5, <1>6, <1>7, <1>8, <1>9 DEF Next

-----------------------------------------------------------------------------
(***************************************************************************)
(* The theorems.                                                           *)
(***************************************************************************)

LEMMA StoreCorrect == Spec => []StoreInv
BY StoreInit, StoreStep, PTL DEF Spec

\* Every variable keeps its type.
THEOREM TypeCorrect == Spec => []TypeOK
<1>1. StoreInv => TypeOK
  BY DEF StoreInv
<1> QED BY <1>1, StoreCorrect, PTL

\* Cursor pagination skips no event that was committed when the listing began.
THEOREM ListingIsCompleteCorrect == Spec => []ListingIsComplete
<1>1. StoreInv => ListingIsComplete
  BY DEF StoreInv
<1> QED BY <1>1, StoreCorrect, PTL

\* Only events that share their timestamp with others are shown twice.
THEOREM RepeatsAreTiesCorrect == Spec => []RepeatsAreTies
<1>1. StoreInv => RepeatsAreTies
  BY DEF StoreInv
<1> QED BY <1>1, StoreCorrect, PTL

\* A page that is not the last has more rows behind its cursor than can share
\* one timestamp with it.
LEMMA PageGoesBack ==
  ASSUME StoreInv, NextPage
  PROVE  LongTie \/ view'.stage = "done" \/ view'.cursor.at < view.cursor.at
<1> DEFINE k == view.cursor
           found == Matching(view.only, k)
           page == Newest(found, Limit)
           c == Oldest(page)
           tie == {x \in rows : x.at = k.at}
           above(x) == {y \in found : Before(y, x)}
           R == {p \in rows \X rows : Before(p[1], p[2])}
<1> SUFFICES ASSUME ~LongTie, view'.stage # "done"
             PROVE  view'.cursor.at < k.at
  OBVIOUS
<1>1. Base /\ view \in Listing /\ Sound(view) /\ view.stage = "open"
  <2>1. Base /\ TypeOK /\ (view.kind = "listing" => Sound(view))
    BY SoundListing DEF Base
  <2> QED BY <2>1, KindOfView DEF NextPage
<1>2. k \in rows /\ k # None
  BY <1>1, NoneIsNoRow DEF Sound
<1>3. \A x \in rows : x.at \in Time /\ x.at \in Nat
  <2>1. \A x \in rows : x.at \in Time
    BY <1>1 DEF Base, TypeOK, Row
  <2> QED BY <2>1, StoreAssumption DEF Time
<1>4. found \in SUBSET rows /\ \A x \in found : x.at <= k.at /\ x # k
  BY <1>2 DEF Matching, After
<1>5. IsFiniteSet(rows) /\ IsFiniteSet(found) /\ IsFiniteSet(tie)
  BY <1>1, <1>4, FS_Subset DEF Base
<1>6. Cardinality(tie) \in Nat /\ Cardinality(tie) <= Limit
  <2>1. ~(Cardinality(tie) > Limit)
    BY <1>2, <1>3 DEF LongTie
  <2> QED BY <1>5, <2>1, FS_CardinalityType, StoreAssumption
<1>7. Cardinality(found) > Limit /\ view'.cursor = c
  BY <1>1, PageFields DEF NextPage
<1>8. page \subseteq found /\ page # {}
  BY <1>1, <1>4, <1>7, PageCut
<1>9. c \in page /\ \A y \in page \ {c} : Before(y, c)
  BY <1>1, <1>4, <1>8, OldestIsLast
<1>10. \A x \in found : x \in page <=> Cardinality(above(x)) < Limit
  BY DEF Newest
<1> HIDE DEF found, page, c, k
<1>11. SUFFICES ASSUME c.at >= k.at PROVE FALSE
  BY <1>2, <1>3, <1>4, <1>7, <1>8, <1>9
<1>12. page \subseteq tie \ {k}
  <2> SUFFICES ASSUME NEW y \in page PROVE y \in tie \ {k}
    OBVIOUS
  <2>1. y.at >= c.at
    BY <1>3, <1>4, <1>8, <1>9 DEF Before
  <2>2. y \in rows /\ y # k /\ y.at <= k.at /\ y.at \in Nat /\ c.at \in Nat /\ k.at \in Nat
    BY <1>2, <1>3, <1>4, <1>8, <1>9
  <2> QED BY <1>11, <2>1, <2>2
<1>13. k \in tie /\ IsFiniteSet(tie \ {k}) /\ Cardinality(tie \ {k}) = Cardinality(tie) - 1
  BY <1>2, <1>5, FS_RemoveElement
<1>14. \A S : S \subseteq tie \ {k} => Cardinality(S) \in Nat /\ Cardinality(S) < Limit
  BY <1>6, <1>13, FS_Subset, FS_CardinalityType, StoreAssumption
<1>15. CASE found \subseteq page
  BY <1>7, <1>8, <1>12, <1>14, <1>15, StoreAssumption
<1>16. CASE ~(found \subseteq page)
  <2>1. \A x, y \in found : <<x, y>> \in R <=> Before(x, y)
    BY <1>4
  <2>2. /\ \A x \in found : <<x, x>> \notin R
        /\ \A x, y, z \in found : <<x, y>> \in R /\ <<y, z>> \in R => <<x, z>> \in R
    BY <1>1, <1>4, <2>1, RowOrder
  <2> HIDE DEF R
  <2>3. IsFiniteSet(found \ page) /\ found \ page # {}
    BY <1>5, <1>16, FS_Subset
  <2>4. PICK x \in found \ page : \A y \in found \ page : <<y, x>> \notin R
    BY <2>2, <2>3, LeastExists
  <2>5. above(x) \subseteq page
    BY <2>1, <2>4
  <2>6. Cardinality(above(x)) < Limit
    BY <1>12, <1>14, <2>5
  <2> QED BY <1>10, <2>4, <2>6
<1> QED BY <1>15, <1>16

\* A listing cannot go on for ever where no more events share a timestamp than
\* a page holds: each page that is not the last reaches an earlier time.
THEOREM PagesGoBackCorrect == Spec => PagesGoBack
<1>1. StoreInv /\ [Next]_vars
        => [NextPage => LongTie \/ view'.stage = "done" \/ view'.cursor.at < view.cursor.at]_vars
  BY PageGoesBack
<1> QED BY <1>1, StoreCorrect, PTL DEF Spec, PagesGoBack

\* The severity of a stored event is never above that of its score, and low
\* only if that is.
THEOREM SeverityFitsCorrect == Spec => []SeverityFits
<1>1. Init => SeverityFits
  BY DEF Init, SeverityFits, Flushed
<1>2. StoreInv /\ SeverityFits /\ [Next]_vars => SeverityFits'
  <2> SUFFICES ASSUME StoreInv, SeverityFits, [Next]_vars PROVE SeverityFits'
    OBVIOUS
  <2>1. ASSUME (rows \union Flushed)' \subseteq rows \union Flushed PROVE SeverityFits'
    BY <2>1 DEF SeverityFits
  <2>2. ASSUME NEW r \in Request, Ingest(r) PROVE SeverityFits'
    <3>1. PICK i \in Id : txn' = [txn EXCEPT ![r] = @ \union {Scored(i)}]
      BY <2>2 DEF Ingest
    <3>2. txn \in [Request -> SUBSET Row] /\ rows' = rows
      BY <2>2 DEF StoreInv, TypeOK, Ingest
    <3>3. (rows \union Flushed)' \subseteq rows \union Flushed \union {Scored(i)}
      BY <3>1, <3>2 DEF Flushed
    <3>4. /\ Level[Scored(i).severity] <= Level[Band(Scored(i).score)]
          /\ Scored(i).severity = "low" <=> Band(Scored(i).score) = "low"
      <4>1. Sent[i].reported \in Int /\ Sent[i].context \in RiskContext
        BY StoreAssumption
      <4> QED BY <4>1, StoredFits DEF Scored
    <3> QED BY <3>3, <3>4 DEF SeverityFits
  <2>3. ASSUME NEW r \in Request, Commit(r) \/ Rollback(r)
        PROVE  (rows \union Flushed)' \subseteq rows \union Flushed
    <3>1. txn \in [Request -> SUBSET Row]
      BY DEF StoreInv, TypeOK
    <3> QED BY <2>3, <3>1 DEF Commit, Rollback, Flushed
  <2>4. ASSUME UNCHANGED <<rows, txn>>
        PROVE  (rows \union Flushed)' \subseteq rows \union Flushed
    BY <2>4 DEF Flushed
  <2>5. Tick \/ Reader \/ UNCHANGED vars => UNCHANGED <<rows, txn>>
    BY ReadStep DEF Tick, vars
  <2> QED BY <2>1, <2>2, <2>3, <2>4, <2>5 DEF Next
<1> QED BY <1>1, <1>2, StoreCorrect, PTL DEF Spec

\* What the later figures of a summary may count: no more than the first, and
\* what was committed since.
SummaryInv ==
  view.kind = "summary" =>
    /\ Cardinality(Since(view.since)) <= view.total + view.late
    /\ view.critical <= view.total + view.late
    /\ view.risky => view.total + view.late > 0

\* The figures of a summary agree but for what was committed between them.
THEOREM SummaryAgreesCorrect == Spec => []SummaryAgrees
<1>1. Init => SummaryInv
  BY DEF Init, SummaryInv, Nothing
<1>2. StoreInv /\ SummaryInv /\ [Next]_vars => SummaryInv'
  <2> SUFFICES ASSUME StoreInv, SummaryInv, [Next]_vars PROVE SummaryInv'
    OBVIOUS
  <2>1. Base /\ TypeOK
    BY SoundListing DEF Base
  <2>2. view.kind = "summary" => view \in Summary
    BY <2>1, KindOfView
  <2>3. \A t : Cardinality(Since(t)) \in Nat
    BY <2>1, BaseFinite DEF Since
  <2>4. ASSUME UNCHANGED <<rows, view>> PROVE SummaryInv'
    BY <2>4 DEF SummaryInv, Since
  <2>5. ASSUME view'.kind # "summary" PROVE SummaryInv'
    BY <2>5 DEF SummaryInv
  <2>6. ASSUME NEW r \in Request, Commit(r), view.kind = "summary" PROVE SummaryInv'
    <3> DEFINE n == Cardinality(txn[r])
               old == Cardinality(Since(view.since))
    <3>1. IsFiniteSet(txn[r]) /\ n \in Nat
      BY <2>1, FS_CardinalityType DEF Base
    <3>2. view' = [view EXCEPT !.late = @ + n] /\ rows' = rows \union txn[r]
      BY <2>6 DEF Commit
    <3>3. /\ view'.late = view.late + n /\ view'.since = view.since /\ view'.total = view.total
          /\ view'.critical = view.critical /\ view'.risky = view.risky
          /\ view.late \in Nat /\ view.total \in Nat /\ view.critical \in Nat
      BY <2>2, <2>6, <3>2 DEF Summary
    <3>4. Cardinality(Since(view.since)') <= old + n
      <4> DEFINE S == Since(view.since)
                 U == {x \in txn[r] : x.at >= view.since}
      <4>1. Since(view.since)' = S \union U
        BY <3>2, <3>3 DEF Since
      <4>2. IsFiniteSet(S) /\ Cardinality(S) \in Nat
        BY <2>1, BaseFinite DEF Since
      <4>3. IsFiniteSet(U) /\ Cardinality(U) <= n /\ Cardinality(U) \in Nat
        BY <3>1, FS_Subset, FS_CardinalityType
      <4>4. IsFiniteSet(S \cap U) /\ Cardinality(S \cap U) \in Nat
        BY <4>2, FS_Subset, FS_CardinalityType
      <4> HIDE DEF S, U
      <4>5. Cardinality(S \union U) = Cardinality(S) + Cardinality(U) - Cardinality(S \cap U)
        BY <4>2, <4>3, FS_Union
      <4> QED BY <3>1, <4>1, <4>2, <4>3, <4>4, <4>5 DEF S
    <3>5. Cardinality(Since(view.since)') \in Nat /\ old \in Nat
      <4>1. IsFiniteSet(rows')
        BY <2>1, <3>1, <3>2, FS_Union DEF Base
      <4>2. Since(view.since)' \subseteq rows'
        BY DEF Since
      <4> QED BY <2>3, <4>1, <4>2, FS_Subset, FS_CardinalityType
    <3> HIDE DEF n, old
    <3>6. /\ old <= view.total + view.late /\ view.critical <= view.total + view.late
          /\ view.risky => view.total + view.late > 0
      BY <2>6 DEF SummaryInv, old
    <3> QED BY <3>1, <3>3, <3>4, <3>5, <3>6 DEF SummaryInv
  <2>7. CASE CountAll
    <3>1. /\ view'.total = Cardinality(Since(clock - Day)) /\ view'.since = clock - Day
          /\ view'.late = 0 /\ view'.critical = 0 /\ view'.risky = FALSE /\ rows' = rows
      BY <2>7 DEF CountAll
    <3>2. Since(view.since)' = Since(clock - Day)
      BY <3>1 DEF Since
    <3> QED BY <2>3, <3>1, <3>2 DEF SummaryInv
  <2>8. CASE CountCritical
    <3>1. view \in Summary /\ view.kind = "summary"
      BY <2>2, <2>8 DEF CountCritical
    <3>2. /\ view'.total = view.total /\ view'.since = view.since /\ view'.late = view.late
          /\ view'.critical = Cardinality({x \in Since(view.since) : x.severity = "critical"})
          /\ view'.risky = view.risky /\ rows' = rows
      BY <2>8, <3>1 DEF CountCritical, Summary
    <3>3. /\ view'.critical \in Nat
          /\ view'.critical <= Cardinality(Since(view.since))
      <4>1. IsFiniteSet(Since(view.since))
        BY <2>1, BaseFinite DEF Since
      <4> QED BY <3>2, <4>1, FS_Subset, FS_CardinalityType
    <3>4. Since(view.since)' = Since(view.since)
      BY <3>2 DEF Since
    <3>5. view.total \in Nat /\ view.late \in Nat
      BY <3>1 DEF Summary
    <3> QED BY <2>3, <3>1, <3>2, <3>3, <3>4, <3>5 DEF SummaryInv
  <2>9. CASE Average
    <3>1. view \in Summary /\ view.kind = "summary"
      BY <2>2, <2>9 DEF Average
    <3>2. /\ view'.total = view.total /\ view'.since = view.since /\ view'.late = view.late
          /\ view'.critical = view.critical /\ rows' = rows
          /\ view'.risky => Since(view.since) # {}
      BY <2>9, <3>1 DEF Average, Summary
    <3>3. Since(view.since) # {} => Cardinality(Since(view.since)) > 0
      <4>1. IsFiniteSet(Since(view.since))
        BY <2>1, BaseFinite DEF Since
      <4> QED BY <2>3, <4>1, FS_EmptySet
    <3>4. Since(view.since)' = Since(view.since)
      BY <3>2 DEF Since
    <3>5. view.total \in Nat /\ view.late \in Nat
      BY <3>1 DEF Summary
    <3> QED BY <2>3, <3>1, <3>2, <3>3, <3>4, <3>5 DEF SummaryInv
  <2>10. ASSUME NEW r \in Request, Commit(r), view.kind # "summary" PROVE SummaryInv'
    BY <2>5, <2>10 DEF Commit
  <2>11. ASSUME Reader, view'.kind = "summary" PROVE CountAll \/ CountCritical \/ Average
    BY <2>11, ReadStep
  <2>12. ASSUME NEW r \in Request, Ingest(r) \/ Rollback(r) PROVE UNCHANGED <<rows, view>>
    BY <2>12 DEF Ingest, Rollback
  <2>13. ASSUME Tick \/ UNCHANGED vars PROVE UNCHANGED <<rows, view>>
    BY <2>13 DEF Tick, vars
  <2> QED BY <2>4, <2>5, <2>6, <2>7, <2>8, <2>9, <2>10, <2>11, <2>12, <2>13
          DEF Next
<1>3. SummaryInv => SummaryAgrees
  BY DEF SummaryInv, SummaryAgrees
<1> QED BY <1>1, <1>2, <1>3, StoreCorrect, PTL DEF Spec
=============================================================================
