------------------------ MODULE EventDelivery_proofs ------------------------
(***************************************************************************)
(* Theorems about EventDelivery, for every set of events and connections   *)
(* and every bound.  TLC's runs check the same formulas on small           *)
(* instances.                                                              *)
(***************************************************************************)
EXTENDS EventDelivery, SequenceTheorems, TLAPS

-----------------------------------------------------------------------------
(***************************************************************************)
(* Sequences: what Append, \o, Take and Drop do to the elements.           *)
(***************************************************************************)

\* Appending adds one element, the last.
LEMMA ElemsAppend ==
  ASSUME NEW S, NEW s \in Seq(S), NEW e \in S
  PROVE  /\ Append(s, e) \in Seq(S)
         /\ Elems(Append(s, e)) = Elems(s) \union {e}
         /\ Distinct(s) /\ e \notin Elems(s) => Distinct(Append(s, e))
<1>1. /\ Append(s, e) \in Seq(S)
      /\ Len(Append(s, e)) = Len(s) + 1
      /\ \A i \in 1..Len(s) : Append(s, e)[i] = s[i]
      /\ Append(s, e)[Len(s) + 1] = e
  BY AppendProperties
<1>2. Len(s) \in Nat
  BY LenProperties
<1>3. 1..Len(Append(s, e)) = (1..Len(s)) \union {Len(s) + 1}
  BY <1>1, <1>2
<1>4. Elems(Append(s, e)) = Elems(s) \union {e}
  BY <1>1, <1>3 DEF Elems
<1>5. ASSUME Distinct(s), e \notin Elems(s)
      PROVE  Distinct(Append(s, e))
  BY <1>1, <1>2, <1>3, <1>5 DEF Distinct, Elems
<1> QED BY <1>1, <1>4, <1>5

\* A concatenation has the elements of both parts, and each of them once if
\* the parts are disjoint and have no repetition of their own.
LEMMA ElemsConcat ==
  ASSUME NEW S, NEW s \in Seq(S), NEW t \in Seq(S)
  PROVE  /\ s \o t \in Seq(S)
         /\ Elems(s \o t) = Elems(s) \union Elems(t)
         /\ Distinct(s) /\ Distinct(t) /\ Elems(s) \cap Elems(t) = {}
              => Distinct(s \o t)
<1>1. /\ s \o t \in Seq(S)
      /\ Len(s \o t) = Len(s) + Len(t)
      /\ \A i \in 1..Len(s) + Len(t) :
           (s \o t)[i] = IF i <= Len(s) THEN s[i] ELSE t[i - Len(s)]
  BY ConcatProperties
<1>2. Len(s) \in Nat /\ Len(t) \in Nat
  BY LenProperties
<1>3. Elems(s \o t) \subseteq Elems(s) \union Elems(t)
  <2> SUFFICES ASSUME NEW i \in 1..Len(s) + Len(t)
               PROVE  (s \o t)[i] \in Elems(s) \union Elems(t)
    BY <1>1 DEF Elems
  <2>1. CASE i <= Len(s)
    BY <2>1, <1>1, <1>2 DEF Elems
  <2>2. CASE i > Len(s)
    <3>1. i - Len(s) \in 1..Len(t)
      BY <2>2, <1>2
    <3> QED BY <3>1, <2>2, <1>1, <1>2 DEF Elems
  <2> QED BY <2>1, <2>2, <1>2
<1>4. Elems(s) \subseteq Elems(s \o t)
  <2> SUFFICES ASSUME NEW i \in 1..Len(s)
               PROVE  s[i] \in Elems(s \o t)
    BY DEF Elems
  <2>1. i \in 1..Len(s) + Len(t) /\ (s \o t)[i] = s[i]
    BY <1>1, <1>2
  <2> QED BY <2>1, <1>1 DEF Elems
<1>5. Elems(t) \subseteq Elems(s \o t)
  <2> SUFFICES ASSUME NEW i \in 1..Len(t)
               PROVE  t[i] \in Elems(s \o t)
    BY DEF Elems
  <2>1. Len(s) + i \in 1..Len(s) + Len(t) /\ ~(Len(s) + i <= Len(s)) /\ (Len(s) + i) - Len(s) = i
    BY <1>2
  <2>2. (s \o t)[Len(s) + i] = t[i]
    BY <2>1, <1>1
  <2> QED BY <2>1, <2>2, <1>1 DEF Elems
<1>6. ASSUME Distinct(s), Distinct(t), Elems(s) \cap Elems(t) = {}
      PROVE  Distinct(s \o t)
  <2> SUFFICES ASSUME NEW i \in 1..Len(s) + Len(t), NEW j \in 1..Len(s) + Len(t),
                      (s \o t)[i] = (s \o t)[j]
               PROVE  i = j
    BY <1>1 DEF Distinct
  <2>1. CASE i <= Len(s) /\ j <= Len(s)
    BY <2>1, <1>1, <1>2, <1>6 DEF Distinct
  <2>2. CASE i > Len(s) /\ j > Len(s)
    <3>1. i - Len(s) \in 1..Len(t) /\ j - Len(s) \in 1..Len(t)
      BY <2>2, <1>2
    <3>2. t[i - Len(s)] = t[j - Len(s)]
      BY <2>2, <1>1, <1>2
    <3>3. i - Len(s) = j - Len(s)
      BY <3>1, <3>2, <1>6 DEF Distinct
    <3> QED BY <3>3, <1>2
  <2>3. CASE i <= Len(s) /\ j > Len(s)
    <3>1. j - Len(s) \in 1..Len(t) /\ i \in 1..Len(s)
      BY <2>3, <1>2
    <3>2. s[i] = t[j - Len(s)]
      BY <2>3, <1>1, <1>2
    <3> QED BY <3>1, <3>2, <1>6 DEF Elems
  <2>4. CASE i > Len(s) /\ j <= Len(s)
    <3>1. i - Len(s) \in 1..Len(t) /\ j \in 1..Len(s)
      BY <2>4, <1>2
    <3>2. s[j] = t[i - Len(s)]
      BY <2>4, <1>1, <1>2
    <3> QED BY <3>1, <3>2, <1>6 DEF Elems
  <2> QED BY <2>1, <2>2, <2>3, <2>4, <1>2
<1> QED BY <1>1, <1>3, <1>4, <1>5, <1>6

\* Take and Drop cut a sequence in two.
LEMMA TakeDrop ==
  ASSUME NEW S, NEW s \in Seq(S), NEW n \in 0..Len(s)
  PROVE  /\ Take(s, n) \in Seq(S)
         /\ Len(Take(s, n)) = n
         /\ \A i \in 1..n : Take(s, n)[i] = s[i]
         /\ Drop(s, n) \in Seq(S)
         /\ Len(Drop(s, n)) = Len(s) - n
         /\ \A i \in 1..Len(s) - n : Drop(s, n)[i] = s[n + i]
<1>1. Len(s) \in Nat
  BY LenProperties
<1>2. 1 \in 1..Len(s) + 1 /\ n \in 0..Len(s) /\ \A i \in 1..n : i \in 1..Len(s) /\ i \in Int
  BY <1>1
<1>3. Take(s, n) \in Seq(S) /\ Len(Take(s, n)) = n
  BY <1>1, <1>2, SubSeqProperties DEF Take
<1>4. \A i \in 1..n : Take(s, n)[i] = s[i]
  BY <1>1, <1>2, SubSeqProperties DEF Take
<1>5. Drop(s, n) \in Seq(S) /\ Len(Drop(s, n)) = Len(s) - n
  BY <1>1, <1>2, SubSeqProperties DEF Drop
<1>6. \A i \in 1..Len(s) - n : Drop(s, n)[i] = s[n + i]
  BY <1>1, <1>2, SubSeqProperties DEF Drop
<1> QED BY <1>3, <1>4, <1>5, <1>6

\* The two parts have the elements of the whole, and no repetition if it has
\* none.
LEMMA ElemsTakeDrop ==
  ASSUME NEW S, NEW s \in Seq(S), NEW n \in 0..Len(s)
  PROVE  /\ Elems(s) = Elems(Take(s, n)) \union Elems(Drop(s, n))
         /\ Distinct(s) => /\ Distinct(Take(s, n))
                           /\ Distinct(Drop(s, n))
                           /\ Elems(Take(s, n)) \cap Elems(Drop(s, n)) = {}
<1> DEFINE t == Take(s, n)
           d == Drop(s, n)
<1>1. /\ Len(s) \in Nat /\ n \in 0..Len(s)
      /\ Len(t) = n /\ \A i \in 1..n : t[i] = s[i]
      /\ Len(d) = Len(s) - n /\ \A i \in 1..Len(s) - n : d[i] = s[n + i]
  BY TakeDrop, LenProperties
<1> HIDE DEF t, d
<1>2. Elems(s) \subseteq Elems(t) \union Elems(d)
  <2> SUFFICES ASSUME NEW i \in 1..Len(s)
               PROVE  s[i] \in Elems(t) \union Elems(d)
    BY DEF Elems
  <2>1. CASE i <= n
    BY <2>1, <1>1 DEF Elems
  <2>2. CASE i > n
    <3>1. i - n \in 1..Len(s) - n /\ n + (i - n) = i
      BY <2>2, <1>1
    <3> QED BY <3>1, <1>1 DEF Elems
  <2> QED BY <2>1, <2>2, <1>1
<1>3. Elems(t) \union Elems(d) \subseteq Elems(s)
  <2>1. ASSUME NEW i \in 1..n PROVE t[i] \in Elems(s)
    BY <1>1 DEF Elems
  <2>2. ASSUME NEW i \in 1..Len(s) - n PROVE d[i] \in Elems(s)
    <3>1. n + i \in 1..Len(s)
      BY <1>1
    <3> QED BY <3>1, <1>1 DEF Elems
  <2> QED BY <2>1, <2>2, <1>1 DEF Elems
<1>4. ASSUME Distinct(s)
      PROVE  Distinct(t) /\ Distinct(d) /\ Elems(t) \cap Elems(d) = {}
  <2>1. Distinct(t)
    BY <1>1, <1>4 DEF Distinct
  <2>2. Distinct(d)
    <3> SUFFICES ASSUME NEW i \in 1..Len(s) - n, NEW j \in 1..Len(s) - n, d[i] = d[j]
                 PROVE  i = j
      BY <1>1 DEF Distinct
    <3>1. n + i \in 1..Len(s) /\ n + j \in 1..Len(s) /\ s[n + i] = s[n + j]
      BY <1>1
    <3>2. n + i = n + j
      BY <3>1, <1>4 DEF Distinct
    <3> QED BY <3>2, <1>1
  <2>3. ASSUME NEW i \in 1..n, NEW j \in 1..Len(s) - n, t[i] = d[j]
        PROVE  FALSE
    <3>1. i \in 1..Len(s) /\ n + j \in 1..Len(s) /\ s[i] = s[n + j] /\ i # n + j
      BY <1>1, <2>3
    <3> QED BY <3>1, <1>4 DEF Distinct
  <2> QED BY <2>1, <2>2, <2>3, <1>1 DEF Elems
<1> QED BY <1>2, <1>3, <1>4 DEF t, d

-----------------------------------------------------------------------------
(***************************************************************************)
(* Type correctness.                                                       *)
(***************************************************************************)

LEMMA InitType == Init => TypeOK
BY ConstantsAssumption DEF Init, TypeOK, Idle

\* A finite prefix or suffix of the queue, as flush and the restart build it,
\* is again a sequence of events.
LEMMA CutType ==
  ASSUME NEW q \in Seq(Event), NEW n \in 0..Len(q)
  PROVE  Take(q, n) \in Seq(Event) /\ Drop(q, n) \in Seq(Event)
BY TakeDrop

\* The record update of one handler keeps the handlers' type.
LEMMA HandlerType ==
  ASSUME TypeOK, NEW c \in Conn, NEW b \in Seq(Event),
         NEW st \in {"none", "posted", "flushed", "replied"}
  PROVE  /\ [handler EXCEPT ![c] = Idle]
              \in [Conn -> [st : {"none", "posted", "flushed", "replied"}, batch : Seq(Event)]]
         /\ [handler EXCEPT ![c] = [st |-> st, batch |-> b]]
              \in [Conn -> [st : {"none", "posted", "flushed", "replied"}, batch : Seq(Event)]]
         /\ [handler EXCEPT ![c].st = st]
              \in [Conn -> [st : {"none", "posted", "flushed", "replied"}, batch : Seq(Event)]]
<1>1. Idle \in [st : {"none", "posted", "flushed", "replied"}, batch : Seq(Event)]
  BY DEF Idle
<1>2. [st |-> st, batch |-> b] \in [st : {"none", "posted", "flushed", "replied"}, batch : Seq(Event)]
  OBVIOUS
<1>3. handler[c] \in [st : {"none", "posted", "flushed", "replied"}, batch : Seq(Event)]
  BY DEF TypeOK
<1>4. [handler[c] EXCEPT !.st = st] \in [st : {"none", "posted", "flushed", "replied"}, batch : Seq(Event)]
  BY <1>3
<1> QED BY <1>1, <1>2, <1>4 DEF TypeOK

\* What a flush that was accepted leaves behind.
LEMMA AcceptedType ==
  ASSUME TypeOK, FlightInv, reply = "ok"
  PROVE  /\ conn \in Conn
         /\ Len(sending) \in 1..Len(queue)
         /\ Drop(queue, Len(sending)) \in Seq(Event)
         /\ sending[Len(sending)] \in Event
<1>1. conn \in Conn /\ sending # <<>> /\ Len(sending) <= Len(queue)
  BY DEF TypeOK, FlightInv, SnapshotIsHead
<1>2. Len(sending) \in Nat /\ Len(queue) \in Nat /\ Len(sending) # 0
  BY <1>1, LenProperties, EmptySeq DEF TypeOK
<1>3. Len(sending) \in 1..Len(queue) /\ Len(sending) \in 0..Len(queue)
  BY <1>1, <1>2
<1>4. Drop(queue, Len(sending)) \in Seq(Event)
  BY <1>3, CutType DEF TypeOK
<1>5. sending[Len(sending)] \in Event
  BY <1>2, ElementOfSeq DEF TypeOK
<1> QED BY <1>1, <1>3, <1>4, <1>5

LEMMA TypeStep ==
  ASSUME TypeOK, FlightInv, [Next]_vars
  PROVE  TypeOK'
<1> USE ConstantsAssumption
<1> DEFINE Handlers == [Conn -> [st : {"none", "posted", "flushed", "replied"}, batch : Seq(Event)]]
<1>1. ASSUME NEW e \in Event, Push(e) PROVE TypeOK'
  <2>1. Append(pushed, e) \in Seq(Event) /\ Append(queue, e) \in Seq(Event)
    BY ElemsAppend DEF TypeOK
  <2> QED BY <1>1, <2>1 DEF Push, Stamp, TypeOK, stampVars, serverVars
<1>2. ASSUME NEW e \in Event, CrashInPush(e) PROVE TypeOK'
  <2>1. pushed' \in Seq(Event) /\ queue' \in Seq(Event)
    BY <1>2, ElemsAppend DEF TypeOK, CrashInPush
  <2>2. disk' \in Seq(Event)
    BY <1>2, <2>1, CutType DEF CrashInPush, TornSave
  <2> QED BY <1>2, <2>1, <2>2 DEF CrashInPush, Stamp, TornSave, Dies, Fault, TypeOK, stampVars, serverVars
<1>3. ASSUME NEW c \in Conn, StartFlush(c) PROVE TypeOK'
  <2>1. handler' \in Handlers
    BY <1>3, HandlerType DEF StartFlush, Post, TypeOK
  <2> QED BY <1>3, <2>1 DEF StartFlush, Post, TypeOK, stampVars
<1>4. ASSUME NEW c \in Conn, Refuse(c) PROVE TypeOK'
  <2>1. handler' \in Handlers
    BY <1>4, HandlerType DEF Refuse, TypeOK
  <2> QED BY <1>4, <2>1 DEF Refuse, Fault, TypeOK, stampVars
<1>5. CASE FlushAccepted
  BY <1>5, AcceptedType DEF FlushAccepted, FlushReturns, TypeOK, stampVars, serverVars
<1>6. CASE FlushFailed
  BY <1>6 DEF FlushFailed, FlushReturns, TypeOK, stampVars, serverVars
<1>7. CASE Timeout
  BY <1>7 DEF Timeout, Fault, FlushReturns, TypeOK, stampVars, serverVars
<1>8. CASE Shutdown
  <2>1. ASSUME NEW c \in Conn, Post(c) PROVE handler' \in Handlers
    BY <2>1, HandlerType DEF Post, TypeOK
  <2> QED BY <1>8, <2>1 DEF Shutdown, Post, Fault, TypeOK, stampVars
<1>9. CASE Crash
  BY <1>9 DEF Crash, Dies, Fault, TypeOK, stampVars, serverVars
<1>10. CASE CrashInFlush
  <2>1. queue' \in Seq(Event)
    BY <1>10, AcceptedType DEF CrashInFlush
  <2>2. disk' \in Seq(Event)
    BY <1>10, <2>1, CutType DEF CrashInFlush, TornSave
  <2> QED BY <1>10, <2>1, <2>2 DEF CrashInFlush, TornSave, Dies, Fault, TypeOK, stampVars, serverVars
<1>11. CASE Restart
  BY <1>11 DEF Restart, TypeOK, stampVars, serverVars
<1>12. ASSUME NEW c \in Conn, Reject(c) PROVE TypeOK'
  <2>1. handler' \in Handlers
    BY <1>12, HandlerType DEF Reject, TypeOK
  <2> QED BY <1>12, <2>1 DEF Reject, Answer, TypeOK, stampVars
<1>13. ASSUME NEW c \in Conn, Ingest(c) PROVE TypeOK'
  <2>1. handler' \in Handlers
    BY <1>13, HandlerType DEF Ingest, TypeOK
  <2> QED BY <1>13, <2>1 DEF Ingest, TypeOK, stampVars, sidecarVars
<1>14. ASSUME NEW c \in Conn, Respond(c) PROVE TypeOK'
  <2>1. handler' \in Handlers
    BY <1>14, HandlerType DEF Respond, TypeOK
  <2> QED BY <1>14, <2>1 DEF Respond, Answer, TypeOK, stampVars
<1>15. ASSUME NEW c \in Conn, Commit(c) PROVE TypeOK'
  <2>1. handler' \in Handlers
    BY <1>15, HandlerType DEF Commit, TypeOK
  <2>2. handler[c].batch \in Seq(Event)
    BY DEF TypeOK
  <2>3. rows' \in Seq(Event)
    BY <1>15, <2>2, ElemsConcat DEF Commit, TypeOK
  <2> QED BY <1>15, <2>1, <2>3 DEF Commit, TypeOK, stampVars, sidecarVars
<1>16. CASE CCCrash
  BY <1>16 DEF CCCrash, Idle, Fault, TypeOK, stampVars
<1>17. CASE NewContainer
  BY <1>17 DEF NewContainer, Dies, Fault, TypeOK, serverVars
<1>18. CASE UNCHANGED vars
  BY <1>18 DEF vars, stampVars, sidecarVars, serverVars, TypeOK
<1> QED BY <1>1, <1>2, <1>3, <1>4, <1>5, <1>6, <1>7, <1>8, <1>9, <1>10, <1>11, <1>12,
           <1>13, <1>14, <1>15, <1>16, <1>17, <1>18 DEF Next, Sidecar, ControlCenter

-----------------------------------------------------------------------------
(***************************************************************************)
(* The flight of a batch.                                                  *)
(***************************************************************************)

\* Taking everything is taking the sequence.
LEMMA TakeAll ==
  ASSUME NEW S, NEW s \in Seq(S)
  PROVE  Take(s, Len(s)) = s
<1>1. Len(s) \in Nat /\ Len(s) \in 0..Len(s)
  BY LenProperties
<1>2. /\ Take(s, Len(s)) \in Seq(S) /\ Len(Take(s, Len(s))) = Len(s)
      /\ \A i \in 1..Len(s) : Take(s, Len(s))[i] = s[i]
  BY <1>1, TakeDrop
<1> QED BY <1>2, SeqEqual

\* What is taken from the head does not see an Append.
LEMMA TakeStable ==
  ASSUME NEW S, NEW s \in Seq(S), NEW e \in S
  PROVE  /\ \A n \in 0..Len(s) : Take(Append(s, e), n) = Take(s, n)
         /\ Len(Append(s, e)) = Len(s) + 1
<1>1. Len(s) \in Nat
  BY LenProperties
<1>2. /\ Append(s, e) \in Seq(S) /\ Len(Append(s, e)) = Len(s) + 1
      /\ \A i \in 1..Len(s) : Append(s, e)[i] = s[i]
  BY AppendProperties
<1>3. ASSUME NEW n \in 0..Len(s) PROVE Take(Append(s, e), n) = Take(s, n)
  <2>1. n \in 0..Len(Append(s, e))
    BY <1>1, <1>2
  <2>2. /\ Take(Append(s, e), n) \in Seq(S) /\ Len(Take(Append(s, e), n)) = n
        /\ \A i \in 1..n : Take(Append(s, e), n)[i] = Append(s, e)[i]
    BY <1>2, <2>1, TakeDrop
  <2>3. /\ Take(s, n) \in Seq(S) /\ Len(Take(s, n)) = n
        /\ \A i \in 1..n : Take(s, n)[i] = s[i]
    BY TakeDrop
  <2>4. \A i \in 1..n : Take(Append(s, e), n)[i] = Take(s, n)[i]
    BY <1>1, <1>2, <2>2, <2>3
  <2> QED BY <2>2, <2>3, <2>4, SeqEqual
<1> QED BY <1>2, <1>3

\* Posting the whole queue ties the flush to its handler.
LEMMA PostFlight ==
  ASSUME TypeOK, FlightInv, NEW c \in Conn, Post(c), queue' = queue, phase' # "down"
  PROVE  FlightInv'
<1>1. conn' = c /\ sending' = queue /\ reply' = "none" /\ queue # <<>>
  BY DEF Post
<1>2. c # NoConn
  BY ConstantsAssumption
<1>3. handler'[c].batch = queue /\ \A d \in Conn \ {c} : handler'[d] = handler[d]
  BY DEF Post, TypeOK
<1>4. SnapshotIsHead'
  <2>1. Take(queue, Len(queue)) = queue /\ Len(queue) <= Len(queue)
    BY TakeAll, LenProperties DEF TypeOK
  <2> QED BY <1>1, <2>1 DEF SnapshotIsHead
<1> QED BY <1>1, <1>2, <1>3, <1>4 DEF FlightInv, Running

\* A handler's own step leaves what its client knows in place.
LEMMA HandlerFlight ==
  ASSUME TypeOK, FlightInv, NEW c \in Conn,
         \/ handler' = [handler EXCEPT ![c] = Idle]
         \/ handler[c].st # "none" /\ handler' = [handler EXCEPT ![c].st = "flushed"]
         \/ handler[c].st # "none" /\ handler' = [handler EXCEPT ![c].st = "replied"],
         reply' = reply \/ c = conn,
         UNCHANGED <<queue, phase, conn, sending>>
  PROVE  FlightInv'
<1>1. ASSUME NEW d \in Conn, Running(d)'
      PROVE  Running(d) /\ handler'[d].batch = handler[d].batch
  <2>1. CASE d # c
    BY <1>1, <2>1 DEF TypeOK, Running
  <2>2. CASE d = c
    <3>1. handler[c] \in [st : {"none", "posted", "flushed", "replied"}, batch : Seq(Event)]
      BY DEF TypeOK
    <3>2. \/ handler'[c] = Idle
          \/ handler[c].st # "none" /\ handler'[c].batch = handler[c].batch
      BY <3>1 DEF TypeOK
    <3> QED BY <1>1, <2>2, <3>2 DEF Running, Idle
  <2> QED BY <2>1, <2>2
<1>2. conn' # NoConn => conn \in Conn
  BY DEF TypeOK
<1>3. conn = NoConn => reply' = "none"
  BY ConstantsAssumption DEF FlightInv
<1>4. SnapshotIsHead'
  BY DEF FlightInv, SnapshotIsHead
<1> QED BY <1>1, <1>2, <1>3, <1>4 DEF FlightInv

\* When no flush is waiting, nothing is left to show.
LEMMA GroundedFlight ==
  ASSUME TypeOK, FlightInv, conn' = NoConn, reply' = "none", handler' = handler
  PROVE  FlightInv'
BY DEF FlightInv, SnapshotIsHead, Running

LEMMA FlightStep ==
  ASSUME TypeOK, FlightInv, [Next]_vars
  PROVE  FlightInv'
<1>1. ASSUME NEW e \in Event, Push(e) PROVE FlightInv'
  <2>1. SnapshotIsHead'
    <3> SUFFICES ASSUME conn # NoConn
                 PROVE  Len(sending) <= Len(queue') /\ sending = Take(queue', Len(sending))
      BY <1>1 DEF Push, SnapshotIsHead
    <3>1. Len(sending) <= Len(queue) /\ sending = Take(queue, Len(sending))
      BY DEF FlightInv, SnapshotIsHead
    <3>2. Len(sending) \in 0..Len(queue) /\ Len(queue) \in Nat
      BY <3>1, LenProperties DEF TypeOK
    <3>3. Take(queue', Len(sending)) = Take(queue, Len(sending)) /\ Len(queue') = Len(queue) + 1
      BY <1>1, <3>2, TakeStable DEF TypeOK, Push
    <3> QED BY <3>1, <3>2, <3>3
  <2> QED BY <1>1, <2>1 DEF Push, FlightInv, Running, serverVars
<1>2. ASSUME NEW e \in Event, CrashInPush(e) PROVE FlightInv'
  BY <1>2, GroundedFlight DEF CrashInPush, TornSave, Dies, serverVars
<1>3. ASSUME NEW c \in Conn, StartFlush(c) PROVE FlightInv'
  BY <1>3, PostFlight DEF StartFlush
<1>4. ASSUME NEW c \in Conn, Refuse(c) PROVE FlightInv'
  BY <1>4, HandlerFlight DEF Refuse
<1>5. CASE FlushAccepted
  BY <1>5, GroundedFlight DEF FlushAccepted, FlushReturns, serverVars
<1>6. CASE FlushFailed
  BY <1>6, GroundedFlight DEF FlushFailed, FlushReturns, serverVars
<1>7. CASE Timeout
  BY <1>7, GroundedFlight DEF Timeout, FlushReturns, serverVars
<1>8. CASE Shutdown
  <2>1. ASSUME NEW c \in Conn, phase' = "draining", Post(c) PROVE FlightInv'
    BY <1>8, <2>1, PostFlight DEF Shutdown
  <2>2. ASSUME conn' = NoConn, reply' = "none", handler' = handler PROVE FlightInv'
    BY <2>2, GroundedFlight
  <2> QED BY <1>8, <2>1, <2>2 DEF Shutdown
<1>9. CASE Crash
  BY <1>9, GroundedFlight DEF Crash, Dies, serverVars
<1>10. CASE CrashInFlush
  BY <1>10, GroundedFlight DEF CrashInFlush, TornSave, Dies, serverVars
<1>11. CASE Restart
  BY <1>11, GroundedFlight DEF Restart, FlightInv, serverVars
<1>12. ASSUME NEW c \in Conn, Reject(c) PROVE FlightInv'
  BY <1>12, HandlerFlight DEF Reject, Answer
<1>13. ASSUME NEW c \in Conn, Ingest(c) PROVE FlightInv'
  BY <1>13, HandlerFlight DEF Ingest, sidecarVars
<1>14. ASSUME NEW c \in Conn, Respond(c) PROVE FlightInv'
  BY <1>14, HandlerFlight DEF Respond, Answer
<1>15. ASSUME NEW c \in Conn, Commit(c) PROVE FlightInv'
  BY <1>15, HandlerFlight DEF Commit, sidecarVars
<1>16. CASE CCCrash
  <2>1. \A c \in Conn : handler'[c] = Idle
    BY <1>16 DEF CCCrash
  <2> QED BY <1>16, <2>1 DEF CCCrash, FlightInv, SnapshotIsHead, Running, Idle, TypeOK
<1>17. CASE NewContainer
  BY <1>17, GroundedFlight DEF NewContainer, Dies, serverVars
<1>18. CASE UNCHANGED vars
  BY <1>18 DEF vars, sidecarVars, serverVars, FlightInv, SnapshotIsHead, Running
<1> QED BY <1>1, <1>2, <1>3, <1>4, <1>5, <1>6, <1>7, <1>8, <1>9, <1>10, <1>11, <1>12,
           <1>13, <1>14, <1>15, <1>16, <1>17, <1>18 DEF Next, Sidecar, ControlCenter

\* The types hold in every reachable state: a 200 never finds the queue
\* shorter than what was sent.
THEOREM TypeCorrect == Spec => []TypeOK
<1>1. Init => TypeOK /\ FlightInv
  BY InitType DEF Init, FlightInv, SnapshotIsHead, Running, Idle
<1>2. TypeOK /\ FlightInv /\ [Next]_vars => (TypeOK /\ FlightInv)'
  BY TypeStep, FlightStep
<1> QED BY <1>1, <1>2, PTL DEF Spec

\* Dropping the accepted events from the head of the queue never drops one
\* that was pushed while the POST was awaited.
THEOREM SnapshotCorrect == Spec => []SnapshotIsHead
<1>1. Init => TypeOK /\ FlightInv
  BY InitType DEF Init, FlightInv, SnapshotIsHead, Running, Idle
<1>2. TypeOK /\ FlightInv /\ [Next]_vars => (TypeOK /\ FlightInv)'
  BY TypeStep, FlightStep
<1>3. FlightInv => SnapshotIsHead
  BY DEF FlightInv
<1> QED BY <1>1, <1>2, <1>3, PTL DEF Spec

-----------------------------------------------------------------------------
(***************************************************************************)
(* One push, one row.                                                      *)
(***************************************************************************)

\* A cut of a sequence repeats nothing and adds nothing.
LEMMA CutElems ==
  ASSUME NEW q \in Seq(Event), NEW n \in 0..Len(q), Distinct(q)
  PROVE  /\ Distinct(Take(q, n)) /\ Elems(Take(q, n)) \subseteq Elems(q)
         /\ Distinct(Drop(q, n)) /\ Elems(Drop(q, n)) \subseteq Elems(q)
BY ElemsTakeDrop

\* No action takes a push back.
LEMMA PushedGrows ==
  ASSUME TypeOK, [Next]_vars
  PROVE  Elems(pushed) \subseteq Elems(pushed')
<1>1. ASSUME NEW e \in Event, pushed' = Append(pushed, e)
      PROVE  Elems(pushed) \subseteq Elems(pushed')
  BY <1>1, ElemsAppend DEF TypeOK
<1>2. \/ pushed' = pushed
      \/ \E e \in Event : pushed' = Append(pushed, e)
  BY DEF Next, Sidecar, ControlCenter, Push, CrashInPush, StartFlush, Refuse, FlushAccepted,
         FlushFailed, Timeout, Shutdown, Crash, CrashInFlush, NewContainer, Restart, Reject,
         Ingest, Respond, Commit, CCCrash, vars
<1> QED BY <1>1, <1>2

\* The batches of the handlers are copies of the queue.
LEMMA BatchStep ==
  ASSUME DeliveryInv, [Next]_vars, NEW c \in Conn
  PROVE  \/ handler'[c].batch = handler[c].batch
         \/ handler'[c].batch = <<>>
         \/ handler'[c].batch = queue
<1>1. ASSUME NEW d \in Conn, Post(d)
      PROVE  handler'[c].batch = handler[c].batch \/ handler'[c].batch = queue
  BY <1>1 DEF Post, DeliveryInv, TypeOK
<1>2. ASSUME NEW d \in Conn, handler' = [handler EXCEPT ![d] = Idle]
      PROVE  handler'[c].batch = handler[c].batch \/ handler'[c].batch = <<>>
  BY <1>2 DEF Idle, DeliveryInv, TypeOK
<1>3. ASSUME NEW d \in Conn, NEW st, handler' = [handler EXCEPT ![d].st = st]
      PROVE  handler'[c].batch = handler[c].batch
  <2>1. handler[d] \in [st : {"none", "posted", "flushed", "replied"}, batch : Seq(Event)]
    BY DEF DeliveryInv, TypeOK
  <2> QED BY <1>3, <2>1 DEF DeliveryInv, TypeOK
<1>4. ASSUME handler' = [d \in Conn |-> Idle]
      PROVE  handler'[c].batch = <<>>
  BY <1>4 DEF Idle
<1>5. \/ handler' = handler
      \/ \E d \in Conn : Post(d)
      \/ \E d \in Conn : handler' = [handler EXCEPT ![d] = Idle]
      \/ \E d \in Conn : handler' = [handler EXCEPT ![d].st = "flushed"]
      \/ \E d \in Conn : handler' = [handler EXCEPT ![d].st = "replied"]
      \/ handler' = [d \in Conn |-> Idle]
  BY DEF Next, Sidecar, ControlCenter, Push, CrashInPush, TornSave, StartFlush, Refuse,
         FlushAccepted, FlushFailed, Timeout, Shutdown, Crash, CrashInFlush, NewContainer, Restart,
         Reject, Ingest, Respond, Commit, CCCrash, vars, serverVars
<1> QED BY <1>1, <1>2, <1>3, <1>4, <1>5

LEMMA CopiesStep ==
  ASSUME DeliveryInv, [Next]_vars
  PROVE  CopiesInv'
<1> USE DEF DeliveryInv
<1>1. Elems(pushed) \subseteq Elems(pushed')
  BY PushedGrows
<1>2. \A c \in Conn : Distinct(handler'[c].batch) /\ Elems(handler'[c].batch) \subseteq Elems(pushed')
  <2> SUFFICES ASSUME NEW c \in Conn
               PROVE  Distinct(handler'[c].batch) /\ Elems(handler'[c].batch) \subseteq Elems(pushed')
    OBVIOUS
  <2>1. Distinct(<<>>) /\ Elems(<<>>) = {}
    BY EmptySeq DEF Distinct, Elems
  <2> QED BY <1>1, <2>1, BatchStep DEF CopiesInv
<1>3. ASSUME UNCHANGED queue, UNCHANGED disk
      PROVE  CopiesInv'
  BY <1>1, <1>2, <1>3 DEF CopiesInv
<1>4. ASSUME NEW e \in Event, e \notin Elems(pushed), pushed' = Append(pushed, e),
             queue' = Append(queue, e)
      PROVE  Distinct(queue') /\ Elems(queue') \subseteq Elems(pushed') /\ queue' \in Seq(Event)
  <2>1. Elems(pushed') = Elems(pushed) \union {e}
    BY <1>4, ElemsAppend DEF TypeOK
  <2>2. queue' \in Seq(Event) /\ Elems(queue') = Elems(queue) \union {e}
    BY <1>4, ElemsAppend DEF TypeOK
  <2>3. Distinct(queue')
    BY <1>4, ElemsAppend DEF TypeOK, CopiesInv
  <2> QED BY <2>1, <2>2, <2>3 DEF CopiesInv
<1>5. ASSUME reply = "ok", queue' = Drop(queue, Len(sending))
      PROVE  Distinct(queue') /\ Elems(queue') \subseteq Elems(pushed) /\ queue' \in Seq(Event)
  <2>1. Len(sending) \in 0..Len(queue) /\ queue' \in Seq(Event)
    BY <1>5, AcceptedType DEF TypeOK
  <2> QED BY <1>5, <2>1, CutElems DEF TypeOK, CopiesInv
<1>6. ASSUME NEW e \in Event, Push(e) PROVE CopiesInv'
  BY <1>2, <1>4, <1>6 DEF Push, CopiesInv
<1>7. ASSUME NEW e \in Event, CrashInPush(e) PROVE CopiesInv'
  <2>1. Distinct(queue') /\ Elems(queue') \subseteq Elems(pushed') /\ queue' \in Seq(Event)
    BY <1>4, <1>7 DEF CrashInPush
  <2>2. PICK n \in 0..Len(queue') : disk' = Take(queue', n)
    BY <1>7 DEF CrashInPush, TornSave
  <2>3. Distinct(disk') /\ Elems(disk') \subseteq Elems(queue')
    BY <2>1, <2>2, CutElems
  <2> QED BY <1>2, <2>1, <2>3 DEF CopiesInv
<1>8. CASE FlushAccepted
  BY <1>1, <1>2, <1>5, <1>8 DEF FlushAccepted, CopiesInv
<1>9. CASE CrashInFlush
  <2>1. Distinct(queue') /\ Elems(queue') \subseteq Elems(pushed') /\ queue' \in Seq(Event)
    BY <1>1, <1>5, <1>9 DEF CrashInFlush
  <2>2. PICK n \in 0..Len(queue') : disk' = Take(queue', n)
    BY <1>9 DEF CrashInFlush, TornSave
  <2>3. Distinct(disk') /\ Elems(disk') \subseteq Elems(queue')
    BY <2>1, <2>2, CutElems
  <2> QED BY <1>2, <2>1, <2>3 DEF CopiesInv
<1>10. CASE Restart
  BY <1>1, <1>2, <1>10 DEF Restart, CopiesInv
<1>11. \/ UNCHANGED queue /\ UNCHANGED disk
       \/ \E e \in Event : Push(e) \/ CrashInPush(e)
       \/ FlushAccepted \/ CrashInFlush \/ Restart
  BY DEF Next, Sidecar, ControlCenter, StartFlush, Refuse, FlushFailed, Timeout, Shutdown,
         Crash, NewContainer, Reject, Ingest, Respond, Commit, CCCrash, vars, sidecarVars
<1> QED BY <1>3, <1>6, <1>7, <1>8, <1>9, <1>10, <1>11

\* Any step that neither inserts nor commits leaves the transactions as they
\* were, or fewer of them.
LEMMA QuietTxns ==
  ASSUME DeliveryInv, [Next]_vars, UNCHANGED rows,
         \A c \in Conn : InTxn(c)' => InTxn(c) /\ handler'[c].batch = handler[c].batch
  PROVE  TxnsInv'
<1>1. Elems(pushed) \subseteq Elems(pushed')
  BY PushedGrows DEF DeliveryInv
<1>2. StoredOnce' /\ Elems(rows') = Elems(rows)
  BY DEF DeliveryInv, TxnsInv, StoredOnce
<1> QED BY <1>1, <1>2 DEF DeliveryInv, TxnsInv

LEMMA TxnsStep ==
  ASSUME DeliveryInv, [Next]_vars
  PROVE  TxnsInv'
<1>1. TypeOK
  BY DEF DeliveryInv
<1>2. ASSUME NEW c \in Conn, handler' = [handler EXCEPT ![c] = Idle], UNCHANGED rows
      PROVE  TxnsInv'
  <2>1. \A d \in Conn : InTxn(d)' => InTxn(d) /\ handler'[d].batch = handler[d].batch
    BY <1>1, <1>2 DEF InTxn, Idle, TypeOK
  <2> QED BY <1>2, <2>1, QuietTxns
<1>3. ASSUME NEW c \in Conn, Post(c), UNCHANGED rows
      PROVE  TxnsInv'
  <2>1. \A d \in Conn : InTxn(d)' => InTxn(d) /\ handler'[d].batch = handler[d].batch
    BY <1>1, <1>3 DEF Post, InTxn, TypeOK
  <2> QED BY <1>3, <2>1, QuietTxns
<1>4. ASSUME UNCHANGED handler, UNCHANGED rows
      PROVE  TxnsInv'
  <2>1. \A d \in Conn : InTxn(d)' => InTxn(d) /\ handler'[d].batch = handler[d].batch
    BY <1>4 DEF InTxn
  <2> QED BY <1>4, <2>1, QuietTxns
<1>5. ASSUME NEW c \in Conn, Ingest(c) PROVE TxnsInv'
  <2>1. /\ handler'[c].batch = handler[c].batch
        /\ \A d \in Conn \ {c} : handler'[d] = handler[d]
    <3>1. handler[c] \in [st : {"none", "posted", "flushed", "replied"}, batch : Seq(Event)]
      BY <1>1 DEF TypeOK
    <3> QED BY <1>1, <1>5, <3>1 DEF Ingest, TypeOK
  <2>2. Elems(handler[c].batch) \cap Elems(rows) = {}
    BY <1>5 DEF Ingest, Refused, Duplicate
  <2>3. \A d \in Conn : InTxn(d) => Elems(handler[c].batch) \cap Elems(handler[d].batch) = {}
    BY <1>5 DEF Ingest, Uncommitted
  <2>4. pushed' = pushed /\ rows' = rows
    BY <1>5 DEF Ingest
  <2>5. StoredOnce'
    BY <2>4 DEF DeliveryInv, TxnsInv, StoredOnce
  <2> QED BY <2>1, <2>2, <2>3, <2>4, <2>5 DEF DeliveryInv, TxnsInv, InTxn
<1>6. ASSUME NEW c \in Conn, Respond(c) PROVE TxnsInv'
  <2>1. \A d \in Conn : InTxn(d)' => InTxn(d) /\ handler'[d].batch = handler[d].batch
    <3>1. handler[c] \in [st : {"none", "posted", "flushed", "replied"}, batch : Seq(Event)]
      BY <1>1 DEF TypeOK
    <3> QED BY <1>1, <1>6, <3>1 DEF Respond, InTxn, TypeOK
  <2> QED BY <1>6, <2>1, QuietTxns DEF Respond
<1>7. ASSUME NEW c \in Conn, Commit(c) PROVE TxnsInv'
  <2>1. /\ handler[c].batch \in Seq(Event) /\ rows \in Seq(Event)
        /\ Distinct(rows) /\ Distinct(handler[c].batch)
        /\ Elems(rows) \cap Elems(handler[c].batch) = {}
    BY <1>1, <1>7 DEF Commit, DeliveryInv, CopiesInv, TxnsInv, StoredOnce, InTxn, TypeOK
  <2>2. Elems(rows') = Elems(rows) \union Elems(handler[c].batch) /\ Distinct(rows')
    BY <1>7, <2>1, ElemsConcat DEF Commit
  <2>3. \A d \in Conn : InTxn(d)' => d # c /\ InTxn(d) /\ handler'[d].batch = handler[d].batch
    BY <1>1, <1>7 DEF Commit, InTxn, Idle, TypeOK
  <2>4. InTxn(c) /\ pushed' = pushed
    BY <1>7 DEF Commit, InTxn
  <2>5. Elems(rows') \subseteq Elems(pushed')
    BY <2>2, <2>4 DEF DeliveryInv, CopiesInv, TxnsInv
  <2> QED BY <2>2, <2>3, <2>4, <2>5 DEF DeliveryInv, TxnsInv, StoredOnce
<1>8. CASE CCCrash
  <2>1. \A d \in Conn : ~InTxn(d)'
    BY <1>8 DEF CCCrash, InTxn, Idle
  <2> QED BY <1>8, <2>1, QuietTxns DEF CCCrash
<1>9. \/ UNCHANGED handler /\ UNCHANGED rows
      \/ \E c \in Conn : Post(c) /\ UNCHANGED rows
      \/ \E c \in Conn : handler' = [handler EXCEPT ![c] = Idle] /\ UNCHANGED rows
      \/ \E c \in Conn : Ingest(c) \/ Respond(c) \/ Commit(c)
      \/ CCCrash
  BY DEF Next, Sidecar, ControlCenter, Push, CrashInPush, TornSave, StartFlush, Refuse,
         FlushAccepted, FlushFailed, Timeout, Shutdown, Crash, CrashInFlush, NewContainer, Restart,
         Reject, vars, serverVars
<1> QED BY <1>2, <1>3, <1>4, <1>5, <1>6, <1>7, <1>8, <1>9

\* Whoever takes a request away from its handler answers it.
LEMMA ServedStep ==
  ASSUME DeliveryInv, [Next]_vars
  PROVE  ServedInv'
<1>1. TypeOK /\ FlightInv /\ ServedInv
  BY DEF DeliveryInv
<1>2. CASE conn' = NoConn
  BY <1>2 DEF ServedInv
<1>3. ASSUME NEW c \in Conn, Post(c) PROVE ServedInv'
  BY <1>1, <1>3 DEF Post, ServedInv, TypeOK
<1>4. ASSUME NEW c \in Conn, Refuse(c) \/ Reject(c) \/ Ingest(c) \/ Respond(c) \/ Commit(c)
      PROVE  ServedInv'
  <2>1. conn' = conn
    BY <1>4 DEF Refuse, Reject, Ingest, Respond, Commit, sidecarVars
  <2>2. CASE c # conn
    <3>1. reply' = reply
      BY <1>4, <2>2 DEF Refuse, Reject, Ingest, Respond, Commit, Answer, sidecarVars
    <3>2. conn \in Conn => handler'[conn] = handler[conn]
      BY <1>1, <1>4, <2>2 DEF Refuse, Reject, Ingest, Respond, Commit, TypeOK
    <3> QED BY <1>1, <2>1, <3>1, <3>2 DEF ServedInv, TypeOK
  <2>3. CASE c = conn
    <3>1. handler[c] \in [st : {"none", "posted", "flushed", "replied"}, batch : Seq(Event)]
      BY <1>1 DEF TypeOK
    <3>2. CASE Refuse(c) \/ Reject(c)
      BY <1>1, <2>1, <2>3, <3>2 DEF Refuse, Reject, Answer, Idle, ServedInv, TypeOK
    <3>3. CASE Ingest(c)
      <4>1. handler'[c].st = "flushed"
        BY <1>1, <3>1, <3>3 DEF Ingest, TypeOK
      <4> QED BY <2>1, <2>3, <4>1 DEF ServedInv
    <3>4. CASE Respond(c)
      BY <2>1, <2>3, <3>4 DEF Respond, Answer, ServedInv
    <3>5. CASE Commit(c)
      <4>1. c # NoConn /\ reply = "ok" /\ reply' = reply /\ handler'[c].st = "none"
        BY <1>1, <2>3, <3>5, ConstantsAssumption DEF Commit, ServedInv, Idle, TypeOK, sidecarVars
      <4> QED BY <2>1, <2>3, <4>1 DEF ServedInv
    <3> QED BY <1>4, <3>2, <3>3, <3>4, <3>5
  <2> QED BY <2>2, <2>3
<1>5. CASE CCCrash
  BY <1>1, <1>5 DEF CCCrash, ServedInv, Idle, TypeOK
<1>6. CASE UNCHANGED <<conn, reply, handler>>
  BY <1>1, <1>6 DEF ServedInv
<1>7. \/ conn' = NoConn
      \/ \E c \in Conn : Post(c)
      \/ \E c \in Conn : Refuse(c) \/ Reject(c) \/ Ingest(c) \/ Respond(c) \/ Commit(c)
      \/ CCCrash
      \/ UNCHANGED <<conn, reply, handler>>
  BY DEF Next, Sidecar, ControlCenter, Push, CrashInPush, TornSave, Dies, StartFlush,
         FlushAccepted, FlushFailed, FlushReturns, Timeout, Shutdown, Crash, CrashInFlush,
         NewContainer, Restart, vars, sidecarVars, serverVars
<1> QED BY <1>2, <1>3, <1>4, <1>5, <1>6, <1>7

\* What a flush carries goes back to pushes.
LEMMA SendingPushed ==
  ASSUME TypeOK, FlightInv, CopiesInv, reply = "ok"
  PROVE  /\ Elems(queue) = Elems(sending) \union Elems(Drop(queue, Len(sending)))
         /\ Elems(sending) \subseteq Elems(pushed)
<1>1. Len(sending) \in 0..Len(queue) /\ conn \in Conn
  BY AcceptedType DEF TypeOK
<1>2. sending = Take(queue, Len(sending))
  BY <1>1, ConstantsAssumption DEF FlightInv, SnapshotIsHead
<1>3. Elems(queue) = Elems(Take(queue, Len(sending))) \union Elems(Drop(queue, Len(sending)))
  BY <1>1, ElemsTakeDrop DEF TypeOK
<1> QED BY <1>2, <1>3 DEF CopiesInv

\* The check of the ids keeps what is stored, in a transaction or about to be
\* acknowledged apart from what bears another id.
LEMMA AddressedStep ==
  ASSUME DeliveryInv, [Next]_vars
  PROVE  AddressedInv'
<1>1. TypeOK /\ FlightInv /\ CopiesInv /\ TxnsInv /\ AddressedInv
  BY DEF DeliveryInv
<1>2. ASSUME UNCHANGED <<pushed, foreign, rows>>,
             \A c \in Conn : InTxn(c)' => InTxn(c) /\ handler'[c].batch = handler[c].batch,
             reply' = "ok" => reply = "ok" /\ sending' = sending
      PROVE  AddressedInv'
  BY <1>1, <1>2 DEF AddressedInv
<1>3. ASSUME NEW e \in Event, e \notin Elems(pushed), pushed' = Append(pushed, e), Stamp(e),
             UNCHANGED <<handler, rows>>,
             reply' = "ok" => reply = "ok" /\ sending' = sending
      PROVE  AddressedInv'
  <2>1. Elems(pushed') = Elems(pushed) \union {e}
    BY <1>1, <1>3, ElemsAppend DEF TypeOK
  <2>2. foreign' \subseteq foreign \union {e}
    BY <1>3 DEF Stamp
  <2>3. \A c \in Conn : InTxn(c)' => InTxn(c) /\ handler'[c].batch = handler[c].batch
    BY <1>3 DEF InTxn
  <2>4. \A c \in Conn : e \notin Elems(handler[c].batch)
    BY <1>1, <1>3 DEF CopiesInv
  <2>5. e \notin Elems(rows)
    BY <1>1, <1>3 DEF TxnsInv
  <2>6. reply = "ok" => e \notin Elems(sending)
    BY <1>1, <1>3, SendingPushed
  <2> QED BY <1>1, <1>3, <2>1, <2>2, <2>3, <2>4, <2>5, <2>6 DEF AddressedInv
<1>4. ASSUME NEW c \in Conn, handler' = [handler EXCEPT ![c] = Idle],
             UNCHANGED <<pushed, foreign, rows>>, reply' = "ok" => reply = "ok" /\ sending' = sending
      PROVE  AddressedInv'
  <2>1. \A d \in Conn : InTxn(d)' => InTxn(d) /\ handler'[d].batch = handler[d].batch
    BY <1>1, <1>4 DEF InTxn, Idle, TypeOK
  <2> QED BY <1>2, <1>4, <2>1
<1>5. ASSUME NEW c \in Conn, Post(c), UNCHANGED <<pushed, foreign, rows>>
      PROVE  AddressedInv'
  <2>1. \A d \in Conn : InTxn(d)' => InTxn(d) /\ handler'[d].batch = handler[d].batch
    BY <1>1, <1>5 DEF Post, InTxn, TypeOK
  <2> QED BY <1>2, <1>5, <2>1 DEF Post
<1>6. ASSUME NEW c \in Conn, Ingest(c) PROVE AddressedInv'
  <2>1. /\ handler'[c].batch = handler[c].batch
        /\ \A d \in Conn \ {c} : handler'[d] = handler[d]
    <3>1. handler[c] \in [st : {"none", "posted", "flushed", "replied"}, batch : Seq(Event)]
      BY <1>1 DEF TypeOK
    <3> QED BY <1>1, <1>6, <3>1 DEF Ingest, TypeOK
  <2>2. Elems(handler[c].batch) \cap foreign = {}
    BY <1>6 DEF Ingest, Refused, Foreign
  <2>3. UNCHANGED <<pushed, foreign, rows, reply, sending>>
    BY <1>6 DEF Ingest, stampVars, sidecarVars
  <2> QED BY <1>1, <2>1, <2>2, <2>3 DEF AddressedInv, InTxn
<1>7. ASSUME NEW c \in Conn, Respond(c) PROVE AddressedInv'
  <2>1. \A d \in Conn : InTxn(d)' => InTxn(d) /\ handler'[d].batch = handler[d].batch
    <3>1. handler[c] \in [st : {"none", "posted", "flushed", "replied"}, batch : Seq(Event)]
      BY <1>1 DEF TypeOK
    <3> QED BY <1>1, <1>7, <3>1 DEF Respond, InTxn, TypeOK
  <2>2. UNCHANGED <<pushed, foreign, rows, sending>>
    BY <1>7 DEF Respond, stampVars
  <2>3. reply' = "ok" => Elems(sending) \cap foreign = {}
    <3>1. CASE c = conn
      <4>1. InTxn(c) /\ handler[c].batch = sending
        BY <1>1, <1>7, <3>1, ConstantsAssumption DEF FlightInv, Respond, Running, InTxn
      <4> QED BY <1>1, <4>1 DEF AddressedInv
    <3>2. CASE c # conn
      BY <1>1, <1>7, <3>2 DEF Respond, Answer, AddressedInv
    <3> QED BY <3>1, <3>2
  <2> QED BY <1>1, <2>1, <2>2, <2>3 DEF AddressedInv
<1>8. ASSUME NEW c \in Conn, Commit(c) PROVE AddressedInv'
  <2>1. Elems(rows') = Elems(rows) \union Elems(handler[c].batch)
    <3>1. rows \in Seq(Event) /\ handler[c].batch \in Seq(Event)
      BY <1>1 DEF TypeOK
    <3> QED BY <1>8, <3>1, ElemsConcat DEF Commit
  <2>2. Elems(handler[c].batch) \cap foreign = {}
    BY <1>1, <1>8 DEF AddressedInv, Commit, InTxn
  <2>3. \A d \in Conn : InTxn(d)' => InTxn(d) /\ handler'[d].batch = handler[d].batch
    BY <1>1, <1>8 DEF Commit, InTxn, Idle, TypeOK
  <2>4. UNCHANGED <<pushed, foreign, reply, sending>>
    BY <1>8 DEF Commit, stampVars, sidecarVars
  <2> QED BY <1>1, <2>1, <2>2, <2>3, <2>4 DEF AddressedInv
<1>9. CASE CCCrash
  <2>1. \A d \in Conn : ~InTxn(d)'
    BY <1>9 DEF CCCrash, InTxn, Idle
  <2> QED BY <1>2, <1>9, <2>1 DEF CCCrash, stampVars
<1>10. ASSUME UNCHANGED <<pushed, foreign, rows, handler>>,
              reply' = "ok" => reply = "ok" /\ sending' = sending
       PROVE  AddressedInv'
  <2>1. \A d \in Conn : InTxn(d)' => InTxn(d) /\ handler'[d].batch = handler[d].batch
    BY <1>10 DEF InTxn
  <2> QED BY <1>2, <1>10, <2>1
<1>11. \/ /\ UNCHANGED <<pushed, foreign, rows, handler>>
          /\ reply' = "ok" => reply = "ok" /\ sending' = sending
       \/ \E e \in Event : /\ e \notin Elems(pushed) /\ pushed' = Append(pushed, e) /\ Stamp(e)
                           /\ UNCHANGED <<handler, rows>>
                           /\ reply' = "ok" => reply = "ok" /\ sending' = sending
       \/ \E c \in Conn : /\ handler' = [handler EXCEPT ![c] = Idle]
                          /\ UNCHANGED <<pushed, foreign, rows>>
                          /\ reply' = "ok" => reply = "ok" /\ sending' = sending
       \/ \E c \in Conn : Post(c) /\ UNCHANGED <<pushed, foreign, rows>>
       \/ \E c \in Conn : Ingest(c) \/ Respond(c) \/ Commit(c)
       \/ CCCrash
  <2>1. ASSUME NEW e \in Event, Push(e) \/ CrashInPush(e)
        PROVE  /\ e \notin Elems(pushed) /\ pushed' = Append(pushed, e) /\ Stamp(e)
               /\ UNCHANGED <<handler, rows>>
               /\ reply' = "ok" => reply = "ok" /\ sending' = sending
    BY <2>1 DEF Push, CrashInPush, TornSave, Dies, serverVars
  <2>2. ASSUME NEW c \in Conn, Refuse(c) \/ Reject(c)
        PROVE  /\ handler' = [handler EXCEPT ![c] = Idle]
               /\ UNCHANGED <<pushed, foreign, rows>>
               /\ reply' = "ok" => reply = "ok" /\ sending' = sending
    BY <2>2 DEF Refuse, Reject, Answer, stampVars
  <2>3. ASSUME NEW c \in Conn, StartFlush(c)
        PROVE  Post(c) /\ UNCHANGED <<pushed, foreign, rows>>
    BY <2>3 DEF StartFlush, stampVars
  <2>4. ASSUME Shutdown
        PROVE  /\ UNCHANGED <<pushed, foreign, rows>>
               /\ (\E c \in Conn : Post(c)) \/ (UNCHANGED handler /\ reply' = "none")
    BY <2>4 DEF Shutdown, stampVars
  <2>5. ASSUME FlushAccepted \/ FlushFailed \/ Timeout \/ Crash \/ CrashInFlush \/ NewContainer
                 \/ Restart \/ UNCHANGED vars
        PROVE  /\ UNCHANGED <<pushed, foreign, rows, handler>>
               /\ reply' = "ok" => reply = "ok" /\ sending' = sending
    BY <2>5 DEF FlushAccepted, FlushFailed, FlushReturns, Timeout, Crash, CrashInFlush, TornSave,
           Dies, NewContainer, Restart, vars, stampVars, sidecarVars, serverVars
  <2> QED BY <2>1, <2>2, <2>3, <2>4, <2>5 DEF Next, Sidecar, ControlCenter
<1> QED BY <1>2, <1>3, <1>4, <1>5, <1>6, <1>7, <1>8, <1>9, <1>10, <1>11

LEMMA DeliveryInit == Init => DeliveryInv
<1>1. Elems(<<>>) = {} /\ Distinct(<<>>)
  BY EmptySeq DEF Elems, Distinct
<1> QED BY <1>1, InitType DEF Init, DeliveryInv, FlightInv, SnapshotIsHead, CopiesInv, TxnsInv,
           ServedInv, AddressedInv, StoredOnce, Running, InTxn, Idle

\* The inductive invariant holds whatever faults the environment throws in.
THEOREM DeliveryCorrect == Spec => []DeliveryInv
<1>1. DeliveryInv /\ [Next]_vars => DeliveryInv'
  BY TypeStep, FlightStep, CopiesStep, TxnsStep, ServedStep, AddressedStep DEF DeliveryInv
<1> QED BY <1>1, DeliveryInit, PTL DEF Spec

\* No retry, second POST or crash gives an event two rows.
THEOREM StoredOnceCorrect == Spec => []StoredOnce
<1>1. DeliveryInv => StoredOnce
  BY DEF DeliveryInv, TxnsInv
<1> QED BY <1>1, DeliveryCorrect, PTL

\* A flush that awaits its reply never waits for nobody: its request is with
\* the Control Center, or the answer is there.
THEOREM FlushIsServedCorrect == Spec => []ServedInv
<1>1. DeliveryInv => ServedInv
  BY DEF DeliveryInv
<1> QED BY <1>1, DeliveryCorrect, PTL

-----------------------------------------------------------------------------
(***************************************************************************)
(* Nothing is lost as long as no fault destroys data: the queue file is    *)
(* written whole and the Control Center survives from its reply to its     *)
(* commit.                                                                 *)
(***************************************************************************)

\* What has been damaged stays so.
LEMMA DamageStays ==
  ASSUME TypeOK, [Next]_vars, Intact'
  PROVE  Intact
BY DEF TypeOK, Intact, Next, Sidecar, ControlCenter, Fault, Push, CrashInPush, TornSave,
       StartFlush, Refuse, FlushAccepted, FlushFailed, Timeout, Shutdown, Crash, CrashInFlush,
       NewContainer, Restart, Reject, Ingest, Respond, Commit, CCCrash, vars

\* A step that damages nothing tears no file and is no death of the Control
\* Center.
LEMMA HarmlessStep ==
  ASSUME Intact'
  PROVE  ~CCCrash /\ \A q : ~TornSave(q)
<1>1. ASSUME NEW name \in Destructive, Fault(name) PROVE FALSE
  <2>1. faults'.damage = (faults.damage \/ name \in Destructive)
    BY <1>1 DEF Fault
  <2> QED BY <1>1, <2>1 DEF Intact
<1> QED BY <1>1 DEF CCCrash, TornSave, Destructive

\* The file follows the queue, whatever happens.
LEMMA MirrorStep ==
  ASSUME MirroredToDisk, [Next]_vars
  PROVE  MirroredToDisk'
BY DEF MirroredToDisk, Next, Sidecar, ControlCenter, Push, CrashInPush, TornSave, Dies, StartFlush,
       Refuse, FlushAccepted, FlushFailed, FlushReturns, Timeout, Shutdown, Crash, CrashInFlush,
       NewContainer, Restart, Reject, Ingest, Respond, Commit, CCCrash, vars, sidecarVars

\* A reply that says 200 keeps its transaction until the rows are there.
LEMMA AnswerStep ==
  ASSUME Intact', DeliveryInv, AnswerBacked, [Next]_vars
  PROVE  AnswerBacked'
<1>1. TypeOK /\ FlightInv
  BY DEF DeliveryInv
<1>2. ASSUME reply' # "ok" PROVE AnswerBacked'
  BY <1>2 DEF AnswerBacked
<1>3. ASSUME UNCHANGED <<reply, conn, sending, rows>>,
             \/ UNCHANGED handler
             \/ \E c \in Conn : /\ handler[c].st # "replied"
                                /\ \A d \in Conn \ {c} : handler'[d] = handler[d]
      PROVE  AnswerBacked'
  <2>1. reply = "ok" => conn \in Conn
    BY <1>1 DEF TypeOK, FlightInv
  <2> QED BY <1>3, <2>1 DEF AnswerBacked
<1>4. ASSUME NEW c \in Conn, Respond(c) PROVE AnswerBacked'
  <2>1. handler[c] \in [st : {"none", "posted", "flushed", "replied"}, batch : Seq(Event)]
    BY <1>1 DEF TypeOK
  <2>2. /\ handler'[c].st = "replied" /\ handler'[c].batch = handler[c].batch
        /\ \A d \in Conn \ {c} : handler'[d] = handler[d]
    BY <1>1, <1>4, <2>1 DEF Respond, TypeOK
  <2>3. CASE c = conn
    <3>1. handler[c].batch = sending
      BY <1>1, <1>4, <2>3, ConstantsAssumption DEF FlightInv, Respond, Running
    <3> QED BY <1>4, <2>2, <2>3, <3>1 DEF Respond, AnswerBacked
  <2>4. CASE c # conn
    BY <1>1, <1>4, <2>2, <2>4 DEF Respond, Answer, AnswerBacked, TypeOK, FlightInv
  <2> QED BY <2>3, <2>4
<1>5. ASSUME NEW c \in Conn, Commit(c) PROVE AnswerBacked'
  <2>1. Elems(rows') = Elems(rows) \union Elems(handler[c].batch)
    <3>1. rows \in Seq(Event) /\ handler[c].batch \in Seq(Event)
      BY <1>1 DEF TypeOK
    <3> QED BY <1>5, <3>1, ElemsConcat DEF Commit
  <2>2. \A d \in Conn \ {c} : handler'[d] = handler[d]
    BY <1>1, <1>5 DEF Commit, TypeOK
  <2>3. reply' = reply /\ conn' = conn /\ sending' = sending
    BY <1>5 DEF Commit, sidecarVars
  <2>4. reply = "ok" => conn \in Conn
    BY <1>1 DEF TypeOK, FlightInv
  <2> QED BY <2>1, <2>2, <2>3, <2>4 DEF AnswerBacked
<1>6. ASSUME NEW c \in Conn, StartFlush(c) \/ Refuse(c) \/ Reject(c) \/ Ingest(c)
      PROVE  AnswerBacked'
  <2>1. \A d \in Conn \ {c} : handler'[d] = handler[d]
    BY <1>1, <1>6 DEF StartFlush, Post, Refuse, Reject, Ingest, TypeOK
  <2>2. CASE StartFlush(c)
    BY <1>2, <2>2 DEF StartFlush, Post
  <2>3. CASE Refuse(c)
    BY <1>2, <1>3, <2>1, <2>3 DEF Refuse
  <2>4. CASE Reject(c)
    BY <1>2, <1>3, <2>1, <2>4 DEF Reject, Answer
  <2>5. CASE Ingest(c)
    BY <1>3, <2>1, <2>5 DEF Ingest, sidecarVars
  <2> QED BY <1>6, <2>2, <2>3, <2>4, <2>5
<1>7. \/ reply' # "ok"
      \/ UNCHANGED <<reply, conn, sending, rows, handler>>
      \/ \E c \in Conn : \/ StartFlush(c) \/ Refuse(c) \/ Reject(c) \/ Ingest(c)
                         \/ Respond(c) \/ Commit(c)
  BY <1>1, HarmlessStep DEF Next, Sidecar, ControlCenter, Push, CrashInPush, Dies, Fault,
         FlushAccepted, FlushFailed, FlushReturns, Timeout, Shutdown, Post, Crash, CrashInFlush,
         NewContainer, Restart, vars, sidecarVars, serverVars
<1> QED BY <1>2, <1>3, <1>4, <1>5, <1>6, <1>7

\* A handler in mid-reply stays answered until its rows are there.
LEMMA AnsweredStep ==
  ASSUME Intact', DeliveryInv, [Next]_vars
  PROVE  Elems(rows) \union Answered \subseteq Elems(rows') \union Answered'
<1>1. TypeOK
  BY DEF DeliveryInv
<1>2. ASSUME NEW c \in Conn, Commit(c)
      PROVE  Elems(rows) \union Answered \subseteq Elems(rows') \union Answered'
  <2>1. Elems(rows') = Elems(rows) \union Elems(handler[c].batch)
    <3>1. rows \in Seq(Event) /\ handler[c].batch \in Seq(Event)
      BY <1>1 DEF TypeOK
    <3> QED BY <1>2, <3>1, ElemsConcat DEF Commit
  <2>2. \A d \in Conn \ {c} : handler'[d] = handler[d]
    BY <1>1, <1>2 DEF Commit, TypeOK
  <2> QED BY <2>1, <2>2 DEF Answered
<1>3. ASSUME UNCHANGED rows,
             \A c \in Conn : handler[c].st = "replied" => handler'[c] = handler[c]
      PROVE  Elems(rows) \union Answered \subseteq Elems(rows') \union Answered'
  BY <1>3 DEF Answered
<1>4. ASSUME NEW c \in Conn, handler[c].st # "replied", UNCHANGED rows,
             \/ Post(c)
             \/ handler' = [handler EXCEPT ![c] = Idle]
             \/ handler' = [handler EXCEPT ![c].st = "flushed"]
             \/ handler' = [handler EXCEPT ![c].st = "replied"]
      PROVE  Elems(rows) \union Answered \subseteq Elems(rows') \union Answered'
  <2>1. \A d \in Conn \ {c} : handler'[d] = handler[d]
    BY <1>1, <1>4 DEF Post, TypeOK
  <2> QED BY <1>3, <1>4, <2>1
<1>5. \/ UNCHANGED <<rows, handler>>
      \/ \E c \in Conn : Commit(c)
      \/ \E c \in Conn : /\ handler[c].st # "replied"
                         /\ UNCHANGED rows
                         /\ \/ Post(c)
                            \/ handler' = [handler EXCEPT ![c] = Idle]
                            \/ handler' = [handler EXCEPT ![c].st = "flushed"]
                            \/ handler' = [handler EXCEPT ![c].st = "replied"]
  BY <1>1, HarmlessStep DEF Next, Sidecar, ControlCenter, Push, CrashInPush, Fault,
         StartFlush, Post, Running, Refuse, FlushAccepted, FlushFailed, Timeout, Shutdown, Crash,
         CrashInFlush, NewContainer, Restart, Reject, Ingest, Respond, vars, serverVars
<1> QED BY <1>2, <1>3, <1>4, <1>5

LEMMA NothingLostStep ==
  ASSUME DeliveryInv, CustodyInv, [Next]_vars
  PROVE  NothingLost'
<1> SUFFICES ASSUME Intact' PROVE NothingLost'
  BY DEF NothingLost
<1> DEFINE Safe == Elems(Held) \union Elems(rows) \union Answered
<1>1. TypeOK /\ FlightInv /\ MirroredToDisk /\ AnswerBacked /\ Elems(pushed) \subseteq Safe
  BY DamageStays DEF DeliveryInv, CustodyInv, NothingLost
<1>2. Elems(rows) \union Answered \subseteq Elems(rows') \union Answered'
  BY AnsweredStep
<1>3. ASSUME NEW e \in Event, Push(e) PROVE NothingLost'
  <2>1. Elems(pushed') = Elems(pushed) \union {e} /\ Elems(queue') = Elems(queue) \union {e}
    BY <1>1, <1>3, ElemsAppend DEF Push, TypeOK
  <2>2. Held = queue /\ Held' = queue'
    BY <1>3 DEF Push, Held
  <2> QED BY <1>1, <1>2, <2>1, <2>2 DEF NothingLost
<1>4. CASE FlushAccepted
  <2>1. Len(sending) \in 0..Len(queue) /\ conn \in Conn
    BY <1>1, <1>4, AcceptedType DEF FlushAccepted, TypeOK
  <2>2. Elems(queue) = Elems(Take(queue, Len(sending))) \union Elems(Drop(queue, Len(sending)))
    BY <1>1, <2>1, ElemsTakeDrop DEF TypeOK
  <2>3. Elems(queue) = Elems(sending) \union Elems(queue')
    BY <1>1, <1>4, <2>1, <2>2, ConstantsAssumption DEF FlushAccepted, FlightInv, SnapshotIsHead
  <2>4. Elems(sending) \subseteq Elems(rows) \union Answered
    BY <1>1, <1>4, <2>1 DEF FlushAccepted, AnswerBacked, Answered
  <2>5. Held = queue /\ Held' = queue' /\ pushed' = pushed
    BY <1>1, <1>4, <2>1, ConstantsAssumption DEF FlushAccepted, FlightInv, Held
  <2> QED BY <1>1, <1>2, <2>3, <2>4, <2>5 DEF NothingLost
<1>5. ASSUME UNCHANGED pushed, Held' = Held PROVE NothingLost'
  BY <1>1, <1>2, <1>5 DEF NothingLost
<1>6. \/ \E e \in Event : Push(e)
      \/ FlushAccepted
      \/ UNCHANGED pushed /\ Held' = Held
  BY <1>1, HarmlessStep DEF Held, MirroredToDisk, Next, Sidecar, ControlCenter, CrashInPush,
         Dies, Fault, StartFlush, Refuse, FlushFailed, FlushReturns, Timeout, Shutdown,
         Crash, CrashInFlush, NewContainer, Restart, Reject, Ingest, Respond, Commit, vars, sidecarVars
<1> QED BY <1>3, <1>4, <1>5, <1>6

LEMMA CustodyInit == Init => CustodyInv
BY DEF Init, CustodyInv, MirroredToDisk, AnswerBacked, NothingLost, Held, Elems

\* Whatever is refused, timed out, crashed or shut down, an event that was
\* pushed is still in the queue, in the table, or in a transaction whose
\* reply has been sent, until a fault destroys one of them.
THEOREM NothingLostCorrect == Spec => []NothingLost
<1>1. DeliveryInv /\ CustodyInv /\ [Next]_vars => CustodyInv'
  <2> SUFFICES ASSUME DeliveryInv, CustodyInv, [Next]_vars
               PROVE  CustodyInv'
    OBVIOUS
  <2>1. ASSUME Intact' PROVE AnswerBacked'
    BY <2>1, DamageStays, AnswerStep DEF DeliveryInv, CustodyInv
  <2> QED BY <2>1, MirrorStep, NothingLostStep DEF CustodyInv
<1>2. CustodyInv => NothingLost
  BY DEF CustodyInv
<1> QED BY <1>1, <1>2, CustodyInit, DeliveryCorrect, PTL DEF Spec

-----------------------------------------------------------------------------
(***************************************************************************)
(* The order of events.                                                    *)
(***************************************************************************)

\* Dropping twice is dropping once.
LEMMA DropDrop ==
  ASSUME NEW S, NEW s \in Seq(S), NEW n \in 0..Len(s), NEW k \in 0..Len(Drop(s, n))
  PROVE  n + k \in 0..Len(s) /\ Drop(Drop(s, n), k) = Drop(s, n + k)
<1> DEFINE d == Drop(s, n)
<1>1. /\ Len(s) \in Nat /\ d \in Seq(S) /\ Len(d) = Len(s) - n
      /\ \A i \in 1..Len(s) - n : d[i] = s[n + i]
  BY TakeDrop, LenProperties
<1>2. n + k \in 0..Len(s) /\ k \in 0..Len(d) /\ n \in Nat /\ k \in Nat
  BY <1>1
<1> HIDE DEF d
<1>3. /\ Drop(d, k) \in Seq(S) /\ Len(Drop(d, k)) = Len(d) - k
      /\ \A i \in 1..Len(d) - k : Drop(d, k)[i] = d[k + i]
  BY <1>1, <1>2, TakeDrop
<1>4. /\ Drop(s, n + k) \in Seq(S) /\ Len(Drop(s, n + k)) = Len(s) - (n + k)
      /\ \A i \in 1..Len(s) - (n + k) : Drop(s, n + k)[i] = s[n + k + i]
  BY <1>2, TakeDrop
<1>5. Len(Drop(d, k)) = Len(Drop(s, n + k))
  <2>1. Len(d) - k = (Len(s) - n) - k /\ (Len(s) - n) - k = Len(s) - (n + k)
    BY <1>1, <1>2
  <2> QED BY <1>3, <1>4, <2>1
<1>6. ASSUME NEW i \in 1..Len(Drop(d, k)) PROVE Drop(d, k)[i] = Drop(s, n + k)[i]
  <2>1. /\ i \in 1..Len(d) - k /\ k + i \in 1..Len(s) - n
        /\ i \in 1..Len(s) - (n + k) /\ n + (k + i) = n + k + i
    BY <1>1, <1>2, <1>3
  <2> QED BY <1>1, <1>3, <1>4, <2>1
<1> QED BY <1>2, <1>3, <1>4, <1>5, <1>6, SeqEqual DEF d

\* An Append comes through a Drop.
LEMMA DropAppend ==
  ASSUME NEW S, NEW s \in Seq(S), NEW e \in S, NEW n \in 0..Len(s)
  PROVE  Drop(Append(s, e), n) = Append(Drop(s, n), e)
<1> DEFINE a == Append(s, e)
           d == Drop(s, n)
<1>1. /\ Len(s) \in Nat /\ d \in Seq(S) /\ Len(d) = Len(s) - n
      /\ \A i \in 1..Len(s) - n : d[i] = s[n + i]
  BY TakeDrop, LenProperties
<1>2. /\ a \in Seq(S) /\ Len(a) = Len(s) + 1 /\ a[Len(s) + 1] = e
      /\ \A i \in 1..Len(s) : a[i] = s[i]
  BY AppendProperties
<1> HIDE DEF a, d
<1>3. n \in 0..Len(a) /\ n \in Nat
  BY <1>1, <1>2
<1>4. /\ Drop(a, n) \in Seq(S) /\ Len(Drop(a, n)) = Len(s) + 1 - n
      /\ \A i \in 1..Len(s) + 1 - n : Drop(a, n)[i] = a[n + i]
  <2>1. /\ Drop(a, n) \in Seq(S) /\ Len(Drop(a, n)) = Len(a) - n
        /\ \A i \in 1..Len(a) - n : Drop(a, n)[i] = a[n + i]
    BY <1>2, <1>3, TakeDrop
  <2> QED BY <1>2, <2>1
<1>5. /\ Append(d, e) \in Seq(S) /\ Len(Append(d, e)) = Len(s) + 1 - n
      /\ \A i \in 1..Len(s) - n : Append(d, e)[i] = d[i]
      /\ Append(d, e)[Len(s) - n + 1] = e
  <2>1. /\ Append(d, e) \in Seq(S) /\ Len(Append(d, e)) = Len(d) + 1
        /\ \A i \in 1..Len(d) : Append(d, e)[i] = d[i]
        /\ Append(d, e)[Len(d) + 1] = e
    BY <1>1, AppendProperties
  <2> QED BY <1>1, <2>1
<1>6. ASSUME NEW i \in 1..Len(s) + 1 - n PROVE Drop(a, n)[i] = Append(d, e)[i]
  <2>1. CASE i \in 1..Len(s) - n
    <3>1. n + i \in 1..Len(s)
      BY <1>1, <2>1
    <3> QED BY <1>1, <1>2, <1>4, <1>5, <2>1, <3>1
  <2>2. CASE i = Len(s) - n + 1
    <3>1. n + i = Len(s) + 1
      BY <1>1, <1>3, <2>2
    <3> QED BY <1>2, <1>4, <1>5, <2>2, <3>1
  <2>3. i \in 1..Len(s) - n \/ i = Len(s) - n + 1
    <3>1. Len(s) \in Nat /\ n \in Nat /\ i \in Int /\ 1 <= i /\ i <= Len(s) + 1 - n
      BY <1>1, <1>3
    <3> QED BY <3>1
  <2> QED BY <2>1, <2>2, <2>3
<1> QED BY <1>4, <1>5, <1>6, SeqEqual DEF a, d

\* The sidecar's events are the last n pushed, and the last id it reports is
\* of one that was pushed before.
TailFrom(n) ==
  /\ Held = Drop(pushed, n)
  /\ lastEvent \in {NoEvent} \union Elems(Take(pushed, n))

LEMMA TailStep ==
  ASSUME DeliveryInv, MirroredToDisk, QueueIsTailOfPushed, [Next]_vars
  PROVE  QueueIsTailOfPushed'
<1> SUFFICES ASSUME Intact' PROVE \E n \in 0..Len(pushed') : TailFrom(n)'
  BY DEF QueueIsTailOfPushed, TailFrom
<1>1. TypeOK /\ FlightInv
  BY DEF DeliveryInv
<1>2. PICK n \in 0..Len(pushed) : TailFrom(n)
  BY <1>1, DamageStays DEF QueueIsTailOfPushed, TailFrom
<1>3. Len(pushed) \in Nat /\ n \in Nat
  BY <1>1, LenProperties DEF TypeOK
<1>4. ASSUME NEW e \in Event, Push(e) PROVE TailFrom(n)' /\ n \in 0..Len(pushed')
  <2>1. Held = queue /\ Held' = Append(queue, e) /\ pushed' = Append(pushed, e) /\ lastEvent' = lastEvent
    BY <1>4 DEF Push, Held
  <2>2. Drop(pushed', n) = Append(Drop(pushed, n), e)
    BY <1>1, <2>1, DropAppend DEF TypeOK
  <2>3. Take(pushed', n) = Take(pushed, n) /\ Len(pushed') = Len(pushed) + 1
    BY <1>1, <2>1, TakeStable DEF TypeOK
  <2>4. n \in 0..Len(pushed')
    BY <1>3, <2>3
  <2> QED BY <1>2, <2>1, <2>2, <2>3, <2>4 DEF TailFrom
<1>5. CASE FlushAccepted
  <2> DEFINE k == Len(sending)
  <2>1. k \in 1..Len(queue) /\ k \in 0..Len(queue) /\ conn \in Conn /\ Len(queue) \in Nat
    BY <1>1, <1>5, AcceptedType, LenProperties DEF FlushAccepted, TypeOK
  <2>2. phase # "down" /\ Held = queue /\ Held' = Drop(queue, k) /\ pushed' = pushed
    BY <1>1, <1>5, <2>1, ConstantsAssumption DEF FlushAccepted, FlightInv, Held
  <2>3. queue = Drop(pushed, n)
    BY <1>2, <2>2 DEF TailFrom
  <2>4. n + k \in 0..Len(pushed) /\ Held' = Drop(pushed, n + k)
    BY <1>1, <2>1, <2>2, <2>3, DropDrop DEF TypeOK
  <2>5. sending[k] = queue[k]
    <3>1. sending = Take(queue, k)
      BY <1>1, <2>1, ConstantsAssumption DEF FlightInv, SnapshotIsHead
    <3>2. queue \in Seq(Event) /\ k \in 0..Len(queue)
      BY <1>1, <2>1 DEF TypeOK
    <3> HIDE DEF k
    <3>3. \A i \in 1..k : Take(queue, k)[i] = queue[i]
      BY <3>2, TakeDrop
    <3>4. k \in 1..k
      BY <2>1
    <3> QED BY <3>1, <3>3, <3>4
  <2>6. queue[k] = pushed[n + k]
    <3>1. /\ Len(Drop(pushed, n)) = Len(pushed) - n
          /\ \A i \in 1..Len(pushed) - n : Drop(pushed, n)[i] = pushed[n + i]
      BY <1>1, TakeDrop DEF TypeOK
    <3> QED BY <2>1, <2>3, <3>1
  <2>7. /\ Len(Take(pushed, n + k)) = n + k
        /\ \A i \in 1..n + k : Take(pushed, n + k)[i] = pushed[i]
    BY <1>1, <2>4, TakeDrop DEF TypeOK
  <2>8. n + k \in 1..n + k
    BY <1>3, <2>1
  <2>9. lastEvent' \in Elems(Take(pushed, n + k))
    BY <1>5, <2>5, <2>6, <2>7, <2>8 DEF FlushAccepted, Elems
  <2> QED BY <2>2, <2>4, <2>9 DEF TailFrom
<1>6. ASSUME UNCHANGED <<pushed, lastEvent>>, Held' = Held
      PROVE  TailFrom(n)' /\ n \in 0..Len(pushed')
  BY <1>2, <1>6 DEF TailFrom
<1>7. \/ \E e \in Event : Push(e)
      \/ FlushAccepted
      \/ UNCHANGED <<pushed, lastEvent>> /\ Held' = Held
  BY <1>1, HarmlessStep DEF Held, MirroredToDisk, Next, Sidecar, ControlCenter, CrashInPush,
         Dies, Fault, StartFlush, Refuse, FlushFailed, FlushReturns, Timeout, Shutdown,
         Crash, CrashInFlush, NewContainer, Restart, Reject, Ingest, Respond, Commit, vars, sidecarVars
<1> QED BY <1>4, <1>5, <1>6, <1>7

\* Retries, crashes and shutdowns reorder nothing: until a fault destroys data
\* the sidecar holds the events pushed last, in their order, and reports the
\* id of one that it holds no more.
THEOREM QueueIsTailOfPushedCorrect == Spec => []QueueIsTailOfPushed
<1>1. Init => MirroredToDisk /\ QueueIsTailOfPushed
  <2> SUFFICES ASSUME Init PROVE \E n \in 0..Len(pushed) : TailFrom(n)
    BY DEF Init, MirroredToDisk, QueueIsTailOfPushed, TailFrom
  <2>1. <<>> \in Seq(Event) /\ Len(<<>>) = 0 /\ 0 \in 0..0
    BY EmptySeq
  <2>2. Drop(<<>>, 0) = <<>>
    <3>1. 0 \in 0..Len(<<>>)
      BY <2>1
    <3>2. Drop(<<>>, 0) \in Seq(Event) /\ Len(Drop(<<>>, 0)) = Len(<<>>) - 0
      BY <2>1, <3>1, TakeDrop
    <3> QED BY <2>1, <3>2, EmptySeq
  <2> QED BY <2>1, <2>2 DEF Init, TailFrom, Held
<1>2. DeliveryInv /\ MirroredToDisk /\ QueueIsTailOfPushed /\ [Next]_vars
        => MirroredToDisk' /\ QueueIsTailOfPushed'
  BY TailStep, MirrorStep
<1> QED BY <1>1, <1>2, DeliveryCorrect, PTL DEF Spec

-----------------------------------------------------------------------------
(***************************************************************************)
(* The live feed.                                                          *)
(***************************************************************************)

\* What has been published is stored, or about to be.
LEMMA PhantomStep ==
  ASSUME TypeOK, NoPhantomAlert, [Next]_vars
  PROVE  NoPhantomAlert'
<1> SUFFICES ASSUME Intact' PROVE published' \subseteq Elems(rows') \union Uncommitted'
  BY DEF NoPhantomAlert
<1>1. published \subseteq Elems(rows) \union Uncommitted
  BY DamageStays DEF NoPhantomAlert
<1>2. ASSUME NEW c \in Conn, Commit(c)
      PROVE  published' \subseteq Elems(rows') \union Uncommitted'
  <2>1. Elems(rows') = Elems(rows) \union Elems(handler[c].batch)
    <3>1. rows \in Seq(Event) /\ handler[c].batch \in Seq(Event)
      BY DEF TypeOK
    <3> QED BY <1>2, <3>1, ElemsConcat DEF Commit
  <2>2. \A d \in Conn \ {c} : handler'[d] = handler[d]
    BY <1>2 DEF Commit, TypeOK
  <2>3. Uncommitted \subseteq Uncommitted' \union Elems(handler[c].batch)
    BY <2>2 DEF Uncommitted, InTxn
  <2> QED BY <1>1, <1>2, <2>1, <2>3 DEF Commit
<1>3. ASSUME UNCHANGED <<rows, published>>,
             \A c \in Conn : InTxn(c) => InTxn(c)' /\ handler'[c].batch = handler[c].batch
      PROVE  published' \subseteq Elems(rows') \union Uncommitted'
  <2>1. Uncommitted \subseteq Uncommitted'
    BY <1>3 DEF Uncommitted
  <2> QED BY <1>1, <1>3, <2>1
<1>4. ASSUME NEW c \in Conn, ~InTxn(c), UNCHANGED <<rows, published>>,
             Post(c) \/ handler' = [handler EXCEPT ![c] = Idle]
      PROVE  published' \subseteq Elems(rows') \union Uncommitted'
  <2>1. \A d \in Conn \ {c} : handler'[d] = handler[d]
    BY <1>4 DEF Post, TypeOK
  <2> QED BY <1>3, <1>4, <2>1 DEF InTxn
<1>5. ASSUME NEW c \in Conn, Respond(c)
      PROVE  published' \subseteq Elems(rows') \union Uncommitted'
  <2>1. handler[c] \in [st : {"none", "posted", "flushed", "replied"}, batch : Seq(Event)]
    BY DEF TypeOK
  <2>2. \A d \in Conn : InTxn(d) => InTxn(d)' /\ handler'[d].batch = handler[d].batch
    BY <1>5, <2>1 DEF Respond, TypeOK, InTxn
  <2> QED BY <1>3, <1>5, <2>2 DEF Respond
<1>6. ASSUME NEW c \in Conn, Ingest(c)
      PROVE  published' \subseteq Elems(rows') \union Uncommitted'
  <2>1. handler[c] \in [st : {"none", "posted", "flushed", "replied"}, batch : Seq(Event)]
    BY DEF TypeOK
  <2>2. /\ \A d \in Conn : InTxn(d) => InTxn(d)' /\ handler'[d].batch = handler[d].batch
        /\ InTxn(c)' /\ handler'[c].batch = handler[c].batch
    BY <1>6, <2>1 DEF Ingest, TypeOK, InTxn
  <2>3. Uncommitted \union Elems(handler[c].batch) \subseteq Uncommitted'
    BY <2>2 DEF Uncommitted
  <2> QED BY <1>1, <1>6, <2>3 DEF Ingest
<1>7. \/ UNCHANGED <<rows, published, handler>>
      \/ \E c \in Conn : Commit(c) \/ Respond(c) \/ Ingest(c)
      \/ \E c \in Conn : /\ ~InTxn(c) /\ UNCHANGED <<rows, published>>
                         /\ Post(c) \/ handler' = [handler EXCEPT ![c] = Idle]
  BY HarmlessStep DEF Next, Sidecar, ControlCenter, Push, CrashInPush, StartFlush, Post, Running,
         Refuse, FlushAccepted, FlushFailed, Timeout, Shutdown, Crash, CrashInFlush, NewContainer,
         Restart, Reject, InTxn, vars, serverVars
<1>8. CASE UNCHANGED <<rows, published, handler>>
  BY <1>3, <1>8 DEF InTxn
<1> QED BY <1>2, <1>4, <1>5, <1>6, <1>7, <1>8

\* No alert is shown whose event will not be stored, as long as the Control
\* Center lives.
THEOREM NoPhantomAlertCorrect == Spec => []NoPhantomAlert
<1>1. Init => NoPhantomAlert
  BY DEF Init, NoPhantomAlert
<1>2. TypeOK /\ NoPhantomAlert /\ [Next]_vars => NoPhantomAlert'
  BY PhantomStep
<1> QED BY <1>1, <1>2, TypeCorrect, PTL DEF Spec

-----------------------------------------------------------------------------
(***************************************************************************)
(* A stored event in the queue stays there.                                *)
(***************************************************************************)

\* What is pushed during a flush stays out of every batch and of the table
\* until the flush is over.
LEMMA FreshStep ==
  ASSUME DeliveryInv, TailIsFresh, [Next]_vars
  PROVE  TailIsFresh'
<1> DEFINE Batches == UNION {Elems(handler[c].batch) : c \in Conn}
<1>1. TypeOK /\ FlightInv /\ CopiesInv /\ TxnsInv
  BY DEF DeliveryInv
<1>2. CASE conn' = NoConn
  BY <1>2 DEF TailIsFresh
<1>3. ASSUME NEW e \in Event, Push(e) PROVE TailIsFresh'
  <2> SUFFICES ASSUME conn # NoConn, NEW i \in (Len(sending) + 1)..Len(queue')
               PROVE  /\ queue'[i] \notin Elems(rows)
                      /\ \A c \in Conn : queue'[i] \notin Elems(handler[c].batch)
    BY <1>3 DEF Push, TailIsFresh, serverVars
  <2>1. /\ Len(queue') = Len(queue) + 1 /\ queue'[Len(queue) + 1] = e
        /\ \A j \in 1..Len(queue) : queue'[j] = queue[j]
    BY <1>1, <1>3, AppendProperties DEF Push, TypeOK
  <2>2. Len(sending) \in Nat /\ Len(queue) \in Nat
    BY <1>1, LenProperties DEF TypeOK
  <2>3. CASE i = Len(queue) + 1
    BY <1>1, <1>3, <2>1, <2>3 DEF Push, CopiesInv, TxnsInv
  <2>4. CASE i # Len(queue) + 1
    <3>1. i \in (Len(sending) + 1)..Len(queue) /\ i \in 1..Len(queue)
      BY <2>1, <2>2, <2>4
    <3> QED BY <2>1, <3>1 DEF TailIsFresh
  <2> QED BY <2>3, <2>4
<1>4. ASSUME NEW c \in Conn, Post(c), queue' = queue PROVE TailIsFresh'
  <2>1. sending' = queue /\ Len(queue) \in Nat
    BY <1>1, <1>4, LenProperties DEF Post, TypeOK
  <2>2. (Len(queue) + 1)..Len(queue) = {}
    BY <2>1
  <2> QED BY <1>4, <2>1, <2>2 DEF TailIsFresh
<1>5. ASSUME UNCHANGED <<conn, sending, queue>>,
             Elems(rows') \subseteq Elems(rows) \union Batches,
             \A c \in Conn : Elems(handler'[c].batch) \subseteq Elems(handler[c].batch)
      PROVE  TailIsFresh'
  BY <1>5 DEF TailIsFresh
<1>6. ASSUME NEW c \in Conn, Commit(c) \/ Refuse(c) \/ Reject(c) \/ Ingest(c) \/ Respond(c)
      PROVE  TailIsFresh'
  <2>1. Elems(<<>>) = {}
    BY EmptySeq DEF Elems
  <2>2. handler[c] \in [st : {"none", "posted", "flushed", "replied"}, batch : Seq(Event)]
    BY <1>1 DEF TypeOK
  <2>3. \/ handler'[c].batch = <<>>
        \/ handler'[c].batch = handler[c].batch
    BY <1>1, <1>6, <2>2 DEF Commit, Refuse, Reject, Ingest, Respond, Idle, TypeOK
  <2>4. \A d \in Conn \ {c} : handler'[d] = handler[d]
    BY <1>1, <1>6 DEF Commit, Refuse, Reject, Ingest, Respond, TypeOK
  <2>5. \A d \in Conn : Elems(handler'[d].batch) \subseteq Elems(handler[d].batch)
    BY <2>1, <2>3, <2>4
  <2>6. Elems(rows') \subseteq Elems(rows) \union Batches
    <3>1. CASE Commit(c)
      <4>1. rows \in Seq(Event) /\ handler[c].batch \in Seq(Event)
        BY <1>1, <2>2 DEF TypeOK
      <4> QED BY <3>1, <4>1, ElemsConcat DEF Commit
    <3>2. CASE rows' = rows
      BY <3>2
    <3> QED BY <1>6, <3>1, <3>2 DEF Refuse, Reject, Ingest, Respond
  <2>7. UNCHANGED <<conn, sending, queue>>
    BY <1>6 DEF Commit, Refuse, Reject, Ingest, Respond, sidecarVars
  <2> QED BY <1>5, <2>5, <2>6, <2>7
<1>7. CASE CCCrash
  <2>1. Elems(<<>>) = {}
    BY EmptySeq DEF Elems
  <2>2. \A c \in Conn : handler'[c].batch = <<>>
    BY <1>7 DEF CCCrash, Idle
  <2> QED BY <1>5, <1>7, <2>1, <2>2 DEF CCCrash
<1>8. CASE UNCHANGED vars
  BY <1>5, <1>8 DEF vars, sidecarVars, serverVars
<1>9. \/ conn' = NoConn
      \/ \E e \in Event : Push(e)
      \/ \E c \in Conn : Post(c) /\ queue' = queue
      \/ \E c \in Conn : Commit(c) \/ Refuse(c) \/ Reject(c) \/ Ingest(c) \/ Respond(c)
      \/ CCCrash
      \/ UNCHANGED vars
  BY <1>1 DEF Next, Sidecar, ControlCenter, CrashInPush, TornSave, Dies, StartFlush, FlushAccepted,
         FlushFailed, FlushReturns, Timeout, Shutdown, Crash, CrashInFlush, NewContainer, Restart, FlightInv
<1> QED BY <1>2, <1>3, <1>4, <1>6, <1>7, <1>8, <1>9

\* A handler that answers 200 found none of its events stored, and what was
\* pushed after its batch is fresh: no 200 reaches a poisoned queue.
LEMMA CleanAnswer ==
  ASSUME DeliveryInv, TailIsFresh, conn \in Conn, Respond(conn)
  PROVE  Elems(Held) \cap Elems(rows) = {}
<1>1. TypeOK /\ FlightInv /\ TxnsInv /\ conn # NoConn
  BY ConstantsAssumption DEF DeliveryInv
<1>2. InTxn(conn) /\ handler[conn].batch = sending
  BY <1>1 DEF Respond, InTxn, Running, FlightInv
<1>3. Elems(sending) \cap Elems(rows) = {}
  BY <1>1, <1>2 DEF TxnsInv
<1>4. Held = queue
  BY <1>1 DEF Held, FlightInv
<1>5. /\ Len(sending) \in 0..Len(queue) /\ Len(queue) \in Nat
      /\ sending = Take(queue, Len(sending))
  BY <1>1, LenProperties DEF FlightInv, SnapshotIsHead, TypeOK
<1>6. \A i \in 1..Len(sending) : sending[i] = queue[i]
  <2> DEFINE n == Len(sending)
  <2>1. queue \in Seq(Event) /\ n \in 0..Len(queue) /\ sending = Take(queue, n)
    BY <1>1, <1>5 DEF TypeOK
  <2> HIDE DEF n
  <2>2. \A i \in 1..n : Take(queue, n)[i] = queue[i]
    BY <2>1, TakeDrop
  <2>3. \A i \in 1..n : sending[i] = queue[i]
    BY <2>1, <2>2
  <2> QED BY <2>3 DEF n
<1>7. ASSUME NEW i \in 1..Len(queue) PROVE queue[i] \notin Elems(rows)
  <2>1. CASE i \in 1..Len(sending)
    BY <1>3, <1>6, <2>1 DEF Elems
  <2>2. CASE i \in (Len(sending) + 1)..Len(queue)
    BY <1>1, <2>2 DEF TailIsFresh
  <2> QED BY <1>5, <2>1, <2>2
<1> QED BY <1>4, <1>7 DEF Elems

LEMMA PoisonStep ==
  ASSUME DeliveryInv, MirroredToDisk, TailIsFresh, [Next]_vars, Poisoned, Intact'
  PROVE  Poisoned'
<1>1. TypeOK /\ FlightInv /\ reply # "ok"
  BY DEF DeliveryInv, Poisoned
<1>2. PICK e : e \in Elems(Held) /\ e \in Elems(rows)
  BY DEF Poisoned
<1>3. e \in Elems(rows')
  <2>1. ASSUME NEW c \in Conn, Commit(c) PROVE Elems(rows) \subseteq Elems(rows')
    <3>1. rows \in Seq(Event) /\ handler[c].batch \in Seq(Event)
      BY <1>1 DEF TypeOK
    <3> QED BY <2>1, <3>1, ElemsConcat DEF Commit
  <2>2. rows' = rows \/ \E c \in Conn : Commit(c)
    BY DEF Next, Sidecar, ControlCenter, Push, CrashInPush, TornSave, StartFlush, Refuse,
           FlushAccepted, FlushFailed, Timeout, Shutdown, Crash, CrashInFlush, NewContainer,
           Restart, Reject, Ingest, Respond, CCCrash, vars, serverVars
  <2> QED BY <1>2, <2>1, <2>2
<1>4. e \in Elems(Held')
  <2>1. ASSUME NEW a \in Event, Push(a) PROVE Elems(Held) \subseteq Elems(Held')
    <3>1. Held = queue /\ Held' = Append(queue, a)
      BY <2>1 DEF Push, Held
    <3> QED BY <1>1, <3>1, ElemsAppend DEF TypeOK
  <2>2. Held' = Held \/ \E a \in Event : Push(a)
    BY <1>1, HarmlessStep DEF Held, MirroredToDisk, Next, Sidecar, ControlCenter, CrashInPush,
           Dies, Fault, StartFlush, Refuse, FlushAccepted, FlushFailed, FlushReturns, Timeout,
           Shutdown, Crash, CrashInFlush, NewContainer, Restart, Reject, Ingest, Respond, Commit,
           vars, sidecarVars
  <2> QED BY <1>2, <2>1, <2>2
<1>5. reply' # "ok"
  <2>1. ASSUME NEW c \in Conn, Respond(c) PROVE reply' # "ok"
    <3>1. c # conn
      BY <1>2, <2>1, CleanAnswer
    <3> QED BY <1>1, <2>1, <3>1 DEF Respond, Answer
  <2>2. reply' \in {reply, "none", "error"} \/ \E c \in Conn : Respond(c)
    BY DEF Next, Sidecar, ControlCenter, Push, CrashInPush, TornSave, Dies, StartFlush, Post,
           Refuse, FlushAccepted, FlushFailed, FlushReturns, Timeout, Shutdown, Crash,
           CrashInFlush, NewContainer, Restart, Reject, Answer, Ingest, Commit, CCCrash, vars, sidecarVars
  <2> QED BY <1>1, <2>1, <2>2
<1> QED BY <1>3, <1>4, <1>5 DEF Poisoned

\* A stored event left in the queue is never got rid of: every later batch
\* holds it and is refused, for any number of retries, restarts and shutdowns.
THEOREM PoisonIsForeverCorrect == Spec => PoisonIsForever
<1>1. Init => MirroredToDisk /\ TailIsFresh
  BY DEF Init, MirroredToDisk, TailIsFresh
<1>2. DeliveryInv /\ MirroredToDisk /\ TailIsFresh /\ [Next]_vars
        => MirroredToDisk' /\ TailIsFresh'
  BY MirrorStep, FreshStep
<1>3. DeliveryInv /\ MirroredToDisk /\ TailIsFresh /\ [Next]_vars
        => [Poisoned /\ Intact' => Poisoned']_vars
  BY PoisonStep
<1> QED BY <1>1, <1>2, <1>3, DeliveryCorrect, PTL DEF Spec, PoisonIsForever

-----------------------------------------------------------------------------
(***************************************************************************)
(* An event under another id stays there, too.                             *)
(***************************************************************************)

LEMMA ForeignStep ==
  ASSUME DeliveryInv, MirroredToDisk, [Next]_vars, Intact'
  PROVE  foreign \cap Elems(Held) \subseteq Elems(Held')
<1>1. TypeOK /\ FlightInv /\ CopiesInv /\ AddressedInv
  BY DEF DeliveryInv
<1>2. ASSUME NEW a \in Event, Push(a) PROVE Elems(Held) \subseteq Elems(Held')
  <2>1. Held = queue /\ Held' = Append(queue, a)
    BY <1>2 DEF Push, Held
  <2> QED BY <1>1, <2>1, ElemsAppend DEF TypeOK
<1>3. ASSUME FlushAccepted PROVE foreign \cap Elems(Held) \subseteq Elems(Held')
  <2>1. reply = "ok" /\ conn \in Conn
    BY <1>1, <1>3, AcceptedType DEF FlushAccepted
  <2>2. Held = queue /\ Held' = Drop(queue, Len(sending))
    BY <1>1, <1>3, <2>1, ConstantsAssumption DEF FlushAccepted, FlightInv, Held
  <2> QED BY <1>1, <2>1, <2>2, SendingPushed DEF AddressedInv
<1>4. Held' = Held \/ FlushAccepted \/ \E a \in Event : Push(a)
  BY <1>1, HarmlessStep DEF Held, MirroredToDisk, Next, Sidecar, ControlCenter, CrashInPush,
         Dies, Fault, StartFlush, Refuse, FlushFailed, FlushReturns, Timeout, Shutdown,
         Crash, CrashInFlush, NewContainer, Restart, Reject, Ingest, Respond, Commit, vars,
         sidecarVars
<1> QED BY <1>2, <1>3, <1>4

\* An event stamped by a container under a new id never leaves the sidecar:
\* no answer the Control Center gives to a batch with it drops it, for any
\* number of retries, restarts and shutdowns, and it is never stored.
THEOREM ForeignIsForeverCorrect == Spec => ForeignIsForever
<1>1. Init => MirroredToDisk
  BY DEF Init, MirroredToDisk
<1>2. MirroredToDisk /\ [Next]_vars => MirroredToDisk'
  BY MirrorStep
<1>3. DeliveryInv /\ MirroredToDisk /\ [Next]_vars
        => [Intact' => foreign \cap Elems(Held) \subseteq Elems(Held')]_vars
  BY ForeignStep
<1> QED BY <1>1, <1>2, <1>3, DeliveryCorrect, PTL DEF Spec, ForeignIsForever

-----------------------------------------------------------------------------
(***************************************************************************)
(* EventDelivery implements EventLog.                                      *)
(***************************************************************************)

\* The queue, the network and the transactions together never do anything
\* the plain log would not: each commit adds a whole batch of fresh rows.
THEOREM LogImplemented == Spec => ImplementsEventLog
<1>1. Init => Log!Init
  BY DEF Init, Log!Init, Elems
<1>2. DeliveryInv /\ [Next]_vars => [Log!Next]_(Log!logVars)
  <2> SUFFICES ASSUME DeliveryInv, [Next]_vars
               PROVE  [Log!Next]_(Log!logVars)
    OBVIOUS
  <2>1. TypeOK
    BY DEF DeliveryInv
  <2>2. ASSUME NEW e \in Event, Push(e) \/ CrashInPush(e) PROVE Log!Next
    <3>1. Elems(pushed') = Elems(pushed) \union {e}
      <4>1. pushed \in Seq(Event) /\ pushed' = Append(pushed, e)
        BY <2>1, <2>2 DEF Push, CrashInPush, TypeOK
      <4> QED BY <4>1, ElemsAppend
    <3>2. e \notin Elems(pushed) /\ rows' = rows
      BY <2>2 DEF Push, CrashInPush, TornSave, serverVars
    <3> QED BY <3>1, <3>2 DEF Log!Next, Log!Record
  <2>3. ASSUME NEW c \in Conn, Commit(c) PROVE Log!Next
    <3> DEFINE batch == handler[c].batch
    <3>1. rows \in Seq(Event) /\ batch \in Seq(Event) /\ batch # <<>>
      BY <2>1, <2>3 DEF Commit, DeliveryInv, FlightInv, Running, TypeOK
    <3>2. Len(rows) \in Nat /\ Len(batch) \in Nat \ {0}
      BY <3>1, LenProperties, EmptySeq
    <3>3. /\ rows' \in Seq(Event)
          /\ Len(rows') = Len(rows) + Len(batch)
          /\ \A i \in 1..Len(rows) : rows'[i] = rows[i]
      BY <2>3, <3>1, <3>2, ConcatProperties DEF Commit
    <3>4. SubSeq(rows', 1, Len(rows)) = rows
      <4>1. Len(rows) \in 0..Len(rows')
        BY <3>2, <3>3
      <4>2. /\ Take(rows', Len(rows)) \in Seq(Event) /\ Len(Take(rows', Len(rows))) = Len(rows)
            /\ \A i \in 1..Len(rows) : Take(rows', Len(rows))[i] = rows'[i]
        BY <3>3, <4>1, TakeDrop
      <4>3. Take(rows', Len(rows)) = rows
        BY <3>1, <3>3, <4>2, SeqEqual
      <4> QED BY <4>3 DEF Take
    <3>5. Distinct(rows') /\ Elems(rows') \subseteq Elems(pushed') /\ pushed' = pushed
      BY <2>3, TxnsStep DEF TxnsInv, StoredOnce, Commit
    <3>6. Log!StoreBatch
      <4>1. Len(rows') > Len(rows)
        BY <3>2, <3>3
      <4>2. \A i, j \in 1..Len(rows') : rows'[i] = rows'[j] => i = j
        BY <3>5 DEF Distinct
      <4>3. \A i \in 1..Len(rows') : rows'[i] \in Elems(pushed)
        <5>1. Elems(rows') \subseteq Elems(pushed)
          BY <3>5
        <5> QED BY <5>1 DEF Elems
      <4>4. UNCHANGED Elems(pushed)
        BY <3>5
      <4> QED BY <3>4, <4>1, <4>2, <4>3, <4>4 DEF Log!StoreBatch
    <3> QED BY <3>6 DEF Log!Next
  <2>4. ASSUME UNCHANGED <<pushed, rows>> PROVE UNCHANGED Log!logVars
    BY <2>4 DEF Log!logVars
  <2>5. \/ \E e \in Event : Push(e) \/ CrashInPush(e)
        \/ \E c \in Conn : Commit(c)
        \/ UNCHANGED <<pushed, rows>>
    BY DEF Next, Sidecar, ControlCenter, TornSave, StartFlush, Refuse, FlushAccepted, FlushFailed,
           Timeout, Shutdown, Crash, CrashInFlush, NewContainer, Restart, Reject, Ingest, Respond,
           CCCrash, vars, serverVars
  <2> QED BY <2>2, <2>3, <2>4, <2>5
<1> QED BY <1>1, <1>2, DeliveryCorrect, PTL DEF Spec, ImplementsEventLog, Log!Spec
=============================================================================
