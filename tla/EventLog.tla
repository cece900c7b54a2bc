------------------------------ MODULE EventLog ------------------------------
(***************************************************************************)
(* What the event pipeline promises to a reader of the Control Center's    *)
(* events table, with no queue, network or crash in sight: events are      *)
(* recorded on devices; now and then a batch of recorded events, none of   *)
(* them stored before, is added to the table.  Rows are never duplicated   *)
(* and never taken back.                                                   *)
(***************************************************************************)
EXTENDS Naturals, Sequences

CONSTANT Event        \* the events the devices may ever report

VARIABLES recorded,   \* the set of events handed to a sidecar
          table       \* the rows of the events table, in commit order

logVars == <<recorded, table>>

Init == recorded = {} /\ table = <<>>

Record(e) == /\ e \notin recorded
             /\ recorded' = recorded \union {e}
             /\ UNCHANGED table

\* The table grows at its end, by recorded events it does not hold yet.
StoreBatch == /\ Len(table') > Len(table)
              /\ SubSeq(table', 1, Len(table)) = table
              /\ \A i, j \in 1..Len(table') : table'[i] = table'[j] => i = j
              /\ \A i \in 1..Len(table') : table'[i] \in recorded
              /\ UNCHANGED recorded

Next == StoreBatch \/ \E e \in Event : Record(e)

Spec == Init /\ [][Next]_logVars
=============================================================================
