---------------------------- MODULE ApprovalGate ----------------------------
(***************************************************************************)
(* What the approval workflow promises for one tool call held back on a    *)
(* device: the device comes to one conclusion, and concludes "approved" or *)
(* "denied" only after an administrator's decision of that kind has been   *)
(* put on record.  It may give up at any time.                             *)
(***************************************************************************)
VARIABLES onRecord,    \* kinds of decisions administrators have on record
          conclusion   \* what the device concludes for the tool call

gateVars == <<onRecord, conclusion>>

Init == onRecord = {} /\ conclusion = "none"

Decide(kind) == /\ onRecord' = onRecord \union {kind}
                /\ UNCHANGED conclusion

Conclude(kind) == /\ conclusion = "none"
                  /\ kind \in onRecord \union {"expired", "error"}
                  /\ conclusion' = kind
                  /\ UNCHANGED onRecord

Next == \/ \E kind \in {"approved", "denied"} : Decide(kind)
        \/ \E kind \in {"approved", "denied", "expired", "error"} : Conclude(kind)

Spec == Init /\ [][Next]_gateVars
=============================================================================
