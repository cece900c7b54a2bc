-------------------------- MODULE Approvals_proofs --------------------------
(***************************************************************************)
(* Theorems about Approvals, for any number of administrators, status      *)
(* requests, polls and faults.  The runs check the same formulas on small  *)
(* instances.                                                              *)
(***************************************************************************)
EXTENDS Approvals, TLAPS

-----------------------------------------------------------------------------
\* Every state component stays in its type: in particular the loop of
\* wait_approval never turns more than MaxPolls times.
THEOREM TypeCorrect == Spec => []TypeOK
<1>1. Init => TypeOK
  <2> SUFFICES ASSUME Init PROVE TypeOK
    OBVIOUS
  <2>1. /\ txn \in [Admin -> {"idle", "read", "written", "over"}]
        /\ probe \in [Poller -> {"idle", "posted", "overdue", "written"}]
        /\ late \in BOOLEAN
        /\ audit \in SUBSET (Admin \X Decision)
    BY DEF Init
  <2>2. polls \in 0..MaxPolls /\ faults \in 0..MaxFaults
    BY ConstantsAssumption DEF Init
  <2> QED BY <2>1, <2>2 DEF Init, TypeOK
<1>2. TypeOK /\ [Next]_vars => TypeOK'
  <2> SUFFICES ASSUME TypeOK, [Next]_vars PROVE TypeOK'
    OBVIOUS
  <2> USE ConstantsAssumption DEF TypeOK, rowVars, adminVars, deviceVars
  <2>1. CASE Tick
    BY <2>1 DEF Tick
  <2>2. CASE RequestApproval
    BY <2>2 DEF RequestApproval
  <2>3. CASE CreateFails
    BY <2>3 DEF CreateFails, Fault, Conclude
  <2>4. CASE PollConcludes
    BY <2>4 DEF PollConcludes, Conclude, Final
  <2>5. CASE PollGoesOn
    BY <2>5 DEF PollGoesOn
  <2>6. CASE PollTimesOut
    BY <2>6 DEF PollTimesOut, Fault
  <2>7. CASE GiveUp
    BY <2>7 DEF GiveUp, Conclude, Final
  <2>8. CASE SidecarCrash
    BY <2>8 DEF SidecarCrash, Fault, Conclude
  <2>9. ASSUME NEW p \in Poller, StartPoll(p) PROVE TypeOK'
    BY <2>9 DEF StartPoll
  <2>10. CASE CreateReplies
    BY <2>10 DEF CreateReplies
  <2>11. CASE CreateCommits
    BY <2>11 DEF CreateCommits
  <2>12. ASSUME NEW a \in Admin, DecisionReads(a) PROVE TypeOK'
    BY <2>12 DEF DecisionReads
  <2>13. ASSUME NEW a \in Admin, DecisionWrites(a) PROVE TypeOK'
    BY <2>13 DEF DecisionWrites
  <2>14. ASSUME NEW a \in Admin, DecisionCommits(a) PROVE TypeOK'
    BY <2>14 DEF DecisionCommits, Decision, Final
  <2>15. ASSUME NEW p \in Poller, ProbeReads(p) PROVE TypeOK'
    BY <2>15 DEF ProbeReads, Answer
  <2>16. ASSUME NEW p \in Poller, ProbeWrites(p) PROVE TypeOK'
    BY <2>16 DEF ProbeWrites, Answer, Final
  <2>17. ASSUME NEW p \in Poller, ProbeCommits(p) PROVE TypeOK'
    BY <2>17 DEF ProbeCommits, Final
  <2>18. CASE Sweep
    BY <2>18 DEF Sweep, Final
  <2>19. CASE CCCrash
    BY <2>19 DEF CCCrash, Fault, Conclude
  <2>20. CASE UNCHANGED vars
    BY <2>20 DEF vars
  <2> QED
    BY <2>1, <2>2, <2>3, <2>4, <2>5, <2>6, <2>7, <2>8, <2>9, <2>10, <2>11, <2>12, <2>13,
       <2>14, <2>15, <2>16, <2>17, <2>18, <2>19, <2>20 DEF Next, Device, ControlCenter
<1> QED BY <1>1, <1>2, PTL DEF Spec

-----------------------------------------------------------------------------
\* A decided row names an administrator whose decision is in the audit log,
\* however concurrent decisions and expiries overwrite each other.
THEOREM DecisionAuditedCorrect == Spec => []DecisionAudited
<1>1. Init => DecisionAudited
  BY DEF Init, DecisionAudited, Decision
<1>2. TypeOK /\ DecisionAudited /\ [Next]_vars => DecisionAudited'
  <2> SUFFICES ASSUME TypeOK, DecisionAudited, [Next]_vars PROVE DecisionAudited'
    OBVIOUS
  <2> USE DEF DecisionAudited, Decision, rowVars, adminVars
  <2>1. ASSUME NEW a \in Admin, DecisionCommits(a) PROVE DecisionAudited'
    BY <2>1 DEF DecisionCommits
  <2>2. CASE status' \in {"pending", "expired"}
    BY <2>2
  <2>3. CASE UNCHANGED <<status, decidedBy, audit>>
    BY <2>3
  <2>4. \/ \E a \in Admin : DecisionCommits(a)
        \/ status' \in {"pending", "expired"}
        \/ UNCHANGED <<status, decidedBy, audit>>
    BY DEF Next, Device, ControlCenter, Tick, RequestApproval, CreateFails, PollConcludes,
           PollGoesOn, PollTimesOut, GiveUp, SidecarCrash, StartPoll, CreateReplies,
           CreateCommits, DecisionReads, DecisionWrites, ProbeReads, ProbeWrites,
           ProbeCommits, Sweep, CCCrash, vars
  <2> QED BY <2>1, <2>2, <2>3, <2>4
<1> QED BY <1>1, <1>2, TypeCorrect, PTL DEF Spec

-----------------------------------------------------------------------------
\* The replies the sidecar acts on carry decisions that are on record.
THEOREM GateCorrect == Spec => []GateInv
<1>1. Init => GateInv
  BY DEF Init, GateInv, Decision
<1>2. TypeOK /\ DecisionAudited /\ GateInv /\ [Next]_vars => GateInv'
  <2> SUFFICES ASSUME TypeOK, DecisionAudited, GateInv, [Next]_vars PROVE GateInv'
    OBVIOUS
  <2> USE DEF GateInv, Decision, rowVars, adminVars
  <2>1. ASSUME NEW p \in Poller, ProbeReads(p) PROVE GateInv'
    <3>1. UNCHANGED <<audit, device, polling, verdict>>
      BY <2>1 DEF ProbeReads
    <3>2. CASE answer' = answer
      BY <3>1, <3>2
    <3>3. CASE p = polling /\ answer' \in {status, "error"}
      <4>1. polling # Nobody
        BY <3>3, ConstantsAssumption
      <4>2. answer' \in {"approved", "denied"} => answer' = status
        BY <3>3
      <4>3. status \in {"approved", "denied"} => <<decidedBy, status>> \in audit /\ decidedBy \in Admin
        BY DEF DecisionAudited, TypeOK
      <4> QED BY <3>1, <4>1, <4>2, <4>3
    <3> QED BY <2>1, <3>2, <3>3 DEF ProbeReads, Answer
  <2>2. ASSUME NEW p \in Poller, ProbeWrites(p) PROVE GateInv'
    BY <2>2, ConstantsAssumption DEF ProbeWrites, Answer
  <2>3. ASSUME NEW a \in Admin, DecisionCommits(a) PROVE GateInv'
    BY <2>3 DEF DecisionCommits, deviceVars
  <2>4. ASSUME NEW p \in Poller, StartPoll(p) PROVE GateInv'
    BY <2>4, ConstantsAssumption DEF StartPoll
  <2>5. ASSUME device' = "done", polling' = Nobody, answer' = "none" PROVE GateInv'
    BY <2>5
  <2>6. CASE CreateReplies
    BY <2>6, ConstantsAssumption DEF CreateReplies
  <2>7. CASE RequestApproval
    BY <2>7 DEF RequestApproval
  <2>8. CASE PollGoesOn
    BY <2>8 DEF PollGoesOn
  <2>9. CASE PollTimesOut
    BY <2>9 DEF PollTimesOut
  <2>10. CASE CCCrash /\ device # "creating"
    BY <2>10 DEF CCCrash, Conclude
  <2>11. CASE UNCHANGED <<audit, deviceVars>>
    BY <2>11 DEF deviceVars
  <2>12. \/ device' = "done" /\ polling' = Nobody /\ answer' = "none"
         \/ CreateReplies \/ RequestApproval \/ PollGoesOn \/ PollTimesOut
         \/ CCCrash /\ device # "creating"
         \/ \E p \in Poller : ProbeReads(p) \/ ProbeWrites(p) \/ StartPoll(p)
         \/ \E a \in Admin : DecisionCommits(a)
         \/ UNCHANGED <<audit, deviceVars>>
    BY DEF Next, Device, ControlCenter, Tick, CreateFails, PollConcludes, GiveUp, SidecarCrash,
           Conclude, CreateCommits, DecisionReads, DecisionWrites, ProbeCommits, Sweep, CCCrash, vars
  <2> QED BY <2>1, <2>2, <2>3, <2>4, <2>5, <2>6, <2>7, <2>8, <2>9, <2>10, <2>11, <2>12
<1> QED BY <1>1, <1>2, TypeCorrect, DecisionAuditedCorrect, PTL DEF Spec

-----------------------------------------------------------------------------
\* The row's lock belongs to whoever has written and not committed.
LEMMA LockStep ==
  ASSUME TypeOK, LockInv, [Next]_vars
  PROVE  LockInv'
<1> USE ConstantsAssumption DEF TypeOK, LockInv, rowVars, adminVars, deviceVars
<1>1. ASSUME NEW a \in Admin, DecisionReads(a) PROVE LockInv'
  BY <1>1 DEF DecisionReads
<1>2. ASSUME NEW a \in Admin, DecisionWrites(a) PROVE LockInv'
  BY <1>2 DEF DecisionWrites
<1>3. ASSUME NEW a \in Admin, DecisionCommits(a) PROVE LockInv'
  BY <1>3 DEF DecisionCommits
<1>4. ASSUME NEW p \in Poller, StartPoll(p) PROVE LockInv'
  BY <1>4 DEF StartPoll
<1>5. ASSUME NEW p \in Poller, ProbeReads(p) PROVE LockInv'
  BY <1>5 DEF ProbeReads
<1>6. ASSUME NEW p \in Poller, ProbeWrites(p) PROVE LockInv'
  BY <1>6 DEF ProbeWrites
<1>7. ASSUME NEW p \in Poller, ProbeCommits(p) PROVE LockInv'
  BY <1>7 DEF ProbeCommits
<1>8. CASE CCCrash
  BY <1>8 DEF CCCrash
<1>9. CASE UNCHANGED <<txn, probe, lock>>
  BY <1>9
<1> QED
  BY <1>1, <1>2, <1>3, <1>4, <1>5, <1>6, <1>7, <1>8, <1>9
  DEF Next, Device, ControlCenter, Tick, RequestApproval, CreateFails, PollConcludes,
      PollGoesOn, PollTimesOut, GiveUp, SidecarCrash, CreateReplies, CreateCommits, Sweep, vars

\* A reply the sidecar awaits has a handler that is going to give it: a
\* handler that ends has answered, and a sidecar that gives up awaits no more.
LEMMA AwaitedStep ==
  ASSUME TypeOK, GateInv, AwaitedInv, [Next]_vars
  PROVE  AwaitedInv'
<1> USE ConstantsAssumption DEF TypeOK, AwaitedInv, rowVars, adminVars, deviceVars
<1>1. CASE RequestApproval
  BY <1>1 DEF RequestApproval, GateInv
<1>2. CASE CreateReplies
  BY <1>2 DEF CreateReplies
<1>3. CASE CreateCommits
  BY <1>3 DEF CreateCommits
<1>4. ASSUME device' = "done", polling' = Nobody PROVE AwaitedInv'
  BY <1>4
<1>5. ASSUME NEW p \in Poller, StartPoll(p) PROVE AwaitedInv'
  BY <1>5 DEF StartPoll
<1>6. ASSUME polling' = Nobody, UNCHANGED <<device, creation>> PROVE AwaitedInv'
  BY <1>6
<1>7. ASSUME NEW p \in Poller, ProbeReads(p) PROVE AwaitedInv'
  <2>1. polling = p => probe'[p] = "overdue" \/ answer' # "none"
    BY <1>7 DEF ProbeReads, Answer, Final
  <2>2. polling # p => answer' = answer
    BY <1>7 DEF ProbeReads, Answer
  <2>3. polling \in Poller \ {p} => probe'[polling] = probe[polling]
    BY <1>7 DEF ProbeReads
  <2>4. UNCHANGED <<device, creation, polling>>
    BY <1>7 DEF ProbeReads
  <2> QED BY <2>1, <2>2, <2>3, <2>4
<1>8. ASSUME NEW p \in Poller, ProbeWrites(p) PROVE AwaitedInv'
  BY <1>8 DEF ProbeWrites, Answer
<1>9. ASSUME NEW p \in Poller, ProbeCommits(p) PROVE AwaitedInv'
  BY <1>9 DEF ProbeCommits
<1>10. CASE CCCrash /\ device # "creating"
  BY <1>10 DEF CCCrash, Conclude
<1>11. CASE UNCHANGED <<device, creation, polling, answer, probe>>
  BY <1>11
<1> QED
  BY <1>1, <1>2, <1>3, <1>4, <1>5, <1>6, <1>7, <1>8, <1>9, <1>10, <1>11
  DEF Next, Device, ControlCenter, Tick, CreateFails, Conclude, PollConcludes, PollGoesOn,
      PollTimesOut, GiveUp, SidecarCrash, DecisionReads, DecisionWrites, DecisionCommits,
      Sweep, CCCrash, vars

\* Nobody waits for a lock without an owner or for a reply without a handler,
\* for any number of administrators, polls and faults.
THEOREM WorkflowCorrect == Spec => []WorkflowInv
<1>1. Init => LockInv /\ AwaitedInv
  BY ConstantsAssumption DEF Init, LockInv, AwaitedInv
<1>2. TypeOK /\ GateInv /\ LockInv /\ AwaitedInv /\ [Next]_vars => LockInv' /\ AwaitedInv'
  BY LockStep, AwaitedStep
<1>3. WorkflowInv <=> GateInv /\ LockInv /\ AwaitedInv
  BY DEF WorkflowInv
<1> QED BY <1>1, <1>2, <1>3, TypeCorrect, GateCorrect, PTL DEF Spec

-----------------------------------------------------------------------------
\* An audit entry adds its kind to the kinds on record.
LEMMA Recorded ==
  ASSUME NEW S, NEW a, NEW k
  PROVE  {d[2] : d \in S \union {<<a, k>>}} = {d[2] : d \in S} \union {k}
<1>1. <<a, k>>[2] = k
  OBVIOUS
<1>2. \A x : x \in {d[2] : d \in S \union {<<a, k>>}}
             <=> x \in {d[2] : d \in S} \/ x = <<a, k>>[2]
  BY Zenon
<1> QED BY <1>1, <1>2, Zenon

\* The workflow implements ApprovalGate: the device comes to one conclusion,
\* and lets the tool run, or reports a denial, only after such a decision.
THEOREM GateImplemented == Spec => ImplementsGate
<1> DEFINE record == {d[2] : d \in audit}
<1>1. Init => Gate!Init
  BY DEF Init, Gate!Init
<1>2. TypeOK /\ DecisionAudited /\ GateInv /\ [Next]_vars => [Gate!Next]_(Gate!gateVars)
  <2> SUFFICES ASSUME TypeOK, GateInv, [Next]_vars
               PROVE  [Gate!Next]_(Gate!gateVars)
    OBVIOUS
  <2> USE DEF rowVars, adminVars
  <2>1. ASSUME NEW a \in Admin, DecisionCommits(a) PROVE Gate!Next
    <3>1. PICK k \in {"approved", "denied"} : k = choice[a]
      BY DEF TypeOK, Decision
    <3>2. audit' = audit \union {<<a, k>>} /\ verdict' = verdict
      BY <2>1, <3>1 DEF DecisionCommits, deviceVars
    <3>3. record' = record \union {k}
      BY <3>2, Recorded
    <3>4. Gate!Decide(k)
      BY <3>2, <3>3 DEF Gate!Decide
    <3> QED BY <3>4 DEF Gate!Next
  <2>2. ASSUME NEW v \in {"expired", "error"}, device # "done", Conclude(v), audit' = audit
        PROVE  Gate!Next
    BY <2>2 DEF Conclude, GateInv, Gate!Next, Gate!Conclude
  <2>3. CASE PollConcludes
    <3>1. device # "done" /\ verdict = "none"
      BY <2>3 DEF PollConcludes, Final, GateInv
    <3>2. verdict' = answer /\ audit' = audit
      BY <2>3 DEF PollConcludes, Conclude
    <3>3. answer \in record \union {"expired"}
      <4>1. CASE answer \in {"approved", "denied"}
        <5>1. PICK a \in Admin : <<a, answer>> \in audit
          BY <4>1 DEF GateInv, Decision
        <5> QED BY <5>1
      <4> QED BY <2>3, <4>1 DEF PollConcludes, Final
    <3>4. Gate!Conclude(answer)
      BY <3>1, <3>2, <3>3 DEF Gate!Conclude
    <3> QED BY <2>3, <3>4 DEF PollConcludes, Final, Gate!Next
  <2>4. CASE UNCHANGED <<audit, verdict>>
    BY <2>4 DEF Gate!gateVars
  <2>5. \/ PollConcludes
        \/ \E a \in Admin : DecisionCommits(a)
        \/ \E v \in {"expired", "error"} : device # "done" /\ Conclude(v) /\ audit' = audit
        \/ UNCHANGED <<audit, verdict>>
    BY DEF Next, Device, ControlCenter, Tick, RequestApproval, CreateFails, PollGoesOn,
           PollTimesOut, GiveUp, SidecarCrash, StartPoll, CreateReplies, CreateCommits,
           DecisionReads, DecisionWrites, ProbeReads, ProbeWrites, ProbeCommits, Sweep,
           CCCrash, vars, deviceVars
  <2> QED BY <2>1, <2>2, <2>3, <2>4, <2>5
<1> QED
  BY <1>1, <1>2, TypeCorrect, DecisionAuditedCorrect, GateCorrect, PTL
  DEF Spec, ImplementsGate, Gate!Spec
=============================================================================
