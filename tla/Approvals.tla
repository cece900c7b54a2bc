------------------------------ MODULE Approvals ------------------------------
(***************************************************************************)
(* One approval, from the tool call that needs it to the device's verdict. *)
(*                                                                         *)
(* Control Center (services/approval_service.py, api/v1/approvals.py,      *)
(* main.py): every request reads the row, checks it in Python, writes it   *)
(* and commits, in a READ COMMITTED transaction of its own; the check and  *)
(* the write are apart, and nothing locks the row in between.  Replies     *)
(* leave before the commit (get_db).  A background task expires overdue    *)
(* rows with one conditional UPDATE.                                       *)
(*                                                                         *)
(* Sidecar (local_api.py): creates the row, then polls its status and      *)
(* reports the first one that is not pending, or "expired" when it has     *)
(* polled often enough.  The plugin runs the tool on "approved" only.      *)
(***************************************************************************)
EXTENDS Naturals, FiniteSets

CONSTANTS Admin,      \* administrators deciding on the approval
          Poller,     \* connections for status requests
          Nobody,     \* "none" for administrators and connections
          MaxPolls,   \* polls before the sidecar gives up (24)
          Faults,     \* the faults of the environment that may happen
          MaxFaults   \* how many of them

FaultNames == {"lost_create", "poll_timeout", "sidecar_crash", "cc_crash"}

ASSUME ConstantsAssumption ==
  /\ Admin \cap Poller = {}
  /\ Nobody \notin Admin \union Poller
  /\ MaxPolls \in Nat
  /\ Faults \subseteq FaultNames
  /\ MaxFaults \in Nat

Decision == {"approved", "denied"}
Final == {"approved", "denied", "expired"}

VARIABLES
  status,     \* the row's status; "absent" before it is committed
  decidedBy,  \* its decided_by
  late,       \* expires_at has passed
  creation,   \* the create request: "none", "posted", "replied", "over"
  txn,        \* per administrator: "idle", "read", "written", "over"
  choice,     \* per administrator, the decision asked for
  probe,      \* per status request: "idle", "posted", "overdue", "written"
  lock,       \* whose transaction has written the row and not committed
  audit,      \* audit entries <<administrator, status>>
  device,     \* the sidecar: "idle", "creating", "waiting", "done"
  polls,      \* turns of wait_approval's loop so far
  polling,    \* the status request it awaits, or Nobody
  answer,     \* what came back on it
  verdict,    \* what the plugin gets
  faults      \* faults that have happened

rowVars == <<status, decidedBy>>
adminVars == <<txn, choice, audit>>
deviceVars == <<device, polls, polling, answer, verdict>>
vars == <<rowVars, late, creation, adminVars, probe, lock, deviceVars, faults>>

TypeOK ==
  /\ status \in {"absent", "pending"} \union Final
  /\ decidedBy \in Admin \union {Nobody}
  /\ late \in BOOLEAN
  /\ creation \in {"none", "posted", "replied", "over"}
  /\ txn \in [Admin -> {"idle", "read", "written", "over"}]
  /\ choice \in [Admin -> Decision]
  /\ probe \in [Poller -> {"idle", "posted", "overdue", "written"}]
  /\ lock \in Admin \union Poller \union {Nobody}
  /\ audit \in SUBSET (Admin \X Decision)
  /\ device \in {"idle", "creating", "waiting", "done"}
  /\ polls \in 0..MaxPolls
  /\ polling \in Poller \union {Nobody}
  /\ answer \in {"none", "pending", "error"} \union Final
  /\ verdict \in {"none", "error"} \union Final
  /\ faults \in 0..MaxFaults

Init ==
  /\ status = "absent"
  /\ decidedBy = Nobody
  /\ late = FALSE
  /\ creation = "none"
  /\ txn = [a \in Admin |-> "idle"]
  /\ choice \in [Admin -> Decision]
  /\ probe = [p \in Poller |-> "idle"]
  /\ lock = Nobody
  /\ audit = {}
  /\ device = "idle"
  /\ polls = 0
  /\ polling = Nobody
  /\ answer = "none"
  /\ verdict = "none"
  /\ faults = 0

Fault(name) ==
  /\ name \in Faults
  /\ faults < MaxFaults
  /\ faults' = faults + 1

\* expires_at passes.
Tick ==
  /\ creation # "none"
  /\ ~late
  /\ late' = TRUE
  /\ UNCHANGED <<rowVars, creation, adminVars, probe, lock, deviceVars, faults>>

-----------------------------------------------------------------------------
(***************************************************************************)
(* The device: request_approval, then wait_approval.                       *)
(***************************************************************************)
Conclude(v) ==
  /\ device' = "done"
  /\ verdict' = v
  /\ polling' = Nobody
  /\ answer' = "none"

\* request_approval posts the create request.
RequestApproval ==
  /\ device = "idle"
  /\ device' = "creating"
  /\ creation' = "posted"
  /\ UNCHANGED <<rowVars, late, adminVars, probe, lock, polls, polling, answer, verdict, faults>>

\* create_approval: the row is inserted and the reply leaves; the commit is
\* still to come.
CreateReplies ==
  /\ creation = "posted"
  /\ creation' = "replied"
  /\ device' = IF device = "creating" THEN "waiting" ELSE device
  /\ UNCHANGED <<rowVars, late, adminVars, probe, lock, polls, polling, answer, verdict, faults>>

CreateCommits ==
  /\ creation = "replied"
  /\ creation' = "over"
  /\ status' = "pending"
  /\ UNCHANGED <<decidedBy, late, adminVars, probe, lock, deviceVars, faults>>

\* The create request fails for the sidecar (503; the plugin throws), whether
\* or not the Control Center has it.
CreateFails ==
  /\ Fault("lost_create")
  /\ device = "creating"
  /\ Conclude("error")
  /\ creation' \in {"posted", "over"}
  /\ UNCHANGED <<rowVars, late, adminVars, probe, lock, polls>>

\* A turn of the loop: get the status.
StartPoll(p) ==
  /\ device = "waiting"
  /\ polling = Nobody
  /\ polls < MaxPolls
  /\ probe[p] = "idle"
  /\ polls' = polls + 1
  /\ polling' = p
  /\ answer' = "none"
  /\ probe' = [probe EXCEPT ![p] = "posted"]
  /\ UNCHANGED <<rowVars, late, creation, adminVars, lock, device, verdict, faults>>

\* `if status != "pending": return`.
PollConcludes ==
  /\ answer \in Final
  /\ Conclude(answer)
  /\ UNCHANGED <<rowVars, late, creation, adminVars, probe, lock, polls, faults>>

\* Still pending, or an exception that is swallowed: sleep, next turn.
PollGoesOn ==
  /\ answer \in {"pending", "error"}
  /\ polling' = Nobody
  /\ answer' = "none"
  /\ UNCHANGED <<rowVars, late, creation, adminVars, probe, lock, device, polls, verdict, faults>>

\* The client's 5 s run out; the handler is not told.
PollTimesOut ==
  /\ Fault("poll_timeout")
  /\ polling # Nobody
  /\ answer = "none"
  /\ polling' = Nobody
  /\ UNCHANGED <<rowVars, late, creation, adminVars, probe, lock, device, polls, answer, verdict>>

\* Mutant of GiveUp: running out of polls lets the tool through.
GiveUp_FailsOpen ==
  /\ device = "waiting"
  /\ polling = Nobody
  /\ polls = MaxPolls
  /\ Conclude("approved")
  /\ UNCHANGED <<rowVars, late, creation, adminVars, probe, lock, polls, faults>>

\* Mutant of GiveUp: the end of the loop starts it again.
GiveUp_StartsOver ==
  /\ device = "waiting"
  /\ polling = Nobody
  /\ polls = MaxPolls
  /\ polls' = 0
  /\ UNCHANGED <<rowVars, late, creation, adminVars, probe, lock, device, polling, answer, verdict, faults>>

\* The loop is over.
GiveUp ==
  /\ device = "waiting"
  /\ polling = Nobody
  /\ polls = MaxPolls
  /\ Conclude("expired")
  /\ UNCHANGED <<rowVars, late, creation, adminVars, probe, lock, polls, faults>>

\* The sidecar dies: the plugin's fetch fails and the hook throws.
SidecarCrash ==
  /\ Fault("sidecar_crash")
  /\ device \in {"creating", "waiting"}
  /\ Conclude("error")
  /\ UNCHANGED <<rowVars, late, creation, adminVars, probe, lock, polls>>

-----------------------------------------------------------------------------
(***************************************************************************)
(* The Control Center: decisions.                                          *)
(***************************************************************************)

\* approve_approval and deny_approval up to the check of the status; a row
\* that is not pending is refused (400).
DecisionReads(a) ==
  /\ txn[a] = "idle"
  /\ status # "absent"
  /\ txn' = [txn EXCEPT ![a] = IF status = "pending" THEN "read" ELSE "over"]
  /\ UNCHANGED <<rowVars, late, creation, choice, audit, probe, lock, deviceVars, faults>>

\* The UPDATE at db.flush waits for another transaction's write to be over,
\* then the audit entry and, if a denial asks for it, the device's quarantine
\* (DeviceControl) follow in the same transaction, and the reply leaves.
DecisionWrites(a) ==
  /\ txn[a] = "read"
  /\ lock = Nobody
  /\ lock' = a
  /\ txn' = [txn EXCEPT ![a] = "written"]
  /\ UNCHANGED <<rowVars, late, creation, choice, audit, probe, deviceVars, faults>>

\* Mutant of DecisionCommits: a denial leaves no audit entry.
DecisionCommits_NoAuditOnDeny(a) ==
  /\ txn[a] = "written"
  /\ txn' = [txn EXCEPT ![a] = "over"]
  /\ lock' = Nobody
  /\ status' = choice[a]
  /\ decidedBy' = a
  /\ audit' = IF choice[a] = "approved" THEN audit \union {<<a, "approved">>} ELSE audit
  /\ UNCHANGED <<late, creation, choice, probe, deviceVars, faults>>

\* The commit makes status, decided_by and audit entry visible.
DecisionCommits(a) ==
  /\ txn[a] = "written"
  /\ txn' = [txn EXCEPT ![a] = "over"]
  /\ lock' = Nobody
  /\ status' = choice[a]
  /\ decidedBy' = a
  /\ audit' = audit \union {<<a, choice[a]>>}
  /\ UNCHANGED <<late, creation, choice, probe, deviceVars, faults>>

-----------------------------------------------------------------------------
(***************************************************************************)
(* The Control Center: expiry.                                             *)
(***************************************************************************)

\* Mutant of Answer: a reply that nobody awaits any more is taken.
Answer_Stale(p, s) == answer' = s

\* The sidecar, if it still waits on p, gets s.
Answer(p, s) == answer' = IF p = polling THEN s ELSE answer

\* check_approval_status reads the row: 404 while it is not committed, the
\* status as it is, or an overdue row that it is going to expire itself.
ProbeReads(p) ==
  /\ probe[p] = "posted"
  /\ \/ /\ status = "pending" /\ late
        /\ probe' = [probe EXCEPT ![p] = "overdue"]
        /\ UNCHANGED answer
     \/ /\ ~(status = "pending" /\ late)
        /\ probe' = [probe EXCEPT ![p] = "idle"]
        /\ Answer(p, IF status = "absent" THEN "error" ELSE status)
  /\ UNCHANGED <<rowVars, late, creation, adminVars, lock, device, polls, polling, verdict, faults>>

\* Its UPDATE, and the reply.
ProbeWrites(p) ==
  /\ probe[p] = "overdue"
  /\ lock = Nobody
  /\ lock' = p
  /\ probe' = [probe EXCEPT ![p] = "written"]
  /\ Answer(p, "expired")
  /\ UNCHANGED <<rowVars, late, creation, adminVars, device, polls, polling, verdict, faults>>

\* Only the status column is written: decided_by stays as it is.
ProbeCommits(p) ==
  /\ probe[p] = "written"
  /\ probe' = [probe EXCEPT ![p] = "idle"]
  /\ lock' = Nobody
  /\ status' = "expired"
  /\ UNCHANGED <<decidedBy, late, creation, adminVars, deviceVars, faults>>

\* Mutant of Sweep: only rows without a decider, which is all of them, and
\* only before they are late.
Sweep_WrongSide ==
  /\ ~late
  /\ status = "pending"
  /\ lock = Nobody
  /\ status' = "expired"
  /\ UNCHANGED <<decidedBy, late, creation, adminVars, probe, lock, deviceVars, faults>>

\* background_expire_approvals: one UPDATE ... WHERE status = 'pending', which
\* PostgreSQL evaluates again once it holds the row's lock.
Sweep ==
  /\ late
  /\ status = "pending"
  /\ lock = Nobody
  /\ status' = "expired"
  /\ UNCHANGED <<decidedBy, late, creation, adminVars, probe, lock, deviceVars, faults>>

\* The Control Center dies: open transactions roll back, an administrator
\* whose decision was not written may try again, a poll fails.
CCCrash ==
  /\ Fault("cc_crash")
  /\ creation' = IF creation \in {"posted", "replied"} THEN "over" ELSE creation
  /\ txn' = [a \in Admin |-> IF txn[a] = "read" THEN "idle"
                             ELSE IF txn[a] = "written" THEN "over" ELSE txn[a]]
  /\ probe' = [p \in Poller |-> "idle"]
  /\ lock' = Nobody
  /\ \/ /\ device = "creating"
        /\ Conclude("error")
     \/ /\ device # "creating"
        /\ answer' = IF polling # Nobody /\ answer = "none" THEN "error" ELSE answer
        /\ UNCHANGED <<device, polling, verdict>>
  /\ UNCHANGED <<rowVars, late, choice, audit, polls>>

-----------------------------------------------------------------------------
Device ==
  \/ RequestApproval \/ CreateFails \/ PollConcludes \/ PollGoesOn \/ PollTimesOut
  \/ GiveUp \/ SidecarCrash
  \/ \E p \in Poller : StartPoll(p)

ControlCenter ==
  \/ CreateReplies \/ CreateCommits
  \/ \E a \in Admin : DecisionReads(a) \/ DecisionWrites(a) \/ DecisionCommits(a)
  \/ \E p \in Poller : ProbeReads(p) \/ ProbeWrites(p) \/ ProbeCommits(p)
  \/ Sweep \/ CCCrash

Next == Device \/ ControlCenter \/ Tick

Spec == Init /\ [][Next]_vars

\* Time passes, handlers run to their end, the background task and the
\* sidecar's loop go on.  No administrator has to decide anything.
Fairness ==
  /\ WF_vars(Tick)
  /\ WF_vars(CreateReplies \/ CreateCommits)
  /\ WF_vars(PollConcludes \/ PollGoesOn \/ GiveUp \/ \E p \in Poller : StartPoll(p))
  /\ \A a \in Admin : WF_vars(DecisionWrites(a) \/ DecisionCommits(a))
  /\ \A p \in Poller : WF_vars(ProbeReads(p) \/ ProbeWrites(p) \/ ProbeCommits(p))
  /\ WF_vars(Sweep)

FairSpec == Spec /\ Fairness

-----------------------------------------------------------------------------
(***************************************************************************)
(* Properties.                                                             *)
(***************************************************************************)

\* A decided row names an administrator whose decision of that kind is in the
\* audit log, whichever of several concurrent decisions came last.
DecisionAudited ==
  status \in Decision => <<decidedBy, status>> \in audit

\* A decision or an expiry is final.  Fails: check and write are apart, so a
\* second decision, or an expiry, that read "pending" overwrites the first.
DecisionIsFinal == [][(status \in Final) => (status' = status)]_vars

\* The device's verdict comes, whatever fails.
WaitEnds == (device = "waiting") ~> (device = "done")

\* No row stays pending for ever.
PendingEnds == (status = "pending") ~> (status # "pending")

\* What the implementation of the gate rests on: a reply that carries a
\* decision was read off a row in that state, only a waiting device awaits a
\* reply, and a device that is not done has told the plugin nothing.
GateInv ==
  /\ answer \in Decision => \E a \in Admin : <<a, answer>> \in audit
  /\ answer # "none" => polling # Nobody
  /\ polling # Nobody => device = "waiting"
  /\ device # "done" => verdict = "none"

\* The row's lock is held by a transaction that has written and goes on to
\* commit: nobody waits for a lock that is never given up.
LockInv ==
  /\ \A a \in Admin : lock = a <=> txn[a] = "written"
  /\ \A p \in Poller : lock = p <=> probe[p] = "written"

\* While the sidecar awaits a reply, a handler is about to give it.
AwaitedInv ==
  /\ device = "creating" => creation = "posted"
  /\ polling # Nobody /\ answer = "none" => probe[polling] \in {"posted", "overdue"}

\* The inductive invariant: what the gate rests on, and the safety half of
\* WaitEnds and PendingEnds, whatever times out, crashes or overlaps.
WorkflowInv == GateInv /\ LockInv /\ AwaitedInv

\* The workflow implements the gate, with what is in the audit log on record.
Gate == INSTANCE ApprovalGate WITH onRecord <- {d[2] : d \in audit}, conclusion <- verdict
ImplementsGate == Gate!Spec
=============================================================================
