--------------------------- MODULE Enrollment_proofs ---------------------------
(***************************************************************************)
(* Proofs about Enrollment, for any machines, ids, tokens and attempts and *)
(* under all faults.                                                       *)
(*                                                                         *)
(* A secret is known because the row that is about to be committed does    *)
(* not exist and no other transaction is about to commit it (WriteInv), so *)
(* no commit replaces a secret.  An orphaned id stays orphaned because an  *)
(* awaited attempt is for the machine's own id (AwaitInv), and for that    *)
(* the unique index refuses every one.                                     *)
(***************************************************************************)
EXTENDS Enrollment, TLAPS

\* Requests are about ids, and so are machines that have been started.
IdInv ==
  /\ \A m \in Machine : machine[m] # "off" => id[m] \in Id
  /\ \A a \in Attempt : req[a].stage # "idle" => req[a].id \in Id

\* What is about to be committed is new.
WriteInv ==
  /\ \A a \in Attempt : req[a].stage = "written" => row[req[a].id] = Nobody
  /\ \A a, b \in Attempt :
       req[a].stage = "written" /\ req[b].stage = "written" /\ req[a].id = req[b].id => a = b

\* An attempt that is awaited has not been answered, is for the machine's id
\* and is nobody else's.
AwaitInv ==
  /\ \A m \in Machine : awaits[m] # Nobody =>
       /\ req[awaits[m]].stage \in {"posted", "matched", "checked"}
       /\ req[awaits[m]].id = id[m]
  /\ \A m, n \in Machine : awaits[m] # Nobody /\ awaits[m] = awaits[n] => m = n

\* Every secret is in the table, about to be or lost.
SecretIsKnown ==
  \A m \in Machine :
    secret[m] # Nobody => Known(secret[m]) \/ req[secret[m]].stage = "lost"

\* A configured id has its own secret.
OwnInv ==
  \A m \in Named : id[m] \in Id /\ (secret[m] # Nobody => HasOwnSecret(m))

Inv == TypeOK /\ IdInv /\ WriteInv /\ AwaitInv /\ SecretIsKnown /\ OwnInv /\ SpentOnDevice

-----------------------------------------------------------------------------
(***************************************************************************)
(* What the parts of the actions do.                                       *)
(***************************************************************************)
\* No request is a request.
LEMMA NoRequestType == NoRequest \in Request /\ NoRequest.stage = "idle"
BY ConstantsAssumption DEF NoRequest, Request

\* A sidecar that starts has a secret, or posts its id in a new attempt.
LEMMA LaunchCases ==
  ASSUME TypeOK, NEW m \in Machine, NEW i \in Id, NEW t \in Token, Launch(m, i, t)
  PROVE  \/ /\ req' = req /\ awaits' = [awaits EXCEPT ![m] = Nobody]
            /\ machine' = [machine EXCEPT ![m] = "enrolled"] /\ secret[m] # Nobody
         \/ \E a \in Attempt :
              /\ Fresh(a)
              /\ req' = [req EXCEPT ![a] = [stage |-> "posted", token |-> t, id |-> i]]
              /\ awaits' = [awaits EXCEPT ![m] = a]
              /\ machine' = [machine EXCEPT ![m] = "enrolling"]
BY DEF Launch, Post

\* A container or a sidecar starts with an id, a configured one if there is one.
LEMMA StartCases ==
  ASSUME TypeOK, IdInv, NEW m \in Machine, Boot(m) \/ Restart(m)
  PROVE  /\ \E i \in Id, t \in Token : Launch(m, i, t) /\ (m \in Named => i = id[m])
         /\ row' = row /\ usedBy' = usedBy
         /\ \A t \in Token : token'[t] = "used" => token[t] = "used"
<1>1. CASE Boot(m)
  BY <1>1 DEF Boot, TypeOK
<1>2. CASE Restart(m)
  <2>1. id[m] \in Id /\ env[m] \in Token
    BY <1>2 DEF Restart, IdInv, TypeOK
  <2>. QED  BY <1>2, <2>1 DEF Restart, tables
<1>. QED  BY <1>1, <1>2

\* A handler goes on, refuses, answers or commits.
LEMMA HandlerCases ==
  ASSUME TypeOK, NEW a \in Attempt, Handler(a)
  PROVE  \/ /\ req[a].stage \in {"posted", "matched"}
            /\ \E stage \in {"matched", "checked"} : GoOn(a, stage)
            /\ UNCHANGED <<tables, machines, advice, boots, faults>>
         \/ /\ req[a].stage \in {"posted", "matched", "checked"}
            /\ Refuse(a) /\ UNCHANGED <<tables, boots, faults>>
            /\ Advise(a) \/ advice' = advice
         \/ /\ req[a].stage = "checked" /\ ~Waits(a) /\ row[req[a].id] = Nobody
            /\ GoOn(a, "written") /\ Accept(a) /\ UNCHANGED <<tables, advice, boots, faults>>
         \/ Commit(a)
BY DEF Handler, MatchToken, CheckId, Write

-----------------------------------------------------------------------------
(***************************************************************************)
(* Every step preserves the invariant.                                     *)
(***************************************************************************)

\* Types: a machine awaits an attempt only while it enrolls.
LEMMA TypeStep ==
  ASSUME TypeOK, IdInv, [Next]_vars
  PROVE  TypeOK'
<1>. USE ConstantsAssumption
<1>1. ASSUME NEW m \in Machine, Boot(m) \/ Restart(m)
      PROVE  TypeOK'
  <2>1. PICK i \in Id, t \in Token : Launch(m, i, t)
    BY <1>1, StartCases
  <2>2. token' \in [Token -> {"unborn", "issued", "valid", "used", "expired", "lost"}]
    BY <1>1 DEF Boot, Restart, TypeOK, tables
  <2>3. boots' \in 0..MaxBoots /\ row' = row /\ usedBy' = usedBy /\ faults' = faults /\ advice' = advice
    BY <1>1 DEF Boot, Restart, TypeOK, tables
  <2>4. id' = [id EXCEPT ![m] = i] /\ env' = [env EXCEPT ![m] = t] /\ secret' = secret
    BY <2>1 DEF Launch
  <2>5. CASE /\ req' = req /\ awaits' = [awaits EXCEPT ![m] = Nobody]
             /\ machine' = [machine EXCEPT ![m] = "enrolled"]
    BY <2>2, <2>3, <2>4, <2>5 DEF TypeOK
  <2>6. ASSUME NEW a \in Attempt,
               req' = [req EXCEPT ![a] = [stage |-> "posted", token |-> t, id |-> i]],
               awaits' = [awaits EXCEPT ![m] = a],
               machine' = [machine EXCEPT ![m] = "enrolling"]
        PROVE  TypeOK'
    <3>1. [stage |-> "posted", token |-> t, id |-> i] \in Request
      BY DEF Request
    <3>. QED  BY <2>2, <2>3, <2>4, <2>6, <3>1 DEF TypeOK
  <2>. QED  BY <2>1, <2>5, <2>6, LaunchCases
<1>2. ASSUME NEW m \in Machine, ReplyLost(m)
      PROVE  TypeOK'
  BY <1>2, NoRequestType DEF ReplyLost, Fault, TypeOK, tables
<1>3. ASSUME NEW t \in Token, IssueCommits(t) \/ Expire(t)
      PROVE  TypeOK'
  BY <1>3 DEF IssueCommits, Expire, TypeOK, machines
<1>4. ASSUME NEW a \in Attempt, Handler(a)
      PROVE  TypeOK'
  <2>1. ASSUME NEW stage \in {"matched", "checked", "written"}, GoOn(a, stage)
        PROVE  req' \in [Attempt -> Request]
    BY <2>1 DEF GoOn, TypeOK, Request
  <2>2. CASE \E stage \in {"matched", "checked"} :
               GoOn(a, stage) /\ UNCHANGED <<tables, machines, advice, boots, faults>>
    BY <2>1, <2>2 DEF TypeOK, tables, machines
  <2>3. CASE Refuse(a) /\ UNCHANGED <<tables, boots, faults>> /\ (Advise(a) \/ advice' = advice)
    BY <2>3, NoRequestType DEF Refuse, Advise, TypeOK, tables
  <2>4. CASE GoOn(a, "written") /\ Accept(a) /\ UNCHANGED <<tables, advice, boots, faults>>
    BY <2>1, <2>4 DEF Accept, TypeOK, tables
  <2>5. CASE Commit(a)
    <3>1. req[a].id \in Id /\ req[a].token \in Token
      BY <2>5 DEF Commit, IdInv, TypeOK, Request
    <3>. QED  BY <2>5, <3>1, NoRequestType DEF Commit, TypeOK, machines
  <2>. QED  BY <1>4, <2>2, <2>3, <2>4, <2>5, HandlerCases
<1>5. CASE CCCrash
  <2>1. req' \in [Attempt -> Request]
    BY <1>5, NoRequestType DEF CCCrash, TypeOK, Request
  <2>2. token' \in [Token -> {"unborn", "issued", "valid", "used", "expired", "lost"}]
    BY <1>5 DEF CCCrash, TypeOK
  <2>. QED  BY <1>5, <2>1, <2>2 DEF CCCrash, Fault, TypeOK
<1>6. CASE UNCHANGED vars
  BY <1>6 DEF TypeOK, vars, tables, machines
<1>7. ASSUME NEW m \in Machine, FollowAdvice(m)
      PROVE  TypeOK'
  BY <1>7 DEF FollowAdvice, TypeOK, tables
<1>. QED  BY <1>1, <1>2, <1>3, <1>4, <1>5, <1>6, <1>7 DEF Next

\* Ids: a machine starts with one and posts it.
LEMMA IdStep ==
  ASSUME TypeOK, IdInv, [Next]_vars
  PROVE  IdInv'
<1>1. ASSUME NEW m \in Machine, Boot(m) \/ Restart(m)
      PROVE  IdInv'
  <2>1. PICK i \in Id, t \in Token : Launch(m, i, t)
    BY <1>1, StartCases
  <2>2. id' = [id EXCEPT ![m] = i]
    BY <2>1 DEF Launch
  <2>3. \A n \in Machine : machine'[n] # "off" => id'[n] \in Id
    BY <2>1, <2>2, LaunchCases DEF IdInv, TypeOK
  <2>4. ASSUME NEW a \in Attempt,
               req' = [req EXCEPT ![a] = [stage |-> "posted", token |-> t, id |-> i]]
        PROVE  \A b \in Attempt : req'[b].stage # "idle" => req'[b].id \in Id
    BY <2>4 DEF IdInv, TypeOK
  <2>. QED  BY <2>1, <2>3, <2>4, LaunchCases DEF IdInv
<1>2. ASSUME NEW m \in Machine, ReplyLost(m)
      PROVE  IdInv'
  BY <1>2, NoRequestType DEF ReplyLost, IdInv, TypeOK
<1>3. ASSUME NEW t \in Token, IssueCommits(t) \/ Expire(t)
      PROVE  IdInv'
  BY <1>3 DEF IssueCommits, Expire, IdInv, machines
<1>4. ASSUME NEW a \in Attempt, Handler(a)
      PROVE  IdInv'
  <2>1. \/ req' = [req EXCEPT ![a] = NoRequest]
        \/ \E stage \in {"matched", "checked", "written"} : GoOn(a, stage)
    BY <1>4, HandlerCases DEF Refuse, Commit
  <2>2. req[a].stage # "idle"
    BY <1>4, HandlerCases DEF Commit
  <2>3. \A b \in Attempt : req'[b].stage # "idle" => req'[b].id \in Id
    <3>1. CASE req' = [req EXCEPT ![a] = NoRequest]
      BY <3>1, NoRequestType DEF IdInv, TypeOK
    <3>2. ASSUME NEW stage, GoOn(a, stage)
          PROVE  \A b \in Attempt : req'[b].stage # "idle" => req'[b].id \in Id
      BY <2>2, <3>2 DEF GoOn, IdInv, TypeOK, Request
    <3>. QED  BY <2>1, <3>1, <3>2
  <2>4. id' = id
    BY <1>4, HandlerCases DEF Refuse, Accept, Commit, machines
  <2>5. \A m \in Machine : machine'[m] # "off" => machine[m] # "off"
    <3>1. CASE machine' = machine
      BY <3>1
    <3>2. ASSUME NEW state, machine' = [m \in Machine |-> IF awaits[m] = a THEN state
                                                         ELSE machine[m]]
          PROVE  \A m \in Machine : machine'[m] # "off" => machine[m] # "off"
      BY <3>2, ConstantsAssumption DEF TypeOK
    <3>. QED  BY <1>4, <3>1, <3>2, HandlerCases DEF Refuse, Accept, Commit, machines
  <2>. QED  BY <2>3, <2>4, <2>5 DEF IdInv
<1>5. CASE CCCrash
  BY <1>5, NoRequestType DEF CCCrash, IdInv, TypeOK, Request
<1>6. CASE UNCHANGED vars
  BY <1>6 DEF IdInv, vars, machines
<1>7. ASSUME NEW m \in Machine, FollowAdvice(m)
      PROVE  IdInv'
  BY <1>7 DEF FollowAdvice, IdInv
<1>. QED  BY <1>1, <1>2, <1>3, <1>4, <1>5, <1>6, <1>7 DEF Next

\* Rows: only a commit writes one.
LEMMA RowStep ==
  ASSUME TypeOK, IdInv, [Next]_vars
  PROVE  row' = row \/ \E a \in Attempt : Commit(a)
<1>1. ASSUME NEW m \in Machine, Boot(m) \/ Restart(m)
      PROVE  row' = row
  BY <1>1, StartCases
<1>2. ASSUME NEW a \in Attempt, Handler(a)
      PROVE  row' = row \/ Commit(a)
  BY <1>2, HandlerCases DEF tables
<1>. QED  BY <1>1, <1>2 DEF Next, ReplyLost, FollowAdvice, IssueCommits, Expire, CCCrash, vars, tables

\* A secret in the table is never replaced.
LEMMA RowStays ==
  ASSUME TypeOK, IdInv, WriteInv, [Next]_vars, NEW i \in Id, row[i] # Nobody
  PROVE  row'[i] = row[i]
<1>1. ASSUME NEW a \in Attempt, Commit(a)
      PROVE  row'[i] = row[i]
  BY <1>1 DEF Commit, WriteInv, TypeOK
<1>. QED  BY <1>1, RowStep

\* Writes: one that meets an open write of the same id waits, and one that
\* meets a row is refused.
LEMMA WriteStep ==
  ASSUME TypeOK, IdInv, WriteInv, [Next]_vars
  PROVE  WriteInv'
<1>1. ASSUME row' = row,
             \A a \in Attempt : req'[a].stage = "written" =>
               req[a].stage = "written" /\ req'[a].id = req[a].id
      PROVE  WriteInv'
  BY <1>1 DEF WriteInv
<1>2. ASSUME NEW m \in Machine, Boot(m) \/ Restart(m)
      PROVE  WriteInv'
  <2>1. PICK i \in Id, t \in Token : Launch(m, i, t)
    BY <1>2, StartCases
  <2>2. row' = row
    BY <1>2, StartCases
  <2>3. ASSUME NEW a \in Attempt,
               req' = [req EXCEPT ![a] = [stage |-> "posted", token |-> t, id |-> i]]
        PROVE  WriteInv'
    BY <1>1, <2>2, <2>3 DEF TypeOK
  <2>. QED  BY <1>1, <2>1, <2>2, <2>3, LaunchCases
<1>3. ASSUME NEW m \in Machine, ReplyLost(m)
      PROVE  WriteInv'
  BY <1>1, <1>3, NoRequestType DEF ReplyLost, TypeOK, tables
<1>4. ASSUME NEW t \in Token, IssueCommits(t) \/ Expire(t)
      PROVE  WriteInv'
  BY <1>4 DEF IssueCommits, Expire, WriteInv
<1>5. ASSUME NEW a \in Attempt, Handler(a)
      PROVE  WriteInv'
  <2>1. ASSUME NEW stage \in {"matched", "checked"}, GoOn(a, stage), row' = row
        PROVE  WriteInv'
    BY <1>1, <2>1 DEF GoOn, TypeOK, Request
  <2>2. CASE Refuse(a) /\ row' = row
    BY <1>1, <2>2, NoRequestType DEF Refuse, TypeOK
  <2>3. CASE ~Waits(a) /\ row[req[a].id] = Nobody /\ GoOn(a, "written") /\ row' = row
    <3>1. /\ req'[a].stage = "written" /\ req'[a].id = req[a].id
          /\ \A b \in Attempt \ {a} : req'[b] = req[b]
      BY <2>3 DEF GoOn, TypeOK, Request
    <3>2. \A b \in Attempt \ {a} : req[b].stage = "written" => req[b].id # req[a].id
      BY <2>3 DEF Waits
    <3>. QED  BY <2>3, <3>1, <3>2 DEF WriteInv
  <2>4. CASE Commit(a)
    <3>1. \A b \in Attempt : req'[b].stage = "written" =>
            b # a /\ req[b].stage = "written" /\ req'[b] = req[b]
      BY <2>4, NoRequestType DEF Commit, TypeOK
    <3>2. \A b \in Attempt \ {a} : req[b].stage = "written" =>
            req[b].id # req[a].id /\ row'[req[b].id] = row[req[b].id]
      BY <2>4 DEF Commit, WriteInv, IdInv, TypeOK
    <3>. QED  BY <3>1, <3>2 DEF WriteInv
  <2>. QED  BY <1>5, <2>1, <2>2, <2>3, <2>4, HandlerCases DEF tables
<1>6. CASE CCCrash
  <2>1. \A a \in Attempt : req'[a].stage # "written"
    BY <1>6, NoRequestType DEF CCCrash, TypeOK, Request
  <2>. QED  BY <1>1, <1>6, <2>1 DEF CCCrash
<1>7. CASE UNCHANGED vars
  BY <1>7 DEF WriteInv, vars, tables
<1>8. ASSUME NEW m \in Machine, FollowAdvice(m)
      PROVE  WriteInv'
  BY <1>8 DEF FollowAdvice, WriteInv, tables
<1>. QED  BY <1>2, <1>3, <1>4, <1>5, <1>6, <1>7, <1>8 DEF Next

\* Awaited attempts: each start makes a new one, and an answer ends it.
LEMMA AwaitStep ==
  ASSUME TypeOK, IdInv, AwaitInv, [Next]_vars
  PROVE  AwaitInv'
<1>1. ASSUME NEW m \in Machine, Boot(m) \/ Restart(m)
      PROVE  AwaitInv'
  <2>1. PICK i \in Id, t \in Token : Launch(m, i, t)
    BY <1>1, StartCases
  <2>2. id' = [id EXCEPT ![m] = i]
    BY <2>1 DEF Launch
  <2>3. CASE req' = req /\ awaits' = [awaits EXCEPT ![m] = Nobody]
    BY <2>2, <2>3 DEF AwaitInv, TypeOK
  <2>4. ASSUME NEW a \in Attempt, Fresh(a),
               req' = [req EXCEPT ![a] = [stage |-> "posted", token |-> t, id |-> i]],
               awaits' = [awaits EXCEPT ![m] = a]
        PROVE  AwaitInv'
    <3>1. \A n \in Machine \ {m} : awaits'[n] = awaits[n] /\ awaits[n] # a /\ id'[n] = id[n]
      BY <2>2, <2>4 DEF Fresh, TypeOK
    <3>2. awaits'[m] = a /\ id'[m] = i
      BY <2>2, <2>4 DEF TypeOK
    <3>3. req'[a].stage = "posted" /\ req'[a].id = i
      BY <2>4 DEF TypeOK
    <3>4. \A n \in Machine \ {m} : awaits[n] # Nobody => req'[awaits[n]] = req[awaits[n]]
      BY <2>4, <3>1 DEF TypeOK
    <3>. QED  BY <3>1, <3>2, <3>3, <3>4 DEF AwaitInv
  <2>. QED  BY <2>1, <2>3, <2>4, LaunchCases
<1>2. ASSUME NEW m \in Machine, ReplyLost(m)
      PROVE  AwaitInv'
  <2>1. id' = id /\ awaits' = [awaits EXCEPT ![m] = Nobody]
    BY <1>2 DEF ReplyLost
  <2>2. \A n \in Machine \ {m} : awaits[n] # Nobody => req'[awaits[n]] = req[awaits[n]]
    BY <1>2 DEF ReplyLost, AwaitInv, TypeOK
  <2>. QED  BY <2>1, <2>2 DEF AwaitInv, TypeOK
<1>3. ASSUME NEW t \in Token, IssueCommits(t) \/ Expire(t)
      PROVE  AwaitInv'
  BY <1>3 DEF IssueCommits, Expire, AwaitInv, machines
<1>4. ASSUME NEW a \in Attempt, Handler(a)
      PROVE  AwaitInv'
  <2>1. ASSUME NEW stage \in {"matched", "checked"}, GoOn(a, stage), UNCHANGED machines
        PROVE  AwaitInv'
    <3>1. /\ req'[a].stage = stage /\ req'[a].id = req[a].id
          /\ \A b \in Attempt \ {a} : req'[b] = req[b]
      BY <2>1 DEF GoOn, TypeOK, Request
    <3>. QED  BY <2>1, <3>1 DEF AwaitInv, machines, TypeOK
  <2>2. ASSUME id' = id, NEW r, req' = [req EXCEPT ![a] = r],
               awaits' = [m \in Machine |-> IF awaits[m] = a THEN Nobody ELSE awaits[m]]
        PROVE  AwaitInv'
    <3>1. \A m \in Machine : awaits'[m] # Nobody =>
            awaits'[m] = awaits[m] /\ req'[awaits[m]] = req[awaits[m]]
      BY <2>2 DEF TypeOK
    <3>. QED  BY <2>2, <3>1 DEF AwaitInv
  <2>3. CASE Commit(a)
    <3>1. \A m \in Machine : awaits[m] # Nobody => req'[awaits[m]] = req[awaits[m]]
      BY <2>3 DEF Commit, AwaitInv, TypeOK
    <3>. QED  BY <2>3, <3>1 DEF Commit, AwaitInv, machines
  <2>4. CASE Refuse(a)
    BY <2>2, <2>4 DEF Refuse
  <2>5. CASE GoOn(a, "written") /\ Accept(a)
    BY <2>2, <2>5 DEF GoOn, Accept
  <2>. QED  BY <1>4, <2>1, <2>3, <2>4, <2>5, HandlerCases
<1>5. CASE CCCrash
  BY <1>5 DEF CCCrash, AwaitInv
<1>6. CASE UNCHANGED vars
  BY <1>6 DEF AwaitInv, vars, machines
<1>7. ASSUME NEW m \in Machine, FollowAdvice(m)
      PROVE  AwaitInv'
  BY <1>7 DEF FollowAdvice, AwaitInv
<1>. QED  BY <1>1, <1>2, <1>3, <1>4, <1>5, <1>6, <1>7 DEF Next

\* Secrets: the one that is handed out is written, and what is written is
\* committed or lost.
LEMMA KnownStep ==
  ASSUME TypeOK, IdInv, WriteInv, SecretIsKnown, [Next]_vars
  PROVE  SecretIsKnown'
<1>1. ASSUME NEW b \in Attempt, NEW i \in Id, row[i] = b
      PROVE  row'[i] = b
  BY <1>1, RowStays, ConstantsAssumption
<1>2. ASSUME secret' = secret,
             \A b \in Attempt : req[b].stage \in {"written", "lost"} =>
               req'[b].stage \in {req[b].stage, "lost"}
      PROVE  SecretIsKnown'
  <2>. SUFFICES ASSUME NEW m \in Machine, secret[m] # Nobody
                PROVE  Known(secret[m])' \/ req'[secret[m]].stage = "lost"
    BY <1>2 DEF SecretIsKnown, Known
  <2>. DEFINE b == secret[m]
  <2>1. b \in Attempt
    BY DEF TypeOK
  <2>2. (\E i \in Id : row[i] = b) \/ req[b].stage \in {"written", "lost"}
    BY DEF SecretIsKnown, Known
  <2>3. (\E i \in Id : row'[i] = b) \/ req'[b].stage \in {"written", "lost"}
    BY <1>1, <1>2, <2>1, <2>2
  <2>. QED  BY <1>2, <2>3 DEF Known
<1>3. ASSUME NEW m \in Machine, Boot(m) \/ Restart(m)
      PROVE  SecretIsKnown'
  <2>1. PICK i \in Id, t \in Token : Launch(m, i, t)
    BY <1>3, StartCases
  <2>2. secret' = secret
    BY <2>1 DEF Launch
  <2>3. ASSUME NEW a \in Attempt, Fresh(a),
               req' = [req EXCEPT ![a] = [stage |-> "posted", token |-> t, id |-> i]]
        PROVE  SecretIsKnown'
    BY <1>2, <2>2, <2>3 DEF Fresh, TypeOK
  <2>. QED  BY <1>2, <2>1, <2>2, <2>3, LaunchCases
<1>4. ASSUME NEW m \in Machine, ReplyLost(m)
      PROVE  SecretIsKnown'
  BY <1>2, <1>4 DEF ReplyLost, TypeOK
<1>5. ASSUME NEW t \in Token, IssueCommits(t) \/ Expire(t)
      PROVE  SecretIsKnown'
  BY <1>2, <1>5 DEF IssueCommits, Expire, machines
<1>6. ASSUME NEW a \in Attempt, Handler(a)
      PROVE  SecretIsKnown'
  <2>1. ASSUME req[a].stage \in {"posted", "matched", "checked"}, secret' = secret,
               NEW r, req' = [req EXCEPT ![a] = r]
        PROVE  SecretIsKnown'
    BY <1>2, <2>1 DEF TypeOK
  <2>2. ASSUME \A b \in Attempt \ {a} : req'[b] = req[b],
               req'[a].stage = "written" \/ \E i \in Id : row'[i] = a,
               \A m \in Machine : secret'[m] \in {a, secret[m]}
        PROVE  SecretIsKnown'
    <3>1. ASSUME NEW m \in Machine, NEW b \in Attempt \ {a}, b = secret[m]
          PROVE  \/ req'[b].stage \in {"written", "lost"}
                 \/ \E i \in Id : row'[i] = b
      <4>1. (\E i \in Id : row[i] = b) \/ req[b].stage \in {"written", "lost"}
        BY <3>1, ConstantsAssumption DEF SecretIsKnown, Known
      <4>. QED  BY <1>1, <2>2, <4>1
    <3>2. \A m \in Machine : secret'[m] # Nobody => secret'[m] \in Attempt
      BY <2>2 DEF TypeOK
    <3>. QED  BY <2>2, <3>1, <3>2 DEF SecretIsKnown, Known
  <2>3. CASE req[a].stage = "checked" /\ GoOn(a, "written") /\ Accept(a)
    <3>1. /\ req'[a].stage = "written"
          /\ \A b \in Attempt \ {a} : req'[b] = req[b]
      BY <2>3 DEF GoOn, TypeOK, Request
    <3>2. \A m \in Machine : secret'[m] \in {a, secret[m]}
      BY <2>3 DEF Accept, TypeOK
    <3>. QED  BY <2>2, <3>1, <3>2
  <2>4. CASE Commit(a)
    <3>1. /\ secret' = secret /\ row'[req[a].id] = a /\ req[a].id \in Id
          /\ \A b \in Attempt \ {a} : req'[b] = req[b]
      BY <2>4 DEF Commit, IdInv, TypeOK, machines
    <3>. QED  BY <2>2, <3>1
  <2>. QED  BY <1>6, <2>1, <2>3, <2>4, HandlerCases DEF GoOn, Refuse, machines
<1>7. CASE CCCrash
  BY <1>2, <1>7 DEF CCCrash, TypeOK, Request
<1>8. CASE UNCHANGED vars
  BY <1>2, <1>8 DEF vars, machines
<1>9. ASSUME NEW m \in Machine, FollowAdvice(m)
      PROVE  SecretIsKnown'
  BY <1>9 DEF FollowAdvice, SecretIsKnown, Known, TypeOK, tables
<1>. QED  BY <1>3, <1>4, <1>5, <1>6, <1>7, <1>8, <1>9 DEF Next

\* Machines with configured ids: the attempt that is answered was for the
\* machine's id, and nothing replaces the row it writes.
LEMMA OwnStep ==
  ASSUME TypeOK, IdInv, WriteInv, AwaitInv, OwnInv, [Next]_vars
  PROVE  OwnInv'
<1>. USE ConstantsAssumption
<1>1. ASSUME NEW m \in Named
      PROVE  m \in Machine /\ id[m] \in Id /\ (secret[m] # Nobody => secret[m] \in Attempt)
  BY DEF OwnInv, TypeOK
<1>2. ASSUME NEW m \in Named, secret[m] # Nobody, row[id[m]] = secret[m], id'[m] = id[m],
             secret'[m] = secret[m]
      PROVE  HasOwnSecret(m)'
  BY <1>1, <1>2, RowStays DEF HasOwnSecret
<1>3. ASSUME \A m \in Named : id'[m] = id[m] /\ secret'[m] = secret[m],
             \A b \in Attempt : req[b].stage \in {"written", "lost"} =>
               req'[b].stage \in {"written", "lost"} /\ req'[b].id = req[b].id
      PROVE  OwnInv'
  <2>. SUFFICES ASSUME NEW m \in Named, secret'[m] # Nobody
                PROVE  HasOwnSecret(m)'
    BY <1>1, <1>3 DEF OwnInv
  <2>1. HasOwnSecret(m)
    BY <1>3 DEF OwnInv
  <2>2. CASE row[id[m]] = secret[m]
    BY <1>2, <1>3, <2>2
  <2>3. CASE req[secret[m]].stage \in {"written", "lost"} /\ req[secret[m]].id = id[m]
    BY <1>1, <1>3, <2>3 DEF HasOwnSecret
  <2>. QED  BY <2>1, <2>2, <2>3 DEF HasOwnSecret
<1>4. ASSUME NEW n \in Machine, Boot(n) \/ Restart(n)
      PROVE  OwnInv'
  <2>1. PICK i \in Id, t \in Token : Launch(n, i, t) /\ (n \in Named => i = id[n])
    BY <1>4, StartCases
  <2>2. \A m \in Named : id'[m] = id[m] /\ secret'[m] = secret[m]
    BY <1>1, <2>1 DEF Launch, TypeOK
  <2>3. ASSUME NEW a \in Attempt, Fresh(a),
               req' = [req EXCEPT ![a] = [stage |-> "posted", token |-> t, id |-> i]]
        PROVE  OwnInv'
    BY <1>3, <2>2, <2>3 DEF Fresh, TypeOK
  <2>. QED  BY <1>3, <2>1, <2>2, <2>3, LaunchCases
<1>5. ASSUME NEW n \in Machine, ReplyLost(n)
      PROVE  OwnInv'
  BY <1>3, <1>5 DEF ReplyLost, TypeOK
<1>6. ASSUME NEW t \in Token, IssueCommits(t) \/ Expire(t)
      PROVE  OwnInv'
  BY <1>3, <1>6 DEF IssueCommits, Expire, machines
<1>7. ASSUME NEW a \in Attempt, Handler(a)
      PROVE  OwnInv'
  <2>1. ASSUME req[a].stage \in {"posted", "matched", "checked"}, id' = id, secret' = secret,
               NEW r, req' = [req EXCEPT ![a] = r]
        PROVE  OwnInv'
    BY <1>3, <2>1 DEF TypeOK
  <2>2. CASE req[a].stage = "checked" /\ GoOn(a, "written") /\ Accept(a)
    <3>1. /\ req'[a].stage = "written" /\ req'[a].id = req[a].id
          /\ \A b \in Attempt \ {a} : req'[b] = req[b]
      BY <2>2 DEF GoOn, TypeOK, Request
    <3>2. ASSUME NEW m \in Named, secret'[m] # Nobody
          PROVE  HasOwnSecret(m)'
      <4>1. CASE awaits[m] = a
        <5>1. secret'[m] = a /\ id'[m] = id[m] /\ req[a].id = id[m]
          BY <1>1, <2>2, <4>1 DEF Accept, AwaitInv
        <5>. QED  BY <3>1, <5>1 DEF HasOwnSecret
      <4>2. CASE awaits[m] # a
        <5>1. secret'[m] = secret[m] /\ id'[m] = id[m]
          BY <1>1, <2>2, <4>2 DEF Accept
        <5>2. CASE row[id[m]] = secret[m]
          BY <1>2, <3>2, <5>1, <5>2
        <5>3. CASE req[secret[m]].stage \in {"written", "lost"} /\ req[secret[m]].id = id[m]
          <6>1. secret[m] \in Attempt \ {a}
            BY <1>1, <2>2, <3>2, <5>1, <5>3
          <6>. QED  BY <3>1, <5>1, <5>3, <6>1 DEF HasOwnSecret
        <5>. QED  BY <3>2, <5>1, <5>2, <5>3 DEF OwnInv, HasOwnSecret
      <4>. QED  BY <4>1, <4>2
    <3>. QED  BY <1>1, <2>2, <3>2 DEF OwnInv, Accept
  <2>3. CASE Commit(a)
    <3>1. /\ secret' = secret /\ id' = id /\ row'[req[a].id] = a /\ req[a].id \in Id
          /\ \A b \in Attempt \ {a} : req'[b] = req[b]
      BY <2>3 DEF Commit, IdInv, TypeOK, machines
    <3>2. ASSUME NEW m \in Named, secret[m] # Nobody
          PROVE  HasOwnSecret(m)'
      <4>1. CASE row[id[m]] = secret[m]
        BY <1>2, <3>1, <3>2, <4>1
      <4>2. CASE req[secret[m]].stage \in {"written", "lost"} /\ req[secret[m]].id = id[m]
        BY <1>1, <3>1, <3>2, <4>2 DEF HasOwnSecret
      <4>. QED  BY <3>2, <4>1, <4>2 DEF OwnInv, HasOwnSecret
    <3>. QED  BY <1>1, <3>1, <3>2 DEF OwnInv
  <2>. QED  BY <1>7, <2>1, <2>2, <2>3, HandlerCases DEF GoOn, Refuse, machines
<1>8. CASE CCCrash
  BY <1>3, <1>8 DEF CCCrash, TypeOK, Request
<1>9. CASE UNCHANGED vars
  BY <1>3, <1>9 DEF vars, machines
<1>10. ASSUME NEW m \in Machine, FollowAdvice(m)
      PROVE  OwnInv'
  BY <1>1, <1>10 DEF FollowAdvice, OwnInv, HasOwnSecret, TypeOK, tables
<1>. QED  BY <1>4, <1>5, <1>6, <1>7, <1>8, <1>9, <1>10 DEF Next

\* Tokens: only a commit uses one, and it writes a row.
LEMMA SpentStep ==
  ASSUME TypeOK, IdInv, WriteInv, SpentOnDevice, [Next]_vars
  PROVE  SpentOnDevice'
<1>1. ASSUME usedBy' = usedBy, \A t \in Token : token'[t] = "used" => token[t] = "used"
      PROVE  SpentOnDevice'
  <2>. SUFFICES ASSUME NEW t \in Token, token[t] = "used"
                PROVE  usedBy[t] # Nobody /\ row'[usedBy[t]] # Nobody
    BY <1>1 DEF SpentOnDevice
  <2>1. usedBy[t] \in Id /\ row[usedBy[t]] # Nobody
    BY DEF SpentOnDevice, TypeOK
  <2>. QED  BY <2>1, RowStays, ConstantsAssumption
<1>2. ASSUME NEW a \in Attempt, Commit(a)
      PROVE  SpentOnDevice'
  <2>1. /\ req[a].id \in Id /\ req[a].token \in Token
        /\ row'[req[a].id] = a /\ usedBy'[req[a].token] = req[a].id
        /\ a # Nobody /\ req[a].id # Nobody
    BY <1>2, ConstantsAssumption DEF Commit, IdInv, TypeOK, Request
  <2>. SUFFICES ASSUME NEW t \in Token \ {req[a].token}, token'[t] = "used"
                PROVE  usedBy'[t] # Nobody /\ row'[usedBy'[t]] # Nobody
    BY <2>1 DEF SpentOnDevice
  <2>2. usedBy'[t] = usedBy[t] /\ token[t] = "used"
    BY <1>2 DEF Commit, TypeOK
  <2>3. usedBy[t] \in Id /\ row[usedBy[t]] # Nobody
    BY <2>2 DEF SpentOnDevice, TypeOK
  <2>. QED  BY <2>2, <2>3, RowStays, ConstantsAssumption
<1>3. ASSUME NEW m \in Machine, Boot(m) \/ Restart(m)
      PROVE  SpentOnDevice'
  BY <1>1, <1>3, StartCases
<1>4. ASSUME NEW a \in Attempt, Handler(a)
      PROVE  SpentOnDevice'
  BY <1>1, <1>2, <1>4, HandlerCases DEF tables
<1>5. CASE \E t \in Token : IssueCommits(t) \/ Expire(t)
  BY <1>1, <1>5 DEF IssueCommits, Expire, TypeOK
<1>6. CASE CCCrash
  BY <1>1, <1>6 DEF CCCrash, TypeOK
<1>7. CASE \/ UNCHANGED vars
           \/ \E m \in Machine : ReplyLost(m) \/ FollowAdvice(m)
  BY <1>1, <1>7 DEF ReplyLost, FollowAdvice, vars, tables
<1>. QED  BY <1>3, <1>4, <1>5, <1>6, <1>7 DEF Next

-----------------------------------------------------------------------------
(***************************************************************************)
(* Theorems.                                                               *)
(***************************************************************************)

\* Inv is inductive.
LEMMA InvCorrect == Spec => []Inv
<1>1. Init => Inv
  <2>. SUFFICES ASSUME Init
                PROVE  Inv
    OBVIOUS
  <2>. USE ConstantsAssumption
  <2>1. TypeOK
    BY NoRequestType DEF Init, TypeOK
  <2>2. IdInv /\ WriteInv
    BY NoRequestType DEF Init, IdInv, WriteInv
  <2>3. AwaitInv /\ SecretIsKnown /\ OwnInv
    BY DEF Init, AwaitInv, SecretIsKnown, OwnInv
  <2>4. SpentOnDevice
    BY DEF Init, SpentOnDevice
  <2>. QED  BY <2>1, <2>2, <2>3, <2>4 DEF Inv
<1>2. Inv /\ [Next]_vars => Inv'
  BY TypeStep, IdStep, WriteStep, AwaitStep, KnownStep, OwnStep, SpentStep DEF Inv
<1>. QED  BY <1>1, <1>2, PTL DEF Spec

\* The variables keep their types.
THEOREM TypeCorrect == Spec => []TypeOK
<1>1. Inv => TypeOK
  BY DEF Inv
<1>. QED  BY <1>1, InvCorrect, PTL

\* A secret that a sidecar holds is known to the Control Center, or was lost
\* when it died between the reply and the commit.
THEOREM EnrolledIsKnownCorrect == Spec => []EnrolledIsKnown
<1>1. Inv => EnrolledIsKnown
  BY ConstantsAssumption DEF Inv, SecretIsKnown, OwnInv, EnrolledIsKnown
<1>. QED  BY <1>1, InvCorrect, PTL

\* A token is used up only for a device that is registered.
THEOREM SpentOnDeviceCorrect == Spec => []SpentOnDevice
<1>1. Inv => SpentOnDevice
  BY DEF Inv
<1>. QED  BY <1>1, InvCorrect, PTL

\* A machine with a configured id that was registered in vain never enrolls,
\* whatever is deleted, restarted or asked for: why re-enrolling does not help.
THEOREM OrphanIsForeverCorrect == Spec => OrphanIsForever
<1>1. Inv /\ [Next]_vars => [\A m \in Named : Orphaned(m) => Orphaned(m)']_vars
  <2>. SUFFICES ASSUME Inv, [Next]_vars, NEW m \in Named, Orphaned(m)
                PROVE  Orphaned(m)'
    OBVIOUS
  <2>. USE ConstantsAssumption DEF Inv
  <2>. DEFINE o == row[id[m]]
  <2>1. m \in Machine /\ id[m] \in Id /\ o # Nobody
    BY DEF Orphaned, Registered, TypeOK
  <2>2. row'[id[m]] = o
    BY <2>1, RowStays
  <2>3. ASSUME id'[m] = id[m], secret'[m] = Nobody, \A n \in Machine : awaits'[n] # o
        PROVE  Orphaned(m)'
    BY <2>1, <2>2, <2>3 DEF Orphaned, Registered
  <2>4. ASSUME NEW n \in Machine, Boot(n) \/ Restart(n)
        PROVE  Orphaned(m)'
    <3>1. PICK i \in Id, t \in Token : Launch(n, i, t) /\ (n \in Named => i = id[n])
      BY <2>4, StartCases
    <3>2. id'[m] = id[m] /\ secret'[m] = Nobody
      BY <2>1, <3>1 DEF Launch, Orphaned, TypeOK
    <3>3. \A k \in Machine : awaits'[k] # o
      <4>1. \A k \in Machine : awaits[k] # o
        BY DEF Orphaned
      <4>2. CASE awaits' = [awaits EXCEPT ![n] = Nobody]
        BY <2>1, <4>1, <4>2 DEF TypeOK
      <4>3. ASSUME NEW a \in Attempt, Fresh(a), awaits' = [awaits EXCEPT ![n] = a]
            PROVE  \A k \in Machine : awaits'[k] # o
        BY <2>1, <4>1, <4>3 DEF Fresh, TypeOK
      <4>. QED  BY <3>1, <4>2, <4>3, LaunchCases
    <3>. QED  BY <2>3, <3>2, <3>3
  <2>5. ASSUME NEW n \in Machine, ReplyLost(n)
        PROVE  Orphaned(m)'
    BY <2>1, <2>3, <2>5 DEF ReplyLost, Orphaned, TypeOK
  <2>6. ASSUME NEW a \in Attempt, Handler(a)
        PROVE  Orphaned(m)'
    <3>1. CASE UNCHANGED machines
      BY <2>3, <3>1 DEF machines, Orphaned
    <3>2. CASE Refuse(a)
      BY <2>1, <2>3, <3>2 DEF Refuse, Orphaned, TypeOK
    <3>3. CASE row[req[a].id] = Nobody /\ Accept(a)
      <4>1. awaits[m] # a
        BY <2>1, <3>3 DEF AwaitInv
      <4>. QED  BY <2>1, <2>3, <3>3, <4>1 DEF Accept, Orphaned, TypeOK
    <3>. QED  BY <2>6, <3>1, <3>2, <3>3, HandlerCases DEF Commit
  <2>7. CASE CCCrash
    BY <2>1, <2>3, <2>7 DEF CCCrash, Orphaned, TypeOK
  <2>8. CASE \/ UNCHANGED vars
             \/ \E t \in Token : IssueCommits(t) \/ Expire(t)
    BY <2>3, <2>8 DEF IssueCommits, Expire, vars, machines, Orphaned
  <2>9. ASSUME NEW n \in Machine, FollowAdvice(n)
        PROVE  Orphaned(m)'
    BY <2>1, <2>3, <2>9 DEF FollowAdvice, Orphaned, TypeOK
  <2>. QED  BY <2>4, <2>5, <2>6, <2>7, <2>8, <2>9 DEF Next
<1>. QED  BY <1>1, InvCorrect, PTL DEF Spec, OrphanIsForever
=============================================================================
