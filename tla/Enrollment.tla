------------------------------ MODULE Enrollment ------------------------------
(***************************************************************************)
(* How machines become devices: an enrollment token is exchanged for a     *)
(* device secret.                                                          *)
(*                                                                         *)
(* Control Center (api/v1/auth.py, services/device_service.py): the        *)
(* handler looks for the token among the unused ones, looks for the device *)
(* id, then inserts the row and marks the token used in one flush, replies *)
(* and commits.  The unique index on the id decides between two inserts;   *)
(* nothing decides between two uses of one token.                          *)
(*                                                                         *)
(* Sidecar (enrollment.py, main.py): one attempt per start; it saves the   *)
(* secret of the reply and else exits, to be started again by the          *)
(* container's entrypoint with the same id and token.  A container that    *)
(* starts gets a new token from the Control Center if it can, and a new    *)
(* id unless one is configured.                                            *)
(***************************************************************************)
EXTENDS Naturals

CONSTANTS Machine,    \* employee machines
          Named,      \* those with an AFC_DEVICE_ID in their configuration
          Id,         \* device ids
          Token,      \* enrollment tokens
          Seeded,     \* the token that every configuration contains
          Attempt,    \* enrollment requests, and the secrets they hand out
          Nobody,     \* "none" for ids, attempts and tokens
          Faults,     \* the faults of the environment that may happen
          MaxFaults,  \* how many of them
          MaxBoots    \* bound on the starts of containers

FaultNames == {"lost_reply", "cc_crash"}

ASSUME ConstantsAssumption ==
  /\ Named \subseteq Machine
  /\ Seeded \in Token
  /\ Nobody \notin Id \union Token \union Attempt
  /\ Faults \subseteq FaultNames
  /\ MaxFaults \in Nat /\ MaxBoots \in Nat

VARIABLES
  row,      \* per id, the attempt whose secret its row holds, or Nobody
  token,    \* per token: "unborn", "issued", "valid", "used", "expired", "lost"
  usedBy,   \* per token, its used_by_device
  req,      \* per attempt, its request: stage, token and id
  machine,  \* "off", "down" (the sidecar), "enrolling" or "enrolled"
  id,       \* AFC_DEVICE_ID of the running container
  env,      \* its AFC_ENROLLMENT_TOKEN
  awaits,   \* the attempt whose reply the sidecar awaits
  secret,   \* the attempt whose secret config.json holds
  advice,   \* "none", "given" (delete config.json and re-enroll) or "followed"
  boots,    \* containers started so far
  faults    \* faults that have happened

tables == <<row, token, usedBy>>
machines == <<machine, id, env, awaits, secret>>
vars == <<tables, req, machines, advice, boots, faults>>

NoRequest == [stage |-> "idle", token |-> Seeded, id |-> Nobody]
Request == [stage : {"idle", "posted", "matched", "checked", "written", "lost"},
            token : Token, id : Id \union {Nobody}]

TypeOK ==
  /\ row \in [Id -> Attempt \union {Nobody}]
  /\ token \in [Token -> {"unborn", "issued", "valid", "used", "expired", "lost"}]
  /\ usedBy \in [Token -> Id \union {Nobody}]
  /\ req \in [Attempt -> Request]
  /\ machine \in [Machine -> {"off", "down", "enrolling", "enrolled"}]
  /\ id \in [Machine -> Id \union {Nobody}]
  /\ env \in [Machine -> Token]
  /\ awaits \in [Machine -> Attempt \union {Nobody}]
  /\ secret \in [Machine -> Attempt \union {Nobody}]
  /\ advice \in [Machine -> {"none", "given", "followed"}]
  /\ boots \in 0..MaxBoots
  /\ faults \in 0..MaxFaults
  /\ \A m \in Machine : machine[m] # "enrolling" => awaits[m] = Nobody

\* Named machines have ids of their own; the others get theirs later.
Init ==
  /\ row = [i \in Id |-> Nobody]
  /\ token = [t \in Token |-> IF t = Seeded THEN "valid" ELSE "unborn"]
  /\ usedBy = [t \in Token |-> Nobody]
  /\ req = [a \in Attempt |-> NoRequest]
  /\ machine = [m \in Machine |-> "off"]
  /\ id \in [Machine -> Id \union {Nobody}]
  /\ \A m, n \in Named : id[m] # Nobody /\ (id[m] = id[n] => m = n)
  /\ \A m \in Machine \ Named : id[m] = Nobody
  /\ env = [m \in Machine |-> Seeded]
  /\ awaits = [m \in Machine |-> Nobody]
  /\ secret = [m \in Machine |-> Nobody]
  /\ advice = [m \in Machine |-> "none"]
  /\ boots = 0
  /\ faults = 0

Fault(name) ==
  /\ name \in Faults
  /\ faults < MaxFaults
  /\ faults' = faults + 1

\* An attempt that is neither under way nor remembered anywhere: a new one.
Fresh(a) ==
  /\ req[a].stage = "idle"
  /\ \A i \in Id : row[i] # a
  /\ \A m \in Machine : secret[m] # a /\ awaits[m] # a

\* An id that no machine, row or request has: a generated one.
Unheard(i) ==
  /\ row[i] = Nobody
  /\ \A m \in Machine : id[m] # i
  /\ \A a \in Attempt : req[a].stage # "idle" => req[a].id # i

-----------------------------------------------------------------------------
(***************************************************************************)
(* The machine.                                                            *)
(***************************************************************************)

\* enroll() posts the machine's id and token, in a new attempt.
Post(m, i, t) ==
  /\ \E a \in Attempt : Fresh(a)
  /\ LET a == CHOOSE x \in Attempt : Fresh(x)
     IN  /\ req' = [req EXCEPT ![a] = [stage |-> "posted", token |-> t, id |-> i]]
         /\ awaits' = [awaits EXCEPT ![m] = a]

\* main(): a sidecar that has a secret is enrolled, whatever its id is;
\* another one posts its id and token.
Launch(m, i, t) ==
  /\ id' = [id EXCEPT ![m] = i]
  /\ env' = [env EXCEPT ![m] = t]
  /\ UNCHANGED secret
  /\ IF secret[m] # Nobody
     THEN /\ machine' = [machine EXCEPT ![m] = "enrolled"]
          /\ awaits' = [awaits EXCEPT ![m] = Nobody]
          /\ UNCHANGED req
     ELSE /\ machine' = [machine EXCEPT ![m] = "enrolling"]
          /\ Post(m, i, t)

\* Mutant of Restart: a container whose sidecar has stopped is left alone.
Restart_OnlyEnrolled(m) ==
  /\ machine[m] = "down"
  /\ secret[m] # Nobody
  /\ Launch(m, id[m], env[m])
  /\ UNCHANGED <<tables, advice, boots, faults>>

\* The entrypoint starts a sidecar that has exited, in the same environment.
Restart(m) ==
  /\ machine[m] = "down"
  /\ Launch(m, id[m], env[m])
  /\ UNCHANGED <<tables, advice, boots, faults>>

\* A container starts: an id is generated if none is configured, and a token
\* is asked for, which leaves the configured one in place if that fails.
\* config.json, on a volume, survives.
Boot(m) ==
  /\ boots < MaxBoots
  /\ boots' = boots + 1
  /\ \E i \in Id, t \in Token :
       /\ IF m \in Named THEN i = id[m] ELSE Unheard(i)
       /\ \/ t = Seeded /\ UNCHANGED token
          \/ token[t] = "unborn" /\ token' = [token EXCEPT ![t] = "issued"]
       /\ Launch(m, i, t)
  /\ UNCHANGED <<row, usedBy, advice, faults>>

\* enroll() gives up: no connection, or no answer in time.  The request may
\* be under way all the same.
ReplyLost(m) ==
  /\ Fault("lost_reply")
  /\ machine[m] = "enrolling"
  /\ machine' = [machine EXCEPT ![m] = "down"]
  /\ awaits' = [awaits EXCEPT ![m] = Nobody]
  /\ \/ UNCHANGED req
     \/ /\ req[awaits[m]].stage = "posted"
        /\ req' = [req EXCEPT ![awaits[m]] = NoRequest]
  /\ UNCHANGED <<tables, id, env, secret, advice, boots>>

\* The user does as the sidecar has advised and deletes config.json; the
\* next start enrolls, with what the environment says.
FollowAdvice(m) ==
  /\ machine[m] = "down"
  /\ advice[m] = "given"
  /\ advice' = [advice EXCEPT ![m] = "followed"]
  /\ secret' = [secret EXCEPT ![m] = Nobody]
  /\ UNCHANGED <<tables, req, machine, id, env, awaits, boots, faults>>

-----------------------------------------------------------------------------
(***************************************************************************)
(* The Control Center.                                                     *)
(***************************************************************************)

\* create_enrollment_token has replied; now the row is committed.
IssueCommits(t) ==
  /\ token[t] = "issued"
  /\ token' = [token EXCEPT ![t] = "valid"]
  /\ UNCHANGED <<row, usedBy, req, machines, advice, boots, faults>>

\* An hour has passed.
Expire(t) ==
  /\ token[t] = "valid"
  /\ token' = [token EXCEPT ![t] = "expired"]
  /\ UNCHANGED <<row, usedBy, req, machines, advice, boots, faults>>

\* A handler goes on to its next stage.
GoOn(a, stage) == req' = [req EXCEPT ![a].stage = stage]

\* It ends with an error, on which the sidecar exits.
Refuse(a) ==
  /\ req' = [req EXCEPT ![a] = NoRequest]
  /\ machine' = [m \in Machine |-> IF awaits[m] = a THEN "down" ELSE machine[m]]
  /\ awaits' = [m \in Machine |-> IF awaits[m] = a THEN Nobody ELSE awaits[m]]
  /\ UNCHANGED <<id, env, secret>>

\* The token is looked for among the unused ones that have not expired.
MatchToken(a) ==
  /\ req[a].stage = "posted"
  /\ IF token[req[a].token] = "valid" THEN GoOn(a, "matched") /\ UNCHANGED machines
     ELSE Refuse(a)
  /\ UNCHANGED <<tables, advice, boots, faults>>

\* The 400 "already registered", on which the sidecar prints its advice.
Advise(a) == advice' = [m \in Machine |-> IF awaits[m] = a THEN "given" ELSE advice[m]]

\* The id must not be registered.
CheckId(a) ==
  /\ req[a].stage = "matched"
  /\ IF row[req[a].id] = Nobody THEN GoOn(a, "checked") /\ UNCHANGED <<machines, advice>>
     ELSE Refuse(a) /\ Advise(a)
  /\ UNCHANGED <<tables, boots, faults>>

\* Another transaction has inserted this id or updated this token.
Waits(a) ==
  \E b \in Attempt \ {a} : /\ req[b].stage = "written"
                           /\ req[b].id = req[a].id \/ req[b].token = req[a].token

\* The reply: the sidecar, if it still waits, saves the secret.
Accept(a) ==
  /\ machine' = [m \in Machine |-> IF awaits[m] = a THEN "enrolled" ELSE machine[m]]
  /\ secret' = [m \in Machine |-> IF awaits[m] = a THEN a ELSE secret[m]]
  /\ awaits' = [m \in Machine |-> IF awaits[m] = a THEN Nobody ELSE awaits[m]]
  /\ UNCHANGED <<id, env>>

\* Mutant of Write: no unique index on the id.
Write_NoIndex(a) ==
  /\ req[a].stage = "checked"
  /\ GoOn(a, "written") /\ Accept(a)
  /\ UNCHANGED <<tables, advice, boots, faults>>

\* db.flush inserts the row and updates the token, behind any transaction
\* that has done so for the same id or token; the unique index refuses an id
\* that is there by now (500).
Write(a) ==
  /\ req[a].stage = "checked"
  /\ ~Waits(a)
  /\ IF row[req[a].id] = Nobody THEN GoOn(a, "written") /\ Accept(a)
     ELSE Refuse(a)
  /\ UNCHANGED <<tables, advice, boots, faults>>

\* The commit after the reply.
Commit(a) ==
  /\ req[a].stage = "written"
  /\ row' = [row EXCEPT ![req[a].id] = a]
  /\ token' = [token EXCEPT ![req[a].token] = "used"]
  /\ usedBy' = [usedBy EXCEPT ![req[a].token] = req[a].id]
  /\ req' = [req EXCEPT ![a] = NoRequest]
  /\ UNCHANGED <<machines, advice, boots, faults>>

\* The process dies: transactions roll back, requests fail.  An attempt that
\* was answered and not committed is remembered as lost.
CCCrash ==
  /\ Fault("cc_crash")
  /\ req' = [a \in Attempt |-> IF req[a].stage \in {"written", "lost"}
                              THEN [req[a] EXCEPT !.stage = "lost"] ELSE NoRequest]
  /\ token' = [t \in Token |-> IF token[t] = "issued" THEN "lost" ELSE token[t]]
  /\ machine' = [m \in Machine |-> IF machine[m] = "enrolling" THEN "down" ELSE machine[m]]
  /\ awaits' = [m \in Machine |-> Nobody]
  /\ UNCHANGED <<row, usedBy, id, env, secret, advice, boots>>

-----------------------------------------------------------------------------
Handler(a) == MatchToken(a) \/ CheckId(a) \/ Write(a) \/ Commit(a)

Next ==
  \/ \E m \in Machine : Boot(m) \/ Restart(m) \/ ReplyLost(m) \/ FollowAdvice(m)
  \/ \E t \in Token : IssueCommits(t) \/ Expire(t)
  \/ \E a \in Attempt : Handler(a)
  \/ CCCrash

Spec == Init /\ [][Next]_vars

\* Handlers run to their end and the entrypoint watches its sidecar.  No
\* container has to be started and no token has to be asked for.
Fairness ==
  /\ \A a \in Attempt : WF_vars(Handler(a))
  /\ \A t \in Token : WF_vars(IssueCommits(t))
  /\ \A m \in Machine : WF_vars(Restart(m))

FairSpec == Spec /\ Fairness

-----------------------------------------------------------------------------
(***************************************************************************)
(* Properties.                                                             *)
(***************************************************************************)

\* The secret of attempt a is, or is about to be, in the devices table.
Known(a) == req[a].stage = "written" \/ \E i \in Id : row[i] = a

\* The secret that m holds is that of its id's row, or was to be.
HasOwnSecret(m) ==
  \/ row[id[m]] = secret[m]
  \/ req[secret[m]].stage \in {"written", "lost"} /\ req[secret[m]].id = id[m]

\* A sidecar that takes itself for enrolled has a secret the Control Center
\* knows, whatever requests for the same id or token overlapped, unless the
\* Control Center died between its reply and its commit.  If its id is
\* configured, the secret is that of this id; a generated one changes with
\* every start of the container.
EnrolledIsKnown ==
  \A m \in Machine :
    secret[m] # Nobody =>
      /\ Known(secret[m]) \/ req[secret[m]].stage = "lost"
      /\ m \in Named => HasOwnSecret(m)

\* A token that is used up names a registered device: it is spent only
\* together with a registration, and a refused one costs nothing.
SpentOnDevice ==
  \A t \in Token : token[t] = "used" => usedBy[t] # Nobody /\ row[usedBy[t]] # Nobody

Registered(m) == id[m] # Nobody /\ row[id[m]] # Nobody

\* The row of m's id holds a secret that nobody has or will get.
Orphaned(m) ==
  /\ secret[m] = Nobody
  /\ Registered(m)
  /\ \A n \in Machine : awaits[n] # row[id[m]]

\* A machine with a configured id whose registration was answered in vain
\* never enrolls, neither by another start nor with another token, and not
\* after its user has deleted config.json either.
OrphanIsForever == [][\A m \in Named : Orphaned(m) => Orphaned(m)']_vars

\* A sidecar that is started over and over gets in, unless its token or its
\* id has been used up meanwhile.
EnrollsOrCannot ==
  \A m \in Machine :
    machine[m] = "down" ~> \/ machine[m] = "enrolled"
                           \/ token[env[m]] \in {"used", "expired", "lost"}
                           \/ Registered(m)

\* "Or delete ~/.afc/config.json and re-enroll": who does so gets in, unless
\* the token has been used up or has expired.  Fails: the environment still
\* names the id, and the id is still registered.
ReEnrolls ==
  \A m \in Machine :
    advice[m] = "followed" ~> machine[m] = "enrolled" \/ token[env[m]] # "valid"
=============================================================================
