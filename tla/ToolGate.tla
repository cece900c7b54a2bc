------------------------------- MODULE ToolGate -------------------------------
(***************************************************************************)
(* The decision on a tool call, an outgoing message or an installation, on *)
(* the device.                                                             *)
(*                                                                         *)
(* Plugin (openclaw-plugin: index.ts, hooks, sidecarClient.ts): hooks run  *)
(* concurrently; each posts an event to the sidecar and acts on the        *)
(* reply.  Governance is on if the sidecar answered when the plugin was    *)
(* loaded.  A message with suspicious content taints its session, once the *)
(* hook is through.  A session is known by a name, and which one depends   *)
(* on the hook and on the fields the gateway gives it: a tool call prefers *)
(* ctx.sessionId, messages know only the sessionKey.                       *)
(*                                                                         *)
(* Sidecar (local_api.py, quarantine.py): blocks what comes from a         *)
(* quarantined device or session, queues the event of everything else and  *)
(* answers with a local decision.  The device's quarantine is in           *)
(* config.json, those of sessions are in memory.                           *)
(***************************************************************************)
EXTENDS Naturals

CONSTANTS Session,     \* agent sessions
          NoSession,   \* what an installation is reported with
          Unknown,     \* 'unknown', the name of a session no field names
          Call,        \* hooks that ask for a decision, running at a time
          Message,     \* message_received hooks running at a time
          Faults,      \* the faults of the environment that may happen
          MaxFaults    \* how many of them

FaultNames == {"disk_full", "sidecar_stops", "reload"}

ASSUME ConstantsAssumption ==
  /\ NoSession \notin ({"id", "key"} \X Session) \union {Unknown}
  /\ Faults \subseteq FaultNames
  /\ MaxFaults \in Nat

VARIABLES
  plugin,      \* "loading", "active" or "inert"
  up,          \* the sidecar answers
  quarantined, \* cfg.quarantine
  held,        \* the names quarantined as sessions
  tainted,     \* the names whose session entry has hasUntrustedInput
  heard,       \* history: sessions with a suspicious message whose hook has
               \* returned, each with the name it was received under
  call,        \* per hook that asks for a decision, what it is about
  message,     \* per message_received hook, its session, name and finding
  faults       \* faults that have happened

sidecarVars == <<up, quarantined, held>>
pluginVars == <<plugin, tainted, heard>>
vars == <<sidecarVars, pluginVars, call, message, faults>>

\* What the tools are, sorted by classifyTool: one category per base risk.
Category == {"shell", "plugin", "network", "file", "unknown"}
BaseToolRisk == [c \in Category |-> CASE c = "shell" -> 40 [] c = "plugin" -> 50
                                      [] c = "network" -> 30 [] c = "file" -> 20
                                      [] c = "unknown" -> 10]

\* beforeToolCall, messageSending, beforeInstall: the risk the device reports.
ToolRisk(category, untrusted) == BaseToolRisk[category] + (IF untrusted THEN 20 ELSE 0)

SendRisk(found) == (IF "secret" \in found THEN 50 ELSE 0)
                   + (IF "link" \in found THEN 30 ELSE 0)
                   + (IF "external" \in found THEN 20 ELSE 0)
InstallRisk(trusted, signed) == IF trusted THEN 10 ELSE IF signed THEN 30 ELSE 50

\* The names a session may go by, and the one a hook finds.
Name == ({"id", "key"} \X Session) \union {Unknown}
Field == {"sessionId", "sessionKey"}
CallName(s, given) == IF "sessionId" \in given THEN <<"id", s>>
                      ELSE IF "sessionKey" \in given THEN <<"key", s>> ELSE Unknown
MessageName(s, given) == IF "sessionKey" \in given THEN <<"key", s>> ELSE Unknown

\* ask: an installation that goes to approval if it is not blocked.  late:
\* device or session was quarantined when the hook asked; warned: it is about
\* a tool of risk 40 or more and a message had tainted the name it asks under
\* by then.  excused: let through although the sidecar failed to decide.
Idle == [stage |-> "idle", session |-> NoSession, risk |-> 0, ask |-> FALSE,
         late |-> FALSE, warned |-> FALSE]
Stage == {"idle", "posted", "ran", "excused", "blocked", "asked", "thrown", "ungoverned"}
Asking == [stage : Stage, session : Name \union {NoSession}, risk : 0..100, ask : BOOLEAN,
           late : BOOLEAN, warned : BOOLEAN]
Quiet == [of |-> NoSession, session |-> NoSession, suspicious |-> FALSE]

TypeOK ==
  /\ plugin \in {"loading", "active", "inert"}
  /\ up \in BOOLEAN
  /\ quarantined \in BOOLEAN
  /\ held \in SUBSET Name
  /\ tainted \in SUBSET Name
  /\ heard \in SUBSET (Session \X Name)
  /\ call \in [Call -> Asking]
  /\ message \in [Message -> [of : Session, session : Name, suspicious : BOOLEAN] \union {Quiet}]
  /\ faults \in 0..MaxFaults
  /\ \A c \in Call : call[c].stage = "posted" => up /\ plugin = "active"

\* The sidecar, up or not yet, may be quarantined from an earlier run.
Init ==
  /\ plugin = "loading"
  /\ up \in BOOLEAN
  /\ quarantined \in BOOLEAN
  /\ held = {}
  /\ tainted = {}
  /\ heard = {}
  /\ call = [c \in Call |-> Idle]
  /\ message = [m \in Message |-> Quiet]
  /\ faults = 0

Fault(name) ==
  /\ name \in Faults
  /\ faults < MaxFaults
  /\ faults' = faults + 1

\* is_quarantined
IsQuarantined(name) == quarantined \/ name \in held

-----------------------------------------------------------------------------
(***************************************************************************)
(* The plugin.                                                             *)
(***************************************************************************)

\* register(): governance is on if the sidecar's status can be read, else it
\* stays off.
Load ==
  /\ plugin = "loading"
  /\ plugin' = IF up THEN "active" ELSE "inert"
  /\ UNCHANGED <<sidecarVars, tainted, heard, call, message, faults>>

\* A hook asks: not at all without governance, and in vain without a sidecar
\* (the fetch rejects and the hook throws).
Ask(c, about) ==
  /\ call[c].stage = "idle"
  /\ call' = [call EXCEPT ![c] =
                [about EXCEPT !.stage = IF plugin # "active" THEN "ungoverned"
                                        ELSE IF up THEN "posted" ELSE "thrown",
                              !.late = IsQuarantined(about.session)]]
  /\ UNCHANGED <<sidecarVars, pluginVars, message, faults>>

\* index.ts before_tool_call: session ctx.sessionId || ctx.sessionKey.
BeforeToolCall(c, s, given, category) ==
  LET name == CallName(s, given) IN
  Ask(c, [Idle EXCEPT !.session = name,
                      !.risk = ToolRisk(category, name \in tainted),
                      !.warned = BaseToolRisk[category] >= 40 /\ <<s, name>> \in heard])

\* index.ts message_sending: session ctx.sessionKey || event.sessionKey.
MessageSending(c, s, given, found) ==
  Ask(c, [Idle EXCEPT !.session = MessageName(s, given), !.risk = SendRisk(found)])

\* No session is reported with an installation.
BeforeInstall(c, trusted, signed) ==
  Ask(c, [Idle EXCEPT !.risk = InstallRisk(trusted, signed), !.ask = ~trusted /\ ~signed])

\* The hook has returned; for a tool that ran, after_tool_call reports and
\* decides nothing.
Over(c) ==
  /\ call[c].stage \notin {"idle", "posted"}
  /\ call' = [call EXCEPT ![c] = Idle]
  /\ UNCHANGED <<sidecarVars, pluginVars, message, faults>>

\* message_received, its session ctx.sessionKey || event.sessionKey, is told
\* to the sidecar; if that fails, the hook throws and nothing is tainted.
MessageReceived(m, s, given, suspicious) ==
  /\ plugin = "active"
  /\ message[m] = Quiet
  /\ up
  /\ message' = [message EXCEPT ![m] = [of |-> s, session |-> MessageName(s, given),
                                          suspicious |-> suspicious]]
  /\ UNCHANGED <<sidecarVars, pluginVars, call, faults>>

\* Mutant of MessageDone: a harmless message clears its session.
MessageDone_Overwrites(m) ==
  /\ message[m] # Quiet
  /\ message' = [message EXCEPT ![m] = Quiet]
  /\ IF message[m].suspicious
     THEN /\ tainted' = tainted \union {message[m].session}
          /\ heard' = heard \union {<<message[m].of, message[m].session>>}
     ELSE /\ tainted' = tainted \ {message[m].session}
          /\ UNCHANGED heard
  /\ UNCHANGED <<sidecarVars, plugin, call, faults>>

\* The sidecar has answered, whatever it says, and the hook goes on.
MessageDone(m) ==
  /\ message[m] # Quiet
  /\ message' = [message EXCEPT ![m] = Quiet]
  /\ IF message[m].suspicious
     THEN /\ tainted' = tainted \union {message[m].session}
          /\ heard' = heard \union {<<message[m].of, message[m].session>>}
     ELSE UNCHANGED <<tainted, heard>>
  /\ UNCHANGED <<sidecarVars, plugin, call, faults>>

\* The gateway is restarted: the plugin's state is gone.
Reload ==
  /\ Fault("reload")
  /\ plugin' = "loading"
  /\ tainted' = {}
  /\ heard' = {}
  /\ call' = [c \in Call |-> Idle]
  /\ message' = [m \in Message |-> Quiet]
  /\ UNCHANGED sidecarVars

-----------------------------------------------------------------------------
(***************************************************************************)
(* The sidecar, and what the hook makes of its reply.                      *)
(***************************************************************************)
Ends(c, stage) == call' = [call EXCEPT ![c].stage = stage]

LetThrough(c, stage) == Ends(c, IF call[c].ask THEN "asked" ELSE stage)

\* Mutant of Judge: a session's quarantine is not looked at.
Judge_DeviceOnly(c) ==
  /\ call[c].stage = "posted"
  /\ IF quarantined THEN Ends(c, "blocked") ELSE LetThrough(c, "ran")
  /\ UNCHANGED <<sidecarVars, pluginVars, message, faults>>

\* submit_event: quarantine first.  Everything else gets the local decision.
\* The cached policy is the reply to the sync, in which _evaluate_policy finds
\* no rules and no default: "allow"; without a policy it is "deny".  The hook
\* knows neither as a refusal.
Judge(c) ==
  /\ call[c].stage = "posted"
  /\ IF IsQuarantined(call[c].session) THEN Ends(c, "blocked") ELSE LetThrough(c, "ran")
  /\ UNCHANGED <<sidecarVars, pluginVars, message, faults>>

\* Mutant of JudgeFails: the limit is taken for the first risk that is let
\* through.
JudgeFails_Above60(c) ==
  /\ Fault("disk_full")
  /\ call[c].stage = "posted"
  /\ IF IsQuarantined(call[c].session) \/ call[c].risk > 60
     THEN Ends(c, "blocked") ELSE LetThrough(c, "excused")
  /\ UNCHANGED <<sidecarVars, pluginVars, message>>

\* The queue file cannot be written: 500, unless the call was blocked before.
\* submitEvent blocks a risk of 60 or more by itself and allows the rest.
JudgeFails(c) ==
  /\ Fault("disk_full")
  /\ call[c].stage = "posted"
  /\ IF IsQuarantined(call[c].session) \/ call[c].risk >= 60
     THEN Ends(c, "blocked") ELSE LetThrough(c, "excused")
  /\ UNCHANGED <<sidecarVars, pluginVars, message>>

QuarantineSession(name) ==
  /\ up
  /\ held' = held \union {name}
  /\ UNCHANGED <<up, quarantined, pluginVars, call, message, faults>>

QuarantineDevice ==
  /\ up
  /\ quarantined' = TRUE
  /\ UNCHANGED <<up, held, pluginVars, call, message, faults>>

\* The sidecar stops: open requests fail and their hooks throw, sessions are
\* forgotten.
SidecarStops ==
  /\ Fault("sidecar_stops")
  /\ up
  /\ up' = FALSE
  /\ held' = {}
  /\ call' = [c \in Call |-> IF call[c].stage = "posted" THEN [call[c] EXCEPT !.stage = "thrown"]
                             ELSE call[c]]
  /\ message' = [m \in Message |-> Quiet]
  /\ UNCHANGED <<quarantined, pluginVars>>

\* The entrypoint starts it again.
SidecarStarts ==
  /\ ~up
  /\ up' = TRUE
  /\ UNCHANGED <<quarantined, held, pluginVars, call, message, faults>>

-----------------------------------------------------------------------------
\* What the gateway puts into a hook's context is not in this repository:
\* any of the fields the hook looks for.
Asks(c) ==
  \/ \E s \in Session, given \in SUBSET Field :
       \/ \E category \in Category : BeforeToolCall(c, s, given, category)
       \/ \E found \in SUBSET {"secret", "link", "external"} : MessageSending(c, s, given, found)
  \/ \E trusted, signed \in BOOLEAN : BeforeInstall(c, trusted, signed)

Receives(m) ==
  \E s \in Session, given \in SUBSET Field, suspicious \in BOOLEAN :
    MessageReceived(m, s, given, suspicious)

Next ==
  \/ Load \/ Reload \/ SidecarStops \/ SidecarStarts \/ QuarantineDevice
  \/ \E c \in Call : Asks(c) \/ Judge(c) \/ JudgeFails(c) \/ Over(c)
  \/ \E m \in Message : Receives(m) \/ MessageDone(m)
  \/ \E name \in Name : QuarantineSession(name)

Spec == Init /\ [][Next]_vars

-----------------------------------------------------------------------------
(***************************************************************************)
(* Properties.                                                             *)
(***************************************************************************)

\* Nothing that asks under the quarantine of its device or session is let
\* through by a governing plugin, whether the sidecar stops, starts again or
\* cannot write its queue meanwhile (quarantine.py is_tool_allowed,
\* local_api.py submit_event, sidecarClient.ts submitEvent).
QuarantineHolds == \A c \in Call : call[c].late => call[c].stage \notin {"ran", "excused", "asked"}

\* A shell or plugin tool that asks under a name that a message has tainted,
\* be it the name of its own session or the one that nameless sessions share,
\* is not let through without the sidecar's decision: with the taint its risk
\* reaches the limit at which the plugin itself refuses (index.ts,
\* beforeToolCall.ts, sidecarClient.ts submitEvent).
TaintCounts == \A c \in Call : call[c].warned => call[c].stage # "excused"
=============================================================================
