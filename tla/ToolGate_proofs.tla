---------------------------- MODULE ToolGate_proofs ----------------------------
(***************************************************************************)
(* Proofs about ToolGate, for any number of sessions, calls, messages and  *)
(* faults.                                                                 *)
(*                                                                         *)
(* A hook that asked under quarantine is blocked because the quarantine    *)
(* still stands when its event is judged: nothing but the end of the       *)
(* sidecar lifts one, and with the sidecar the open request ends too.  A   *)
(* warned tool's risk is at least 60 because every name a session was      *)
(* heard under is tainted.                                                 *)
(***************************************************************************)
EXTENDS ToolGate, TLAPS

\* Between a hook's question and its answer: a quarantine it asked under
\* still stands, and a warned tool has been posted with a risk that the
\* plugin does not excuse.
OpenCalls ==
  \A c \in Call : call[c].stage = "posted" =>
    /\ call[c].late => IsQuarantined(call[c].session)
    /\ call[c].warned => call[c].risk >= 60

HeardTaints == \A s \in Session, name \in Name : <<s, name>> \in heard => name \in tainted

Inv == HeardTaints /\ OpenCalls /\ QuarantineHolds /\ TaintCounts

\* A hook's session is one of the names.
LEMMA NameRange ==
  ASSUME NEW s \in Session, NEW given
  PROVE  CallName(s, given) \in Name /\ MessageName(s, given) \in Name
BY DEF CallName, MessageName, Name

LEMMA BaseRange == \A category \in Category : BaseToolRisk[category] \in {10, 20, 30, 40, 50}
BY DEF Category, BaseToolRisk

\* What the hooks report is a risk, and the taint lifts a risky tool to the
\* limit.
LEMMA RiskRange ==
  /\ \A found \in SUBSET {"secret", "link", "external"} : SendRisk(found) \in 0..100
  /\ \A trusted, signed \in BOOLEAN : InstallRisk(trusted, signed) \in 0..100
  /\ \A category \in Category :
       BaseToolRisk[category] >= 40 => ToolRisk(category, TRUE) >= 60
BY BaseRange DEF ToolRisk, SendRisk, InstallRisk

\* What the three hooks ask about.
ToolAbout(s, given, category) ==
  [Idle EXCEPT !.session = CallName(s, given),
               !.risk = ToolRisk(category, CallName(s, given) \in tainted),
               !.warned = BaseToolRisk[category] >= 40 /\ <<s, CallName(s, given)>> \in heard]
SendAbout(s, given, found) ==
  [Idle EXCEPT !.session = MessageName(s, given), !.risk = SendRisk(found)]
InstallAbout(trusted, signed) ==
  [Idle EXCEPT !.risk = InstallRisk(trusted, signed), !.ask = ~trusted /\ ~signed]

LEMMA ToolAsking ==
  ASSUME NEW s \in Session, NEW given, NEW category \in Category
  PROVE  ToolAbout(s, given, category) \in Asking
<1>. DEFINE name == CallName(s, given)
            risk == ToolRisk(category, name \in tainted)
            warned == BaseToolRisk[category] >= 40 /\ <<s, name>> \in heard
<1>1. name \in Name /\ risk \in 0..100
  BY BaseRange, NameRange DEF ToolRisk
<1>2. warned \in BOOLEAN
  OBVIOUS
<1>3. ToolAbout(s, given, category) =
        [Idle EXCEPT !.session = name, !.risk = risk, !.warned = warned]
  BY Zenon DEF ToolAbout
<1>. HIDE DEF name, risk, warned
<1>. QED  BY <1>1, <1>2, <1>3 DEF Idle, Asking, Stage

LEMMA SendAsking ==
  ASSUME NEW s \in Session, NEW given, NEW found \in SUBSET {"secret", "link", "external"}
  PROVE  SendAbout(s, given, found) \in Asking /\ ~SendAbout(s, given, found).warned
<1>1. SendRisk(found) \in 0..100
  BY RiskRange
<1>. QED  BY <1>1, NameRange DEF SendAbout, Idle, Asking, Stage

LEMMA InstallAsking ==
  ASSUME NEW trusted \in BOOLEAN, NEW signed \in BOOLEAN
  PROVE  InstallAbout(trusted, signed) \in Asking /\ ~InstallAbout(trusted, signed).warned
<1>1. InstallRisk(trusted, signed) \in 0..100
  BY RiskRange
<1>. QED  BY <1>1 DEF InstallAbout, Idle, Asking, Stage

\* The state of plugin and sidecar stays in its types; an open request has a
\* sidecar that runs and a plugin that governs.
THEOREM TypeCorrect == Spec => []TypeOK
<1>1. Init => TypeOK
  BY ConstantsAssumption DEF Init, TypeOK, Idle, Quiet, Asking, Stage
<1>2. TypeOK /\ [Next]_vars => TypeOK'
  <2>. SUFFICES ASSUME TypeOK, [Next]_vars PROVE TypeOK'
    OBVIOUS
  <2>. USE ConstantsAssumption DEF TypeOK
  <2>1. CASE Load
    BY <2>1 DEF Load, sidecarVars
  <2>2. CASE Reload
    BY <2>2 DEF Reload, Fault, sidecarVars, Idle, Quiet, Asking, Stage
  <2>3. CASE SidecarStops
    <3>1. call' \in [Call -> Asking]
      BY <2>3 DEF SidecarStops, Asking, Stage
    <3>2. \A c \in Call : call'[c].stage # "posted"
      BY <2>3 DEF SidecarStops, Asking
    <3>3. message' \in [Message -> [of : Session, session : Name, suspicious : BOOLEAN] \union {Quiet}]
      BY <2>3 DEF SidecarStops
    <3>4. faults' \in 0..MaxFaults
      BY <2>3 DEF SidecarStops, Fault
    <3>. QED  BY <2>3, <3>1, <3>2, <3>3, <3>4 DEF SidecarStops, pluginVars
  <2>4. CASE SidecarStarts \/ QuarantineDevice
    BY <2>4 DEF SidecarStarts, QuarantineDevice, pluginVars
  <2>5. CASE \E c \in Call : Asks(c)
    <3>0. ASSUME NEW c \in Call, NEW about \in Asking, Ask(c, about)
          PROVE  call' \in [Call -> Asking]
      <4>1. [about EXCEPT !.stage = IF plugin # "active" THEN "ungoverned"
                                   ELSE IF up THEN "posted" ELSE "thrown",
                         !.late = IsQuarantined(about.session)] \in Asking
        BY DEF Asking, Stage, IsQuarantined
      <4>. QED  BY <3>0, <4>1 DEF Ask
    <3>1. ASSUME NEW c \in Call, NEW s \in Session, NEW given, NEW category \in Category,
                 BeforeToolCall(c, s, given, category)
          PROVE  call' \in [Call -> Asking]
      BY <3>0, <3>1, ToolAsking, Zenon DEF BeforeToolCall, ToolAbout
    <3>2. ASSUME NEW c \in Call, NEW s \in Session, NEW given,
                 NEW found \in SUBSET {"secret", "link", "external"},
                 MessageSending(c, s, given, found)
          PROVE  call' \in [Call -> Asking]
      BY <3>0, <3>2, SendAsking, Zenon DEF MessageSending, SendAbout
    <3>3. ASSUME NEW c \in Call, NEW trusted \in BOOLEAN, NEW signed \in BOOLEAN,
                 BeforeInstall(c, trusted, signed)
          PROVE  call' \in [Call -> Asking]
      BY <3>0, <3>3, InstallAsking, Zenon DEF BeforeInstall, InstallAbout
    <3>4. call' \in [Call -> Asking]
      BY <2>5, <3>1, <3>2, <3>3 DEF Asks
    <3>5. /\ \A c \in Call : call'[c].stage = "posted" => up /\ plugin = "active"
          /\ UNCHANGED <<sidecarVars, pluginVars, message, faults>>
      <4>1. PICK c \in Call : \E about : Ask(c, about)
        BY <2>5, Zenon DEF Asks, BeforeToolCall, MessageSending, BeforeInstall
      <4>. QED  BY <4>1 DEF Ask
    <3>6. /\ up' = up /\ quarantined' = quarantined /\ held' = held
          /\ plugin' = plugin /\ tainted' = tainted /\ heard' = heard
          /\ message' = message /\ faults' = faults
      BY <3>5, Zenon DEF sidecarVars, pluginVars
    <3>. QED  BY <3>4, <3>5, <3>6
  <2>6. ASSUME NEW c \in Call, Judge(c) \/ JudgeFails(c) \/ Over(c)
        PROVE  TypeOK'
    <3>1. PICK stage \in Stage \ {"posted"} :
            call' = [call EXCEPT ![c].stage = stage] \/ call' = [call EXCEPT ![c] = Idle]
      <4>1. CASE Judge(c)
        BY <4>1 DEF Judge, Ends, LetThrough, Stage
      <4>2. CASE JudgeFails(c)
        BY <4>2 DEF JudgeFails, Ends, LetThrough, Stage
      <4>3. CASE Over(c)
        BY <4>3 DEF Over, Stage
      <4>. QED  BY <2>6, <4>1, <4>2, <4>3
    <3>2. call' \in [Call -> Asking]
      <4>1. call[c] \in Asking /\ Idle \in Asking
        BY DEF Idle, Asking, Stage
      <4>2. [call[c] EXCEPT !.stage = stage] \in Asking
        BY <4>1 DEF Asking
      <4>. QED  BY <3>1, <4>1, <4>2
    <3>3. \A d \in Call : call'[d].stage = "posted" => call[d].stage = "posted"
      BY <3>1 DEF Asking, Idle, Stage
    <3>4. UNCHANGED <<sidecarVars, pluginVars, message>> /\ faults' \in 0..MaxFaults
      BY <2>6 DEF Judge, JudgeFails, Over, Fault
    <3>5. /\ up' = up /\ quarantined' = quarantined /\ held' = held
          /\ plugin' = plugin /\ tainted' = tainted /\ heard' = heard /\ message' = message
      BY <3>4, Zenon DEF sidecarVars, pluginVars
    <3>. QED  BY <3>2, <3>3, <3>4, <3>5
  <2>7. ASSUME NEW m \in Message, MessageDone(m)
        PROVE  TypeOK'
    <3>1. call' = call /\ sidecarVars' = sidecarVars /\ plugin' = plugin /\ faults' = faults
      BY <2>7 DEF MessageDone
    <3>2. message' \in [Message -> [of : Session, session : Name, suspicious : BOOLEAN] \union {Quiet}]
      BY <2>7 DEF MessageDone, Quiet
    <3>3. tainted' \in SUBSET Name /\ heard' \in SUBSET (Session \X Name)
      BY <2>7 DEF MessageDone, Quiet
    <3>. QED  BY <3>1, <3>2, <3>3 DEF sidecarVars
  <2>8. ASSUME NEW m \in Message, Receives(m)
        PROVE  TypeOK'
    BY <2>8, NameRange DEF Receives, MessageReceived, sidecarVars, pluginVars
  <2>9. ASSUME NEW name \in Name, QuarantineSession(name)
        PROVE  TypeOK'
    BY <2>9 DEF QuarantineSession, pluginVars
  <2>10. CASE UNCHANGED vars
    BY <2>10 DEF vars, sidecarVars, pluginVars
  <2>. QED  BY <2>1, <2>2, <2>3, <2>4, <2>5, <2>6, <2>7, <2>8, <2>9, <2>10 DEF Next
<1>. QED  BY <1>1, <1>2, PTL DEF Spec

LEMMA InvHolds == Spec => []Inv
<1>1. Init => Inv
  BY DEF Init, Inv, HeardTaints, OpenCalls, QuarantineHolds, TaintCounts, Idle
<1>2. TypeOK /\ Inv /\ [Next]_vars => Inv'
  <2>. SUFFICES ASSUME TypeOK, Inv, [Next]_vars PROVE Inv'
    OBVIOUS
  <2>. USE DEF Inv, HeardTaints, OpenCalls, QuarantineHolds, TaintCounts
  <2>1. CASE Load \/ SidecarStarts
    BY <2>1 DEF Load, SidecarStarts, IsQuarantined, sidecarVars, pluginVars
  <2>2. CASE Reload
    BY <2>2 DEF Reload, Idle
  <2>3. CASE SidecarStops
    BY <2>3 DEF SidecarStops, pluginVars, TypeOK, Asking
  <2>4. CASE QuarantineDevice
    BY <2>4 DEF QuarantineDevice, IsQuarantined, pluginVars
  <2>5. ASSUME NEW c \in Call, Asks(c)
        PROVE  Inv'
    <3>0. ASSUME NEW about \in Asking, Ask(c, about), about.warned => about.risk >= 60
          PROVE  Inv'
      <4>1. call' = [call EXCEPT ![c] = call'[c]]
        BY <3>0 DEF Ask, TypeOK
      <4>2. /\ call'[c].warned = about.warned /\ call'[c].risk = about.risk
            /\ call'[c].session = about.session
            /\ call'[c].late = IsQuarantined(about.session)
            /\ call'[c].stage \in {"ungoverned", "posted", "thrown"}
        BY <3>0 DEF Ask, TypeOK, Asking
      <4>3. quarantined' = quarantined /\ held' = held /\ tainted' = tainted /\ heard' = heard
        BY <3>0 DEF Ask, sidecarVars, pluginVars
      <4>. QED  BY <3>0, <4>1, <4>2, <4>3 DEF IsQuarantined, TypeOK
    <3>1. ASSUME NEW s \in Session, NEW given, NEW category \in Category,
                 BeforeToolCall(c, s, given, category)
          PROVE  Inv'
      <4>1. Ask(c, ToolAbout(s, given, category))
        BY <3>1, Zenon DEF BeforeToolCall, ToolAbout
      <4>2. ToolAbout(s, given, category).warned => ToolAbout(s, given, category).risk >= 60
        BY RiskRange, NameRange DEF ToolAbout, Idle, HeardTaints
      <4>. QED  BY <3>0, <4>1, <4>2, ToolAsking
    <3>2. ASSUME NEW s \in Session, NEW given, NEW found \in SUBSET {"secret", "link", "external"},
                 MessageSending(c, s, given, found)
          PROVE  Inv'
      BY <3>0, <3>2, SendAsking, Zenon DEF MessageSending, SendAbout
    <3>3. ASSUME NEW trusted \in BOOLEAN, NEW signed \in BOOLEAN,
                 BeforeInstall(c, trusted, signed)
          PROVE  Inv'
      BY <3>0, <3>3, InstallAsking, Zenon DEF BeforeInstall, InstallAbout
    <3>. QED  BY <2>5, <3>1, <3>2, <3>3 DEF Asks
  <2>6. ASSUME NEW c \in Call, Judge(c) \/ JudgeFails(c)
        PROVE  Inv'
    BY <2>6 DEF Judge, JudgeFails, Ends, LetThrough, IsQuarantined, sidecarVars, pluginVars,
                TypeOK, Asking
  <2>7. ASSUME NEW c \in Call, Over(c)
        PROVE  Inv'
    BY <2>7 DEF Over, Idle, IsQuarantined, sidecarVars, pluginVars, TypeOK
  <2>8. ASSUME NEW m \in Message, MessageDone(m)
        PROVE  Inv'
    BY <2>8 DEF MessageDone, IsQuarantined, sidecarVars
  <2>9. ASSUME NEW m \in Message, Receives(m)
        PROVE  Inv'
    BY <2>9 DEF Receives, MessageReceived, IsQuarantined, sidecarVars, pluginVars
  <2>10. ASSUME NEW name \in Name, QuarantineSession(name)
         PROVE  Inv'
    BY <2>10 DEF QuarantineSession, IsQuarantined, pluginVars
  <2>11. CASE UNCHANGED vars
    BY <2>11 DEF vars, IsQuarantined, sidecarVars, pluginVars
  <2>. QED  BY <2>1, <2>2, <2>3, <2>4, <2>5, <2>6, <2>7, <2>8, <2>9, <2>10, <2>11 DEF Next
<1>. QED  BY <1>1, <1>2, TypeCorrect, PTL DEF Spec

\* Under quarantine nothing passes a governing plugin.
THEOREM QuarantineHoldsCorrect == Spec => []QuarantineHolds
BY InvHolds, PTL DEF Inv

\* A risky tool that asks under a tainted name needs the sidecar's decision,
\* whichever fields name its session and whoever shares the name.
THEOREM TaintCountsCorrect == Spec => []TaintCounts
BY InvHolds, PTL DEF Inv
=============================================================================
