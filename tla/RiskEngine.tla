----------------------------- MODULE RiskEngine -----------------------------
(***************************************************************************)
(* The Control Center's risk engine as operators: what the five rules make *)
(* of an event, how their scores add up, and which score and severity the  *)
(* ingestion stores.                                                       *)
(*                                                                         *)
(* An event's text is abstracted to what the rules find in it: how many of *)
(* a rule's patterns it contains, or whether it contains one at all.       *)
(***************************************************************************)
EXTENDS Integers

Severity == {"low", "medium", "high", "critical"}

Install == {"skill_added", "plugin_added", "before_install"}

PersistenceEvent == {"memory_updated", "config_changed"} \union Install

EventType == PersistenceEvent \union {"other"}

External == {"network", "message", "browser"}

Category == {"shell", "file", "other"} \union External

\* What the rules can find out about an event.  The last six fields are about
\* its text.
RiskContext ==
  [type: EventType, category: Category, untrusted: BOOLEAN,
   commands: Nat, paths: Nat, injections: Nat,
   host: BOOLEAN, mail: BOOLEAN, startup: BOOLEAN]

-----------------------------------------------------------------------------
(***************************************************************************)
(* The rules.                                                              *)
(***************************************************************************)
Cap(n) == IF n > 100 THEN 100 ELSE n

Points(found, n) == IF found THEN n ELSE 0

DangerousShell(c) == Cap(IF c.category = "shell" THEN 60 * c.commands ELSE 0)

SensitivePath(c) == Cap(IF c.category \in {"file", "shell"} THEN 40 * c.paths ELSE 0)

Exfiltration(c) ==
  IF c.category \in External
  THEN Cap(30 + Points(c.host, 40) + Points(c.untrusted, 30) + Points(c.mail, 20))
  ELSE 0

PromptInjection(c) == Cap(IF c.untrusted THEN 30 * c.injections ELSE 0)

\* Untrusted input only counts when something else does.
Persistence(c) ==
  LET found == Points(c.type \in PersistenceEvent, 30) + Points(c.type \in Install, 20)
                 + Points(c.startup, 20)
  IN  Cap(found + Points(c.untrusted /\ found > 0, 20))

-----------------------------------------------------------------------------
(***************************************************************************)
(* The scorer and the ingestion.                                           *)
(***************************************************************************)
Score(c) ==
  Cap(DangerousShell(c) + SensitivePath(c) + Exfiltration(c) + PromptInjection(c) + Persistence(c))

Band(score) ==
  CASE score >= 80               -> "critical"
    [] score >= 60 /\ score < 80 -> "high"
    [] score >= 30 /\ score < 60 -> "medium"
    [] score < 30                -> "low"

\* event_service.py has the bands a second time.
ScoreToSeverity(score) ==
  CASE score >= 80               -> "critical"
    [] score >= 60 /\ score < 80 -> "high"
    [] score >= 30 /\ score < 60 -> "medium"
    [] score < 30                -> "low"

\* The greater of the score the device reports, which nothing bounds, and the
\* server's own.
StoredScore(reported, c) == IF reported > Score(c) THEN reported ELSE Score(c)

\* Mutant of StoredSeverity: the two sides are taken the wrong way round.
StoredSeverity_Device(reported, c) ==
  IF ScoreToSeverity(reported) = "low" THEN ScoreToSeverity(StoredScore(reported, c))
  ELSE Band(Score(c))

\* The severity the scorer gave, unless that is "low": a device's higher score
\* then raises the stored score, not the severity.
StoredSeverity(reported, c) ==
  IF Band(Score(c)) = "low" THEN ScoreToSeverity(StoredScore(reported, c)) ELSE Band(Score(c))
=============================================================================
