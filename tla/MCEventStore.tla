---------------------------- MODULE MCEventStore ----------------------------
(***************************************************************************)
(* Four events for EventStore: harmless, found risky by the device only,   *)
(* by both sides, and critical for the server.                             *)
(***************************************************************************)
EXTENDS EventStore, TLC

Plain == [type |-> "other", category |-> "file", untrusted |-> FALSE, commands |-> 0,
          paths |-> 0, injections |-> 0, host |-> FALSE, mail |-> FALSE, startup |-> FALSE]

MCSent ==
  1 :> [reported |-> 0, context |-> Plain] @@
  2 :> [reported |-> 70, context |-> [Plain EXCEPT !.startup = TRUE]] @@
  3 :> [reported |-> 85, context |-> [Plain EXCEPT !.paths = 1]] @@
  4 :> [reported |-> 30, context |-> [Plain EXCEPT !.category = "network", !.host = TRUE,
                                                   !.untrusted = TRUE, !.injections = 1]]
=============================================================================
