------------------------------ MODULE RuleJournal ------------------------------
(******************************************************************************)
(* What the session record promises of the firewall, whatever commands run    *)
(* and wherever they die: it is a journal.  A backend's rules are armed only  *)
(* while a readable record names that backend, and the record goes only when  *)
(* no rules are armed, so that status, disconnect and repair can always tell  *)
(* from the record which rules to undo.                                       *)
(******************************************************************************)
CONSTANT Backends

VARIABLES
  journal,   (* "none", "torn" while it is being written, or a backend.       *)
  armed      (* The backends whose capture rules are in force.                *)

jvars == <<journal, armed>>

Init == journal = "none" /\ armed = {}

(* The record is being written; nothing is armed yet. *)
Tear == journal = "none" /\ journal' = "torn" /\ UNCHANGED armed

Name(b) == journal = "torn" /\ journal' = b /\ UNCHANGED armed

Arm(b) == journal = b /\ armed' = {b} /\ UNCHANGED journal

(* Commands and the world alike may take rules out. *)
Disarm == armed' = {} /\ UNCHANGED journal

Close == armed = {} /\ journal' = "none" /\ UNCHANGED armed

Reboot == armed' = {} /\ journal' = "none"

Next ==
  \/ Tear \/ Disarm \/ Close \/ Reboot
  \/ \E b \in Backends : Name(b) \/ Arm(b)

Spec == Init /\ [][Next]_jvars

(* Armed rules are the journal's own. *)
ArmedIsNamed == armed \subseteq {journal}

================================================================================
