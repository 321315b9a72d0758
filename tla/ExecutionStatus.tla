--------------------------- MODULE ExecutionStatus ---------------------------
(***************************************************************************)
(* The execution state machine of server/src/execution/types.ts, and the    *)
(* check transition() makes against it.  Plain executions and Skill Flows   *)
(* share it.                                                                *)
(*                                                                          *)
(* A definition that nothing uses is a mutant of the one after it: a        *)
(* plausible bug that the properties are shown to detect.                   *)
(***************************************************************************)

Waiting == {"waiting_for_input", "waiting_for_approval"}

Terminal ==
  {"completed", "failed", "cancelled", "rejected", "expired", "interrupted"}

Status == {"created", "running", "resuming"} \cup Waiting \cup Terminal

TransitionsWithoutExpiry ==
  [s \in Status |->
     CASE s = "created" -> {"running", "cancelled", "failed"}
       [] s = "running" -> Waiting \cup {"completed", "failed", "cancelled"}
       [] s = "waiting_for_approval" -> {"resuming", "rejected", "cancelled"}
       [] s = "resuming" -> {"running", "failed", "cancelled"}
       [] OTHER -> {}]

AllowedTransitions ==
  [s \in Status |->
     CASE s = "created" -> {"running", "cancelled", "failed"}
       [] s = "running" -> Waiting \cup
            {"completed", "failed", "cancelled", "interrupted"}
       [] s = "waiting_for_input" -> {"resuming", "cancelled", "expired"}
       [] s = "waiting_for_approval" ->
            {"resuming", "rejected", "cancelled", "expired"}
       [] s = "resuming" -> {"running", "failed", "cancelled", "interrupted"}
       [] OTHER -> {}]

(* Rewriting the status with itself is let through.                          *)
Legal(from, to) == to = from \/ to \in AllowedTransitions[from]
=============================================================================
