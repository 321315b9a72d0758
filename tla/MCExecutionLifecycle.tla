------------------------- MODULE MCExecutionLifecycle -------------------------
(* Small instances of ExecutionLifecycle for TLC.                             *)
EXTENDS ExecutionLifecycle, TLC

CONSTANTS a, b, d

(* One command of each kind of verdict.                                       *)
Verdicts == a :> "needs_approval" @@ b :> "auto_approve" @@ d :> "denied"

MixedVerdict == [c \in Commands |-> Verdicts[c]]

(* Two commands that need approval: which task is for which matters.          *)
ApprovalVerdict == [c \in Commands |-> "needs_approval"]

Symmetry == Permutations(Handlers) \cup Permutations(Tasks)
===============================================================================
