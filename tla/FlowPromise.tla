----------------------------- MODULE FlowPromise -----------------------------
(***************************************************************************)
(* What a Skill Flow promises its author (docs/architecture.md 11.3),       *)
(* without the database, the lock or the requests: one walk from the start  *)
(* node along the declared routes, where                                    *)
(*   - a review is left only the way its people decided,                    *)
(*   - people are asked at most once per step,                              *)
(*   - a command is executed only when the policy or the people of that     *)
(*     very step allowed it.  A repeated call is of the same command, which *)
(*     is what the idempotency key handed to the executor stands for.       *)
(* WorkflowRunner is shown to implement this specification.                 *)
(***************************************************************************)
EXTENDS Naturals, Sequences

CONSTANTS Nodes, Type, Route, Start, Verdict, MaxSteps, Tasks, None

VARIABLES
  walk,   \* the node performed as the k-th step, None if not yet
  task,   \* the human tasks: state, and the node and step they belong to
  calls   \* the commands (by node) executed for the k-th step

vars == <<walk, task, calls>>

StepNumbers == 0..(MaxSteps - 1)

Init ==
  /\ walk = [k \in StepNumbers |-> None]
  /\ task = [t \in Tasks |-> [state |-> "absent", node |-> None, step |-> 0]]
  /\ calls = [k \in StepNumbers |-> <<>>]

Asked(k) == {t \in Tasks : task[t].state # "absent" /\ task[t].step = k}

Answered(k, answer) == \E t \in Asked(k) : task[t].state = answer

Outcomes(k) ==
  LET type == Type[walk[k]] IN
  {o \in DOMAIN Route[walk[k]] :
     CASE type = "review" -> \/ o = "approve" /\ Answered(k, "approved")
                             \/ o = "reject" /\ Answered(k, "rejected")
       [] type = "command" -> o = "success" => calls[k] # <<>>
       [] OTHER -> TRUE}

(* A flow that has ended may be settled once more by a second /run.          *)
Follows(k, n) ==
  IF k = 0 THEN n = Start
  ELSE /\ walk[k - 1] # None
       /\ \/ \E o \in Outcomes(k - 1) : n = Route[walk[k - 1]][o]
          \/ n = walk[k - 1] /\ Type[n] \in {"stop", "end"}

Visit(k, n) ==
  /\ walk[k] = None
  /\ Follows(k, n)
  /\ walk' = [walk EXCEPT ![k] = n]
  /\ UNCHANGED <<task, calls>>

Ask(t, k) ==
  /\ walk[k] # None /\ Type[walk[k]] \in {"review", "command"}
  /\ Asked(k) = {} /\ task[t].state = "absent"
  /\ task' = [task EXCEPT ![t] =
                [state |-> "open", node |-> walk[k], step |-> k]]
  /\ UNCHANGED <<walk, calls>>

Answer(t) ==
  /\ task[t].state = "open"
  /\ \E r \in {"approved", "rejected", "cancelled", "expired"} :
       task' = [task EXCEPT ![t].state = r]
  /\ UNCHANGED <<walk, calls>>

Call(k) ==
  /\ walk[k] # None /\ Type[walk[k]] = "command"
  /\ Verdict[walk[k]] = "auto_approve" \/ Answered(k, "approved")
  /\ calls' = [calls EXCEPT ![k] = Append(@, walk[k])]
  /\ UNCHANGED <<walk, task>>

Next ==
  \/ \E k \in StepNumbers :
       \/ \E n \in Nodes : Visit(k, n)
       \/ \E t \in Tasks : Ask(t, k)
       \/ Call(k)
  \/ \E t \in Tasks : Answer(t)

Spec == Init /\ [][Next]_vars
==============================================================================
