----------------------------- MODULE TaskPromise -----------------------------
(***************************************************************************)
(* What human approval promises (docs/architecture.md 5.1 and 5.3), without *)
(* saying how: a task is opened once and closed once, and the server-side   *)
(* executor is called for it at most once, only after it was closed as      *)
(* approved.  ExecutionLifecycle is shown to implement this specification.  *)
(***************************************************************************)
EXTENDS Sequences

CONSTANTS Tasks, Commands

VARIABLES
  state,  \* state of each task, "absent" before it is created
  calls   \* commands the executor was called with on the strength of the task

vars == <<state, calls>>

Resolutions == {"approved", "rejected", "cancelled", "expired"}

Init ==
  /\ state = [t \in Tasks |-> "absent"]
  /\ calls = [t \in Tasks |-> <<>>]

Open(t) ==
  /\ state[t] = "absent"
  /\ state' = [state EXCEPT ![t] = "open"]
  /\ UNCHANGED calls

Close(t, r) ==
  /\ state[t] = "open"
  /\ state' = [state EXCEPT ![t] = r]
  /\ UNCHANGED calls

Call(t, c) ==
  /\ state[t] = "approved"
  /\ calls[t] = <<>>
  /\ calls' = [calls EXCEPT ![t] = <<c>>]
  /\ UNCHANGED state

Next ==
  \E t \in Tasks :
    \/ Open(t)
    \/ \E r \in Resolutions : Close(t, r)
    \/ \E c \in Commands : Call(t, c)

Spec == Init /\ [][Next]_vars
==============================================================================
