-------------------------- MODULE MCWorkflowRunner --------------------------
(* A small flow with every type of node, for TLC.                            *)
EXTENDS WorkflowRunner, TLC

CONSTANTS draft, check, review, send, notify, blocked, abort, done,
          h1, h2, p1, p2

(* Draft, check and review it until it is approved, send it with an approval.   *)
(* A gate may lead past the people, to a command the policy allows or to one *)
(* it denies; the failure of the former has no route.                        *)
FlowType ==
  draft :> "task" @@ check :> "gate" @@ review :> "review" @@
  send :> "command" @@ notify :> "command" @@ blocked :> "command" @@
  abort :> "stop" @@ done :> "end"

To(routes) == [o \in Outcomes |-> IF o \in DOMAIN routes THEN routes[o] ELSE None]

FlowRoute ==
  draft :> To("success" :> check @@ "fail" :> blocked) @@
  check :> To("pass" :> review @@ "fail" :> notify) @@
  review :> To("approve" :> send @@ "reject" :> check) @@
  send :> To("success" :> done @@ "fail" :> abort) @@
  notify :> To("success" :> done) @@
  blocked :> To("success" :> done @@ "fail" :> abort) @@
  abort :> To(<<>>) @@ done :> To(<<>>)

FlowVerdict ==
  [n \in Nodes |-> IF n = blocked THEN "denied"
                   ELSE IF n = notify THEN "auto_approve" ELSE "needs_approval"]

OneProcess == [h \in Handlers |-> p1]
TwoProcesses == [h \in Handlers |-> IF h = h1 THEN p1 ELSE p2]

Deployment(backend, processOf, maxRuns, faults, overlap) ==
  [backend |-> backend, processOf |-> processOf, maxRuns |-> maxRuns,
   faults |-> faults, overlap |-> overlap]

(* In memory two runs without faults, and the same with everything but a     *)
(* crash.  Over SQL, on two processes either of which may die: one run, and  *)
(* two runs that do not overlap, the second of what the first has left.      *)
Usual ==
  {Deployment("memory", OneProcess, 2, {}, TRUE),
   Deployment("memory", OneProcess, 2,
              {"cancel", "usage", "executor_error", "skill_changed"}, TRUE),
   Deployment("sql", TwoProcesses, 1,
              {"crash", "executor_error", "skill_changed"}, TRUE),
   Deployment("sql", TwoProcesses, 2,
              {"crash", "cancel", "executor_error"}, FALSE)}

(* One run over SQL, and a usage report of a turn that is stored late.       *)
LateUsage == {Deployment("sql", OneProcess, 1, {"usage"}, TRUE)}
===============================================================================
