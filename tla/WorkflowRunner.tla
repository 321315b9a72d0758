---------------------------- MODULE WorkflowRunner ----------------------------
(***************************************************************************)
(* One Skill Flow execution driven by server/src/workflow/runner.ts: the    *)
(* row with its workflow_state and workflow_version, the human tasks of its *)
(* review and command nodes, the runner's per-process lock, and the         *)
(* requests that reach the execution from outside the lock.                 *)
(*                                                                          *)
(* A handler is one asynchronous call in progress: POST /run and the        *)
(* advance it starts, the resolution of a task and the advance it resumes,  *)
(* POST /cancel, a usage report.  Database statements are atomic; handlers  *)
(* interleave between them.  Behind SQL, repository.update() is a select    *)
(* and an upsert of the whole row, workflow_state included; the memory      *)
(* repository merges in one step.                                           *)
(*                                                                          *)
(* Left out: the content of prompts and outputs, the audit events, and      *)
(* re-approval (hash and data version cannot differ here: the production    *)
(* wiring resolves no data version and the row's hash is of its intent).    *)
(***************************************************************************)
EXTENDS ExecutionStatus, Naturals, Sequences, FiniteSets

CONSTANTS
  Nodes, Start,  \* the flow: its nodes, the first one,
  Type, Route,   \* their types, and where each outcome of a node leads
  Verdict,       \* policy verdict of the command of a command node
  MaxSteps,      \* MAX_FLOW_STEPS
  Handlers,      \* calls that can be in progress at the same time
  Processes,     \* server processes (replicas)
  Tasks,         \* ids of the human tasks that can be created
  Deployments,   \* the ways the service is run, one of them per behaviour
  None

NodeTypes == {"task", "gate", "command", "review", "stop", "end"}
Outcomes == {"success", "fail", "pass", "approve", "reject"}

FlowAssumption ==
  /\ Start \in Nodes
  /\ Type \in [Nodes -> NodeTypes]
  /\ Route \in [Nodes -> [Outcomes -> Nodes \cup {None}]]
  /\ Verdict \in [Nodes -> {"denied", "auto_approve", "needs_approval"}]
  /\ MaxSteps \in Nat \ {0}
NoneAssumption == None \notin Nodes \cup Tasks
ServerAssumption ==
  /\ IsFiniteSet(Handlers)
  /\ \A d \in Deployments :
       /\ d.backend \in {"memory", "sql"}
       /\ d.processOf \in [Handlers -> Processes]
       /\ d.maxRuns \in Nat
       /\ d.overlap \in BOOLEAN
       /\ d.faults \subseteq
            {"crash", "cancel", "usage", "executor_error", "skill_changed"}

ASSUME FlowAssumption
ASSUME NoneAssumption
ASSUME ServerAssumption

VARIABLES
  deployment,  \* never changes
  row,      \* agent_execution: status, workflow_state, its version, intent
  task,     \* human tasks; "step" is the step number they were opened in
  chain,    \* withExecutionLock: the head of each chain holds the lock
  handler,  \* what each call is doing
  runs,     \* number of POST /run so far
  walk,     \* history: the node performed as the k-th step
  calls     \* history: the commands executed in the k-th step

vars == <<deployment, row, task, chain, handler, runs, walk, calls>>
history == <<walk, calls>>

(* The repositories, the process each call runs in, the faults that may      *)
(* happen, how often POST /run is sent (a bound), and whether a request may  *)
(* come in while another one is still being worked on.                       *)
Backend == deployment.backend
ProcessOf == deployment.processOf
Faults == deployment.faults
MaxRuns == deployment.maxRuns
Overlap == deployment.overlap

-------------------------------------------------------------------------------
StepNumbers == 0..(MaxSteps - 1)

Resolution == {"approved", "rejected", "cancelled", "expired"}

Flows == [current : Nodes, step : {"pending", "running", "waiting", "completed"},
          task : Tasks \cup {None}, steps : 0..MaxSteps]

Rows == [status : Status, flow : Flows, version : Nat,
         intent : Nodes \cup {None}]

HumanTasks == [state : {"absent", "open"} \cup Resolution,
               node : Nodes \cup {None}, step : 0..MaxSteps]

FirstFlow == [current |-> Start, step |-> "pending", task |-> None, steps |-> 0]

FirstRow == [status |-> "created", flow |-> FirstFlow, version |-> 0,
             intent |-> None]

(* What a call has in its local variables: where it is, what it is writing   *)
(* and where it goes on then, the row it read before an upsert, and the      *)
(* runner's copy of the flow with the version it was read at.                *)
Free == [pc |-> "idle", next |-> "idle", to |-> "created", job |-> "none",
         seen |-> FirstRow, flow |-> FirstFlow, version |-> 0,
         task |-> None, outcome |-> "fail"]

Init ==
  /\ deployment \in Deployments
  /\ row = FirstRow
  /\ task = [t \in Tasks |-> [state |-> "absent", node |-> None, step |-> 0]]
  /\ chain = [p \in Processes |-> <<>>]
  /\ handler = [h \in Handlers |-> Free]
  /\ runs = 0
  /\ walk = [k \in StepNumbers |-> None]
  /\ calls = [k \in StepNumbers |-> <<>>]

-------------------------------------------------------------------------------
(* How a call moves on. *)

At(h, step) == handler[h].pc = step

Become(h, s) == handler' = [handler EXCEPT ![h] = s]

Go(s, step) == [s EXCEPT !.pc = step, !.next = "idle", !.to = "created",
                         !.seen = FirstRow]

Transit(s, to, next) == [Go(s, "check") EXCEPT !.to = to, !.next = next]

Settle(s, to, next) == [Go(s, "settle") EXCEPT !.to = to, !.next = next]

FailWorkflow(s) == Go(s, "failing")

(* An exception: runDetached() lands it as failed once the lock is released, *)
(* a resolution's caller gets it, and any other request just ends.           *)
Throw(s) ==
  CASE s.job = "run" -> Go(s, "thrown")
    [] s.job = "resume" -> Go(s, "release")
    [] OTHER -> Free

(* After the last statement of one call of the service, the next one.        *)
Continue(s) ==
  CASE s.next = "idle" -> Free
    [] s.next = "fail" -> Settle(s, "failed", "release")
    [] s.next = "orFail" -> Go(s, "release")
    [] s.next \notin {"idle", "fail", "orFail"} ->
         IF s.to = "resuming" THEN Transit(s, "running", s.next) ELSE Go(s, s.next)

-------------------------------------------------------------------------------
(* ExecutionService: complete(), fail(), cancel(), transition(), update().   *)

SettleGuard(h) ==
  /\ At(h, "settle")
  /\ LET s == handler[h] IN
     IF \/ row.status \in Terminal
        \/ s.to = "completed" /\ row.status \in Waiting
     THEN Become(h, Continue(s))
     ELSE Become(h, [s EXCEPT !.pc = "check"])
  /\ UNCHANGED <<row, task, chain, runs, history>>

(* settleUnresumable() turns an illegal transition into fail().              *)
Check(h) ==
  /\ At(h, "check")
  /\ LET s == handler[h] IN
     \/ Legal(row.status, s.to) /\ Become(h, [s EXCEPT !.pc = "load"])
     \/ /\ ~Legal(row.status, s.to)
        /\ Become(h, IF s.next = "orFail" THEN Settle(s, "failed", "release")
                                          ELSE Throw(s))
  /\ UNCHANGED <<row, task, chain, runs, history>>

Merged(s, r) ==
  CASE s.to = "usage" -> r
    [] s.to = "intent" -> [r EXCEPT !.intent = s.flow.current]
    [] OTHER -> [r EXCEPT !.status = s.to]

(* The upsert writes every column that was read but workflow_version.        *)
Load(h) ==
  /\ At(h, "load")
  /\ \/ /\ Backend = "sql"
        /\ Become(h, [handler[h] EXCEPT !.pc = "store", !.seen = row])
        /\ UNCHANGED row
     \/ /\ Backend = "memory"
        /\ row' = Merged(handler[h], row)
        /\ Become(h, Continue(handler[h]))
  /\ UNCHANGED <<task, chain, runs, history>>

Upserted(r) == [r EXCEPT !.version = row.version]
UpsertWithVersion(r) == r

Store(h) ==
  /\ At(h, "store")
  /\ row' = Upserted(Merged(handler[h], handler[h].seen))
  /\ Become(h, Continue(handler[h]))
  /\ UNCHANGED <<task, chain, runs, history>>

(* updateWorkflowState() with a version.  A conflict stops the advance.      *)
CasAlways(s) == TRUE
CasHolds(s) == s.version = row.version

WriteFlow(h, flow, then) ==
  \/ /\ CasHolds(handler[h])
     /\ row' = [row EXCEPT !.flow = flow, !.version = @ + 1]
     /\ Become(h, [then EXCEPT !.flow = flow, !.version = row.version + 1])
  \/ /\ ~CasHolds(handler[h])
     /\ Become(h, Go(handler[h], "release"))
     /\ UNCHANGED row

-------------------------------------------------------------------------------
(* Requests from outside the lock. *)

Inactive == {"idle", "down"}
Begins(h) ==
  /\ At(h, "idle")
  /\ Overlap \/ \A g \in Handlers \ {h} : handler[g].pc \in Inactive

(* POST /executions/:id/run: start(), then runDetached().                    *)
Run(h) ==
  /\ Begins(h)
  /\ runs < MaxRuns
  /\ runs' = runs + 1
  /\ Become(h, Transit(Free, "running", "run?"))
  /\ UNCHANGED <<row, task, chain, history>>

Cancel(h) ==
  /\ "cancel" \in Faults
  /\ Begins(h)
  /\ Become(h, Settle(Free, "cancelled", "idle"))
  /\ UNCHANGED <<row, task, chain, runs, history>>

(* addUsage(), setContextWindow(): fired by an agent turn, not awaited.      *)
ReportUsage(h) ==
  /\ "usage" \in Faults
  /\ Begins(h)
  /\ \E g \in Handlers :
       At(g, "perform") /\ Type[handler[g].flow.current] = "task"
  /\ Become(h, [Free EXCEPT !.pc = "load", !.to = "usage"])
  /\ UNCHANGED <<row, task, chain, runs, history>>

(* repository.close(): update ... where status = 'open'.                     *)
Closable(t) == task[t].state = "open"

(* A decision that settles the task, its cancellation, or the sweep that     *)
(* finds it expired: the conditional close, then the runner is called.       *)
Resolve(h, t, r) ==
  /\ Begins(h)
  /\ Closable(t)
  /\ task' = [task EXCEPT ![t].state = r]
  /\ Become(h, [Free EXCEPT !.pc = "resume?", !.task = t])
  /\ UNCHANGED <<row, chain, runs, history>>

(* withExecutionLock(): calls of one process run one after the other.        *)
Enqueue(h) ==
  /\ At(h, "run?") \/ At(h, "resume?")
  /\ chain' = [chain EXCEPT ![ProcessOf[h]] = Append(@, h)]
  /\ Become(h, IF At(h, "run?")
               THEN [handler[h] EXCEPT !.pc = "run", !.job = "run"]
               ELSE [handler[h] EXCEPT !.pc = "resume", !.job = "resume"])
  /\ UNCHANGED <<row, task, runs, history>>

HeldByNobodyElse(h) == TRUE
HoldsLock(h) == chain[ProcessOf[h]] # <<>> /\ h = Head(chain[ProcessOf[h]])

Release(h) ==
  /\ At(h, "release") \/ At(h, "thrown")
  /\ chain' = [chain EXCEPT ![ProcessOf[h]] = Tail(@)]
  /\ Become(h, IF At(h, "thrown") THEN Settle(Free, "failed", "idle")
                                  ELSE Free)
  /\ UNCHANGED <<row, task, runs, history>>

-------------------------------------------------------------------------------
(* run(): what the durable state says decides how the advance begins. *)

(* loadChecked(): the SKILL.md on disk is no longer the one that started.    *)
SkillChanged(h) ==
  /\ "skill_changed" \in Faults
  /\ At(h, "run") \/ At(h, "bound") \/ At(h, "reload")
  /\ HoldsLock(h)
  /\ Become(h, FailWorkflow(handler[h]))
  /\ UNCHANGED <<row, task, chain, runs, history>>

(* admitInterruptedStep(): what may be performed again.                      *)
ReplayAll == NodeTypes
ReplaySafe == {"task", "gate"}

Admitted(flow) ==
  /\ flow.step = "waiting" => flow.task # None
  /\ flow.step = "running" => Type[flow.current] \in ReplaySafe

BeginRun(h) ==
  /\ At(h, "run") /\ HoldsLock(h)
  /\ LET s == [handler[h] EXCEPT !.flow = row.flow, !.version = row.version] IN
     Become(h,
       CASE ~Admitted(row.flow) -> FailWorkflow(s)
         [] Admitted(row.flow) /\ row.flow.step = "waiting" ->
              [Go(s, "reconcile") EXCEPT !.task = row.flow.task, !.seen = row]
         [] OTHER -> Go(s, "step"))
  /\ UNCHANGED <<row, task, chain, runs, history>>

(* reconcileWaiting(): the step waits for a task that exists already.        *)
Reconcile(h) ==
  /\ At(h, "reconcile")
  /\ LET s == handler[h]
         open == task[s.task].state = "open"
         next == IF open THEN "release" ELSE "resume" IN
     Become(h,
       CASE s.seen.status = "running" -> Transit(s, "waiting_for_approval", next)
         [] s.seen.status \in Terminal -> Go(s, "release")
         [] OTHER -> Go(s, next))
  /\ UNCHANGED <<row, task, chain, runs, history>>

-------------------------------------------------------------------------------
(* loop(): one step after the other, each write of the flow a CAS. *)

StepLeft(f) == f.steps < MaxSteps

Step(h) ==
  /\ At(h, "step")
  /\ LET s == handler[h]
         f == s.flow
         Visited == walk' = [walk EXCEPT ![f.steps] = f.current]
     IN
     \/ /\ ~StepLeft(f)
        /\ Become(h, FailWorkflow(s))
        /\ UNCHANGED <<row, walk>>
     \/ /\ StepLeft(f) /\ f.step = "running"
        /\ Become(h, Go(s, "perform"))
        /\ Visited
        /\ UNCHANGED row
     \/ /\ StepLeft(f) /\ f.step # "running"
        /\ WriteFlow(h, [f EXCEPT !.step = "running"], Go(s, "perform"))
        /\ IF CasHolds(s) THEN Visited ELSE UNCHANGED walk
  /\ UNCHANGED <<task, chain, runs, calls>>

Performs(h, type) == At(h, "perform") /\ Type[handler[h].flow.current] = type

Finished(s, outcome) == [Go(s, "next") EXCEPT !.outcome = outcome]

(* An agent turn with its completion contract, or a registered gate.         *)
PerformTaskOrGate(h) ==
  /\ \/ Performs(h, "task")
        /\ \E o \in {"success", "fail"} : Become(h, Finished(handler[h], o))
     \/ Performs(h, "gate")
        /\ \E o \in {"pass", "fail"} : Become(h, Finished(handler[h], o))
  /\ UNCHANGED <<row, task, chain, runs, history>>

(* proposeCommand() begins by storing the intent.                            *)
PerformCommand(h) ==
  /\ Performs(h, "command")
  /\ Become(h, [Go(handler[h], "load") EXCEPT !.to = "intent",
                                              !.next = "classify"])
  /\ UNCHANGED <<row, task, chain, runs, history>>

(* Bound: the ids in Tasks must suffice, a step that finds none is not taken.*)
OpenTask(h) ==
  \E t \in Tasks :
    /\ task[t].state = "absent"
    /\ task' = [task EXCEPT ![t] = [state |-> "open",
                  node |-> handler[h].flow.current,
                  step |-> handler[h].flow.steps]]
    /\ Become(h, [Go(handler[h], "pause") EXCEPT !.task = t])

PerformReview(h) ==
  /\ Performs(h, "review")
  /\ OpenTask(h)
  /\ UNCHANGED <<row, chain, runs, history>>

Classify(h) ==
  /\ At(h, "classify")
  /\ LET v == Verdict[handler[h].flow.current] IN
     \/ v = "needs_approval" /\ OpenTask(h)
     \/ /\ v = "denied"
        /\ Become(h, Finished(handler[h], "fail"))
        /\ UNCHANGED task
     \/ /\ v = "auto_approve"
        /\ Become(h, [Go(handler[h], "execute") EXCEPT
                        !.seen.intent = handler[h].flow.current])
        /\ UNCHANGED task
  /\ UNCHANGED <<row, chain, runs, history>>

(* Entering the wait: the flow first, the status second.                     *)
PauseStatusFirst(h) ==
  /\ At(h, "pause")
  /\ LET s == handler[h] IN
     \/ /\ row.status # "waiting_for_approval"
        /\ row' = [row EXCEPT !.status = "waiting_for_approval"]
        /\ UNCHANGED handler
     \/ /\ row.status = "waiting_for_approval"
        /\ WriteFlow(h, [s.flow EXCEPT !.step = "waiting", !.task = s.task],
                     Go(s, "release"))

PauseFlowFirst(h) ==
  /\ At(h, "pause")
  /\ LET s == handler[h] IN
     WriteFlow(h, [s.flow EXCEPT !.step = "waiting", !.task = s.task],
               Transit(s, "waiting_for_approval", "release"))

Pause(h) == PauseFlowFirst(h) /\ UNCHANGED <<task, chain, runs, history>>

(* stopWorkflow(), endWorkflow().                                            *)
PerformStopOrEnd(h) ==
  /\ Performs(h, "stop") \/ Performs(h, "end")
  /\ LET s == handler[h]
         f == [s.flow EXCEPT !.step = "completed", !.steps = @ + 1, !.task = None]
     IN WriteFlow(h, f, IF Performs(h, "stop") THEN FailWorkflow(s)
                        ELSE Settle(s, "completed", "release"))
  /\ UNCHANGED <<task, chain, runs, history>>

(* The route of the outcome, taken after a node ("next") or after a          *)
(* resolution ("route"); an outcome without a route fails the flow.          *)
TakeRoute(h) ==
  /\ At(h, "next") \/ At(h, "route")
  /\ LET s == handler[h]
         to == Route[s.flow.current][s.outcome]
         f == [current |-> to, step |-> "pending", task |-> None,
               steps |-> s.flow.steps + 1]
     IN
     \/ to = None /\ Become(h, FailWorkflow(s)) /\ UNCHANGED row
     \/ /\ to # None
        /\ WriteFlow(h, f, [Go(s, IF At(h, "next") THEN "step" ELSE "reload")
                              EXCEPT !.task = None, !.outcome = "fail"])
  /\ UNCHANGED <<task, chain, runs, history>>

Reload(h) ==
  /\ At(h, "reload")
  /\ Become(h, Go(handler[h], "step"))
  /\ UNCHANGED <<row, task, chain, runs, history>>

-------------------------------------------------------------------------------
(* resumeFromTask(): a resolution moves the flow only if this very task is   *)
(* what the current step waits for.                                          *)

BoundToNode(t) ==
  /\ row.flow.current = task[t].node
  /\ row.flow.step = "waiting"
  /\ row.status = "waiting_for_approval"

Bound(t) == row.flow.task = t /\ BoundToNode(t)

BeginResume(h) ==
  /\ At(h, "resume") /\ HoldsLock(h)
  /\ LET s == handler[h] IN
     Become(h, IF Bound(s.task)
               THEN [Go(s, "bound") EXCEPT !.flow = row.flow]
               ELSE Go(s, "release"))
  /\ UNCHANGED <<row, task, chain, runs, history>>

(* resumeReview(), resumeCommand().                                          *)
UnlessRejected(answer) == answer # "rejected"
Allowed(answer) == answer = "approved"

ResumeBound(h) ==
  /\ At(h, "bound")
  /\ LET s == handler[h]
         isReview == Type[s.flow.current] = "review"
         answer == task[s.task].state
     IN Become(h,
       CASE answer = "approved" /\ isReview ->
              [Go(s, "into") EXCEPT !.outcome = "approve"]
         [] answer = "rejected" /\ isReview ->
              [Go(s, "into") EXCEPT !.outcome = "reject"]
         [] Allowed(answer) /\ ~isReview -> Go(s, "approved")
         [] answer = "rejected" /\ ~isReview ->
              [Go(s, "into") EXCEPT !.outcome = "fail"]
         [] OTHER -> Go(s, "unresumable"))
  /\ UNCHANGED <<row, task, chain, runs, history>>

(* settleUnresumable(): expired and cancelled are outcomes of the execution. *)
SettleUnresumable(h) ==
  /\ At(h, "unresumable")
  /\ LET s == handler[h] IN
     Become(h, IF row.status \in Terminal THEN Go(s, "release")
               ELSE Transit(s, task[s.task].state, "orFail"))
  /\ UNCHANGED <<row, task, chain, runs, history>>

(* executeApprovedCommand(): the intent comes from the row.                  *)
ReadApproved(h) ==
  /\ At(h, "approved")
  /\ LET s == [handler[h] EXCEPT !.outcome = "fail"] IN
     Become(h, IF row.intent = None THEN Settle(s, "failed", "into")
               ELSE [Go(s, "execute") EXCEPT !.seen.intent = row.intent])
  /\ UNCHANGED <<row, task, chain, runs, history>>

(* runCommand(): the executor is called; it succeeds, reports a failure, or  *)
(* throws.  A failure after an approval goes through fail() first.           *)
Execute(h) ==
  /\ At(h, "execute")
  /\ LET s == handler[h]
         approved == s.task # None
         ok == [s EXCEPT !.outcome = "success", !.seen = FirstRow]
     IN
     /\ calls' = [calls EXCEPT ![s.flow.steps] = Append(@, s.seen.intent)]
     /\ \/ Become(h, [Go(ok, "wake") EXCEPT
                        !.next = IF approved THEN "into" ELSE "next"])
        \/ /\ "executor_error" \in Faults
           /\ \/ Become(h, Throw(s))
              \/ approved /\ Become(h, Settle([s EXCEPT !.outcome = "fail"],
                                              "failed", "into"))
              \/ ~approved /\ Become(h, Finished(s, "fail"))
  /\ UNCHANGED <<row, task, chain, runs, walk>>

(* Out of the wait: resuming, then running.  runCommand() does it after a    *)
(* success, ensureRunning() for every resumption (next = "route"), which     *)
(* gives up unless the execution is running then.                            *)
Wake(h) ==
  /\ At(h, "wake")
  /\ LET s == handler[h] IN
     Become(h,
       CASE row.status \in Waiting -> Transit(s, "resuming", s.next)
         [] row.status \notin Waiting /\ s.next = "route"
              /\ row.status # "running" -> Go(s, "release")
         [] OTHER -> Go(s, s.next))
  /\ UNCHANGED <<row, task, chain, runs, history>>

(* resumeInto(): the version is read before the wait is left.                *)
ResumeInto(h) ==
  /\ At(h, "into")
  /\ Become(h, [Go(handler[h], "wake") EXCEPT !.next = "route",
                                              !.version = row.version])
  /\ UNCHANGED <<row, task, chain, runs, history>>

(* failWorkflow(): a waiting execution cannot fail, so it leaves the wait.   *)
ExitWaiting(h) ==
  /\ At(h, "failing")
  /\ Become(h, IF row.status \in Waiting
               THEN Transit(handler[h], "resuming", "fail")
               ELSE Settle(handler[h], "failed", "release"))
  /\ UNCHANGED <<row, task, chain, runs, history>>

-------------------------------------------------------------------------------
(* A process dies, with every call in it, and is down until it restarts;    *)
(* recoverInterrupted() runs before it listens.                              *)
Down == [Free EXCEPT !.pc = "down"]

Crash(p) ==
  /\ "crash" \in Faults
  /\ \E h \in Handlers : ProcessOf[h] = p /\ ~At(h, "down")
  /\ handler' = [h \in Handlers |-> IF ProcessOf[h] = p THEN Down ELSE handler[h]]
  /\ chain' = [chain EXCEPT ![p] = <<>>]
  /\ UNCHANGED <<row, task, runs, history>>

Restart(p) ==
  /\ \E h \in Handlers : ProcessOf[h] = p /\ At(h, "down")
  /\ handler' = [h \in Handlers |-> IF ProcessOf[h] = p THEN Free ELSE handler[h]]
  /\ row' = IF row.status \in {"running", "resuming"}
            THEN [row EXCEPT !.status = "interrupted"] ELSE row
  /\ UNCHANGED <<task, chain, runs, history>>

Proceed(h) ==
  \/ SettleGuard(h) \/ Check(h) \/ Load(h) \/ Store(h)
  \/ Enqueue(h) \/ Release(h) \/ BeginRun(h) \/ Reconcile(h)
  \/ Step(h) \/ PerformTaskOrGate(h) \/ PerformCommand(h) \/ PerformReview(h)
  \/ Classify(h) \/ Pause(h) \/ PerformStopOrEnd(h) \/ TakeRoute(h) \/ Reload(h)
  \/ BeginResume(h) \/ ResumeBound(h) \/ SettleUnresumable(h)
  \/ ReadApproved(h) \/ Execute(h) \/ Wake(h) \/ ResumeInto(h)
  \/ ExitWaiting(h)

Next ==
  /\ UNCHANGED deployment
  /\ \/ \E h \in Handlers :
          \/ Run(h) \/ Cancel(h) \/ ReportUsage(h) \/ SkillChanged(h)
          \/ \E t \in Tasks, r \in Resolution : Resolve(h, t, r)
          \/ Proceed(h)
     \/ \E p \in Processes : Crash(p) \/ Restart(p)

Spec == Init /\ [][Next]_vars

(* A call that has begun goes on, turns and executors have timeouts, and the *)
(* sweeper, on its own timer, gets to a task whose expiry has passed.        *)
NeverExpires(t) == FALSE
Expires(t) == \E h \in Handlers : Resolve(h, t, "expired")

Fairness ==
  /\ \A h \in Handlers : WF_vars(Proceed(h) /\ UNCHANGED deployment)
  /\ \A t \in Tasks : SF_vars(Expires(t) /\ UNCHANGED deployment)

FairSpec == Spec /\ Fairness

-------------------------------------------------------------------------------
(* Properties. *)

Places ==
  {"idle", "down", "settle", "check", "load", "store", "run?", "resume?", "run", "resume",
   "reconcile", "step", "perform", "classify", "execute", "pause", "next",
   "route", "reload", "bound", "unresumable", "approved", "wake", "into",
   "failing", "release", "thrown"}

Calls ==
  [pc : Places, next : Places \cup {"fail", "orFail"},
   to : Status \cup {"usage", "intent"}, job : {"none", "run", "resume"},
   seen : Rows, flow : Flows, version : Nat, task : Tasks \cup {None},
   outcome : Outcomes]

TypeOK ==
  /\ deployment \in Deployments
  /\ row \in Rows
  /\ task \in [Tasks -> HumanTasks]
  /\ chain \in [Processes -> Seq(Handlers)]
  /\ handler \in [Handlers -> Calls]
  /\ runs \in 0..MaxRuns
  /\ walk \in [StepNumbers -> Nodes \cup {None}]
  /\ calls \in [StepNumbers -> Seq(Nodes)]

(* One walk along the routes, people asked once per step, a command executed *)
(* only when that step was allowed (runner.ts: single writer, binding of     *)
(* resolutions, what is not replayed).  Of a flow that is run once, on any   *)
(* number of processes that die at any time; that is run again in memory,    *)
(* with cancellations and usage reports at the same time; or that is run     *)
(* again over SQL after whatever was interrupted, by requests that come one  *)
(* after the other.  Two /run that overlap over SQL are outside of it.       *)
Promise == INSTANCE FlowPromise

KeepsFlowPromise == Promise!Spec

(* A command has side effects, and no recovery executes it again by itself   *)
(* (admitInterruptedStep()): in the same cases, each step executes its       *)
(* command at most as often as the flow was run, hence once in a flow run    *)
(* once whatever is interrupted; and a command executed again is one that    *)
(* people are asked about, never one the policy approves by itself.          *)
OneCallPerStep ==
  \A k \in StepNumbers :
    Len(calls[k]) > 1 =>
      Len(calls[k]) <= runs /\ walk[k] # None /\ Verdict[walk[k]] # "auto_approve"

(* An execution that waits for approval says which task its step waits for,  *)
(* so that it can be told from a step to be replayed (runner.ts, the order   *)
(* of entering the wait).                                                    *)
WaitingIsDecidable ==
  row.status = "waiting_for_approval" =>
    row.flow.step = "waiting" /\ row.flow.task # None

(* Without faults a flow that runs comes to an end: by its nodes, by its     *)
(* people, by the expiry of what they were asked, or by the step limit.      *)
FlowEnds == Faults = {} /\ row.status = "running" ~> row.status \in Terminal

(* Without faults what people resolve moves the execution: it does not go on *)
(* waiting for a task that is closed.                                        *)
ResolutionIsDelivered ==
  \A t \in Tasks :
    Faults = {} /\ task[t].state \in Resolution ~>
      ~(row.status = "waiting_for_approval" /\ row.flow.task = t)

===============================================================================
