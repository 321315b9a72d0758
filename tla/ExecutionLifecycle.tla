-------------------------- MODULE ExecutionLifecycle --------------------------
(***************************************************************************)
(* One execution outside a Skill Flow: its row in agent_execution, the      *)
(* human tasks opened for it, and the requests that work on both            *)
(* (server/src/execution/execution-service.ts and                           *)
(* server/src/human-tasks/human-task-service.ts).                           *)
(*                                                                          *)
(* A handler is one asynchronous call in progress: an HTTP request, an      *)
(* agent turn, a pass of the expiry sweeper.  Handlers interleave at every  *)
(* database statement, because the process awaits each of them; a statement *)
(* is atomic.  repository.update() is two statements, a select and an       *)
(* upsert of the WHOLE row (sql-repository.ts), so a handler keeps in       *)
(* "seen" the row it read and writes it back with its own columns changed.  *)
(*                                                                          *)
(* Voting (who may decide, when the votes suffice) is in ApprovalVoting;    *)
(* here a decision is one that settles the task.                            *)
(***************************************************************************)
EXTENDS ExecutionStatus, Naturals, Sequences, FiniteSets

CONSTANTS
  Handlers,      \* requests that can be in progress at the same time
  Tasks,         \* ids of the human tasks that can be created
  Commands,      \* command intents; a command's hash identifies it
  Verdict,       \* CommandService.classify: the policy verdict of a command
  Faults,        \* which of "crash", "executor_error" may happen
  InputPauses,   \* whether pauseForInput() is used
  MaxData,       \* how often the data the commands depend on may change
  None

VerdictAssumption ==
  Verdict \in [Commands -> {"denied", "auto_approve", "needs_approval"}]
NoneAssumption == None \notin Commands \cup Tasks
FaultsAssumption ==
  Faults \subseteq {"crash", "executor_error"} /\ InputPauses \in BOOLEAN
DataAssumption == MaxData \in Nat

ASSUME VerdictAssumption
ASSUME NoneAssumption
ASSUME FaultsAssumption
ASSUME DataAssumption

VARIABLES
  row,      \* the agent_execution row
  task,     \* the human_task rows
  due,      \* open tasks whose expires_at has passed
  data,     \* current version of the data the commands depend on
  handler,  \* what each request is doing
  calls     \* per approval task, the commands the executor was called with

vars == <<row, task, due, data, handler, calls>>

-------------------------------------------------------------------------------
(* Here and below, a definition that nothing uses is a mutant of the one     *)
(* after it: a plausible bug that the properties are shown to detect.        *)

TaskStates == {"absent", "open", "approved", "rejected", "cancelled", "expired"}

Rows == [status : Status, intent : Commands \cup {None},
         hash : Commands \cup {None}, version : 0..MaxData]

HumanTasks == [state : TaskStates, cmd : Commands \cup {None}]

Steps == {"idle", "turn", "settle", "check", "load", "store", "propose",
          "classify", "createTask", "execute", "advance", "close", "approved",
          "sweep", "toRunning", "finish"}

(* "to" is what the handler is about to write: a status, or one of the two   *)
(* updates that leave the status alone; "next" is where it goes on after.    *)
HandlerStates ==
  [pc : Steps, next : Steps, to : Status \cup {"approved", "intent", "evidence"},
   cmd : Commands \cup {None}, task : Tasks \cup {None},
   seen : Rows, todo : SUBSET Tasks]

FirstRow == [status |-> "created", intent |-> None, hash |-> None, version |-> 0]

Idle == [pc |-> "idle", next |-> "idle", to |-> "created", cmd |-> None,
         task |-> None, seen |-> FirstRow, todo |-> {}]

Init ==
  /\ row = FirstRow
  /\ task = [t \in Tasks |-> [state |-> "absent", cmd |-> None]]
  /\ due = {}
  /\ data = 0
  /\ handler = [h \in Handlers |-> Idle]
  /\ calls = [t \in Tasks |-> <<>>]

-------------------------------------------------------------------------------
(* How a handler moves on. *)

At(h, step) == handler[h].pc = step

Become(h, s) == handler' = [handler EXCEPT ![h] = s]

Transit(s, to, next) == [s EXCEPT !.pc = "check", !.to = to, !.next = next]

Settle(s, to) == [s EXCEPT !.pc = "settle", !.to = to, !.next = "idle"]

(* After the last statement of one call, the next call of the same request. *)
Continue(s) ==
  CASE s.next = "idle" -> Idle
    [] s.next = "toRunning" -> Transit(s, "running", "finish")
    [] s.next = "finish" -> Settle(s, "completed")
    [] OTHER -> [s EXCEPT !.pc = s.next, !.next = "idle", !.to = "created",
                          !.seen = FirstRow]

-------------------------------------------------------------------------------
(* ExecutionService.transition(): a select that checks the state machine,    *)
(* then repository.update(): select, upsert.                                 *)

(* complete(), fail() and cancel() first look whether there is anything to   *)
(* do: never from a terminal state, and an agent turn does not end an        *)
(* execution that waits for people.                                          *)
SettleGuard(h) ==
  /\ At(h, "settle")
  /\ LET s == handler[h] IN
     IF \/ row.status \in Terminal
        \/ s.to = "completed" /\ row.status \in Waiting
     THEN Become(h, Continue(s))
     ELSE Become(h, [s EXCEPT !.pc = "check"])
  /\ UNCHANGED <<row, task, due, data, calls>>

(* An illegal transition throws, which ends the request wherever it is.      *)
Check(h) ==
  /\ At(h, "check")
  /\ LET s == handler[h] IN
     IF Legal(row.status, s.to)
     THEN Become(h, [s EXCEPT !.pc = "load"])
     ELSE Become(h, Idle)
  /\ UNCHANGED <<row, task, due, data, calls>>

Load(h) ==
  /\ At(h, "load")
  /\ Become(h, [handler[h] EXCEPT !.pc = "store", !.seen = row])
  /\ UNCHANGED <<row, task, due, data, calls>>

(* proposeCommand's transition to waiting also rewrites commandHash.         *)
Merged(s) ==
  CASE s.to = "evidence" -> s.seen
    [] s.to = "intent" ->
         [s.seen EXCEPT !.intent = s.cmd, !.hash = s.cmd, !.version = data]
    [] s.to = "waiting_for_approval" /\ s.task = None ->
         [s.seen EXCEPT !.status = s.to, !.hash = s.cmd]
    [] OTHER -> [s.seen EXCEPT !.status = s.to]

Store(h) ==
  /\ At(h, "store")
  /\ row' = Merged(handler[h])
  /\ Become(h, Continue(handler[h]))
  /\ UNCHANGED <<task, due, data, calls>>

-------------------------------------------------------------------------------
(* Requests that run, end and observe an agent turn. *)

(* POST /executions/:id/run and the collaboration queue.                     *)
Start(h) ==
  /\ At(h, "idle")
  /\ Become(h, Transit(Idle, "running", "turn"))
  /\ UNCHANGED <<row, task, due, data, calls>>

TurnEnds(h) ==
  /\ At(h, "turn")
  /\ \E to \in {"completed", "failed"} : Become(h, Settle(Idle, to))
  /\ UNCHANGED <<row, task, due, data, calls>>

(* addUsage(), setContextWindow() and attach(): not awaited by the turn that *)
(* fires them.                                                               *)
RecordEvidence(h) ==
  /\ At(h, "idle")
  /\ \E g \in Handlers : At(g, "turn")
  /\ Become(h, [Idle EXCEPT !.pc = "load", !.to = "evidence"])
  /\ UNCHANGED <<row, task, due, data, calls>>

Cancel(h) ==
  /\ At(h, "idle")
  /\ Become(h, Settle(Idle, "cancelled"))
  /\ UNCHANGED <<row, task, due, data, calls>>

-------------------------------------------------------------------------------
(* proposeCommand(). *)

(* Bound: no proposal is made once the ids in Tasks are used up.             *)
TaskLeft == \E t \in Tasks : task[t].state = "absent"

(* The route starts an execution that was never run before it proposes.      *)
Propose(h, c) ==
  /\ At(h, "idle")
  /\ TaskLeft
  /\ LET s == [Idle EXCEPT !.pc = "propose", !.cmd = c] IN
     IF row.status = "created"
     THEN Become(h, Transit(s, "running", "propose"))
     ELSE Become(h, s)
  /\ UNCHANGED <<row, task, due, data, calls>>

ProposeLoad(h) ==
  /\ At(h, "propose")
  /\ Become(h, [handler[h] EXCEPT !.pc = "store", !.to = "intent",
                                  !.next = "classify", !.seen = row])
  /\ UNCHANGED <<row, task, due, data, calls>>

(* classify(), for a first proposal and for reapprove() (task # None), which *)
(* only goes on when the command still needs approval.                       *)
Classify(h) ==
  /\ At(h, "classify")
  /\ LET s == handler[h]
         v == Verdict[s.cmd] IN
     \/ v = "needs_approval" /\ Become(h, [s EXCEPT !.pc = "createTask"])
     \/ v = "auto_approve" /\ s.task = None
        /\ Become(h, [s EXCEPT !.pc = "execute"])
     \/ v = "denied" /\ Become(h, Idle)
     \/ v = "auto_approve" /\ s.task # None /\ Become(h, Idle)
  /\ UNCHANGED <<row, task, due, data, calls>>

CreateApprovalTask(h) ==
  /\ At(h, "createTask")
  /\ \E t \in Tasks :
       /\ task[t].state = "absent"
       /\ task' = [task EXCEPT ![t] = [state |-> "open", cmd |-> handler[h].cmd]]
  /\ Become(h, Transit(handler[h], "waiting_for_approval", "idle"))
  /\ UNCHANGED <<row, due, data, calls>>

PauseForInput(h) ==
  /\ InputPauses
  /\ At(h, "idle")
  /\ \E t \in Tasks :
       /\ task[t].state = "absent"
       /\ task' = [task EXCEPT ![t] = [state |-> "open", cmd |-> None]]
  /\ Become(h, Transit(Idle, "waiting_for_input", "idle"))
  /\ UNCHANGED <<row, due, data, calls>>

-------------------------------------------------------------------------------
(* HumanTaskService: every way to close a task reads it first and closes it  *)
(* with a conditional update afterwards.                                     *)

Actionable(t) == task[t].state = "open" /\ t \notin due

Closing(t, to) == [Idle EXCEPT !.pc = "close", !.task = t, !.to = to]

Decide(h, t) ==
  /\ At(h, "idle")
  /\ Actionable(t) /\ task[t].cmd # None
  /\ \E to \in {"approved", "rejected"} : Become(h, Closing(t, to))
  /\ UNCHANGED <<row, task, due, data, calls>>

SubmitInput(h, t) ==
  /\ At(h, "idle")
  /\ Actionable(t) /\ task[t].cmd = None
  /\ Become(h, Closing(t, "resuming"))
  /\ UNCHANGED <<row, task, due, data, calls>>

CancelTask(h, t) ==
  /\ At(h, "idle")
  /\ task[t].state = "open"
  /\ Become(h, Closing(t, "cancelled"))
  /\ UNCHANGED <<row, task, due, data, calls>>

(* repository.close(): update ... where status = 'open'.                     *)
CloseAnyState(t) == task[t].state # "absent"
Closable(t) == task[t].state = "open"

CloseState(to) == IF to = "resuming" THEN "approved" ELSE to

(* The one whose update hit goes on to onHumanTaskResolved(): an approval    *)
(* leads to the executor, every other resolution to a transition.            *)
Close(h) ==
  /\ At(h, "close")
  /\ LET s == handler[h] IN
     \/ /\ Closable(s.task)
        /\ task' = [task EXCEPT ![s.task].state = CloseState(s.to)]
        /\ due' = due \ {s.task}
        /\ Become(h, IF s.to = "approved" THEN [s EXCEPT !.pc = "approved"]
                                          ELSE Transit(s, s.to, "idle"))
     \/ /\ ~Closable(s.task)
        /\ Become(h, Idle)
        /\ UNCHANGED <<task, due>>
  /\ UNCHANGED <<row, data, calls>>

(* Time: the expiry of an open task passes.                                  *)
BecomeDue(t) ==
  /\ Actionable(t)
  /\ due' = due \cup {t}
  /\ UNCHANGED <<row, task, data, handler, calls>>

Sweep(h) ==
  /\ At(h, "idle")
  /\ due # {}
  /\ Become(h, [Idle EXCEPT !.pc = "sweep", !.todo = due])
  /\ UNCHANGED <<row, task, due, data, calls>>

SweepNext(h) ==
  /\ At(h, "sweep")
  /\ LET s == handler[h] IN
     \/ \E t \in s.todo :
          /\ Closable(t)
          /\ task' = [task EXCEPT ![t].state = "expired"]
          /\ due' = due \ {t}
          /\ Become(h, Transit([s EXCEPT !.todo = @ \ {t}], "expired", "sweep"))
     \/ \E t \in s.todo :
          /\ ~Closable(t)
          /\ Become(h, [s EXCEPT !.todo = @ \ {t}])
          /\ UNCHANGED <<task, due>>
     \/ s.todo = {} /\ Become(h, Idle) /\ UNCHANGED <<task, due>>
  /\ UNCHANGED <<row, data, calls>>

-------------------------------------------------------------------------------
(* executeApprovedCommand() and runCommand(). *)

(* The intent and the hash come from the row as it is now.                   *)
ReadApproved(h) ==
  /\ At(h, "approved")
  /\ IF row.intent = None
     THEN Become(h, Settle(handler[h], "failed"))
     ELSE Become(h, [handler[h] EXCEPT !.pc = "execute", !.cmd = row.intent,
                                       !.seen = row])
  /\ UNCHANGED <<row, task, due, data, calls>>

(* CommandService.execute(): the hash and the data version are verified      *)
(* before the executor is called.  An auto-approved command was just hashed. *)
(* An executor that fails says so in its result, or throws.                  *)
Verified(s) ==
  s.task # None => s.seen.hash = s.cmd /\ s.seen.version = data

RecordCall(s) ==
  calls' = IF s.task = None THEN calls
           ELSE [calls EXCEPT ![s.task] = Append(@, s.cmd)]

Execute(h) ==
  /\ At(h, "execute")
  /\ LET s == [handler[h] EXCEPT !.seen = FirstRow] IN
     \/ /\ Verified(handler[h])
        /\ RecordCall(s)
        /\ Become(h, [s EXCEPT !.pc = "advance"])
     \/ /\ Verified(handler[h])
        /\ "executor_error" \in Faults
        /\ RecordCall(s)
        /\ \/ Become(h, Idle)
           \/ s.task # None /\ Become(h, Settle(s, "failed"))
     \/ /\ ~Verified(handler[h])
        /\ Become(h, Transit(s, "waiting_for_approval", "classify"))
        /\ UNCHANGED calls
  /\ UNCHANGED <<row, task, due, data>>

(* After success: waiting -> resuming -> running -> completed.               *)
Advance(h) ==
  /\ At(h, "advance")
  /\ IF row.status \in Waiting
     THEN Become(h, Transit(handler[h], "resuming", "toRunning"))
     ELSE Become(h, Settle(handler[h], "completed"))
  /\ UNCHANGED <<row, task, due, data, calls>>

-------------------------------------------------------------------------------
(* The environment. *)

DataChanges ==
  /\ data < MaxData
  /\ data' = data + 1
  /\ UNCHANGED <<row, task, due, handler, calls>>

(* The process dies and restarts: requests are gone, rows stay, and          *)
(* recoverInterrupted() runs before the next request is accepted.            *)
CrashRestart ==
  /\ "crash" \in Faults
  /\ handler' = [h \in Handlers |-> Idle]
  /\ row' = IF row.status \in {"running", "resuming"}
            THEN [row EXCEPT !.status = "interrupted"] ELSE row
  /\ UNCHANGED <<task, due, data, calls>>

Begin(h) ==
  \/ Start(h) \/ RecordEvidence(h) \/ Cancel(h) \/ PauseForInput(h)
  \/ \E c \in Commands : Propose(h, c)
  \/ \E t \in Tasks : Decide(h, t) \/ SubmitInput(h, t) \/ CancelTask(h, t)

(* The steps of a request once it has begun.                                 *)
Proceed(h) ==
  \/ SettleGuard(h) \/ Check(h) \/ Load(h) \/ Store(h) \/ TurnEnds(h)
  \/ ProposeLoad(h) \/ Classify(h) \/ CreateApprovalTask(h)
  \/ Close(h) \/ SweepNext(h)
  \/ ReadApproved(h) \/ Execute(h) \/ Advance(h)

Next ==
  \/ \E h \in Handlers : Begin(h) \/ Sweep(h) \/ Proceed(h)
  \/ \E t \in Tasks : BecomeDue(t)
  \/ DataChanges
  \/ CrashRestart

Spec == Init /\ [][Next]_vars

(* Promises settle, timers fire, turns end (they have a timeout); nobody is  *)
(* obliged to send a request.  The sweeper runs on its own timer, so it gets *)
(* its turn however many requests keep coming.                               *)
Fairness ==
  /\ \A h \in Handlers : WF_vars(Proceed(h)) /\ SF_vars(Sweep(h))
  /\ \A t \in Tasks : WF_vars(BecomeDue(t))

FairSpec == Spec /\ Fairness

-------------------------------------------------------------------------------
(* Properties. *)

TypeOK ==
  /\ row \in Rows
  /\ task \in [Tasks -> HumanTasks]
  /\ due \subseteq Tasks
  /\ data \in 0..MaxData
  /\ handler \in [Handlers -> HandlerStates]
  /\ calls \in [Tasks -> Seq(Commands)]

(* Whatever decisions, cancellations, sweeps, proposals and crashes overlap, *)
(* one approval calls the executor at most once, and only a task closed as   *)
(* approved does (human-task-service.ts decideLocked, architecture.md 5.3).  *)
OneCallPerApproval ==
  \A t \in Tasks :
    /\ Len(calls[t]) <= 1
    /\ calls[t] # <<>> => task[t].state = "approved"

(* The requests together keep the promise TaskPromise states.                *)
Promise == INSTANCE TaskPromise WITH state <- [t \in Tasks |-> task[t].state]

KeepsPromise == Promise!Spec

(* Served one request at a time, an execution waits for approval only while  *)
(* somebody can still move it: a task of it is open, or a request is about   *)
(* to write its row (proposeCommand, executeApprovedCommand, reapprove).     *)
WaitingHasALead ==
  row.status = "waiting_for_approval" =>
    \/ \E t \in Tasks : task[t].state = "open" /\ task[t].cmd # None
    \/ \E h \in Handlers : handler[h].pc \notin {"idle", "turn"}

(* Waiting for approval ends: by a decision, or by the expiry sweep.  So in  *)
(* particular it does not stand where nobody is left to move it.             *)
WaitingSettles ==
  row.status = "waiting_for_approval" ~> row.status # "waiting_for_approval"

(* What the approvers of a task saw is what the executor is called with.     *)
ApprovedIsExecuted ==
  \A t \in Tasks : calls[t] # <<>> => calls[t][1] = task[t].cmd

(* Closing a task as approved has its effect on the execution: it does not   *)
(* go on waiting.                                                            *)
ApprovalIsDelivered ==
  \A t \in Tasks :
    task[t].state = "approved" ~> row.status # "waiting_for_approval"
===============================================================================
