----------------------------- MODULE SessionQueue -----------------------------
(***************************************************************************)
(* The message queue of one shared session                                  *)
(* (server/src/collaboration): submitMessage() stores the message, creates  *)
(* an execution for it and wakes the coordinator, whose passes take the     *)
(* executions one by one.  The queue is the set of executions that are      *)
(* still "created".  Next to it work POST /run, cancel, proposals and       *)
(* decided approvals on the same executions, and the process may restart.   *)
(*                                                                          *)
(* A submission and each worker is an asynchronous call; a statement is     *)
(* atomic, and everything else may happen between two of them.              *)
(***************************************************************************)
EXTENDS ExecutionStatus, Naturals, FiniteSets

CONSTANTS
  Submissions,   \* POST /messages requests; each creates at most one execution
  Keys,          \* clientMessageIds: a retry sends the one of its message again
  Jobs,          \* executions created by POST /executions, run by POST /run
  Requests,      \* other requests that can be in progress at the same time
  MaxRequests,   \* bound: how many of those are sent
  MaxCrashes,    \* bound: how often the process may die
  None

Executions == Submissions \cup Jobs

ASSUME SubmissionAssumption ==
  /\ Submissions \cap Jobs = {}
  /\ None \notin Executions \cup Keys
  /\ "drain" \notin Requests
  /\ IsFiniteSet(Submissions) /\ IsFiniteSet(Keys)
ASSUME BoundsAssumption == MaxRequests \in Nat /\ MaxCrashes \in Nat

VARIABLES
  message,     \* agent_message: its sequence (0: not stored), its execution
  execution,   \* agent_execution: status, queue_sequence (0: not from a message)
  submission,  \* each POST /messages: its key, and which were answered before
  passes,      \* drain passes chained but not yet begun
  worker,      \* the calls in progress on executions
  turns,       \* how many turns the queue has given an execution
  adrift,      \* history: executions made active by a call that will not settle
               \*   them (a proposal's start(), a stale upsert), until another does
  sent,        \* how many other requests were sent
  crashes

vars == <<message, execution, submission, passes, worker, turns, adrift, sent, crashes>>

-------------------------------------------------------------------------------
(* Here and below, a definition that nothing uses is a mutant of the one     *)
(* after it: a plausible bug that the properties are shown to detect.        *)

(* A worker is the drain pass in progress or a request: POST /run, a cancel, *)
(* a proposal, the continuation of a decided approval, a report of a turn.   *)
(* "call" is the call it is in, "step" the next statement of that call and   *)
(* "seen" the status of the row that update() is about to write back.        *)
Workers == {"drain"} \cup Requests

Target == [start      |-> "running",   failQueued |-> "failed",
           complete   |-> "completed", fail       |-> "failed",
           cancel     |-> "cancelled", begin      |-> "running",
           propose    |-> "waiting_for_approval",
           reject     |-> "rejected",  resume     |-> "resuming",
           rerun      |-> "running",   finish     |-> "completed"]

(* The updates that set no status write back the one they have read.         *)
Updates == {"intent", "report"}

Calls == DOMAIN Target \cup Updates \cup {"idle", "query", "leave", "turn", "verdict"}

WorkerStates == [call : Calls, step : {"guard", "check", "write"},
                 exec : Executions \cup {None}, seen : Status \cup {None}]

Idle == [call |-> "idle", step |-> "check", exec |-> None, seen |-> None]

(* complete(), fail() and cancel() look first whether there is anything to do. *)
Doing(call, e) ==
  [call |-> call, exec |-> e, seen |-> None,
   step |-> IF call \in {"failQueued", "complete", "fail", "cancel", "finish"}
            THEN "guard" ELSE "check"]

NextQuery(e) == [Idle EXCEPT !.call = "query"]

(* What follows a call that returned.                                        *)
Returned(w, s) ==
  LET after == IF w = "drain" THEN NextQuery(s.exec) ELSE Idle IN
  CASE s.call = "start" -> Doing("turn", s.exec)
    [] s.call = "failQueued" ->
         IF execution[s.exec].status = "created" THEN Idle ELSE after
    [] s.call \in {"complete", "fail"} -> after
    [] s.call = "resume" -> Doing("rerun", s.exec)
    [] s.call = "rerun" -> Doing("finish", s.exec)
    [] s.call = "begin" -> Doing("intent", s.exec)
    [] s.call = "intent" -> Doing("verdict", s.exec)
    [] OTHER -> Idle

(* What follows one that threw: executeQueued() and run() catch, but run()   *)
(* has nothing around the fail() in its catch, so it rejects and takes the   *)
(* whole drain pass with it.                                                 *)
Thrown(w, s) ==
  CASE s.call = "start" /\ w = "drain" -> Doing("failQueued", s.exec)
    [] s.call = "failQueued" -> Returned(w, s)
    [] s.call = "complete" -> Doing("fail", s.exec)
    [] OTHER -> Idle

Init ==
  /\ message = [k \in Keys |-> [seq |-> 0, exec |-> None]]
  /\ execution = [e \in Executions |->
       [status |-> IF e \in Jobs THEN "created" ELSE "absent", seq |-> 0]]
  /\ submission = [i \in Submissions |->
       [pc |-> "idle", key |-> None, before |-> {}]]
  /\ passes = 0
  /\ worker = [w \in Workers |-> Idle]
  /\ turns = [e \in Executions |-> 0]
  /\ adrift = {}
  /\ sent = 0
  /\ crashes = 0

-------------------------------------------------------------------------------
(* submitMessage() in a shared session. *)

Goto(i, pc) == submission' = [submission EXCEPT ![i].pc = pc]

Answered == {i \in Submissions : submission[i].pc = "answered"}

Receive(i) ==
  /\ submission[i].pc = "idle"
  /\ \E k \in Keys : submission' = [submission EXCEPT ![i] =
       [pc |-> "message", key |-> k, before |-> Answered]]
  /\ UNCHANGED <<message, execution, passes, worker, turns, adrift, sent, crashes>>

(* SqlMessageRepository.create() is one transaction.  A message that already *)
(* has its execution answers the retry; one that has none yet does not.      *)
StoreMessage(i) ==
  /\ submission[i].pc = "message"
  /\ LET k == submission[i].key IN
     \/ /\ message[k].seq = 0
        /\ message' = [message EXCEPT ![k].seq =
             Cardinality({l \in Keys : message[l].seq # 0}) + 1]
        /\ Goto(i, "create")
     \/ /\ message[k].seq # 0 /\ message[k].exec = None
        /\ Goto(i, "create")
        /\ UNCHANGED message
     \/ /\ message[k].exec # None
        /\ Goto(i, "answered")
        /\ UNCHANGED message
  /\ UNCHANGED <<execution, passes, worker, turns, adrift, sent, crashes>>

CreateExecution(i) ==
  /\ submission[i].pc = "create"
  /\ execution' = [execution EXCEPT ![i] =
       [status |-> "created", seq |-> message[submission[i].key].seq]]
  /\ Goto(i, "attach")
  /\ UNCHANGED <<message, passes, worker, turns, adrift, sent, crashes>>

NotAttached(i) == UNCHANGED message
AttachExecution(i) == message' = [message EXCEPT ![submission[i].key].exec = i]

Attach(i) ==
  /\ submission[i].pc = "attach"
  /\ AttachExecution(i)
  /\ Goto(i, "wake")
  /\ UNCHANGED <<execution, passes, worker, turns, adrift, sent, crashes>>

(* drain() chains one more pass behind the ones there are.                   *)
WakeIfIdle ==
  passes' = IF worker["drain"].call = "idle" /\ passes = 0 THEN 1 ELSE passes
Wake == passes' = passes + 1

Answer(i) ==
  /\ submission[i].pc = "wake"
  /\ Wake
  /\ Goto(i, "answered")
  /\ UNCHANGED <<message, execution, worker, turns, adrift, sent, crashes>>

Submit(i) ==
  StoreMessage(i) \/ CreateExecution(i) \/ Attach(i) \/ Answer(i)

-------------------------------------------------------------------------------
(* The drain pass: SessionCoordinator.drainLoop() and executeQueued(). *)

Become(w, s) == worker' = [worker EXCEPT ![w] = s]

Queued == {e \in Executions : execution[e].status = "created" /\ execution[e].seq # 0}

(* nextQueued(): lowest queue_sequence; the ids that break a tie are random. *)
AnyQueued == Queued
NextQueued == {e \in Queued : \A f \in Queued : execution[e].seq <= execution[f].seq}

BeginPass ==
  /\ passes > 0
  /\ worker["drain"].call = "idle"
  /\ passes' = passes - 1
  /\ Become("drain", NextQuery(None))
  /\ UNCHANGED <<message, execution, submission, turns, adrift, sent, crashes>>

Query ==
  /\ worker["drain"].call = "query"
  /\ \/ \E e \in NextQueued : Become("drain", Doing("start", e))
     \/ Queued = {} /\ Become("drain", [Idle EXCEPT !.call = "leave"])
  /\ UNCHANGED <<message, execution, submission, passes, turns, adrift, sent, crashes>>

EndPass ==
  /\ worker["drain"].call = "leave"
  /\ Become("drain", Idle)
  /\ UNCHANGED <<message, execution, submission, passes, turns, adrift, sent, crashes>>

TurnEnds(w) ==
  /\ worker[w].call = "turn"
  /\ \E call \in {"complete", "fail"} : Become(w, Doing(call, worker[w].exec))
  /\ UNCHANGED <<message, execution, submission, passes, turns, adrift, sent, crashes>>

-------------------------------------------------------------------------------
(* complete(), fail(), cancel() and transition(), statement by statement. *)

In(w, step) == worker[w].call \in DOMAIN Target /\ worker[w].step = step

StatusSeen(w) == execution[worker[w].exec].status

Active == {"running", "resuming"}

Guard(w) ==
  /\ In(w, "guard")
  /\ LET s == worker[w] IN
     IF \/ StatusSeen(w) \in Terminal
        \/ Target[s.call] = "completed" /\ StatusSeen(w) \in Waiting
     THEN Become(w, Returned(w, s))
     ELSE Become(w, [s EXCEPT !.step = "check"])
  /\ UNCHANGED <<message, execution, submission, passes, turns, adrift, sent, crashes>>

Check(w) ==
  /\ In(w, "check")
  /\ LET s == worker[w] IN
     IF Legal(StatusSeen(w), Target[s.call])
     THEN Become(w, [s EXCEPT !.step = "write"])
     ELSE Become(w, Thrown(w, s))
  /\ UNCHANGED <<message, execution, submission, passes, turns, adrift, sent, crashes>>

(* The upsert writes the status whatever it has become since the check.  The *)
(* start() of a proposal sets running with no turn to follow it.             *)
Write(w) ==
  /\ In(w, "write")
  /\ LET s == worker[w] IN
     /\ execution' = [execution EXCEPT ![s.exec].status = Target[s.call]]
     /\ turns' = IF w = "drain" /\ s.call = "start"
                 THEN [turns EXCEPT ![s.exec] = @ + 1] ELSE turns
     /\ adrift' = IF s.call # "begin" THEN adrift \ {s.exec}
                  ELSE IF StatusSeen(w) # "running" THEN adrift \cup {s.exec} ELSE adrift
     /\ Become(w, Returned(w, s))
  /\ UNCHANGED <<message, submission, passes, sent, crashes>>

(* update() with no status: it reads the row, and upserts all of it.         *)
Load(w) ==
  /\ worker[w].call \in Updates /\ worker[w].step = "check"
  /\ Become(w, [worker[w] EXCEPT !.step = "write", !.seen = StatusSeen(w)])
  /\ UNCHANGED <<message, execution, submission, passes, turns, adrift, sent, crashes>>

Store(w) ==
  /\ worker[w].call \in Updates /\ worker[w].step = "write"
  /\ LET s == worker[w] IN
     /\ execution' = [execution EXCEPT ![s.exec].status = s.seen]
     /\ adrift' = IF s.seen \notin Active THEN adrift \ {s.exec}
                  ELSE IF s.seen # StatusSeen(w) THEN adrift \cup {s.exec} ELSE adrift
     /\ Become(w, Returned(w, s))
  /\ UNCHANGED <<message, submission, passes, turns, sent, crashes>>

(* The verdict on a command: denied, or an approval is asked for, or it is   *)
(* executed at once and settles the execution, which it wakes if it waits;   *)
(* when it fails, or something throws, the execution is left as it is.       *)
Verdict(w) ==
  /\ worker[w].call = "verdict"
  /\ LET e == worker[w].exec IN
     \/ Become(w, Idle)
     \/ Become(w, Doing("propose", e))
     \/ StatusSeen(w) \in Waiting /\ Become(w, Doing("resume", e))
     \/ StatusSeen(w) \notin Waiting /\ Become(w, Doing("finish", e))
  /\ UNCHANGED <<message, execution, submission, passes, turns, adrift, sent, crashes>>

-------------------------------------------------------------------------------
(* The other requests, each on an execution it has looked up. *)

Request(call, e) ==
  /\ sent < MaxRequests
  /\ sent' = sent + 1
  /\ \E r \in Requests : worker[r].call = "idle" /\ Become(r, Doing(call, e))
  /\ UNCHANGED <<message, execution, submission, passes, turns, adrift, crashes>>

(* POST /run, which takes an execution that is queued as well as any other.  *)
Run(e) == execution[e].status = "created" /\ Request("start", e)

Cancel(e) == execution[e].status \in {"created", "running"} \cup Waiting
             /\ Request("cancel", e)

(* POST /commands takes an execution in any status, and starts one that has  *)
(* not been started; nobody takes a turn on it for that.                     *)
Propose(e) ==
  \/ execution[e].status = "created" /\ Request("begin", e)
  \/ execution[e].status \notin {"absent", "created"} /\ Request("intent", e)

(* A turn reports its usage and its tool calls; nobody awaits the update.    *)
Report(e) ==
  /\ \E w \in Workers : worker[w].call = "turn" /\ worker[w].exec = e
  /\ Request("report", e)

(* The approval task was decided; an approved command has been executed.     *)
Decided(e) ==
  /\ execution[e].status = "waiting_for_approval"
  /\ \E call \in {"resume", "reject"} : Request(call, e)

Requested(e) == Run(e) \/ Cancel(e) \/ Propose(e) \/ Report(e) \/ Decided(e)

-------------------------------------------------------------------------------
(* The process dies and starts again: recoverPending() runs before listen(). *)

LeaveActive(s) == s
Requeue(s) == IF s \in Active THEN "created" ELSE s
InterruptActive(s) == IF s \in Active THEN "interrupted" ELSE s

CrashRestart ==
  /\ crashes < MaxCrashes
  /\ crashes' = crashes + 1
  /\ execution' = [e \in Executions |->
       [execution[e] EXCEPT !.status = InterruptActive(@)]]
  /\ submission' = [i \in Submissions |->
       IF submission[i].pc \in {"idle", "answered"} THEN submission[i]
       ELSE [submission[i] EXCEPT !.pc = "lost"]]
  /\ worker' = [w \in Workers |-> Idle]
  /\ adrift' = {}
  /\ passes' = IF Queued' # {} THEN 1 ELSE 0
  /\ UNCHANGED <<message, turns, sent>>

Proceed(w) ==
  TurnEnds(w) \/ Guard(w) \/ Check(w) \/ Write(w) \/ Load(w) \/ Store(w) \/ Verdict(w)

Next ==
  \/ \E i \in Submissions : Receive(i) \/ Submit(i)
  \/ BeginPass \/ Query \/ EndPass
  \/ \E w \in Workers : Proceed(w)
  \/ \E e \in Executions : Requested(e)
  \/ CrashRestart

Spec == Init /\ [][Next]_vars

(* Awaited calls settle, turns end (they have a timeout), and a chained pass *)
(* begins when the one before it settles; nobody is obliged to send a        *)
(* request.                                                                  *)
Fairness ==
  /\ \A i \in Submissions : WF_vars(Submit(i))
  /\ WF_vars(BeginPass \/ Query \/ EndPass)
  /\ \A w \in Workers : WF_vars(Proceed(w))

FairSpec == Spec /\ Fairness

-------------------------------------------------------------------------------
(* Properties. *)

TypeOK ==
  /\ message \in [Keys -> [seq : Nat, exec : Submissions \cup {None}]]
  /\ execution \in [Executions -> [status : Status \cup {"absent"}, seq : Nat]]
  /\ submission \in [Submissions ->
       [pc : {"idle", "message", "create", "attach", "wake", "answered", "lost"},
        key : Keys \cup {None}, before : SUBSET Submissions]]
  /\ passes \in Nat
  /\ worker \in [Workers -> WorkerStates]
  /\ turns \in [Executions -> Nat]
  /\ adrift \subseteq Executions
  /\ sent \in 0..MaxRequests
  /\ crashes \in 0..MaxCrashes

(* A message that was answered before another one was sent is never left     *)
(* waiting while the queue works on the later one (collaboration-service.ts  *)
(* :159 and sql-repository.ts:266: the queue's order is the transcript's).   *)
AnsweredFirst ==
  LET held == worker["drain"].exec IN
  held \in Submissions =>
    \A i \in submission[held].before :
      execution[i].seq < execution[held].seq => execution[i].status # "created"

(* A retry of a message that was answered creates no second execution, even  *)
(* across a restart (message-service.ts:12, collaboration-service.ts:134).   *)
RetryReuses ==
  \A j \in Submissions : \A i \in submission[j].before :
    submission[i].key = submission[j].key => execution[j].status = "absent"

(* The queue never gives an execution a second turn: what a restart finds    *)
(* running is interrupted and left to people, because its commands may have  *)
(* been executed (execution-service.ts:140).                                 *)
OneTurn == \A e \in Executions : turns[e] <= 1

(* An execution that says it is running has a call behind it that will       *)
(* settle it, unless since the last restart a proposal has started it with   *)
(* no turn behind it (routes/executions.ts:271), or the whole-row upsert of  *)
(* a proposal or of a report has put an older status back (execution-service *)
(* .ts:463, :342): those are adrift.  Neither kind outlives a restart        *)
(* (collaboration-service.ts:63).                                            *)
Settling == {"turn", "complete", "fail", "rerun", "finish"}
RunningIsDriven ==
  \A e \in Executions :
    execution[e].status \in Active =>
      e \in adrift \/ \E w \in Workers : worker[w].exec = e /\ worker[w].call \in Settling

(* As long as the process lives, while an execution is queued a drain pass   *)
(* is in progress or still to come: however passes overlap with submissions, *)
(* or end early, no wake-up is lost (session-coordinator.ts:17).             *)
NoLostWakeup ==
  Queued # {} /\ crashes = 0 =>
    \/ passes > 0
    \/ worker["drain"].call # "idle"
    \/ \E i \in Submissions : submission[i].pc \in {"attach", "wake"}

(* What session-coordinator.ts:54 and collaboration-service.ts:66-68 promise *)
(* of a restart as well: the queue is drained until nothing is queued.       *)
QueueDrains == \A e \in Submissions : [](e \in Queued => <>(e \notin Queued))
===============================================================================
