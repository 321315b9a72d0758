----------------------- MODULE ExecutionLifecycleProofs -----------------------
(***************************************************************************)
(* Theorems about ExecutionLifecycle, for any number of requests, tasks and *)
(* commands, with crashes and failing executors; and about requests that    *)
(* are served one after the other.                                          *)
(***************************************************************************)
EXTENDS ExecutionLifecycle, TLAPS

-------------------------------------------------------------------------------
(* Type correctness.                                                         *)

(* What the types leave open about the locals of one request: a row is only  *)
(* written with a status of the state machine, a command is known wherever   *)
(* one is classified or executed, and a task is known where one is closed.   *)
Continuations ==
  {"idle", "turn", "propose", "classify", "toRunning", "finish", "sweep"}

Known(s) ==
  /\ s.pc \in {"settle", "check", "load", "store"} => s.to # "approved"
  /\ s.pc \in {"settle", "check"} => s.to \in Status
  /\ \/ s.pc \in {"propose", "classify", "createTask", "execute"}
     \/ s.next \in {"propose", "classify"}
     => s.cmd \in Commands
  /\ s.pc = "close" => s.task \in Tasks /\ s.to \in {"approved", "rejected", "cancelled", "resuming"}
  /\ s.next \in Continuations

TInv == TypeOK /\ \A h \in Handlers : Known(handler[h])

USE DEF Continuations

LEMMA IdleType == FirstRow \in Rows /\ Idle \in HandlerStates /\ Known(Idle)
<1>1. FirstRow \in Rows
  BY DataAssumption DEF DataAssumption, FirstRow, Rows, Status
<1>2. Idle \in HandlerStates
  BY <1>1 DEF Idle, HandlerStates, Steps, Status
<1>3. Known(Idle)
  BY DEF Idle, Known
<1> QED
  BY <1>1, <1>2, <1>3

LEMMA StatusIsNoUpdate == "approved" \notin Status
BY DEF Status, Waiting, Terminal

LEMMA TransitType ==
  ASSUME NEW s \in HandlerStates, NEW to \in Status, NEW next \in Continuations,
         next \in {"propose", "classify"} => s.cmd \in Commands
  PROVE  Transit(s, to, next) \in HandlerStates /\ Known(Transit(s, to, next))
<1>1. Transit(s, to, next) \in HandlerStates
  BY DEF Transit, HandlerStates, Steps
<1>2. Known(Transit(s, to, next))
  BY StatusIsNoUpdate DEF Transit, HandlerStates, Known
<1> QED
  BY <1>1, <1>2

LEMMA SettleType ==
  ASSUME NEW s \in HandlerStates, NEW to \in Status
  PROVE  Settle(s, to) \in HandlerStates /\ Known(Settle(s, to))
<1>1. Settle(s, to) \in HandlerStates
  BY DEF Settle, HandlerStates, Steps
<1>2. Known(Settle(s, to))
  BY StatusIsNoUpdate DEF Settle, HandlerStates, Known
<1> QED
  BY <1>1, <1>2

LEMMA ContinueType ==
  ASSUME NEW s \in HandlerStates, Known(s)
  PROVE  Continue(s) \in HandlerStates /\ Known(Continue(s))
<1>1. CASE s.next = "idle"
  BY <1>1, IdleType DEF Continue
<1>2. CASE s.next = "toRunning"
  BY <1>2, TransitType DEF Continue, Status
<1>3. CASE s.next = "finish"
  BY <1>3, SettleType DEF Continue, Status, Terminal
<1>4. CASE s.next \notin {"idle", "toRunning", "finish"}
  <2> DEFINE r == [s EXCEPT !.pc = s.next, !.next = "idle",
                            !.to = "created", !.seen = FirstRow]
  <2>1. Continue(s) = r
    BY <1>4 DEF Continue
  <2>2. r \in HandlerStates
    BY <1>4, IdleType DEF HandlerStates, Known, Steps, Status
  <2>3. s.next \in {"turn", "propose", "classify", "sweep"}
    BY <1>4 DEF Known
  <2>4. Known(r)
    BY <2>3 DEF HandlerStates, Known
  <2> QED
    BY <2>1, <2>2, <2>4
<1> QED
  BY <1>1, <1>2, <1>3, <1>4

LEMMA MergedType ==
  ASSUME TypeOK, NEW s \in HandlerStates, s.to # "approved"
  PROVE  Merged(s) \in Rows
<1>1. CASE s.to = "evidence"
  BY <1>1 DEF Merged, HandlerStates
<1>2. CASE s.to = "intent"
  BY <1>2 DEF Merged, TypeOK, HandlerStates, Rows
<1>3. CASE s.to = "waiting_for_approval" /\ s.task = None
  BY <1>3 DEF Merged, Status, Waiting, HandlerStates, Rows
<1>4. CASE s.to \notin {"evidence", "intent"}
           /\ ~(s.to = "waiting_for_approval" /\ s.task = None)
  <2>1. Merged(s) = [s.seen EXCEPT !.status = s.to]
    BY <1>4 DEF Merged
  <2>2. s.to \in Status
    BY <1>4 DEF HandlerStates
  <2> QED
    BY <2>1, <2>2 DEF HandlerStates, Rows
<1> QED
  BY <1>1, <1>2, <1>3, <1>4

(* A request that moves to a well-formed state keeps all of them so.         *)
LEMMA BecomeType ==
  ASSUME TInv, NEW h \in Handlers, NEW s \in HandlerStates, Known(s), Become(h, s)
  PROVE  /\ handler' \in [Handlers -> HandlerStates]
         /\ \A g \in Handlers : Known(handler'[g])
BY DEF TInv, TypeOK, Become

(* What the handler of h is, where TInv holds.                               *)
LEMMA TInvHandler ==
  ASSUME TInv, NEW h \in Handlers
  PROVE  handler[h] \in HandlerStates /\ Known(handler[h])
BY DEF TInv, TypeOK

LEMMA TInvInit == Init => TInv
<1> SUFFICES ASSUME Init PROVE TInv
  OBVIOUS
<1>1. row \in Rows /\ due \subseteq Tasks /\ data \in 0..MaxData
  BY IdleType, DataAssumption DEF Init, DataAssumption
<1>2. task \in [Tasks -> HumanTasks]
  BY DEF Init, HumanTasks, TaskStates
<1>3. handler \in [Handlers -> HandlerStates] /\ \A h \in Handlers : Known(handler[h])
  BY IdleType DEF Init
<1>4. calls \in [Tasks -> Seq(Commands)]
  BY DEF Init
<1> QED
  BY <1>1, <1>2, <1>3, <1>4 DEF TInv, TypeOK

(* A step that only moves one request on.                                    *)
LEMMA OnlyHandler ==
  ASSUME TInv, NEW h \in Handlers, NEW s \in HandlerStates, Known(s), Become(h, s),
         UNCHANGED <<row, task, due, data, calls>>
  PROVE  TInv'
BY BecomeType DEF TInv, TypeOK

LEMMA BeginType ==
  ASSUME TInv, NEW h \in Handlers, Begin(h)
  PROVE  TInv'
<1> USE IdleType
<1>1. CASE Start(h)
  BY <1>1, TransitType, OnlyHandler DEF Start, Status
<1>2. CASE RecordEvidence(h)
  <2> DEFINE s == [Idle EXCEPT !.pc = "load", !.to = "evidence"]
  <2>1. s \in HandlerStates /\ Known(s)
    BY DEF Idle, HandlerStates, Known, Steps
  <2> QED
    BY <1>2, <2>1, OnlyHandler DEF RecordEvidence
<1>3. CASE Cancel(h)
  BY <1>3, SettleType, OnlyHandler DEF Cancel, Status, Terminal
<1>4. CASE PauseForInput(h)
  <2>1. PICK t \in Tasks : task' = [task EXCEPT ![t] = [state |-> "open", cmd |-> None]]
    BY <1>4 DEF PauseForInput
  <2>2. task' \in [Tasks -> HumanTasks]
    BY <2>1 DEF TInv, TypeOK, HumanTasks, TaskStates
  <2> QED
    BY <1>4, <2>2, TransitType, BecomeType DEF PauseForInput, TInv, TypeOK, Status, Waiting
<1>5. ASSUME NEW c \in Commands, Propose(h, c) PROVE TInv'
  <2> DEFINE s == [Idle EXCEPT !.pc = "propose", !.cmd = c]
  <2>1. s \in HandlerStates /\ Known(s)
    BY DEF Idle, HandlerStates, Known, Steps
  <2>2. s.cmd = c
    BY DEF Idle
  <2>3. CASE row.status = "created"
    BY <1>5, <2>1, <2>2, <2>3, TransitType, OnlyHandler DEF Propose, Status
  <2>4. CASE row.status # "created"
    BY <1>5, <2>1, <2>4, OnlyHandler DEF Propose
  <2> QED
    BY <2>3, <2>4
<1>6. ASSUME NEW t \in Tasks, NEW to \in {"approved", "rejected", "cancelled", "resuming"}
      PROVE  Closing(t, to) \in HandlerStates /\ Known(Closing(t, to))
  BY DEF Closing, Idle, HandlerStates, Known, Steps, Status, Terminal
<1>7. ASSUME NEW t \in Tasks, Decide(h, t) PROVE TInv'
  BY <1>6, <1>7, OnlyHandler DEF Decide
<1>8. ASSUME NEW t \in Tasks, SubmitInput(h, t) PROVE TInv'
  BY <1>6, <1>8, OnlyHandler DEF SubmitInput
<1>9. ASSUME NEW t \in Tasks, CancelTask(h, t) PROVE TInv'
  BY <1>6, <1>9, OnlyHandler DEF CancelTask
<1> QED
  BY <1>1, <1>2, <1>3, <1>4, <1>5, <1>7, <1>8, <1>9 DEF Begin

LEMMA ProceedType ==
  ASSUME TInv, NEW h \in Handlers, Proceed(h)
  PROVE  TInv'
<1> DEFINE s == handler[h]
<1> USE IdleType
<1>0. s \in HandlerStates /\ Known(s)
  BY TInvHandler
<1>1. CASE SettleGuard(h)
  <2>1. [s EXCEPT !.pc = "check"] \in HandlerStates /\ Known([s EXCEPT !.pc = "check"])
    BY <1>0, <1>1 DEF SettleGuard, At, HandlerStates, Known, Steps
  <2> QED
    BY <1>0, <1>1, <2>1, ContinueType, OnlyHandler DEF SettleGuard
<1>2. CASE Check(h)
  <2>1. [s EXCEPT !.pc = "load"] \in HandlerStates /\ Known([s EXCEPT !.pc = "load"])
    BY <1>0, <1>2 DEF Check, At, HandlerStates, Known, Steps
  <2> QED
    BY <1>2, <2>1, OnlyHandler DEF Check
<1>3. CASE Load(h)
  <2> DEFINE r == [s EXCEPT !.pc = "store", !.seen = row]
  <2>1. s.pc = "load" /\ row \in Rows
    BY <1>3 DEF Load, At, TInv, TypeOK
  <2>2. r \in HandlerStates
    BY <1>0, <2>1 DEF HandlerStates, Steps
  <2>3. Known(r)
    BY <1>0, <2>1 DEF HandlerStates, Known
  <2> QED
    BY <1>3, <2>2, <2>3, OnlyHandler DEF Load
<1>4. CASE Store(h)
  <2>1. s.to # "approved"
    BY <1>0, <1>4 DEF Store, At, Known
  <2>2. row' \in Rows
    BY <1>0, <1>4, <2>1, MergedType DEF Store, TInv
  <2> QED
    BY <1>0, <1>4, <2>2, ContinueType, BecomeType DEF Store, TInv, TypeOK
<1>5. CASE TurnEnds(h)
  BY <1>5, SettleType, OnlyHandler DEF TurnEnds, Status, Terminal
<1>6. CASE ProposeLoad(h)
  <2> DEFINE r == [s EXCEPT !.pc = "store", !.to = "intent", !.next = "classify", !.seen = row]
  <2>1. s.pc = "propose" /\ row \in Rows
    BY <1>6 DEF ProposeLoad, At, TInv, TypeOK
  <2>2. r \in HandlerStates
    BY <1>0, <2>1 DEF HandlerStates, Steps
  <2>3. Known(r)
    BY <1>0, <2>1 DEF HandlerStates, Known
  <2> QED
    BY <1>6, <2>2, <2>3, OnlyHandler DEF ProposeLoad
<1>7. CASE Classify(h)
  <2>1. ASSUME NEW step \in {"createTask", "execute"}
        PROVE  [s EXCEPT !.pc = step] \in HandlerStates /\ Known([s EXCEPT !.pc = step])
    BY <1>0, <1>7 DEF Classify, At, HandlerStates, Known, Steps
  <2> QED
    BY <1>7, <2>1, OnlyHandler DEF Classify
<1>8. CASE CreateApprovalTask(h)
  <2>1. s.cmd \in Commands
    BY <1>0, <1>8 DEF CreateApprovalTask, At, Known
  <2>2. task' \in [Tasks -> HumanTasks]
    BY <1>8, <2>1 DEF CreateApprovalTask, TInv, TypeOK, HumanTasks, TaskStates
  <2> QED
    BY <1>0, <1>8, <2>2, TransitType, BecomeType
    DEF CreateApprovalTask, TInv, TypeOK, Status, Waiting
<1>9. CASE Close(h)
  <2>1. s.task \in Tasks /\ s.to \in {"approved", "rejected", "cancelled", "resuming"}
    BY <1>0, <1>9 DEF Close, At, Known
  <2>2. [s EXCEPT !.pc = "approved"] \in HandlerStates /\ Known([s EXCEPT !.pc = "approved"])
    BY <1>0 DEF HandlerStates, Known, Steps
  <2>3. s.to # "approved" => /\ Transit(s, s.to, "idle") \in HandlerStates
                             /\ Known(Transit(s, s.to, "idle"))
    BY <1>0, <2>1, TransitType DEF Status, Terminal
  <2>4. handler' \in [Handlers -> HandlerStates] /\ \A g \in Handlers : Known(handler'[g])
    BY <1>9, <2>2, <2>3, BecomeType DEF Close
  <2>5. task' \in [Tasks -> HumanTasks] /\ due' \subseteq Tasks
    <3>1. CloseState(s.to) \in TaskStates
      BY <2>1 DEF CloseState, TaskStates
    <3>2. \/ task' = [task EXCEPT ![s.task].state = CloseState(s.to)]
             /\ due' = due \ {s.task}
          \/ UNCHANGED <<task, due>>
      BY <1>9 DEF Close
    <3> QED
      BY <2>1, <3>1, <3>2, ZenonT(60) DEF TInv, TypeOK, HumanTasks
  <2> QED
    BY <1>9, <2>4, <2>5 DEF Close, TInv, TypeOK
<1>10. CASE SweepNext(h)
  <2>1. ASSUME NEW t \in s.todo
        PROVE  LET r == [s EXCEPT !.todo = @ \ {t}] IN
               r \in HandlerStates /\ Known(r) /\ t \in Tasks
    BY <1>0 DEF HandlerStates, Known
  <2>2. ASSUME NEW t \in s.todo
        PROVE  LET r == Transit([s EXCEPT !.todo = @ \ {t}], "expired", "sweep") IN
               r \in HandlerStates /\ Known(r)
    BY <2>1, TransitType DEF Status, Terminal
  <2>3. handler' \in [Handlers -> HandlerStates] /\ \A g \in Handlers : Known(handler'[g])
    BY <1>10, <2>1, <2>2, BecomeType DEF SweepNext
  <2>4. task' \in [Tasks -> HumanTasks] /\ due' \subseteq Tasks
    BY <1>10, <2>1, ZenonT(60) DEF SweepNext, TInv, TypeOK, HumanTasks, TaskStates
  <2> QED
    BY <1>10, <2>3, <2>4 DEF SweepNext, TInv, TypeOK
<1>11. CASE ReadApproved(h)
  <2> DEFINE r == [s EXCEPT !.pc = "execute", !.cmd = row.intent, !.seen = row]
  <2>1. row.intent # None => r \in HandlerStates /\ Known(r)
    BY <1>0 DEF HandlerStates, Known, Steps, TInv, TypeOK, Rows
  <2>2. Settle(s, "failed") \in HandlerStates /\ Known(Settle(s, "failed"))
    BY <1>0, SettleType DEF Status, Terminal
  <2> QED
    BY <1>11, <2>1, <2>2, OnlyHandler DEF ReadApproved
<1>12. CASE Execute(h)
  <2> DEFINE r == [s EXCEPT !.seen = FirstRow]
  <2>1. r \in HandlerStates /\ Known(r) /\ r.cmd \in Commands
    BY <1>0, <1>12 DEF Execute, At, HandlerStates, Known
  <2>2. [r EXCEPT !.pc = "advance"] \in HandlerStates /\ Known([r EXCEPT !.pc = "advance"])
    BY <2>1, ZenonT(60) DEF HandlerStates, Known, Steps
  <2>3. Settle(r, "failed") \in HandlerStates /\ Known(Settle(r, "failed"))
    BY <2>1, SettleType DEF Status, Terminal
  <2>4. LET q == Transit(r, "waiting_for_approval", "classify") IN
        q \in HandlerStates /\ Known(q)
    BY <2>1, TransitType DEF Status, Waiting
  <2>5. handler' \in [Handlers -> HandlerStates] /\ \A g \in Handlers : Known(handler'[g])
    BY <1>12, <2>2, <2>3, <2>4, BecomeType DEF Execute
  <2>6. calls' \in [Tasks -> Seq(Commands)]
    <3>1. RecordCall(r) \/ UNCHANGED calls
      BY <1>12 DEF Execute
    <3>2. r.task \in Tasks \cup {None}
      BY <2>1 DEF HandlerStates
    <3>3. r.task \in Tasks => Append(calls[r.task], r.cmd) \in Seq(Commands)
      BY <2>1 DEF TInv, TypeOK
    <3> QED
      BY <3>1, <3>2, <3>3 DEF RecordCall, TInv, TypeOK
  <2> QED
    BY <1>12, <2>5, <2>6 DEF Execute, TInv, TypeOK
<1>13. CASE Advance(h)
  BY <1>0, <1>13, TransitType, SettleType, OnlyHandler DEF Advance, Status, Terminal
<1> QED
  BY <1>1, <1>2, <1>3, <1>4, <1>5, <1>6, <1>7, <1>8, <1>9, <1>10, <1>11, <1>12, <1>13
  DEF Proceed

LEMMA TInvStep == TInv /\ [Next]_vars => TInv'
<1> SUFFICES ASSUME TInv, [Next]_vars PROVE TInv'
  OBVIOUS
<1>1. ASSUME NEW h \in Handlers, Begin(h) \/ Proceed(h) PROVE TInv'
  BY <1>1, BeginType, ProceedType
<1>2. ASSUME NEW h \in Handlers, Sweep(h) PROVE TInv'
  <2> DEFINE s == [Idle EXCEPT !.pc = "sweep", !.todo = due]
  <2>1. s \in HandlerStates /\ Known(s)
    BY IdleType DEF Idle, HandlerStates, Known, Steps, TInv, TypeOK
  <2> QED
    BY <1>2, <2>1, OnlyHandler DEF Sweep
<1>3. ASSUME NEW t \in Tasks, BecomeDue(t) PROVE TInv'
  BY <1>3 DEF BecomeDue, TInv, TypeOK
<1>4. CASE DataChanges
  BY <1>4, DataAssumption DEF DataChanges, TInv, TypeOK, DataAssumption
<1>5. CASE CrashRestart
  <2>1. row' \in Rows
    BY <1>5 DEF CrashRestart, TInv, TypeOK, Rows, Status, Terminal
  <2>2. handler' \in [Handlers -> HandlerStates] /\ \A h \in Handlers : Known(handler'[h])
    BY <1>5, IdleType DEF CrashRestart
  <2> QED
    BY <1>5, <2>1, <2>2 DEF CrashRestart, TInv, TypeOK
<1>6. CASE UNCHANGED vars
  BY <1>6 DEF vars, TInv, TypeOK
<1> QED
  BY <1>1, <1>2, <1>3, <1>4, <1>5, <1>6 DEF Next

LEMMA TInvAlways == Spec => []TInv
BY TInvInit, TInvStep, PTL DEF Spec

(* Every variable has its type in every reachable state: in particular the   *)
(* execution row never holds a status outside the state machine, and no      *)
(* request reaches the executor without a command.                           *)
THEOREM TypeCorrect == Spec => []TypeOK
<1>1. TInv => TypeOK
  BY DEF TInv
<1> QED
  BY <1>1, TInvAlways, PTL

-------------------------------------------------------------------------------
(* One approval, one call of the executor.                                   *)

(* Request h may still call the executor on the strength of task t.          *)
Holds(h, t) == handler[h].pc \in {"approved", "execute"} /\ handler[h].task = t

(* OneCallPerApproval is not inductive: it holds because the right to call   *)
(* is handed to one request, the one whose update closed the task, and is    *)
(* given up with the call.                                                   *)
CallInv ==
  /\ OneCallPerApproval
  /\ \A h \in Handlers, t \in Tasks :
       Holds(h, t) => task[t].state = "approved" /\ calls[t] = <<>>
  /\ \A g, h \in Handlers, t \in Tasks : Holds(g, t) /\ Holds(h, t) => g = h

(* What a step can mean for tasks, calls and the right to call.              *)
NoNewHolder == \A h \in Handlers, t \in Tasks : Holds(h, t)' => Holds(h, t)

Quiet == UNCHANGED <<task, calls>> /\ NoNewHolder

Opens ==
  \E t \in Tasks, c \in Commands \cup {None} :
    /\ task[t].state = "absent"
    /\ task' = [task EXCEPT ![t] = [state |-> "open", cmd |-> c]]
    /\ UNCHANGED calls
    /\ NoNewHolder

Closes ==
  \E h \in Handlers, t \in Tasks, r \in Promise!Resolutions :
    /\ task[t].state = "open"
    /\ task' = [task EXCEPT ![t].state = r]
    /\ UNCHANGED calls
    /\ \A g \in Handlers, u \in Tasks :
         Holds(g, u)' => Holds(g, u) \/ (g = h /\ u = t /\ r = "approved")

CallsExecutor ==
  \E h \in Handlers, t \in Tasks, c \in Commands :
    /\ Holds(h, t)
    /\ calls' = [calls EXCEPT ![t] = Append(@, c)]
    /\ UNCHANGED task
    /\ \A g \in Handlers, u \in Tasks : Holds(g, u)' => Holds(g, u) /\ g # h

StepKind == Quiet \/ Opens \/ Closes \/ CallsExecutor

LEMMA BecomeHolds ==
  ASSUME TInv, NEW h \in Handlers, NEW s, Become(h, s),
         s.pc \in {"approved", "execute"} /\ s.task \in Tasks => Holds(h, s.task)
  PROVE  NoNewHolder
BY DEF TInv, TypeOK, Become, NoNewHolder, Holds

LEMMA BecomeHoldsNone ==
  ASSUME TInv, NEW h \in Handlers, NEW s, Become(h, s),
         s.pc \notin {"approved", "execute"}
  PROVE  \A g \in Handlers, u \in Tasks : Holds(g, u)' => Holds(g, u) /\ g # h
BY DEF TInv, TypeOK, Become, Holds

(* The states a request moves to that hold nothing.                          *)
LEMMA HoldsNone ==
  /\ Idle.pc \notin {"approved", "execute"}
  /\ \A s \in HandlerStates, to \in Status, next \in Continuations :
       /\ Transit(s, to, next).pc \notin {"approved", "execute"}
       /\ Settle(s, to).pc \notin {"approved", "execute"}
  /\ \A s \in HandlerStates :
       Known(s) => Continue(s).pc \notin {"approved", "execute"}
<1>1. Idle.pc \notin {"approved", "execute"}
  BY DEF Idle
<1>2. ASSUME NEW s \in HandlerStates, NEW to \in Status, NEW next \in Continuations
      PROVE  /\ Transit(s, to, next).pc \notin {"approved", "execute"}
             /\ Settle(s, to).pc \notin {"approved", "execute"}
  BY DEF Transit, Settle, HandlerStates
<1>3. ASSUME NEW s \in HandlerStates, Known(s)
      PROVE  Continue(s).pc \notin {"approved", "execute"}
  <2>1. CASE s.next = "idle"
    BY <2>1, <1>1 DEF Continue
  <2>2. CASE s.next = "toRunning"
    BY <2>2, <1>2 DEF Continue, Status
  <2>3. CASE s.next = "finish"
    BY <2>3, <1>2 DEF Continue, Status, Terminal
  <2>4. CASE s.next \notin {"idle", "toRunning", "finish"}
    <3>1. Continue(s) = [s EXCEPT !.pc = s.next, !.next = "idle",
                                  !.to = "created", !.seen = FirstRow]
      BY <2>4 DEF Continue
    <3> QED
      BY <1>3, <3>1 DEF Known, HandlerStates
  <2> QED
    BY <2>1, <2>2, <2>3, <2>4
<1> QED
  BY <1>1, <1>2, <1>3

LEMMA BeginKind ==
  ASSUME TInv, NEW h \in Handlers, Begin(h)
  PROVE  StepKind
<1> USE IdleType, HoldsNone
<1>1. \A s : Become(h, s) /\ s.pc \notin {"approved", "execute"} => NoNewHolder
  BY BecomeHoldsNone DEF NoNewHolder
<1>2. CASE Start(h)
  BY <1>1, <1>2 DEF Start, StepKind, Quiet, Status
<1>3. CASE RecordEvidence(h)
  <2>1. [Idle EXCEPT !.pc = "load", !.to = "evidence"].pc \notin {"approved", "execute"}
    BY DEF Idle
  <2> QED
    BY <1>1, <1>3, <2>1 DEF RecordEvidence, StepKind, Quiet
<1>4. CASE Cancel(h)
  BY <1>1, <1>4 DEF Cancel, StepKind, Quiet, Status, Terminal
<1>5. CASE PauseForInput(h)
  <2>1. NoNewHolder
    BY <1>1, <1>5 DEF PauseForInput, Status, Waiting
  <2> QED
    BY <1>5, <2>1 DEF PauseForInput, StepKind, Opens
<1>6. ASSUME NEW c \in Commands, Propose(h, c) PROVE StepKind
  <2> DEFINE s == [Idle EXCEPT !.pc = "propose", !.cmd = c]
  <2>1. s \in HandlerStates /\ s.pc \notin {"approved", "execute"}
    BY DEF Idle, HandlerStates, Steps
  <2>2. NoNewHolder
    BY <1>1, <1>6, <2>1 DEF Propose, Status
  <2> QED
    BY <1>6, <2>2 DEF Propose, StepKind, Quiet
<1>7. \A t, to : Closing(t, to).pc \notin {"approved", "execute"}
  BY DEF Closing, Idle
<1>8. ASSUME NEW t \in Tasks, Decide(h, t) \/ SubmitInput(h, t) \/ CancelTask(h, t)
      PROVE  StepKind
  <2>1. \E to : Become(h, Closing(t, to))
    BY <1>8 DEF Decide, SubmitInput, CancelTask
  <2>2. UNCHANGED <<task, calls>>
    BY <1>8 DEF Decide, SubmitInput, CancelTask
  <2> QED
    BY <1>1, <1>7, <2>1, <2>2 DEF StepKind, Quiet
<1> QED
  BY <1>2, <1>3, <1>4, <1>5, <1>6, <1>8 DEF Begin

LEMMA ProceedKind ==
  ASSUME TInv, NEW h \in Handlers, Proceed(h)
  PROVE  StepKind
<1> DEFINE s == handler[h]
<1> USE IdleType, HoldsNone
<1>0. s \in HandlerStates /\ Known(s)
  BY TInvHandler
<1>1. \A r : Become(h, r) /\ r.pc \notin {"approved", "execute"} => NoNewHolder
  BY BecomeHoldsNone DEF NoNewHolder
<1>2. ASSUME NEW step \in {"check", "load", "store", "createTask"}
      PROVE  [s EXCEPT !.pc = step].pc \notin {"approved", "execute"}
  BY <1>0 DEF HandlerStates
<1>3. CASE SettleGuard(h)
  BY <1>0, <1>1, <1>2, <1>3 DEF SettleGuard, StepKind, Quiet
<1>4. CASE Check(h)
  BY <1>1, <1>2, <1>4 DEF Check, StepKind, Quiet
<1>5. CASE Load(h)
  <2>1. [s EXCEPT !.pc = "store", !.seen = row].pc \notin {"approved", "execute"}
    BY <1>0 DEF HandlerStates
  <2> QED
    BY <1>1, <1>5, <2>1 DEF Load, StepKind, Quiet
<1>6. CASE Store(h)
  BY <1>0, <1>1, <1>6 DEF Store, StepKind, Quiet
<1>7. CASE TurnEnds(h)
  BY <1>1, <1>7 DEF TurnEnds, StepKind, Quiet, Status, Terminal
<1>8. CASE ProposeLoad(h)
  <2> DEFINE r == [s EXCEPT !.pc = "store", !.to = "intent", !.next = "classify", !.seen = row]
  <2>1. r.pc \notin {"approved", "execute"}
    BY <1>0 DEF HandlerStates
  <2> QED
    BY <1>1, <1>8, <2>1 DEF ProposeLoad, StepKind, Quiet
<1>9. CASE Classify(h)
  <2>1. CASE Become(h, [s EXCEPT !.pc = "execute"]) /\ s.task = None
    <3>1. [s EXCEPT !.pc = "execute"].task \notin Tasks
      BY <1>0, <2>1, NoneAssumption DEF HandlerStates, NoneAssumption
    <3> QED
      BY <1>9, <2>1, <3>1, BecomeHolds DEF Classify, StepKind, Quiet
  <2>2. CASE Become(h, Idle) \/ Become(h, [s EXCEPT !.pc = "createTask"])
    BY <1>1, <1>2, <1>9, <2>2 DEF Classify, StepKind, Quiet
  <2> QED
    BY <1>9, <2>1, <2>2 DEF Classify
<1>10. CASE CreateApprovalTask(h)
  <2>1. s.cmd \in Commands
    BY <1>0, <1>10 DEF CreateApprovalTask, At, Known
  <2>2. NoNewHolder
    BY <1>0, <1>1, <1>10 DEF CreateApprovalTask, Status, Waiting
  <2> QED
    BY <1>10, <2>1, <2>2 DEF CreateApprovalTask, StepKind, Opens
<1>11. CASE Close(h)
  <2>1. s.task \in Tasks /\ s.to \in {"approved", "rejected", "cancelled", "resuming"}
    BY <1>0, <1>11 DEF Close, At, Known
  <2>2. CASE ~Closable(s.task)
    BY <1>1, <1>11, <2>2 DEF Close, StepKind, Quiet
  <2>3. CASE Closable(s.task)
    <3> DEFINE r == CloseState(s.to)
    <3>1. r \in Promise!Resolutions
      BY <2>1 DEF CloseState, Promise!Resolutions
    <3>2. ASSUME NEW g \in Handlers, NEW u \in Tasks, Holds(g, u)'
          PROVE  Holds(g, u) \/ (g = h /\ u = s.task /\ r = "approved")
      <4>1. CASE s.to = "approved"
        <5>1. Become(h, [s EXCEPT !.pc = "approved"])
          BY <1>11, <2>3, <4>1 DEF Close
        <5>2. r = "approved"
          BY <4>1 DEF CloseState
        <5> QED
          BY <1>0, <3>2, <5>1, <5>2 DEF Holds, Become, TInv, TypeOK, HandlerStates
      <4>2. CASE s.to # "approved"
        <5>1. Become(h, Transit(s, s.to, "idle"))
          BY <1>11, <2>3, <4>2 DEF Close
        <5>2. s.to \in Status
          BY <2>1, <4>2 DEF Status, Terminal
        <5> QED
          BY <1>0, <1>1, <3>2, <5>1, <5>2 DEF NoNewHolder
      <4> QED
        BY <4>1, <4>2
    <3>3. /\ task[s.task].state = "open"
          /\ task' = [task EXCEPT ![s.task].state = r]
          /\ UNCHANGED calls
      BY <1>11, <2>3 DEF Close, Closable
    <3> QED
      BY <2>1, <3>1, <3>2, <3>3 DEF StepKind, Closes
  <2> QED
    BY <2>2, <2>3
<1>12. CASE SweepNext(h)
  <2>1. ASSUME NEW t \in s.todo, Closable(t),
               task' = [task EXCEPT ![t].state = "expired"],
               Become(h, Transit([s EXCEPT !.todo = @ \ {t}], "expired", "sweep"))
        PROVE  StepKind
    <3>1. [s EXCEPT !.todo = @ \ {t}] \in HandlerStates /\ t \in Tasks
      BY <1>0 DEF HandlerStates
    <3>2. NoNewHolder
      BY <1>1, <2>1, <3>1 DEF Status, Terminal
    <3>3. UNCHANGED calls
      BY <1>12 DEF SweepNext
    <3> QED
      BY <2>1, <3>1, <3>2, <3>3
      DEF StepKind, Closes, Closable, NoNewHolder, Promise!Resolutions
  <2>2. ASSUME NEW t \in s.todo, Become(h, [s EXCEPT !.todo = @ \ {t}]),
               UNCHANGED <<task, due>>
        PROVE  StepKind
    <3>1. [s EXCEPT !.todo = @ \ {t}].pc \notin {"approved", "execute"}
      BY <1>0, <1>12 DEF SweepNext, At, HandlerStates
    <3> QED
      BY <1>1, <1>12, <2>2, <3>1 DEF SweepNext, StepKind, Quiet
  <2>3. CASE Become(h, Idle) /\ UNCHANGED <<task, due>>
    BY <1>1, <1>12, <2>3 DEF SweepNext, StepKind, Quiet
  <2> QED
    BY <1>12, <2>1, <2>2, <2>3 DEF SweepNext
<1>13. CASE ReadApproved(h)
  <2> DEFINE r == [s EXCEPT !.pc = "execute", !.cmd = row.intent, !.seen = row]
  <2>1. CASE Become(h, Settle(s, "failed"))
    BY <1>0, <1>1, <1>13, <2>1 DEF ReadApproved, StepKind, Quiet, Status, Terminal
  <2>2. CASE Become(h, r)
    <3>1. r.task \in Tasks => Holds(h, r.task)
      BY <1>0, <1>13 DEF ReadApproved, At, Holds, HandlerStates
    <3> QED
      BY <1>13, <2>2, <3>1, BecomeHolds DEF ReadApproved, StepKind, Quiet
  <2> QED
    BY <1>13, <2>1, <2>2 DEF ReadApproved
<1>14. CASE Execute(h)
  <2> DEFINE r == [s EXCEPT !.seen = FirstRow]
  <2>1. r \in HandlerStates /\ r.task = s.task /\ r.cmd = s.cmd /\ s.cmd \in Commands
    BY <1>0, <1>14 DEF Execute, At, HandlerStates, Known
  <2>2. PICK q : Become(h, q) /\ q.pc \notin {"approved", "execute"}
    <3>1. [r EXCEPT !.pc = "advance"].pc \notin {"approved", "execute"}
      BY <2>1 DEF HandlerStates
    <3> QED
      BY <1>14, <2>1, <3>1 DEF Execute, Status, Waiting, Terminal
  <2>3. UNCHANGED task /\ (RecordCall(r) \/ UNCHANGED calls)
    BY <1>14 DEF Execute
  <2>4. CASE UNCHANGED calls
    BY <1>1, <2>2, <2>3, <2>4 DEF StepKind, Quiet
  <2>5. CASE RecordCall(r) /\ s.task = None
    BY <1>1, <2>1, <2>2, <2>3, <2>5 DEF RecordCall, StepKind, Quiet
  <2>6. CASE RecordCall(r) /\ s.task # None
    <3>1. s.task \in Tasks /\ Holds(h, s.task)
      BY <1>0, <1>14, <2>6 DEF Execute, At, Holds, HandlerStates
    <3>2. calls' = [calls EXCEPT ![s.task] = Append(@, s.cmd)]
      BY <2>1, <2>6 DEF RecordCall
    <3>3. \A g \in Handlers, u \in Tasks : Holds(g, u)' => Holds(g, u) /\ g # h
      BY <2>2, BecomeHoldsNone
    <3> QED
      BY <2>1, <2>3, <3>1, <3>2, <3>3 DEF StepKind, CallsExecutor
  <2> QED
    BY <2>3, <2>4, <2>5, <2>6
<1>15. CASE Advance(h)
  BY <1>0, <1>1, <1>15 DEF Advance, StepKind, Quiet, Status, Terminal
<1> QED
  BY <1>3, <1>4, <1>5, <1>6, <1>7, <1>8, <1>9, <1>10, <1>11, <1>12, <1>13, <1>14, <1>15
  DEF Proceed

LEMMA NextKind == TInv /\ [Next]_vars => StepKind
<1> SUFFICES ASSUME TInv, [Next]_vars PROVE StepKind
  OBVIOUS
<1>1. ASSUME NEW h \in Handlers, Begin(h) \/ Proceed(h) PROVE StepKind
  BY <1>1, BeginKind, ProceedKind
<1>2. ASSUME NEW h \in Handlers, Sweep(h) PROVE StepKind
  <2> DEFINE s == [Idle EXCEPT !.pc = "sweep", !.todo = due]
  <2>1. s.pc \notin {"approved", "execute"}
    BY DEF Idle
  <2>2. NoNewHolder
    BY <1>2, <2>1, BecomeHoldsNone DEF Sweep, NoNewHolder
  <2> QED
    BY <1>2, <2>2 DEF Sweep, StepKind, Quiet
<1>3. ASSUME NEW t \in Tasks, BecomeDue(t) PROVE StepKind
  BY <1>3 DEF BecomeDue, StepKind, Quiet, NoNewHolder, Holds
<1>4. CASE DataChanges
  BY <1>4 DEF DataChanges, StepKind, Quiet, NoNewHolder, Holds
<1>5. CASE CrashRestart
  BY <1>5, HoldsNone DEF CrashRestart, StepKind, Quiet, NoNewHolder, Holds
<1>6. CASE UNCHANGED vars
  BY <1>6 DEF vars, StepKind, Quiet, NoNewHolder, Holds
<1> QED
  BY <1>1, <1>2, <1>3, <1>4, <1>5, <1>6 DEF Next

LEMMA CallInvInit == Init => CallInv
BY DEF Init, CallInv, OneCallPerApproval, Holds, Idle

LEMMA CallInvStep == TInv /\ CallInv /\ StepKind => CallInv'
<1> SUFFICES ASSUME TInv, CallInv, StepKind PROVE CallInv'
  OBVIOUS
<1> USE DEF OneCallPerApproval
<1>t. task \in [Tasks -> HumanTasks] /\ calls \in [Tasks -> Seq(Commands)]
  BY DEF TInv, TypeOK
<1>1. CASE Quiet
  BY <1>1 DEF Quiet, CallInv, NoNewHolder
<1>2. CASE Opens
  <2>1. PICK t \in Tasks, c \in Commands \cup {None} :
          /\ task[t].state = "absent"
          /\ task' = [task EXCEPT ![t] = [state |-> "open", cmd |-> c]]
          /\ UNCHANGED calls
          /\ NoNewHolder
    BY <1>2 DEF Opens
  <2>2. \A u \in Tasks : task[u].state = "approved" => task'[u].state = "approved"
    BY <1>t, <2>1
  <2> QED
    BY <2>1, <2>2 DEF CallInv, NoNewHolder
<1>3. CASE Closes
  <2>1. PICK h \in Handlers, t \in Tasks, r \in Promise!Resolutions :
          /\ task[t].state = "open"
          /\ task' = [task EXCEPT ![t].state = r]
          /\ UNCHANGED calls
          /\ \A g \in Handlers, u \in Tasks :
               Holds(g, u)' => Holds(g, u) \/ (g = h /\ u = t /\ r = "approved")
    BY <1>3 DEF Closes
  <2>2. \A u \in Tasks : task[u].state = "approved" => task'[u].state = "approved"
    BY <1>t, <2>1
  <2>3. calls[t] = <<>> /\ \A g \in Handlers : ~Holds(g, t)
    BY <2>1 DEF CallInv
  <2>4. r = "approved" => task'[t].state = "approved"
    BY <1>t, <2>1 DEF HumanTasks
  <2>5. OneCallPerApproval'
    BY <2>1, <2>2 DEF CallInv
  <2>6. ASSUME NEW g \in Handlers, NEW u \in Tasks, Holds(g, u)'
        PROVE  task'[u].state = "approved" /\ calls'[u] = <<>>
    BY <2>1, <2>2, <2>3, <2>4, <2>6 DEF CallInv
  <2>7. ASSUME NEW f \in Handlers, NEW g \in Handlers, NEW u \in Tasks,
               Holds(f, u)', Holds(g, u)'
        PROVE  f = g
    BY <2>1, <2>3, <2>7 DEF CallInv
  <2> QED
    BY <2>5, <2>6, <2>7 DEF CallInv
<1>4. CASE CallsExecutor
  <2>1. PICK h \in Handlers, t \in Tasks, c \in Commands :
          /\ Holds(h, t)
          /\ calls' = [calls EXCEPT ![t] = Append(@, c)]
          /\ UNCHANGED task
          /\ \A g \in Handlers, u \in Tasks : Holds(g, u)' => Holds(g, u) /\ g # h
    BY <1>4 DEF CallsExecutor
  <2>2. calls[t] = <<>> /\ task[t].state = "approved"
    BY <2>1 DEF CallInv
  <2>3. calls'[t] = <<c>> /\ \A u \in Tasks \ {t} : calls'[u] = calls[u]
    BY <1>t, <2>1, <2>2
  <2>4. \A g \in Handlers : ~Holds(g, t)'
    BY <2>1 DEF CallInv
  <2>5. OneCallPerApproval'
    BY <2>1, <2>2, <2>3 DEF CallInv
  <2>6. ASSUME NEW g \in Handlers, NEW u \in Tasks, Holds(g, u)'
        PROVE  task'[u].state = "approved" /\ calls'[u] = <<>>
    BY <2>1, <2>3, <2>4, <2>6 DEF CallInv
  <2>7. ASSUME NEW f \in Handlers, NEW g \in Handlers, NEW u \in Tasks,
               Holds(f, u)', Holds(g, u)'
        PROVE  f = g
    BY <2>1, <2>7 DEF CallInv
  <2> QED
    BY <2>5, <2>6, <2>7 DEF CallInv
<1> QED
  BY <1>1, <1>2, <1>3, <1>4 DEF StepKind

LEMMA CallInvAlways == Spec => []CallInv
<1>1. TInv /\ CallInv /\ [Next]_vars => CallInv'
  BY NextKind, CallInvStep
<1> QED
  BY <1>1, CallInvInit, TInvAlways, PTL DEF Spec

(* However decisions, cancellations, expiry sweeps, new proposals and        *)
(* crashes interleave, the executor is called at most once for an approval,  *)
(* and only for a task that was closed as approved.                          *)
THEOREM OneCall == Spec => []OneCallPerApproval
<1>1. CallInv => OneCallPerApproval
  BY DEF CallInv
<1> QED
  BY <1>1, CallInvAlways, PTL

-------------------------------------------------------------------------------
(* Refinement.                                                               *)

LEMMA PromiseStep == TInv /\ CallInv /\ StepKind => [Promise!Next]_(Promise!vars)
<1> SUFFICES ASSUME TInv, CallInv, StepKind PROVE [Promise!Next]_(Promise!vars)
  OBVIOUS
<1> DEFINE state == [t \in Tasks |-> task[t].state]
<1>t. task \in [Tasks -> HumanTasks] /\ calls \in [Tasks -> Seq(Commands)]
  BY DEF TInv, TypeOK
<1>1. CASE Quiet
  BY <1>1 DEF Quiet, Promise!vars
<1>2. CASE Opens
  <2>1. PICK t \in Tasks, c \in Commands \cup {None} :
          /\ task[t].state = "absent"
          /\ task' = [task EXCEPT ![t] = [state |-> "open", cmd |-> c]]
          /\ UNCHANGED calls
    BY <1>2 DEF Opens
  <2>2. state' = [state EXCEPT ![t] = "open"]
    BY <1>t, <2>1
  <2> QED
    BY <2>1, <2>2 DEF Promise!Next, Promise!Open
<1>3. CASE Closes
  <2>1. PICK t \in Tasks, r \in Promise!Resolutions :
          /\ task[t].state = "open"
          /\ task' = [task EXCEPT ![t].state = r]
          /\ UNCHANGED calls
    BY <1>3 DEF Closes
  <2>2. state' = [state EXCEPT ![t] = r]
    BY <1>t, <2>1 DEF HumanTasks
  <2> QED
    BY <2>1, <2>2 DEF Promise!Next, Promise!Close
<1>4. CASE CallsExecutor
  <2>1. PICK h \in Handlers, t \in Tasks, c \in Commands :
          /\ Holds(h, t)
          /\ calls' = [calls EXCEPT ![t] = Append(@, c)]
          /\ UNCHANGED task
    BY <1>4 DEF CallsExecutor
  <2>2. calls[t] = <<>> /\ state[t] = "approved"
    BY <2>1 DEF CallInv
  <2>3. calls' = [calls EXCEPT ![t] = <<c>>]
    BY <1>t, <2>1, <2>2
  <2> QED
    BY <2>1, <2>2, <2>3 DEF Promise!Next, Promise!Call
<1> QED
  BY <1>1, <1>2, <1>3, <1>4 DEF StepKind

(* The requests on an execution implement the promise of TaskPromise: a task *)
(* is opened once, closed once, and its approval spent once.                 *)
THEOREM PromiseKept == Spec => KeepsPromise
<1>1. Init => Promise!Init
  BY DEF Init, Promise!Init
<1>2. TInv /\ CallInv /\ [Next]_vars => [Promise!Next]_(Promise!vars)
  BY NextKind, PromiseStep
<1> QED
  BY <1>1, <1>2, TInvAlways, CallInvAlways, PTL DEF Spec, KeepsPromise, Promise!Spec
-------------------------------------------------------------------------------
(* Waiting for approval, when requests are served one after the other.       *)

(* The property is about requests that do not overlap, executors that do not *)
(* fail and a process that does not crash.  What a proposal was classified   *)
(* as still holds when it is put to approval again: the data stay as they    *)
(* are, or every command needs approval.                                     *)
OneRequest ==
  /\ \E h : Handlers = {h}
  /\ Faults = {}
  /\ MaxData = 0 \/ \A c \in Commands : Verdict[c] = "needs_approval"

OpenApproval == \E t \in Tasks : task[t].state = "open" /\ task[t].cmd # None

Writes(s) == s.pc \in {"check", "load", "store"}

(* The request has a command in hand that it executes, or puts to approval.  *)
InHand(s) ==
  \/ s.pc \in {"classify", "createTask", "execute"}
  \/ Writes(s) /\ s.to = "waiting_for_approval"

(* It puts the command to approval again, once it has written the row.       *)
AsksAgain(s) == s.next = "classify" /\ Verdict[s.cmd] = "needs_approval"

(* The request is on its way to end the wait, or to open another task.       *)
Leads(s) ==
  \/ Writes(s) /\ s.to \in {"resuming", "rejected", "cancelled", "expired"}
  \/ Writes(s) /\ s.to = "waiting_for_approval" /\ AsksAgain(s)
  \/ s.pc \in {"approved", "execute", "advance", "createTask"}
  \/ s.pc = "classify" /\ Verdict[s.cmd] = "needs_approval"

(* What holds of the one request and the row between any two statements.     *)
(* Nobody else writes, so the row is the one that was read.                  *)
Fits(s, r, open) ==
  /\ r.hash = r.intent
  /\ r.status = "waiting_for_approval" => r.intent # None
  /\ s.pc = "store" => s.seen = r
  /\ InHand(s) => s.cmd \in Commands /\ r.intent = s.cmd
  /\ s.pc = "settle" => s.to # "waiting_for_approval" /\ s.next = "idle"
  /\ Writes(s) =>
       /\ s.next = "classify" => s.to \in {"intent", "waiting_for_approval"}
       /\ s.to = "intent" => s.pc = "store" /\ s.next = "classify"
       /\ s.to = "waiting_for_approval" => open \/ AsksAgain(s)
  /\ s.pc = "execute" /\ s.task # None => s.seen.hash = s.cmd
  /\ r.status = "waiting_for_approval" /\ ~open => Leads(s)

LeadInv == \A h \in Handlers : Fits(handler[h], row, OpenApproval)

LEMMA LeadInit == OneRequest /\ Init => LeadInv
BY DEF Init, LeadInv, Fits, Idle, FirstRow, InHand, Writes

(* The request moves on; what it moves to fits the row as it is then.        *)
LEMMA MovesOn ==
  ASSUME OneRequest, TInv, NEW h \in Handlers, NEW s, Become(h, s), Fits(s, row', OpenApproval')
  PROVE  LeadInv'
<1>1. \A g \in Handlers : g = h
  BY DEF OneRequest
<1>2. handler'[h] = s
  BY DEF Become, TInv, TypeOK
<1> QED  BY <1>1, <1>2 DEF LeadInv

(* Requests that have no command in hand, and nothing to write, fit as long  *)
(* as somebody else leads the wait.                                          *)
Settled(r, open) ==
  /\ r.hash = r.intent
  /\ r.status = "waiting_for_approval" => r.intent # None
  /\ r.status = "waiting_for_approval" => open

LEMMA FitsIdle ==
  ASSUME NEW r, NEW open, Settled(r, open)
  PROVE  /\ Fits(Idle, r, open)
         /\ \A t, to : Fits(Closing(t, to), r, open)
         /\ \A t : Fits([Idle EXCEPT !.pc = "sweep", !.todo = t], r, open)
         /\ \A c : Fits([Idle EXCEPT !.pc = "propose", !.cmd = c], r, open)
         /\ Fits([Idle EXCEPT !.pc = "load", !.to = "evidence"], r, open)
<1>1. \A s : s.pc \in {"idle", "close", "sweep", "propose"} => Fits(s, r, open)
  BY DEF Settled, Fits, InHand, Writes
<1>2. \A s : s.pc = "load" /\ s.to = "evidence" /\ s.next = "idle" => Fits(s, r, open)
  BY DEF Settled, Fits, InHand, Writes
<1>3. Fits(Idle, r, open)
  BY <1>1 DEF Idle
<1>4. ASSUME NEW t, NEW to
      PROVE  Fits(Closing(t, to), r, open)
  <2>1. Closing(t, to).pc = "close"
    BY DEF Closing, Idle
  <2> QED  BY <1>1, <2>1
<1>5. ASSUME NEW t
      PROVE  Fits([Idle EXCEPT !.pc = "sweep", !.todo = t], r, open)
  <2> DEFINE s == [Idle EXCEPT !.pc = "sweep", !.todo = t]
  <2>1. s.pc = "sweep"
    BY DEF Idle
  <2> HIDE DEF s
  <2>2. Fits(s, r, open)
    BY <1>1, <2>1
  <2> QED  BY <2>2 DEF s
<1>6. ASSUME NEW c
      PROVE  Fits([Idle EXCEPT !.pc = "propose", !.cmd = c], r, open)
  <2> DEFINE s == [Idle EXCEPT !.pc = "propose", !.cmd = c]
  <2>1. s.pc = "propose"
    BY DEF Idle
  <2> HIDE DEF s
  <2>2. Fits(s, r, open)
    BY <1>1, <2>1
  <2> QED  BY <2>2 DEF s
<1>7. Fits([Idle EXCEPT !.pc = "load", !.to = "evidence"], r, open)
  <2> DEFINE s == [Idle EXCEPT !.pc = "load", !.to = "evidence"]
  <2>1. s.pc = "load" /\ s.to = "evidence" /\ s.next = "idle"
    BY DEF Idle
  <2> HIDE DEF s
  <2>2. Fits(s, r, open)
    BY <1>2, <2>1
  <2> QED  BY <2>2 DEF s
<1> QED  BY <1>3, <1>4, <1>5, <1>6, <1>7

LEMMA FitsSettle ==
  ASSUME NEW r, NEW open, Settled(r, open), NEW s \in HandlerStates,
         NEW to \in {"completed", "failed", "cancelled"}
  PROVE  Fits(Settle(s, to), r, open)
<1>1. LET q == Settle(s, to) IN q.pc = "settle" /\ q.to = to /\ q.next = "idle"
  BY DEF Settle, HandlerStates
<1> QED  BY <1>1 DEF Settled, Fits, InHand, Writes

LEMMA FitsTransit ==
  ASSUME NEW r, NEW open, NEW s \in HandlerStates,
         r.hash = r.intent, r.status = "waiting_for_approval" => r.intent # None,
         NEW to \in Status, NEW next \in Continuations, to # "waiting_for_approval", next # "classify",
         \/ Settled(r, open)
         \/ to \in {"resuming", "rejected", "cancelled", "expired"}
  PROVE  Fits(Transit(s, to, next), r, open)
<1>1. LET q == Transit(s, to, next) IN q.pc = "check" /\ q.to = to /\ q.next = next
  BY DEF Transit, HandlerStates
<1>2. to # "intent"
  BY DEF Status, Waiting, Terminal
<1> QED  BY <1>1, <1>2 DEF Settled, Fits, InHand, Writes, Leads

(* Putting a command to approval: its task is open, or will be once the row  *)
(* is written.                                                               *)
LEMMA FitsWaiting ==
  ASSUME NEW r, NEW open, NEW s \in HandlerStates, NEW next \in Continuations,
         r.hash = r.intent, s.cmd \in Commands, r.intent = s.cmd,
         open \/ (next = "classify" /\ Verdict[s.cmd] = "needs_approval")
  PROVE  Fits(Transit(s, "waiting_for_approval", next), r, open)
<1>1. LET q == Transit(s, "waiting_for_approval", next) IN
      q.pc = "check" /\ q.to = "waiting_for_approval" /\ q.next = next /\ q.cmd = s.cmd
  BY DEF Transit, HandlerStates
<1>2. s.cmd # None
  BY NoneAssumption DEF NoneAssumption
<1> QED  BY <1>1, <1>2 DEF Fits, InHand, Writes, Leads, AsksAgain

LEMMA OpenKept ==
  ASSUME UNCHANGED <<row, task>>
  PROVE  row' = row /\ OpenApproval' = OpenApproval
BY DEF OpenApproval

LEMMA StandsStill ==
  ASSUME OneRequest, TInv, UNCHANGED <<row, task>>,
         NEW h \in Handlers, NEW s, Become(h, s), Fits(s, row, OpenApproval)
  PROVE  LeadInv'
<1>1. row' = row /\ OpenApproval' = OpenApproval
  BY OpenKept
<1>2. Fits(s, row', OpenApproval')
  BY <1>1
<1> QED  BY <1>2, MovesOn

(* A request that begins finds the execution settled, and leaves it so.      *)
LEMMA IdleSettled ==
  ASSUME LeadInv, NEW h \in Handlers,
         handler[h].pc \in {"idle", "turn", "settle", "propose", "close", "sweep"}
  PROVE  Settled(row, OpenApproval)
BY DEF LeadInv, Fits, Settled, Leads, Writes

LEMMA BeginLeads ==
  ASSUME OneRequest, TInv, LeadInv, NEW h \in Handlers, Begin(h) \/ Sweep(h)
  PROVE  LeadInv'
<1>0. handler[h].pc = "idle"
  BY DEF Begin, Sweep, Start, RecordEvidence, Cancel, PauseForInput, Propose, Decide, SubmitInput,
         CancelTask, At
<1>1. Settled(row, OpenApproval)
  BY <1>0, IdleSettled
<1>2. CASE PauseForInput(h)
  <2>1. PICK t \in Tasks : /\ task[t].state = "absent"
                           /\ task' = [task EXCEPT ![t] = [state |-> "open", cmd |-> None]]
    BY <1>2 DEF PauseForInput
  <2>2. UNCHANGED row /\ Become(h, Transit(Idle, "waiting_for_input", "idle"))
    BY <1>2 DEF PauseForInput
  <2>3. OpenApproval => OpenApproval'
    BY <2>1 DEF OpenApproval, TInv, TypeOK
  <2>4. Settled(row, OpenApproval')
    BY <1>1, <2>3 DEF Settled
  <2>5. Fits(Transit(Idle, "waiting_for_input", "idle"), row, OpenApproval')
    BY <2>4, FitsTransit, IdleType DEF Settled, Status, Waiting
  <2> QED  BY <2>2, <2>5, MovesOn
<1>3. CASE ~PauseForInput(h)
  <2>1. UNCHANGED <<row, task>>
    BY <1>3 DEF Begin, Sweep, Start, RecordEvidence, Cancel, Propose, Decide, SubmitInput, CancelTask
  <2>2. Settled(row', OpenApproval')
    <3>1. row' = row /\ OpenApproval' = OpenApproval
      BY <2>1, OpenKept
    <3> QED  BY <1>1, <3>1
  <2>3. ASSUME NEW s, Become(h, s), Fits(s, row', OpenApproval')
        PROVE  LeadInv'
    BY <2>3, MovesOn
  <2>4. CASE Start(h) \/ \E c \in Commands : Propose(h, c)
    <3>1. ASSUME NEW c \in Commands
          PROVE  [Idle EXCEPT !.pc = "propose", !.cmd = c] \in HandlerStates
      BY IdleType DEF HandlerStates, Idle, Steps
    <3>2. ASSUME NEW s \in HandlerStates, NEW next \in {"turn", "propose"}
          PROVE  Fits(Transit(s, "running", next), row', OpenApproval')
      BY <2>2, FitsTransit DEF Settled, Status
    <3> QED  BY <2>2, <2>3, <2>4, <3>1, <3>2, FitsIdle, IdleType DEF Start, Propose
  <2>5. CASE Cancel(h)
    BY <2>2, <2>3, <2>5, FitsSettle, IdleType DEF Cancel
  <2>6. CASE RecordEvidence(h) \/ Sweep(h)
             \/ \E t \in Tasks : Decide(h, t) \/ SubmitInput(h, t) \/ CancelTask(h, t)
    <3>1. \/ Become(h, [Idle EXCEPT !.pc = "load", !.to = "evidence"])
          \/ \E t : Become(h, [Idle EXCEPT !.pc = "sweep", !.todo = t])
          \/ \E t, to : Become(h, Closing(t, to))
      BY <2>6 DEF RecordEvidence, Sweep, Decide, SubmitInput, CancelTask
    <3> QED  BY <2>2, <2>3, <3>1, FitsIdle
  <2> QED  BY <1>3, <2>4, <2>5, <2>6 DEF Begin
<1> QED  BY <1>2, <1>3

(* The row is written, and the request goes on to its next call.             *)
LEMMA FitsContinue ==
  ASSUME NEW r, NEW open, NEW s \in HandlerStates, Known(s),
         r.hash = r.intent, r.status = "waiting_for_approval" => r.intent # None,
         s.next = "classify" => s.cmd \in Commands /\ r.intent = s.cmd,
         r.status = "waiting_for_approval" => open \/ AsksAgain(s)
  PROVE  Fits(Continue(s), r, open)
<1>1. CASE s.next = "idle"
  BY <1>1, FitsIdle DEF Continue, Settled, AsksAgain
<1>2. CASE s.next = "toRunning"
  <2>1. Settled(r, open)
    BY <1>2 DEF Settled, AsksAgain
  <2> QED  BY <1>2, <2>1, FitsTransit DEF Continue, Status
<1>3. CASE s.next = "finish"
  <2>1. Settled(r, open)
    BY <1>3 DEF Settled, AsksAgain
  <2> QED  BY <1>3, <2>1, FitsSettle DEF Continue
<1>4. CASE s.next \notin {"idle", "toRunning", "finish"}
  <2> DEFINE q == [s EXCEPT !.pc = s.next, !.next = "idle", !.to = "created", !.seen = FirstRow]
  <2>1. Continue(s) = q
    BY <1>4 DEF Continue
  <2>2. s.next \in {"turn", "propose", "classify", "sweep"}
    BY <1>4 DEF Known
  <2>3. q.pc = s.next /\ q.cmd = s.cmd
    BY DEF HandlerStates
  <2> HIDE DEF q
  <2>4. r.status = "waiting_for_approval" /\ ~open => Leads(q)
    BY <2>3 DEF Leads, AsksAgain
  <2> QED  BY <2>1, <2>2, <2>3, <2>4 DEF Fits, InHand, Writes
<1> QED  BY <1>1, <1>2, <1>3, <1>4

LEMMA StoreLeads ==
  ASSUME OneRequest, TInv, LeadInv, NEW h \in Handlers, Store(h)
  PROVE  LeadInv'
<1> DEFINE s == handler[h]
<1>0. s \in HandlerStates /\ Known(s) /\ s.pc = "store" /\ Fits(s, row, OpenApproval)
  BY TInvHandler DEF Store, At, LeadInv
<1>1. row' = Merged(s) /\ Become(h, Continue(s)) /\ UNCHANGED task
  BY DEF Store
<1>2. OpenApproval' <=> OpenApproval
  BY <1>1 DEF OpenApproval
<1>3. s.seen = row /\ row \in Rows
  BY <1>0 DEF Fits, TInv, TypeOK
<1>4. CASE s.to = "evidence"
  <2>1. row' = row
    BY <1>1, <1>3, <1>4 DEF Merged
  <2>2. s.next # "classify" /\ ~Leads(s)
    BY <1>0, <1>4 DEF Fits, Writes, Leads
  <2>3. /\ row'.hash = row'.intent
        /\ row'.status = "waiting_for_approval" => row'.intent # None /\ OpenApproval'
    BY <1>0, <1>2, <2>1, <2>2 DEF Fits
  <2>4. Fits(Continue(s), row', OpenApproval')
    BY <1>0, <2>2, <2>3, FitsContinue
  <2> QED  BY <1>1, <2>4, MovesOn
<1>5. CASE s.to = "intent"
  <2>1. row' = [row EXCEPT !.intent = s.cmd, !.hash = s.cmd, !.version = data]
    BY <1>1, <1>3, <1>5 DEF Merged
  <2>2. row'.intent = s.cmd /\ row'.hash = s.cmd /\ row'.status = row.status
    BY <1>3, <2>1 DEF Rows
  <2>3. s.next = "classify" /\ s.cmd \in Commands /\ s.cmd # None
    BY <1>0, <1>5, NoneAssumption DEF Fits, Writes, Known, NoneAssumption
  <2>4. ~Leads(s)
    BY <1>0, <1>5 DEF Leads, Writes
  <2>5. row'.status = "waiting_for_approval" => OpenApproval'
    BY <1>0, <1>2, <2>2, <2>4 DEF Fits
  <2>6. Fits(Continue(s), row', OpenApproval')
    BY <1>0, <2>2, <2>3, <2>5, FitsContinue
  <2> QED  BY <1>1, <2>6, MovesOn
<1>6. CASE s.to \notin {"evidence", "intent"}
  <2>1. row'.status = s.to /\ row'.intent = row.intent /\ row'.hash = row.intent
    <3>1. CASE s.to = "waiting_for_approval" /\ s.task = None
      <4>1. row' = [row EXCEPT !.status = s.to, !.hash = s.cmd]
        BY <1>1, <1>3, <3>1 DEF Merged
      <4>2. row.intent = s.cmd
        BY <1>0, <3>1 DEF Fits, InHand, Writes
      <4> QED  BY <1>3, <4>1, <4>2 DEF Rows
    <3>2. CASE ~(s.to = "waiting_for_approval" /\ s.task = None)
      <4>1. row' = [row EXCEPT !.status = s.to]
        BY <1>1, <1>3, <1>6, <3>2 DEF Merged
      <4>2. row.hash = row.intent
        BY <1>0 DEF Fits
      <4> QED  BY <1>3, <4>1, <4>2 DEF Rows
    <3> QED  BY <3>1, <3>2
  <2>2. s.to = "waiting_for_approval" =>
          s.cmd \in Commands /\ row.intent = s.cmd /\ (OpenApproval \/ AsksAgain(s))
    BY <1>0 DEF Fits, InHand, Writes
  <2>3. s.next = "classify" => s.to = "waiting_for_approval"
    BY <1>0, <1>6 DEF Fits, Writes
  <2>4. None \notin Commands
    BY NoneAssumption DEF NoneAssumption
  <2>5. Fits(Continue(s), row', OpenApproval')
    BY <1>0, <1>2, <2>1, <2>2, <2>3, <2>4, FitsContinue
  <2> QED  BY <1>1, <2>5, MovesOn
<1> QED  BY <1>4, <1>5, <1>6

(* Checks and reads leave what the request is about to do as it was.         *)
LEMMA WriterLeads ==
  ASSUME OneRequest, TInv, LeadInv, NEW h \in Handlers,
         SettleGuard(h) \/ Check(h) \/ Load(h) \/ TurnEnds(h) \/ ProposeLoad(h)
  PROVE  LeadInv'
<1> DEFINE s == handler[h]
<1>0. s \in HandlerStates /\ Known(s) /\ Fits(s, row, OpenApproval)
  BY TInvHandler DEF LeadInv
<1>1. UNCHANGED <<row, task>>
  BY DEF SettleGuard, Check, Load, TurnEnds, ProposeLoad
<1>2. ASSUME NEW q, Become(h, q), Fits(q, row, OpenApproval)
      PROVE  LeadInv'
  BY <1>1, <1>2, StandsStill
<1>3. CASE SettleGuard(h)
  <2>1. s.pc = "settle" /\ s.to # "waiting_for_approval" /\ s.next = "idle" /\ s.to \in Status
    BY <1>0, <1>3 DEF SettleGuard, At, Fits, Known
  <2>2. Settled(row, OpenApproval)
    BY <2>1, IdleSettled
  <2>3. Fits(Continue(s), row, OpenApproval)
    BY <2>1, <2>2, FitsIdle DEF Continue
  <2>4. Fits([s EXCEPT !.pc = "check"], row, OpenApproval)
    <3> DEFINE q == [s EXCEPT !.pc = "check"]
    <3>1. q.pc = "check" /\ q.to = s.to /\ q.next = "idle" /\ s.to # "intent"
      BY <1>0, <2>1 DEF HandlerStates, Status, Waiting, Terminal
    <3> HIDE DEF q
    <3>2. Fits(q, row, OpenApproval)
      BY <2>1, <2>2, <3>1 DEF Settled, Fits, InHand, Writes
    <3> QED  BY <3>2 DEF q
  <2> QED  BY <1>2, <1>3, <2>3, <2>4 DEF SettleGuard
<1>4. CASE Check(h)
  <2>1. s.pc = "check" /\ s.to \in Status
    BY <1>0, <1>4 DEF Check, At, Known
  <2>2. CASE Legal(row.status, s.to)
    <3> DEFINE q == [s EXCEPT !.pc = "load"]
    <3>1. /\ q.pc = "load" /\ q.to = s.to /\ q.next = s.next /\ q.cmd = s.cmd
      BY <1>0 DEF HandlerStates
    <3>2. Become(h, q)
      BY <1>4, <2>2 DEF Check
    <3> HIDE DEF q
    <3>3. Fits(q, row, OpenApproval)
      BY <1>0, <2>1, <3>1 DEF Fits, InHand, Writes, Leads, AsksAgain
    <3> QED  BY <1>2, <3>2, <3>3
  <2>3. CASE ~Legal(row.status, s.to)
    <3>1. ~(row.status = "waiting_for_approval" /\ Leads(s))
      BY <2>1, <2>3 DEF Legal, AllowedTransitions, Leads, Writes, Status, Waiting, Terminal
    <3>2. Settled(row, OpenApproval)
      BY <1>0, <3>1 DEF Fits, Settled
    <3>3. Become(h, Idle)
      BY <1>4, <2>3 DEF Check
    <3> QED  BY <1>2, <3>2, <3>3, FitsIdle
  <2> QED  BY <2>2, <2>3
<1>5. CASE Load(h)
  <2> DEFINE q == [s EXCEPT !.pc = "store", !.seen = row]
  <2>1. /\ s.pc = "load" /\ q.pc = "store" /\ q.to = s.to /\ q.next = s.next /\ q.cmd = s.cmd
        /\ q.seen = row
    BY <1>0, <1>5 DEF Load, At, HandlerStates
  <2>2. Become(h, q)
    BY <1>5 DEF Load
  <2> HIDE DEF q
  <2>3. Fits(q, row, OpenApproval)
    BY <1>0, <2>1 DEF Fits, InHand, Writes, Leads, AsksAgain
  <2> QED  BY <1>2, <2>2, <2>3
<1>6. CASE TurnEnds(h)
  <2>1. Settled(row, OpenApproval)
    BY <1>6, IdleSettled DEF TurnEnds, At
  <2> QED  BY <1>2, <1>6, <2>1, FitsSettle, IdleType DEF TurnEnds
<1>7. CASE ProposeLoad(h)
  <2> DEFINE q == [s EXCEPT !.pc = "store", !.to = "intent", !.next = "classify", !.seen = row]
  <2>1. s.pc = "propose" /\ q.pc = "store" /\ q.to = "intent" /\ q.next = "classify" /\ q.seen = row
    BY <1>0, <1>7 DEF ProposeLoad, At, HandlerStates
  <2>2. Become(h, q)
    BY <1>7 DEF ProposeLoad
  <2>3. Settled(row, OpenApproval)
    BY <2>1, IdleSettled
  <2> HIDE DEF q
  <2>4. Fits(q, row, OpenApproval)
    BY <2>1, <2>3 DEF Settled, Fits, InHand, Writes
  <2> QED  BY <1>2, <2>2, <2>4
<1> QED  BY <1>3, <1>4, <1>5, <1>6, <1>7

(* A command is classified, put to approval, executed, and its execution     *)
(* moved on.                                                                 *)
LEMMA CommandLeads ==
  ASSUME OneRequest, TInv, LeadInv, NEW h \in Handlers,
         Classify(h) \/ CreateApprovalTask(h) \/ ReadApproved(h) \/ Execute(h) \/ Advance(h)
  PROVE  LeadInv'
<1> DEFINE s == handler[h]
<1>0. s \in HandlerStates /\ Known(s) /\ Fits(s, row, OpenApproval) /\ row \in Rows
  BY TInvHandler DEF LeadInv, TInv, TypeOK
<1>1. UNCHANGED row
  BY DEF Classify, CreateApprovalTask, ReadApproved, Execute, Advance
<1>2. ASSUME UNCHANGED task, NEW q, Become(h, q), Fits(q, row, OpenApproval)
      PROVE  LeadInv'
  BY <1>1, <1>2, StandsStill
<1>3. CASE Classify(h)
  <2>1. s.pc = "classify" /\ s.cmd \in Commands /\ row.intent = s.cmd
    BY <1>0, <1>3 DEF Classify, At, Fits, InHand
  <2>2. Verdict[s.cmd] # "needs_approval" => Settled(row, OpenApproval)
    BY <1>0, <2>1 DEF Fits, Settled, Leads, Writes
  <2>3. ASSUME NEW step \in {"createTask", "execute"}, step = "execute" => s.task = None
        PROVE  Fits([s EXCEPT !.pc = step], row, OpenApproval)
    <3> DEFINE q == [s EXCEPT !.pc = step]
    <3>1. q.pc = step /\ q.cmd = s.cmd /\ q.task = s.task
      BY <1>0 DEF HandlerStates
    <3> HIDE DEF q
    <3>2. Fits(q, row, OpenApproval)
      BY <1>0, <2>1, <2>3, <3>1 DEF Fits, InHand, Writes, Leads
    <3> QED  BY <3>2 DEF q
  <2>4. UNCHANGED task
    BY <1>3 DEF Classify
  <2>5. \/ Become(h, [s EXCEPT !.pc = "createTask"])
        \/ Become(h, [s EXCEPT !.pc = "execute"]) /\ s.task = None
        \/ Become(h, Idle) /\ Verdict[s.cmd] # "needs_approval"
    BY <1>3 DEF Classify
  <2> QED  BY <1>2, <2>2, <2>3, <2>4, <2>5, FitsIdle
<1>4. CASE CreateApprovalTask(h)
  <2>1. s.pc = "createTask" /\ s.cmd \in Commands /\ row.intent = s.cmd /\ row.hash = row.intent
    BY <1>0, <1>4 DEF CreateApprovalTask, At, Fits, InHand
  <2>2. PICK t \in Tasks : task' = [task EXCEPT ![t] = [state |-> "open", cmd |-> s.cmd]]
    BY <1>4 DEF CreateApprovalTask
  <2>3. task'[t].state = "open" /\ task'[t].cmd # None
    BY <2>1, <2>2, NoneAssumption DEF TInv, TypeOK, NoneAssumption
  <2>4. OpenApproval'
    BY <2>3 DEF OpenApproval
  <2>5. Fits(Transit(s, "waiting_for_approval", "idle"), row, OpenApproval')
    BY <1>0, <2>1, <2>4, FitsWaiting
  <2>6. Become(h, Transit(s, "waiting_for_approval", "idle"))
    BY <1>4 DEF CreateApprovalTask
  <2> QED  BY <1>1, <2>5, <2>6, MovesOn
<1>5. CASE ReadApproved(h)
  <2>1. s.pc = "approved" /\ UNCHANGED task
    BY <1>5 DEF ReadApproved, At
  <2>2. CASE row.intent = None
    <3>1. Settled(row, OpenApproval)
      BY <1>0, <2>2 DEF Fits, Settled
    <3> QED  BY <1>0, <1>2, <1>5, <2>1, <2>2, <3>1, FitsSettle DEF ReadApproved
  <2>3. CASE row.intent # None
    <3> DEFINE q == [s EXCEPT !.pc = "execute", !.cmd = row.intent, !.seen = row]
    <3>1. q.pc = "execute" /\ q.cmd = row.intent /\ q.seen = row
      BY <1>0 DEF HandlerStates
    <3>2. Become(h, q)
      BY <1>5, <2>3 DEF ReadApproved
    <3>3. row.intent \in Commands /\ row.hash = row.intent
      BY <1>0, <2>3 DEF Fits, Rows
    <3> HIDE DEF q
    <3>4. Fits(q, row, OpenApproval)
      BY <2>3, <3>1, <3>3 DEF Fits, InHand, Writes, Leads
    <3> QED  BY <1>2, <2>1, <3>2, <3>4
  <2> QED  BY <2>2, <2>3
<1>6. CASE Execute(h)
  <2> DEFINE r == [s EXCEPT !.seen = FirstRow]
  <2>1. s.pc = "execute" /\ UNCHANGED task /\ s.cmd \in Commands /\ row.intent = s.cmd
    BY <1>0, <1>6 DEF Execute, At, Fits, InHand
  <2>2. r \in HandlerStates /\ r.cmd = s.cmd /\ r.task = s.task
    BY <1>0, IdleType DEF HandlerStates
  <2>3. /\ row.hash = row.intent
        /\ row.status = "waiting_for_approval" => row.intent # None
    BY <1>0 DEF Fits
  <2>4. \/ Become(h, [r EXCEPT !.pc = "advance"])
        \/ Become(h, Transit(r, "waiting_for_approval", "classify")) /\ ~Verified(s)
    BY <1>6 DEF Execute, OneRequest
  <2>5. Fits([r EXCEPT !.pc = "advance"], row, OpenApproval)
    <3> DEFINE q == [r EXCEPT !.pc = "advance"]
    <3>1. q.pc = "advance"
      BY <2>2 DEF HandlerStates
    <3> HIDE DEF q
    <3>2. Fits(q, row, OpenApproval)
      BY <2>3, <3>1 DEF Fits, InHand, Writes, Leads
    <3> QED  BY <3>2 DEF q
  <2>6. ASSUME ~Verified(s)
        PROVE  Verdict[s.cmd] = "needs_approval"
    <3>1. CASE MaxData = 0
      <4>1. s.seen.hash = s.cmd
        BY <1>0, <2>1, <2>6 DEF Fits, Verified
      <4>2. s.seen.version = 0 /\ data = 0
        BY <1>0, <3>1 DEF HandlerStates, Rows, TInv, TypeOK
      <4> QED  BY <2>6, <4>1, <4>2 DEF Verified
    <3> QED  BY <2>1, <3>1 DEF OneRequest
  <2>7. ~Verified(s) => Fits(Transit(r, "waiting_for_approval", "classify"), row, OpenApproval)
    BY <2>1, <2>2, <2>3, <2>6, FitsWaiting
  <2> QED  BY <1>2, <2>1, <2>4, <2>5, <2>7
<1>7. CASE Advance(h)
  <2>1. UNCHANGED task /\ row.hash = row.intent
        /\ (row.status = "waiting_for_approval" => row.intent # None)
    BY <1>0, <1>7 DEF Advance, Fits
  <2>2. CASE row.status \in Waiting
    <3>1. Fits(Transit(s, "resuming", "toRunning"), row, OpenApproval)
      BY <1>0, <2>1, FitsTransit DEF Status
    <3> QED  BY <1>2, <1>7, <2>1, <2>2, <3>1 DEF Advance
  <2>3. CASE row.status \notin Waiting
    <3>1. Settled(row, OpenApproval)
      BY <2>1, <2>3 DEF Settled, Waiting
    <3> QED  BY <1>0, <1>2, <1>7, <2>1, <2>3, <3>1, FitsSettle DEF Advance
  <2> QED  BY <2>2, <2>3
<1> QED  BY <1>3, <1>4, <1>5, <1>6, <1>7

(* Whoever closes a task leads from then on.                                 *)
LEMMA CloserLeads ==
  ASSUME OneRequest, TInv, LeadInv, NEW h \in Handlers, Close(h) \/ SweepNext(h)
  PROVE  LeadInv'
<1> DEFINE s == handler[h]
<1>0. s \in HandlerStates /\ Known(s) /\ Fits(s, row, OpenApproval)
  BY TInvHandler DEF LeadInv
<1>1. UNCHANGED row /\ s.pc \in {"close", "sweep"}
  BY DEF Close, SweepNext, At
<1>2. Settled(row, OpenApproval)
  BY <1>1, IdleSettled
<1>3. row.hash = row.intent /\ (row.status = "waiting_for_approval" => row.intent # None)
  BY <1>2 DEF Settled
<1>4. ASSUME NEW q, Become(h, q), Fits(q, row, OpenApproval')
      PROVE  LeadInv'
  BY <1>1, <1>4, MovesOn
<1>5. CASE Close(h)
  <2>1. s.pc = "close" /\ s.to \in {"approved", "rejected", "cancelled", "resuming"}
    BY <1>0, <1>5 DEF Close, At, Known
  <2>2. CASE Become(h, Idle) /\ UNCHANGED task
    BY <1>1, <1>2, <2>2, StandsStill, FitsIdle
  <2>3. CASE s.to = "approved" /\ Become(h, [s EXCEPT !.pc = "approved"])
    <3> DEFINE q == [s EXCEPT !.pc = "approved"]
    <3>1. q.pc = "approved"
      BY <1>0 DEF HandlerStates
    <3> HIDE DEF q
    <3>2. Fits(q, row, OpenApproval')
      BY <1>3, <3>1 DEF Fits, InHand, Writes, Leads
    <3> QED  BY <1>4, <2>3, <3>2 DEF q
  <2>4. CASE s.to # "approved" /\ Become(h, Transit(s, s.to, "idle"))
    <3>1. Fits(Transit(s, s.to, "idle"), row, OpenApproval')
      BY <1>0, <1>3, <2>1, <2>4, FitsTransit DEF Status, Terminal
    <3> QED  BY <1>4, <2>4, <3>1
  <2> QED  BY <1>5, <2>2, <2>3, <2>4 DEF Close
<1>6. CASE SweepNext(h)
  <2>1. ASSUME NEW t \in s.todo
        PROVE  [s EXCEPT !.todo = @ \ {t}] \in HandlerStates
    BY <1>0 DEF HandlerStates
  <2>2. ASSUME NEW t \in s.todo, Become(h, Transit([s EXCEPT !.todo = @ \ {t}], "expired", "sweep"))
        PROVE  LeadInv'
    <3>1. Fits(Transit([s EXCEPT !.todo = @ \ {t}], "expired", "sweep"), row, OpenApproval')
      BY <1>3, <2>1, FitsTransit DEF Status, Terminal
    <3> QED  BY <1>4, <2>2, <3>1
  <2>3. ASSUME NEW t \in s.todo, Become(h, [s EXCEPT !.todo = @ \ {t}]), UNCHANGED task
        PROVE  LeadInv'
    <3> DEFINE q == [s EXCEPT !.todo = @ \ {t}]
    <3>1. q.pc = "sweep"
      BY <1>0, <1>6 DEF SweepNext, At, HandlerStates
    <3> HIDE DEF q
    <3>2. Fits(q, row, OpenApproval)
      BY <1>2, <3>1 DEF Settled, Fits, InHand, Writes
    <3> QED  BY <1>1, <2>3, <3>2, StandsStill DEF q
  <2>4. CASE Become(h, Idle) /\ UNCHANGED task
    BY <1>1, <1>2, <2>4, StandsStill, FitsIdle
  <2> QED  BY <1>6, <2>2, <2>3, <2>4 DEF SweepNext
<1> QED  BY <1>5, <1>6

LEMMA LeadStep ==
  ASSUME OneRequest, TInv, LeadInv, [Next]_vars
  PROVE  LeadInv'
<1>1. ASSUME UNCHANGED <<row, task, handler>>
      PROVE  LeadInv'
  <2>1. row' = row /\ OpenApproval' = OpenApproval /\ handler' = handler
    BY <1>1 DEF OpenApproval
  <2> QED  BY <2>1 DEF LeadInv
<1>2. ~CrashRestart
  BY DEF CrashRestart, OneRequest
<1>3. ASSUME NEW h \in Handlers, Proceed(h)
      PROVE  LeadInv'
  BY <1>3, StoreLeads, WriterLeads, CommandLeads, CloserLeads DEF Proceed
<1>4. ASSUME NEW h \in Handlers, Begin(h) \/ Sweep(h)
      PROVE  LeadInv'
  BY <1>4, BeginLeads
<1>5. (\E t \in Tasks : BecomeDue(t)) \/ DataChanges \/ UNCHANGED vars
      => UNCHANGED <<row, task, handler>>
  BY DEF BecomeDue, DataChanges, vars
<1> QED  BY <1>1, <1>2, <1>3, <1>4, <1>5 DEF Next

(* An execution that waits for approval has an open task, or a request that  *)
(* is about to end the wait or to open another (proposeCommand against the   *)
(* ways a task is closed and the state machine of types.ts).                 *)
THEOREM LeadHolds ==
  ASSUME OneRequest
  PROVE  Spec => []WaitingHasALead
<1>1. LeadInv => WaitingHasALead
  <2> SUFFICES ASSUME LeadInv, row.status = "waiting_for_approval", ~OpenApproval
               PROVE  \E h \in Handlers : handler[h].pc \notin {"idle", "turn"}
    BY DEF WaitingHasALead, OpenApproval
  <2>1. PICK h \in Handlers : TRUE
    BY DEF OneRequest
  <2>2. Leads(handler[h])
    BY DEF LeadInv, Fits
  <2> QED  BY <2>2 DEF Leads, Writes
<1>2. Init => LeadInv
  BY LeadInit
<1>3. TInv /\ LeadInv /\ [Next]_vars => LeadInv'
  BY LeadStep
<1> QED  BY <1>1, <1>2, <1>3, TInvAlways, PTL DEF Spec
===============================================================================
