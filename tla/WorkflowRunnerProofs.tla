------------------------- MODULE WorkflowRunnerProofs -------------------------
(***************************************************************************)
(* Theorems about WorkflowRunner: every variable keeps its type, and what   *)
(* a flow keeps that is run once, on any number of processes that may die   *)
(* at any time; that is in memory, and run as often as one likes; or that   *)
(* is run as often as one likes anywhere, with crashes and whatever else,   *)
(* by requests that do not overlap.                                         *)
(***************************************************************************)
EXTENDS WorkflowRunner, FiniteSetTheorems, TLAPS

-------------------------------------------------------------------------------
(* Types: what the sets of TypeOK leave open.                                *)

Moving == {"settle", "check", "load", "store"}
Stepping == {"perform", "classify", "execute", "pause", "next", "route", "bound",
             "approved", "into"}

FlowOK(f) == f.step \in {"running", "waiting"} => f.steps < MaxSteps

Opened(t) == t # None => task[t].state # "absent"

(* Of the local variables of a call alone.                                   *)
Locals(s) ==
  /\ s.next \in {"idle", "run?", "resume", "release", "into", "route", "next",
                 "classify", "fail", "orFail"}
  /\ s.pc \notin Moving \cup {"wake"} => s.next = "idle"
  /\ s.pc = "wake" => s.next \in {"next", "into", "route"}
  /\ s.job = "none" =>
       \/ s.pc \in {"idle", "down", "run?", "resume?"}
       \/ (s.pc \in Moving /\ s.next \in {"idle", "run?"})
  /\ s.pc \in Stepping \/ s.next \in {"next", "into", "route", "classify"} =>
       s.flow.steps < MaxSteps
  /\ s.pc = "execute" => s.seen.intent \in Nodes
  /\ FlowOK(s.seen.flow)

(* Of its tasks.                                                             *)
Tasked(s) ==
  /\ Opened(s.task) /\ Opened(s.flow.task) /\ Opened(s.seen.flow.task)
  /\ s.pc = "reconcile" => s.task # None
  /\ s.pc \in {"resume?", "resume", "bound", "approved", "unresumable"}
       \/ s.next = "resume" =>
       s.task # None /\ task[s.task].state \in Resolution
  /\ s.pc = "unresumable" => task[s.task].state \in {"cancelled", "expired"}

(* Who has entered the lock of his process, and not left it.                 *)
Locked(s) == s.job # "none" /\ s.pc \notin {"run", "resume"}

LockInv == \A h \in Handlers : Locked(handler[h]) => HoldsLock(h)

TInv ==
  /\ TypeOK
  /\ FlowOK(row.flow) /\ Opened(row.flow.task)
  /\ \A h \in Handlers : Locals(handler[h]) /\ Tasked(handler[h])
  /\ LockInv

-------------------------------------------------------------------------------
(* A flow that was started once, where no request rewrites the row next to   *)
(* the runner: behind SQL the upsert of a cancellation or of a usage report  *)
(* may take back what the runner has written since it read the row.          *)
OneRun ==
  /\ runs <= 1
  /\ Backend = "memory" \/ Faults \cap {"cancel", "usage"} = {}

Quiet == row.status # "waiting_for_approval"

(* Calls that change nothing but the status of a flow that is in memory, and *)
(* calls that have not begun or are about to end; the others drive the flow. *)
Aside(s) == s.pc \in Moving /\ s.next = "idle" /\ s.to \in {"cancelled", "usage"}
Resting(s) == s.pc \in {"idle", "down", "resume?", "resume", "release"}
Driving(s) == ~Resting(s) /\ ~Aside(s)

(* Who acts, or is about to act, on the resolution of his task.              *)
Claiming(s) ==
  \/ s.pc \in {"resume?", "resume"}
  \/ /\ Driving(s) /\ s.pc \notin {"pause", "thrown"}
     /\ s.pc \in Moving => s.to # "waiting_for_approval"

Claims(h, t) == handler[h].task = t /\ Claiming(handler[h])

ClaimInv ==
  \A t \in Tasks :
    /\ task[t].state \in {"absent", "open"} => \A h \in Handlers : ~Claims(h, t)
    /\ \A g, h \in Handlers : Claims(g, t) /\ Claims(h, t) => g = h

(* The history behind the step of the flow.                                  *)
Clean(k) ==
  \A j \in StepNumbers :
    j >= k => walk[j] = None /\ calls[j] = <<>> /\ Promise!Asked(j) = {}

Step0 == row.flow.steps
Node0 == row.flow.current

Visited == Step0 \in StepNumbers /\ walk[Step0] = Node0 /\ Clean(Step0 + 1)

AskedBy(t) ==
  /\ t \in Tasks /\ Promise!Asked(Step0) = {t}
  /\ Type[Node0] \in {"review", "command"}
  /\ Type[Node0] = "command" => row.intent = Node0

Unspent(t) ==
  \/ task[t].state = "open"
  \/ \E h \in Handlers : handler[h].task = t
       /\ handler[h].pc \in {"resume?", "resume", "bound", "approved", "execute"}

FlowInv ==
  /\ row.flow.step = "pending" => Clean(Step0) /\ Promise!Follows(Step0, Node0)
  /\ row.flow.step \in {"running", "waiting"} => Visited
  /\ row.flow.step = "waiting" => AskedBy(row.flow.task)
  /\ row.flow.step = "waiting" /\ Unspent(row.flow.task) => calls[Step0] = <<>>
  /\ \A k \in StepNumbers : Len(calls[k]) <= 1
  /\ ~Quiet => row.flow.step = "waiting"

Begun ==
  /\ Quiet /\ row.flow = FirstFlow
  /\ Promise!Init

(* The stages of the one that drives.                                        *)
Starting(s) == s.pc \in {"run?", "run"} \/ (s.pc \in Moving /\ s.next = "run?")

Performing(s) ==
  \/ s.pc \in {"perform", "classify"} \/ (s.pc \in Moving /\ s.next = "classify")
  \/ (s.pc = "execute" /\ s.task = None)

Routing(s) == s.pc = "next" \/ (s.pc \in Moving \cup {"wake"} /\ s.next = "next")

Outgoing(s) ==
  s.pc \in {"into", "route"} \/ (s.pc \in Moving \cup {"wake"} /\ s.next \in {"into", "route"})

Answering(s) ==
  \/ s.pc \in {"bound", "approved", "unresumable"} \/ Outgoing(s)
  \/ (s.pc = "execute" /\ s.task # None)

Unasked == Promise!Asked(Step0) = {} /\ calls[Step0] = <<>>

Stage(s) ==
  /\ s.pc = "store" => s.seen.flow = row.flow /\ s.seen.intent = row.intent
  /\ s.pc = "store" /\ s.to = "intent" => s.seen.status # "waiting_for_approval"
  /\ s.pc # "reconcile" /\ s.next # "resume"
  /\ Starting(s) => Begun /\ s.task = None
  /\ s.pc \in Moving /\ s.next = "run?" => s.to = "running"
  /\ s.pc \in {"step", "reload"} =>
       Quiet /\ s.flow = row.flow /\ row.flow.step = "pending" /\ s.task = None
  /\ Performing(s) =>
       Quiet /\ s.flow = row.flow /\ row.flow.step = "running" /\ s.task = None /\ Unasked
  /\ s.pc \in Moving /\ s.next = "classify" =>
       s.to = "intent" /\ s.pc \in {"load", "store"} /\ Type[Node0] = "command"
  /\ s.pc \in Moving /\ s.to = "intent" => s.next = "classify"
  /\ s.pc \in Moving => s.to # "usage"
  /\ s.pc = "classify" => Type[Node0] = "command" /\ row.intent = Node0
  /\ s.pc = "execute" => /\ s.seen.intent = Node0 /\ Type[Node0] = "command"
                         /\ s.task = None => Verdict[Node0] = "auto_approve"
  /\ s.pc = "pause" => /\ Quiet /\ s.flow = row.flow /\ row.flow.step = "running"
                       /\ AskedBy(s.task) /\ calls[Step0] = <<>>
  /\ s.pc \in Moving /\ s.to = "waiting_for_approval" =>
       /\ s.next = "release" /\ s.pc # "settle"
       /\ Quiet /\ row.flow.step = "waiting" /\ row.flow.task = s.task /\ calls[Step0] = <<>>
  /\ Routing(s) => /\ Quiet /\ s.flow = row.flow /\ row.flow.step = "running" /\ s.task = None
                   /\ s.outcome \in Promise!Outcomes(Step0)
  /\ Answering(s) => /\ s.flow = row.flow /\ row.flow.step = "waiting"
                     /\ s.task = row.flow.task /\ s.job = "resume"
  /\ Outgoing(s) => s.outcome \in Promise!Outcomes(Step0)
  /\ s.pc = "approved" \/ (s.pc = "execute" /\ s.task # None) =>
       task[row.flow.task].state = "approved" /\ Type[Node0] = "command"
  /\ s.pc \in Moving /\ s.next \in {"into", "route", "next"} =>
       s.to \in {"resuming", "running"} \/ (s.to = "failed" /\ s.next = "into")
  /\ s.pc = "route" \/ (s.pc \in Moving /\ s.next \in {"into", "route"} /\ s.to = "running") => Quiet

DriverInv ==
  /\ \A g, h \in Handlers : Driving(handler[g]) /\ Driving(handler[h]) => g = h
  /\ \A h \in Handlers : Driving(handler[h]) =>
       /\ Stage(handler[h])
       /\ ~Quiet => /\ Claims(h, row.flow.task) /\ handler[h].job = "resume"
  /\ \A h \in Handlers : Aside(handler[h]) =>
       Backend = "memory" /\ handler[h].pc # "store" /\ handler[h].job = "none"
  /\ \A h \in Handlers : handler[h].pc = "resume" => handler[h].job = "resume"
  /\ Backend = "memory" => \A h \in Handlers : handler[h].pc # "store"
  /\ runs = 0 => Begun /\ \A h \in Handlers : ~Driving(handler[h])

-------------------------------------------------------------------------------
(* The records a call goes through.                                          *)

LEMMA GoTypes ==
  ASSUME NEW s \in Calls, NEW p \in Places
  PROVE  /\ Go(s, p) \in Calls
         /\ Go(s, p).pc = p /\ Go(s, p).next = "idle" /\ Go(s, p).to = "created"
         /\ Go(s, p).job = s.job /\ Go(s, p).seen = FirstRow /\ Go(s, p).flow = s.flow
         /\ Go(s, p).version = s.version /\ Go(s, p).task = s.task
         /\ Go(s, p).outcome = s.outcome
<1>1. FirstRow \in Rows
  BY FlowAssumption DEF FlowAssumption, FirstRow, FirstFlow, Rows, Flows, Status
<1>2. "idle" \in Places /\ "created" \in Status
  BY DEF Places, Status
<1> QED  BY <1>1, <1>2 DEF Go, Calls

LEMMA TransitTypes ==
  ASSUME NEW s \in Calls, NEW to \in Status \cup {"usage", "intent"},
         NEW next \in Places \cup {"fail", "orFail"}
  PROVE  LET c == Transit(s, to, next) IN
         /\ c \in Calls
         /\ c.pc = "check" /\ c.next = next /\ c.to = to
         /\ c.job = s.job /\ c.seen = FirstRow /\ c.flow = s.flow
         /\ c.version = s.version /\ c.task = s.task /\ c.outcome = s.outcome
<1>1. "check" \in Places
  BY DEF Places
<1> DEFINE g == Go(s, "check")
<1>2. /\ g \in Calls /\ g.pc = "check" /\ g.job = s.job /\ g.seen = FirstRow /\ g.flow = s.flow
      /\ g.version = s.version /\ g.task = s.task /\ g.outcome = s.outcome
  BY <1>1, GoTypes
<1>3. Transit(s, to, next) = [g EXCEPT !.to = to, !.next = next]
  BY DEF Transit
<1> DEFINE c == Transit(s, to, next)
<1> HIDE DEF g, c
<1>4. c = [g EXCEPT !.to = to, !.next = next]
  BY <1>3 DEF c
<1>5. c \in Calls
  BY <1>2, <1>4 DEF Calls
<1>6. /\ c.pc = g.pc /\ c.next = next /\ c.to = to /\ c.job = g.job /\ c.seen = g.seen
      /\ c.flow = g.flow /\ c.version = g.version /\ c.task = g.task /\ c.outcome = g.outcome
  BY <1>2, <1>4 DEF Calls
<1> QED  BY <1>2, <1>5, <1>6 DEF c

LEMMA SettleTypes ==
  ASSUME NEW s \in Calls, NEW to \in Status \cup {"usage", "intent"},
         NEW next \in Places \cup {"fail", "orFail"}
  PROVE  LET c == Settle(s, to, next) IN
         /\ c \in Calls
         /\ c.pc = "settle" /\ c.next = next /\ c.to = to
         /\ c.job = s.job /\ c.seen = FirstRow /\ c.flow = s.flow
         /\ c.version = s.version /\ c.task = s.task /\ c.outcome = s.outcome
<1>1. "settle" \in Places
  BY DEF Places
<1> DEFINE g == Go(s, "settle")
<1>2. /\ g \in Calls /\ g.pc = "settle" /\ g.job = s.job /\ g.seen = FirstRow /\ g.flow = s.flow
      /\ g.version = s.version /\ g.task = s.task /\ g.outcome = s.outcome
  BY <1>1, GoTypes
<1>3. Settle(s, to, next) = [g EXCEPT !.to = to, !.next = next]
  BY DEF Settle
<1> DEFINE c == Settle(s, to, next)
<1> HIDE DEF g, c
<1>4. c = [g EXCEPT !.to = to, !.next = next]
  BY <1>3 DEF c
<1>5. c \in Calls
  BY <1>2, <1>4 DEF Calls
<1>6. /\ c.pc = g.pc /\ c.next = next /\ c.to = to /\ c.job = g.job /\ c.seen = g.seen
      /\ c.flow = g.flow /\ c.version = g.version /\ c.task = g.task /\ c.outcome = g.outcome
  BY <1>2, <1>4 DEF Calls
<1> QED  BY <1>2, <1>5, <1>6 DEF c

LEMMA FreeTypes ==
  /\ Free \in Calls /\ FirstRow \in Rows /\ FirstFlow \in Flows
  /\ Free.pc = "idle" /\ Free.next = "idle" /\ Free.to = "created" /\ Free.job = "none"
  /\ Free.seen = FirstRow /\ Free.flow = FirstFlow /\ Free.task = None
  /\ FirstRow.flow = FirstFlow /\ FirstRow.intent = None /\ FirstRow.status = "created"
  /\ FirstFlow.steps = 0 /\ FirstFlow.step = "pending" /\ FirstFlow.task = None
  /\ FirstFlow.current = Start
BY FlowAssumption DEF FlowAssumption, Free, FirstRow, FirstFlow, Rows, Flows, Calls, Places,
                      Status, Outcomes

LEMMA ContinueTypes ==
  ASSUME NEW s \in Calls, Locals(s)
  PROVE  /\ Continue(s) \in Calls
         /\ s.next = "idle" => Continue(s) = Free
         /\ s.next = "fail" => Continue(s) = Settle(s, "failed", "release")
         /\ s.next = "orFail" => Continue(s) = Go(s, "release")
         /\ s.next \notin {"idle", "fail", "orFail"} =>
              Continue(s) = IF s.to = "resuming" THEN Transit(s, "running", s.next)
                                                 ELSE Go(s, s.next)
<1>1. /\ "release" \in Places
      /\ "failed" \in Status /\ "running" \in Status
      /\ s.next \notin {"fail", "orFail"} => s.next \in Places
  BY DEF Places, Status, Terminal, Locals
<1>2. /\ Settle(s, "failed", "release") \in Calls /\ Go(s, "release") \in Calls
      /\ s.next \notin {"fail", "orFail"} =>
           Transit(s, "running", s.next) \in Calls /\ Go(s, s.next) \in Calls
  BY <1>1, SettleTypes, TransitTypes, GoTypes
<1> QED  BY <1>2, FreeTypes DEF Continue

-------------------------------------------------------------------------------
(* Types.                                                                    *)

Forward ==
  \A t \in Tasks :
    \/ task'[t] = task[t]
    \/ task[t].state = "absent" /\ task'[t].state = "open"
    \/ task[t].state = "open" /\ task'[t].state \in Resolution

Typed ==
  /\ row \in Rows
  /\ task \in [Tasks -> HumanTasks]
  /\ runs \in 0..MaxRuns
  /\ walk \in [StepNumbers -> Nodes \cup {None}]
  /\ calls \in [StepNumbers -> Seq(Nodes)]

LEMMA ForwardKeepsTasked ==
  ASSUME NEW s \in Calls, Tasked(s), Forward
  PROVE  Tasked(s)'
<1>1. {s.task, s.flow.task, s.seen.flow.task} \subseteq Tasks \cup {None}
  BY DEF Calls, Rows, Flows
<1> QED  BY <1>1 DEF Tasked, Forward, Opened, Resolution

LEMMA MoveTypes ==
  ASSUME TInv, NEW h \in Handlers, NEW s \in Calls, Become(h, s), Locals(s), Tasked(s)',
         UNCHANGED <<deployment, chain>>, Locked(s) => HoldsLock(h),
         Typed', Forward, FlowOK(row'.flow), Opened(row.flow.task)'
  PROVE  TInv'
<1>1. handler' = [handler EXCEPT ![h] = s] /\ handler' \in [Handlers -> Calls]
  BY DEF Become, TInv, TypeOK
<1>2. TypeOK'
  BY <1>1 DEF TInv, TypeOK, Typed, MaxRuns
<1>3. (\A g \in Handlers : Locals(handler[g]) /\ Tasked(handler[g]))'
  BY <1>1, ForwardKeepsTasked DEF TInv, TypeOK
<1>4. LockInv'
  BY <1>1 DEF TInv, TypeOK, LockInv, HoldsLock, ProcessOf
<1> QED  BY <1>2, <1>3, <1>4 DEF TInv

LEMMA GoOnTypes ==
  ASSUME TInv, NEW h \in Handlers, NEW s \in Calls, Become(h, s), Locals(s), Tasked(s),
         UNCHANGED <<deployment, row, task, chain, runs, history>>,
         Locked(s) => HoldsLock(h)
  PROVE  TInv'
<1>1. Typed' /\ Forward /\ FlowOK(row'.flow) /\ Opened(row.flow.task)'
  BY DEF TInv, TypeOK, Typed, Forward, Opened, history, MaxRuns
<1> QED  BY <1>1, ForwardKeepsTasked, MoveTypes

LEMMA DownTypes ==
  /\ Down \in Calls /\ Down.pc = "down" /\ Down.next = "idle" /\ Down.job = "none"
  /\ Down.task = None /\ Down.to = "created" /\ Down.seen = FirstRow /\ Down.flow = FirstFlow
<1>1. "down" \in Places
  BY DEF Places
<1> QED  BY <1>1, FreeTypes DEF Down, Calls

LEMMA FreeKeeps == Locals(Free) /\ Tasked(Free) /\ ~Locked(Free) /\ FlowOK(FirstFlow) /\ FlowOK(FirstRow.flow)
BY FreeTypes DEF Locals, Tasked, Locked, FlowOK, Opened, Moving, Stepping

(* A call takes its lock with it from one stretch of code to the next.       *)
LEMMA HandlerTypes ==
  ASSUME TInv, NEW h \in Handlers
  PROVE  /\ handler[h] \in Calls /\ Locals(handler[h]) /\ Tasked(handler[h])
         /\ Locked(handler[h]) => HoldsLock(h)
BY DEF TInv, TypeOK, LockInv

LEMMA GoKeeps ==
  ASSUME NEW s \in Calls, Locals(s), Tasked(s), NEW p \in Places, s.job # "none",
         p \in Stepping => s.flow.steps < MaxSteps, p # "execute",
         p = "reconcile" => s.task # None,
         p \notin {"resume?", "resume", "bound", "approved", "unresumable", "wake"}
  PROVE  Go(s, p) \in Calls /\ Locals(Go(s, p)) /\ Tasked(Go(s, p))
<1>1. /\ Go(s, p) \in Calls
      /\ Go(s, p).pc = p /\ Go(s, p).next = "idle" /\ Go(s, p).job = s.job
      /\ Go(s, p).seen = FirstRow /\ Go(s, p).flow = s.flow /\ Go(s, p).task = s.task
  BY GoTypes
<1>2. Locals(Go(s, p))
  BY <1>1, FreeTypes, FreeKeeps DEF Locals
<1>3. Tasked(Go(s, p))
  BY <1>1, FreeTypes DEF Tasked, Opened
<1> QED  BY <1>1, <1>2, <1>3

LEMMA TransitKeeps ==
  ASSUME NEW s \in Calls, Locals(s), Tasked(s), NEW to \in Status,
         NEW next \in {"resume", "release", "into", "route", "next", "fail", "orFail"},
         s.job # "none",
         next \in {"next", "into", "route"} => s.flow.steps < MaxSteps,
         next = "resume" => s.task # None /\ task[s.task].state \in Resolution
  PROVE  /\ Transit(s, to, next) \in Calls
         /\ Locals(Transit(s, to, next)) /\ Tasked(Transit(s, to, next))
         /\ Settle(s, to, next) \in Calls
         /\ Locals(Settle(s, to, next)) /\ Tasked(Settle(s, to, next))
<1> DEFINE t == Transit(s, to, next)
           u == Settle(s, to, next)
<1>1. /\ t \in Calls /\ u \in Calls
      /\ t.pc = "check" /\ t.next = next /\ t.job = s.job
      /\ t.seen = FirstRow /\ t.flow = s.flow /\ t.task = s.task
      /\ u.pc = "settle" /\ u.next = next /\ u.job = s.job
      /\ u.seen = FirstRow /\ u.flow = s.flow /\ u.task = s.task
  <2>1. next \in Places \cup {"fail", "orFail"}
    BY DEF Places
  <2> QED  BY <2>1, TransitTypes, SettleTypes
<1> HIDE DEF t, u
<1>2. Locals(t) /\ Locals(u)
  BY <1>1, FreeTypes, FreeKeeps DEF Locals, Moving, Stepping
<1>3. Tasked(t) /\ Tasked(u)
  BY <1>1, FreeTypes DEF Tasked, Opened
<1> QED  BY <1>1, <1>2, <1>3 DEF t, u

LEMMA ContinueKeeps ==
  ASSUME TInv, NEW h \in Handlers, handler[h].pc \in Moving
  PROVE  LET c == Continue(handler[h]) IN
         c \in Calls /\ Locals(c) /\ Tasked(c) /\ (Locked(c) => HoldsLock(h))
<1> DEFINE s == handler[h]
           c == Continue(s)
<1>1. s \in Calls /\ Locals(s) /\ Tasked(s) /\ (s.job # "none" => HoldsLock(h))
  BY HandlerTypes DEF Locked, Moving
<1>2. c \in Calls
  BY <1>1, ContinueTypes
<1>3. CASE s.next = "idle"
  BY <1>1, <1>2, <1>3, ContinueTypes, FreeKeeps
<1>4. CASE s.next = "run?"
  <2>1. c = IF s.to = "resuming" THEN Transit(s, "running", "run?") ELSE Go(s, "run?")
    BY <1>1, <1>4, ContinueTypes
  <2>2. /\ \/ c.pc = "check" /\ c.next = "run?"
           \/ c.pc = "run?" /\ c.next = "idle"
        /\ c.job = s.job
        /\ c.seen = FirstRow /\ c.flow = s.flow /\ c.task = s.task
    <3>1. "run?" \in Places /\ "running" \in Status
      BY DEF Places, Status
    <3>2. CASE c = Transit(s, "running", "run?")
      BY <1>1, <3>1, <3>2, TransitTypes
    <3>3. CASE c = Go(s, "run?")
      BY <1>1, <3>1, <3>3, GoTypes
    <3> QED  BY <2>1, <3>2, <3>3
  <2>3. Locals(c)
    BY <1>1, <1>2, <1>4, <2>2, FreeTypes, FreeKeeps DEF Locals, Moving, Stepping
  <2>4. Tasked(c)
    BY <1>1, <2>2, FreeTypes DEF Tasked, Opened
  <2>5. Locked(c) => HoldsLock(h)
    BY <1>1, <2>2 DEF Locked
  <2> QED  BY <1>2, <2>3, <2>4, <2>5
<1>5. CASE s.next \notin {"idle", "run?"}
  <2>1. s.job # "none" /\ HoldsLock(h)
    BY <1>1, <1>5 DEF Locals, Moving
  <2>2. CASE s.next = "fail"
    BY <1>1, <1>2, <2>1, <2>2, ContinueTypes, TransitKeeps DEF Status, Terminal
  <2>3. CASE s.next \in {"orFail", "release"}
    <3>1. "release" \in Places /\ "running" \in Status
      BY DEF Places, Status
    <3>2. Go(s, "release") \in Calls /\ Locals(Go(s, "release")) /\ Tasked(Go(s, "release"))
      BY <1>1, <2>1, <3>1, GoKeeps DEF Stepping
    <3>3. Transit(s, "running", "release") \in Calls /\ Locals(Transit(s, "running", "release"))
          /\ Tasked(Transit(s, "running", "release"))
      BY <1>1, <2>1, <3>1, TransitKeeps
    <3> QED  BY <1>1, <2>1, <2>3, <3>2, <3>3, ContinueTypes
  <2>4. CASE s.next \in {"into", "route", "next", "classify", "resume"}
    <3>1. c = IF s.to = "resuming" THEN Transit(s, "running", s.next) ELSE Go(s, s.next)
      BY <1>1, <2>4, ContinueTypes
    <3>2. /\ \/ c.pc = "check" /\ c.next = s.next
             \/ c.pc = s.next /\ c.next = "idle"
          /\ c.job = s.job
          /\ c.seen = FirstRow /\ c.flow = s.flow /\ c.task = s.task
      <4>1. s.next \in Places /\ "running" \in Status
        BY <2>4 DEF Places, Status
      <4>2. CASE c = Transit(s, "running", s.next)
        BY <1>1, <4>1, <4>2, TransitTypes
      <4>3. CASE c = Go(s, s.next)
        BY <1>1, <4>1, <4>3, GoTypes
      <4> QED  BY <3>1, <4>2, <4>3
    <3>3. Locals(c)
      BY <1>1, <2>1, <2>4, <3>2, FreeTypes, FreeKeeps DEF Locals, Moving, Stepping
    <3>4. Tasked(c)
      BY <1>1, <2>4, <3>2, FreeTypes DEF Tasked, Opened
    <3> QED  BY <1>2, <2>1, <3>3, <3>4
  <2> QED  BY <1>1, <1>5, <2>2, <2>3, <2>4 DEF Locals
<1> QED  BY <1>3, <1>4, <1>5

LEMMA ThrowKeeps ==
  ASSUME TInv, NEW h \in Handlers
  PROVE  LET c == Throw(handler[h]) IN
         /\ c \in Calls /\ Locals(c) /\ Tasked(c)
         /\ handler[h].pc \notin {"run", "resume"} => (Locked(c) => HoldsLock(h))
<1> DEFINE s == handler[h]
<1>1. s \in Calls /\ Locals(s) /\ Tasked(s) /\ (Locked(s) => HoldsLock(h))
  BY HandlerTypes
<1>2. "thrown" \in Places /\ "release" \in Places
  BY DEF Places
<1>3. s.job # "none" =>
        /\ Go(s, "thrown") \in Calls /\ Locals(Go(s, "thrown")) /\ Tasked(Go(s, "thrown"))
        /\ Go(s, "release") \in Calls /\ Locals(Go(s, "release")) /\ Tasked(Go(s, "release"))
  BY <1>1, <1>2, GoKeeps DEF Stepping
<1>4. CASE s.job = "run"
  BY <1>1, <1>3, <1>4 DEF Throw, Locked
<1>5. CASE s.job = "resume"
  BY <1>1, <1>3, <1>5 DEF Throw, Locked
<1>6. CASE s.job \notin {"run", "resume"}
  BY <1>6, FreeKeeps, FreeTypes DEF Throw
<1> QED  BY <1>4, <1>5, <1>6

LEMMA SettleGuardTypes ==
  ASSUME TInv, NEW h \in Handlers, SettleGuard(h), UNCHANGED deployment
  PROVE  TInv'
<1> DEFINE s == handler[h]
           t == [s EXCEPT !.pc = "check"]
<1>1. s \in Calls /\ Locals(s) /\ Tasked(s) /\ s.pc = "settle" /\ s.pc \in Moving
      /\ (s.job # "none" => HoldsLock(h))
  BY HandlerTypes DEF SettleGuard, At, Locked, Moving
<1>2. t \in Calls /\ Locals(t) /\ Tasked(t) /\ (Locked(t) => HoldsLock(h))
  <2>1. "check" \in Places
    BY DEF Places
  <2>2. /\ t \in Calls /\ t.pc = "check" /\ t.next = s.next /\ t.job = s.job
        /\ t.seen = s.seen /\ t.flow = s.flow /\ t.task = s.task
    BY <1>1, <2>1 DEF Calls
  <2> QED  BY <1>1, <2>2 DEF Locals, Tasked, Locked, Moving, Stepping
<1>3. Become(h, Continue(s)) \/ Become(h, t)
  BY DEF SettleGuard
<1>4. UNCHANGED <<deployment, row, task, chain, runs, history>>
  BY DEF SettleGuard
<1> HIDE DEF t
<1> QED  BY <1>1, <1>2, <1>3, <1>4, ContinueKeeps, GoOnTypes

LEMMA CheckTypes ==
  ASSUME TInv, NEW h \in Handlers, Check(h), UNCHANGED deployment
  PROVE  TInv'
<1> DEFINE s == handler[h]
           t == [s EXCEPT !.pc = "load"]
<1>1. s \in Calls /\ Locals(s) /\ Tasked(s) /\ s.pc = "check" /\ s.pc \in Moving
      /\ (s.job # "none" => HoldsLock(h))
  BY HandlerTypes DEF Check, At, Locked, Moving
<1>2. t \in Calls /\ Locals(t) /\ Tasked(t) /\ (Locked(t) => HoldsLock(h))
  <2>1. "load" \in Places
    BY DEF Places
  <2>2. /\ t \in Calls /\ t.pc = "load" /\ t.next = s.next /\ t.job = s.job
        /\ t.seen = s.seen /\ t.flow = s.flow /\ t.task = s.task
    BY <1>1, <2>1 DEF Calls
  <2> QED  BY <1>1, <2>2 DEF Locals, Tasked, Locked, Moving, Stepping
<1>3. \/ Become(h, t) \/ Become(h, Throw(s))
      \/ s.next = "orFail" /\ Become(h, Settle(s, "failed", "release"))
  BY DEF Check
<1>4. UNCHANGED <<deployment, row, task, chain, runs, history>>
  BY DEF Check
<1>5. CASE Become(h, Throw(s))
  BY <1>1, <1>4, <1>5, ThrowKeeps, GoOnTypes
<1>6. CASE s.next = "orFail" /\ Become(h, Settle(s, "failed", "release"))
  <2>1. s.job # "none" /\ "failed" \in Status
    BY <1>1, <1>6 DEF Locals, Moving, Status, Terminal
  <2> QED  BY <1>1, <1>4, <1>6, <2>1, TransitKeeps, GoOnTypes
<1> HIDE DEF t
<1> QED  BY <1>1, <1>2, <1>3, <1>4, <1>5, <1>6, GoOnTypes

(* A step that writes the status or the intent of the row.                   *)
LEMMA RowTypes ==
  ASSUME TInv, NEW h \in Handlers, NEW s \in Calls, Become(h, s), Locals(s), Tasked(s),
         UNCHANGED <<deployment, task, chain, runs, history>>,
         Locked(s) => HoldsLock(h),
         row' \in Rows, FlowOK(row'.flow), Opened(row'.flow.task)
  PROVE  TInv'
<1>1. Typed' /\ Forward /\ Opened(row.flow.task)'
  BY DEF TInv, TypeOK, Typed, Forward, Opened, history, MaxRuns
<1> QED  BY <1>1, ForwardKeepsTasked, MoveTypes

LEMMA MergedTypes ==
  ASSUME TInv, NEW s \in Calls, NEW r \in Rows
  PROVE  Merged(s, r) \in Rows /\ Merged(s, r).flow = r.flow /\ Merged(s, r).version = r.version
<1>1. s.to \in Status \cup {"usage", "intent"} /\ s.flow.current \in Nodes
  BY DEF Calls, Flows
<1>2. CASE s.to = "usage"
  BY <1>2 DEF Merged
<1>3. CASE s.to = "intent"
  BY <1>1, <1>3 DEF Merged, Rows
<1>4. CASE s.to \notin {"usage", "intent"}
  BY <1>1, <1>4 DEF Merged, Rows
<1> QED  BY <1>2, <1>3, <1>4

LEMMA LoadTypes ==
  ASSUME TInv, NEW h \in Handlers, Load(h), UNCHANGED deployment
  PROVE  TInv'
<1> DEFINE s == handler[h]
           t == [s EXCEPT !.pc = "store", !.seen = row]
<1>1. s \in Calls /\ Locals(s) /\ Tasked(s) /\ s.pc = "load" /\ s.pc \in Moving
      /\ (s.job # "none" => HoldsLock(h))
      /\ row \in Rows /\ FlowOK(row.flow) /\ Opened(row.flow.task)
  BY HandlerTypes DEF Load, At, Locked, Moving, TInv, TypeOK
<1>2. t \in Calls /\ Locals(t) /\ Tasked(t) /\ (Locked(t) => HoldsLock(h))
  <2>1. "store" \in Places
    BY DEF Places
  <2>2. /\ t \in Calls /\ t.pc = "store" /\ t.next = s.next /\ t.job = s.job
        /\ t.seen = row /\ t.flow = s.flow /\ t.task = s.task
    BY <1>1, <2>1 DEF Calls
  <2> QED  BY <1>1, <2>2 DEF Locals, Tasked, Locked, Moving, Stepping
<1>3. CASE Backend = "sql" /\ Become(h, t) /\ UNCHANGED row
  <2> HIDE DEF t
  <2> QED  BY <1>2, <1>3, GoOnTypes DEF Load
<1>4. CASE row' = Merged(s, row) /\ Become(h, Continue(s))
  <2>1. row' \in Rows /\ row'.flow = row.flow
    BY <1>1, <1>4, MergedTypes
  <2> QED  BY <1>1, <1>4, <2>1, ContinueKeeps, RowTypes DEF Load
<1> QED  BY <1>3, <1>4 DEF Load

LEMMA StoreTypes ==
  ASSUME TInv, NEW h \in Handlers, Store(h), UNCHANGED deployment
  PROVE  TInv'
<1> DEFINE s == handler[h]
           m == Merged(s, s.seen)
<1>1. s \in Calls /\ Locals(s) /\ Tasked(s) /\ s.pc \in Moving
      /\ s.seen \in Rows /\ row \in Rows
  BY HandlerTypes DEF Store, At, Moving, TInv, TypeOK, Calls
<1>2. m \in Rows /\ m.flow = s.seen.flow
  BY <1>1, MergedTypes
<1>3. row' = Upserted(m) /\ Become(h, Continue(s))
  BY DEF Store
<1> HIDE DEF m
<1>4. row' \in Rows /\ row'.flow = s.seen.flow
  BY <1>1, <1>2, <1>3 DEF Upserted, Rows
<1>5. FlowOK(row'.flow) /\ Opened(row'.flow.task)
  BY <1>1, <1>4 DEF Locals, Tasked
<1> QED  BY <1>1, <1>3, <1>4, <1>5, ContinueKeeps, RowTypes DEF Store

(* The requests that come from outside the lock.                             *)
LEMMA RequestTypes ==
  ASSUME TInv, NEW h \in Handlers, UNCHANGED deployment,
         Run(h) \/ Cancel(h) \/ ReportUsage(h)
  PROVE  TInv'
<1>1. PICK s \in {Transit(Free, "running", "run?"), Settle(Free, "cancelled", "idle"),
                  [Free EXCEPT !.pc = "load", !.to = "usage"]} : Become(h, s)
  BY DEF Run, Cancel, ReportUsage
<1>2. /\ "run?" \in Places /\ "idle" \in Places /\ "load" \in Places
      /\ "running" \in Status /\ "cancelled" \in Status
  BY DEF Places, Status, Terminal
<1>3. /\ s \in Calls
      /\ \/ s.pc \in {"check", "settle"} /\ s.next \in {"run?", "idle"}
         \/ s.pc = "load" /\ s.next = "idle"
      /\ s.job = "none" /\ s.seen = FirstRow /\ s.flow = FirstFlow /\ s.task = None
  <2>1. CASE s = Transit(Free, "running", "run?")
    <3> DEFINE c == Transit(Free, "running", "run?")
    <3>1. /\ c \in Calls /\ c.pc = "check" /\ c.next = "run?" /\ c.job = Free.job
          /\ c.seen = FirstRow /\ c.flow = Free.flow /\ c.task = Free.task
      <4>1. Free \in Calls
        BY FreeTypes
      <4> QED  BY <1>2, <4>1, TransitTypes
    <3> HIDE DEF c
    <3> QED  BY <2>1, <3>1, FreeTypes DEF c
  <2>2. CASE s = Settle(Free, "cancelled", "idle")
    <3> DEFINE c == Settle(Free, "cancelled", "idle")
    <3>1. /\ c \in Calls /\ c.pc = "settle" /\ c.next = "idle" /\ c.job = Free.job
          /\ c.seen = FirstRow /\ c.flow = Free.flow /\ c.task = Free.task
      <4>1. Free \in Calls
        BY FreeTypes
      <4> QED  BY <1>2, <4>1, SettleTypes
    <3> HIDE DEF c
    <3> QED  BY <2>2, <3>1, FreeTypes DEF c
  <2>3. CASE s = [Free EXCEPT !.pc = "load", !.to = "usage"]
    BY <1>2, <2>3, FreeTypes DEF Calls
  <2> QED  BY <2>1, <2>2, <2>3
<1>4. Locals(s) /\ Tasked(s) /\ ~Locked(s)
  BY <1>3, FreeTypes, FreeKeeps DEF Locals, Tasked, Locked, Moving, Stepping, Opened
<1>5. Typed' /\ Forward /\ FlowOK(row'.flow) /\ Opened(row.flow.task)'
      /\ UNCHANGED <<row, task, chain>>
  <2>1. UNCHANGED <<row, task, chain, walk, calls>> /\ runs' \in {runs, runs + 1}
        /\ (runs' # runs => runs < MaxRuns)
    BY DEF Run, Cancel, ReportUsage, history
  <2>2. MaxRuns' = MaxRuns /\ MaxRuns \in Nat
    BY ServerAssumption DEF ServerAssumption, MaxRuns, TInv, TypeOK
  <2>3. runs' \in 0..MaxRuns
    BY <2>1, <2>2 DEF TInv, TypeOK
  <2> QED  BY <2>1, <2>2, <2>3 DEF TInv, TypeOK, Typed, Forward, Opened
<1>6. Tasked(s)'
  BY <1>3, <1>4, <1>5, ForwardKeepsTasked
<1> QED  BY <1>1, <1>3, <1>4, <1>5, <1>6, MoveTypes

LEMMA ResolveTypes ==
  ASSUME TInv, NEW h \in Handlers, NEW t \in Tasks, NEW r \in Resolution,
         Resolve(h, t, r), UNCHANGED deployment
  PROVE  TInv'
<1> DEFINE s == [Free EXCEPT !.pc = "resume?", !.task = t]
<1>1. task' = [task EXCEPT ![t].state = r] /\ task[t].state = "open" /\ Become(h, s)
      /\ UNCHANGED <<row, chain, runs, walk, calls>>
  BY DEF Resolve, Closable, history
<1>2. task \in [Tasks -> HumanTasks] /\ t # None
  BY NoneAssumption DEF NoneAssumption, TInv, TypeOK
<1>3. task' \in [Tasks -> HumanTasks] /\ Forward /\ task'[t].state = r
  BY <1>1, <1>2 DEF HumanTasks, Forward
<1>4. /\ s \in Calls /\ s.pc = "resume?" /\ s.next = "idle" /\ s.job = "none"
      /\ s.seen = FirstRow /\ s.flow = FirstFlow /\ s.task = t
  BY FreeTypes DEF Calls, Places
<1> HIDE DEF s
<1>5. Locals(s) /\ ~Locked(s)
  BY <1>4, FreeTypes, FreeKeeps DEF Locals, Locked, Moving, Stepping
<1>6. Tasked(s)'
  BY <1>2, <1>3, <1>4, FreeTypes DEF Tasked, Opened, Resolution
<1>7. Typed' /\ FlowOK(row'.flow)
  BY <1>1, <1>3 DEF Typed, TInv, TypeOK, MaxRuns
<1>8. Opened(row.flow.task)'
  BY <1>1, <1>3 DEF TInv, TypeOK, Rows, Flows, Forward, Opened, Resolution
<1> QED  BY <1>1, <1>3, <1>4, <1>5, <1>6, <1>7, <1>8, MoveTypes

LEMMA EnqueueTypes ==
  ASSUME TInv, NEW h \in Handlers, Enqueue(h), UNCHANGED deployment
  PROVE  TInv'
<1>1. PICK s \in {[handler[h] EXCEPT !.pc = "run", !.job = "run"],
                  [handler[h] EXCEPT !.pc = "resume", !.job = "resume"]} :
        /\ Become(h, s)
        /\ handler[h].pc = "run?" => s.pc = "run"
        /\ handler[h].pc = "resume?" => s.pc = "resume"
  BY DEF Enqueue, At, TInv, TypeOK, Calls
<1>2. handler[h] \in Calls /\ Locals(handler[h]) /\ Tasked(handler[h])
      /\ handler[h].pc \in {"run?", "resume?"}
      /\ UNCHANGED <<deployment, row, task, runs, walk, calls>>
  BY HandlerTypes DEF Enqueue, At, history
<1>3. /\ s \in Calls /\ s.pc \in {"run", "resume"} /\ s.next = handler[h].next /\ s.job # "none"
      /\ s.seen = handler[h].seen /\ s.flow = handler[h].flow /\ s.task = handler[h].task
  <2>1. ASSUME NEW p \in {"run", "resume"}, s = [handler[h] EXCEPT !.pc = p, !.job = p]
        PROVE  /\ s \in Calls /\ s.pc = p /\ s.next = handler[h].next /\ s.job = p
               /\ s.seen = handler[h].seen /\ s.flow = handler[h].flow /\ s.task = handler[h].task
    BY <1>2, <2>1 DEF Calls, Places
  <2> QED  BY <1>1, <2>1
<1>4. Locals(s) /\ Tasked(s) /\ ~Locked(s)
  BY <1>1, <1>2, <1>3 DEF Locals, Tasked, Locked, Moving, Stepping
<1>5. handler' = [handler EXCEPT ![h] = s] /\ handler \in [Handlers -> Calls]
      /\ chain \in [Processes -> Seq(Handlers)] /\ ProcessOf[h] \in Processes
  BY <1>1, ServerAssumption DEF Become, TInv, TypeOK, ServerAssumption, ProcessOf
<1>6. chain' = [chain EXCEPT ![ProcessOf[h]] = Append(@, h)] /\ chain' \in [Processes -> Seq(Handlers)]
  BY <1>5 DEF Enqueue
<1>7. TypeOK'
  BY <1>2, <1>3, <1>5, <1>6 DEF TInv, TypeOK, MaxRuns
<1>8. (\A g \in Handlers : Locals(handler[g]) /\ Tasked(handler[g]))'
  <2>1. Forward
    BY <1>2 DEF Forward
  <2> QED  BY <1>3, <1>4, <1>5, <2>1, ForwardKeepsTasked DEF TInv
<1>9. LockInv'
  <2>1. ASSUME NEW g \in Handlers, HoldsLock(g) PROVE HoldsLock(g)'
    <3>1. chain[ProcessOf[g]] \in Seq(Handlers)
      BY <1>5, ServerAssumption DEF ServerAssumption, ProcessOf, TInv, TypeOK
    <3>2. Append(chain[ProcessOf[g]], h) # <<>> /\ Head(Append(chain[ProcessOf[g]], h)) = g
      BY <2>1, <3>1 DEF HoldsLock
    <3> QED  BY <1>2, <1>5, <1>6, <2>1, <3>2 DEF HoldsLock, ProcessOf
  <2> QED  BY <1>4, <1>5, <2>1 DEF TInv, LockInv
<1> QED  BY <1>2, <1>7, <1>8, <1>9 DEF TInv, Opened

LEMMA ReleaseTypes ==
  ASSUME TInv, NEW h \in Handlers, Release(h), UNCHANGED deployment
  PROVE  TInv'
<1>1. PICK s \in {Settle(Free, "failed", "idle"), Free} : Become(h, s)
  BY DEF Release
<1>2. UNCHANGED <<deployment, row, task, runs, walk, calls>> /\ handler[h].pc \in {"release", "thrown"}
      /\ Locked(handler[h]) /\ HoldsLock(h)
  BY HandlerTypes DEF Release, At, Locked, Locals, Moving, history
<1>3. s \in Calls /\ Locals(s) /\ Tasked(s) /\ ~Locked(s)
  <2>1. "idle" \in Places /\ "failed" \in Status
    BY DEF Places, Status, Terminal
  <2>2. LET f == Settle(Free, "failed", "idle") IN
        f \in Calls /\ f.pc = "settle" /\ f.next = "idle" /\ f.job = "none"
        /\ f.seen = FirstRow /\ f.flow = FirstFlow /\ f.task = None
    BY <2>1, FreeTypes, SettleTypes
  <2> QED  BY <2>2, FreeTypes, FreeKeeps DEF Locals, Tasked, Locked, Moving, Stepping, Opened
<1>4. handler' = [handler EXCEPT ![h] = s] /\ handler \in [Handlers -> Calls]
      /\ chain \in [Processes -> Seq(Handlers)] /\ ProcessOf[h] \in Processes
  BY <1>1, ServerAssumption DEF Become, TInv, TypeOK, ServerAssumption, ProcessOf
<1>5. chain' = [chain EXCEPT ![ProcessOf[h]] = Tail(@)] /\ chain' \in [Processes -> Seq(Handlers)]
  BY <1>2, <1>4 DEF Release, HoldsLock
<1>6. TypeOK'
  BY <1>2, <1>3, <1>4, <1>5 DEF TInv, TypeOK, MaxRuns
<1>7. (\A g \in Handlers : Locals(handler[g]) /\ Tasked(handler[g]))'
  <2>1. Forward
    BY <1>2 DEF Forward
  <2> QED  BY <1>3, <1>4, <2>1, ForwardKeepsTasked DEF TInv
<1>8. LockInv'
  <2>1. ASSUME NEW g \in Handlers, g # h, HoldsLock(g) PROVE HoldsLock(g)'
    <3>1. ProcessOf[g] # ProcessOf[h]
      BY <1>2, <2>1 DEF HoldsLock
    <3> QED  BY <1>2, <1>4, <1>5, <2>1, <3>1 DEF HoldsLock, ProcessOf
  <2> QED  BY <1>3, <1>4, <2>1 DEF TInv, LockInv
<1> QED  BY <1>2, <1>6, <1>7, <1>8 DEF TInv, Opened

(* What is done inside the lock.                                             *)
LEMMA InsideTypes ==
  ASSUME TInv, NEW h \in Handlers, \/ handler[h].pc \notin {"idle", "down", "run?", "resume?", "run", "resume"} \cup Moving
                                   \/ handler[h].pc \in {"run", "resume"} /\ HoldsLock(h)
  PROVE  /\ handler[h] \in Calls /\ Locals(handler[h]) /\ Tasked(handler[h])
         /\ handler[h].job # "none" /\ HoldsLock(h)
         /\ row \in Rows /\ FlowOK(row.flow) /\ Opened(row.flow.task)
BY HandlerTypes DEF Locked, Locals, TInv, TypeOK, Moving

LEMMA FailWorkflowTypes ==
  ASSUME TInv, NEW h \in Handlers, NEW s \in Calls, Locals(s), Tasked(s), s.job # "none"
  PROVE  FailWorkflow(s) \in Calls /\ Locals(FailWorkflow(s)) /\ Tasked(FailWorkflow(s))
BY GoKeeps DEF FailWorkflow, Places, Stepping

LEMMA SkillChangedTypes ==
  ASSUME TInv, NEW h \in Handlers, SkillChanged(h), UNCHANGED deployment
  PROVE  TInv'
<1>1. /\ handler[h] \in Calls /\ Locals(handler[h]) /\ Tasked(handler[h])
      /\ handler[h].job # "none" /\ HoldsLock(h)
  BY InsideTypes DEF SkillChanged, At, Moving
<1> QED  BY <1>1, FailWorkflowTypes, GoOnTypes DEF SkillChanged

LEMMA BeginRunTypes ==
  ASSUME TInv, NEW h \in Handlers, BeginRun(h), UNCHANGED deployment
  PROVE  TInv'
<1> DEFINE s == [handler[h] EXCEPT !.flow = row.flow, !.version = row.version]
           t == [Go(s, "reconcile") EXCEPT !.task = row.flow.task, !.seen = row]
<1>1. /\ handler[h] \in Calls /\ Locals(handler[h]) /\ Tasked(handler[h])
      /\ handler[h].job # "none" /\ HoldsLock(h) /\ handler[h].pc = "run"
      /\ row \in Rows /\ FlowOK(row.flow) /\ Opened(row.flow.task)
  BY InsideTypes DEF BeginRun, At
<1>2. /\ s \in Calls /\ s.pc = "run" /\ s.next = handler[h].next /\ s.job = handler[h].job
      /\ s.seen = handler[h].seen /\ s.task = handler[h].task /\ s.flow = row.flow
  BY <1>1 DEF Calls, Rows
<1>3. Locals(s) /\ Tasked(s)
  <2>1. handler[h].next = "idle"
    BY <1>1 DEF Locals, Moving
  <2> QED  BY <1>1, <1>2, <2>1 DEF Locals, Tasked, Stepping, Moving
<1>4. \/ Become(h, FailWorkflow(s)) \/ Become(h, Go(s, "step"))
      \/ Become(h, t) /\ row.flow.task # None
  BY DEF BeginRun, Admitted
<1>5. UNCHANGED <<deployment, row, task, chain, runs, history>>
  BY DEF BeginRun
<1> HIDE DEF s
<1>6. CASE Become(h, FailWorkflow(s))
  BY <1>1, <1>2, <1>3, <1>5, <1>6, FailWorkflowTypes, GoOnTypes
<1>7. CASE Become(h, Go(s, "step"))
  <2>1. "step" \in Places
    BY DEF Places
  <2> QED  BY <1>1, <1>2, <1>3, <1>5, <1>7, <2>1, GoKeeps, GoOnTypes DEF Stepping
<1>8. CASE Become(h, t) /\ row.flow.task # None
  <2>1. "reconcile" \in Places
    BY DEF Places
  <2>2. t \in Calls /\ t.pc = "reconcile" /\ t.next = "idle" /\ t.job = s.job /\ t.flow = row.flow
        /\ t.task = row.flow.task /\ t.seen = row
    <3> DEFINE g == Go(s, "reconcile")
    <3>1. g \in Calls /\ g.pc = "reconcile" /\ g.next = "idle" /\ g.job = s.job /\ g.flow = row.flow
      BY <1>2, <2>1, GoTypes
    <3>2. t = [g EXCEPT !.task = row.flow.task, !.seen = row]
      OBVIOUS
    <3> HIDE DEF g, t
    <3> QED  BY <1>1, <3>1, <3>2 DEF Calls, Rows, Flows
  <2> HIDE DEF t
  <2>3. Locals(t) /\ Tasked(t)
    BY <1>1, <1>2, <1>8, <2>2 DEF Locals, Tasked, Moving, Stepping
  <2> QED  BY <1>1, <1>5, <1>8, <2>2, <2>3, GoOnTypes
<1> QED  BY <1>4, <1>6, <1>7, <1>8

LEMMA ReconcileTypes ==
  ASSUME TInv, NEW h \in Handlers, Reconcile(h), UNCHANGED deployment
  PROVE  TInv'
<1> DEFINE s == handler[h]
           next == IF task[s.task].state = "open" THEN "release" ELSE "resume"
<1>1. /\ s \in Calls /\ Locals(s) /\ Tasked(s) /\ s.job # "none" /\ HoldsLock(h)
      /\ s.pc = "reconcile"
  BY InsideTypes DEF Reconcile, At, Moving
<1>2. /\ s.task # None /\ task[s.task].state # "absent" /\ s.task \in Tasks
      /\ task[s.task].state \in {"absent", "open"} \cup Resolution
  BY <1>1 DEF Tasked, Opened, Calls, TInv, TypeOK, HumanTasks
<1>3. \/ Become(h, Transit(s, "waiting_for_approval", next))
      \/ Become(h, Go(s, "release")) \/ Become(h, Go(s, next))
  BY DEF Reconcile
<1>4. UNCHANGED <<deployment, row, task, chain, runs, history>>
  BY DEF Reconcile
<1>5. next \in {"resume", "release"} /\ (next = "resume" => task[s.task].state \in Resolution)
  BY <1>2
<1> HIDE DEF next
<1>6. "waiting_for_approval" \in Status /\ "release" \in Places /\ "resume" \in Places
  BY DEF Status, Waiting, Places
<1>7. CASE Become(h, Transit(s, "waiting_for_approval", next))
  BY <1>1, <1>2, <1>4, <1>5, <1>6, <1>7, TransitKeeps, GoOnTypes
<1>8. CASE Become(h, Go(s, "release"))
  BY <1>1, <1>4, <1>6, <1>8, GoKeeps, GoOnTypes DEF Stepping
<1>9. CASE Become(h, Go(s, "resume")) /\ next = "resume"
  <2> DEFINE t == Go(s, "resume")
  <2>1. /\ t \in Calls /\ t.pc = "resume" /\ t.next = "idle" /\ t.job = s.job
        /\ t.seen = FirstRow /\ t.flow = s.flow /\ t.task = s.task
    BY <1>1, <1>6, GoTypes
  <2> HIDE DEF t
  <2>2. Locals(t) /\ Tasked(t)
    BY <1>1, <1>2, <1>5, <1>9, <2>1, FreeTypes, FreeKeeps DEF Locals, Tasked, Moving, Stepping, Opened
  <2> QED  BY <1>1, <1>4, <1>9, <2>1, <2>2, GoOnTypes DEF t
<1> QED  BY <1>3, <1>5, <1>7, <1>8, <1>9

(* A conditional write of the flow.                                          *)
LEMMA WriteTypes ==
  ASSUME TInv, NEW h \in Handlers, NEW flow \in Flows, NEW then \in Calls,
         WriteFlow(h, flow, then), UNCHANGED <<deployment, task, chain, runs, calls>>,
         walk' \in [StepNumbers -> Nodes \cup {None}],
         FlowOK(flow), Opened(flow.task), Locals(then), Tasked(then), then.job # "none",
         \/ then.pc \notin Stepping /\ then.next \notin {"next", "into", "route", "classify"}
         \/ flow.steps < MaxSteps,
         handler[h].job # "none", HoldsLock(h)
  PROVE  TInv'
<1> DEFINE t == [then EXCEPT !.flow = flow, !.version = row.version + 1]
<1>1. /\ row \in Rows /\ FlowOK(row.flow) /\ Opened(row.flow.task)
      /\ handler[h] \in Calls /\ Locals(handler[h]) /\ Tasked(handler[h])
  BY HandlerTypes DEF TInv, TypeOK
<1>2. PICK s \in Calls :
        /\ Become(h, s) /\ Locals(s) /\ Tasked(s)
        /\ row' \in Rows /\ FlowOK(row'.flow) /\ Opened(row'.flow.task)
  <2>1. CASE row' = [row EXCEPT !.flow = flow, !.version = @ + 1] /\ Become(h, t)
    <3> DEFINE v == row.version + 1
    <3>1. v \in Nat
      BY <1>1 DEF Rows
    <3>2. t = [then EXCEPT !.flow = flow, !.version = v]
          /\ row' = [row EXCEPT !.flow = flow, !.version = v]
      BY <2>1
    <3> HIDE DEF t, v
    <3>3. /\ t \in Calls /\ t.pc = then.pc /\ t.next = then.next /\ t.job = then.job
          /\ t.seen = then.seen /\ t.task = then.task /\ t.flow = flow
      BY <3>1, <3>2 DEF Calls
    <3>4. row' \in Rows /\ row'.flow = flow
      BY <1>1, <3>1, <3>2 DEF Rows
    <3>5. Locals(t) /\ Tasked(t)
      BY <3>3 DEF Locals, Tasked, Moving, Stepping
    <3> QED  BY <2>1, <3>3, <3>4, <3>5
  <2>2. CASE Become(h, Go(handler[h], "release")) /\ UNCHANGED row
    <3>1. "release" \in Places
      BY DEF Places
    <3> QED  BY <1>1, <2>2, <3>1, GoKeeps DEF Stepping
  <2> QED  BY <2>1, <2>2 DEF WriteFlow
<1>3. Typed' /\ Forward /\ Opened(row.flow.task)'
  BY <1>2 DEF TInv, TypeOK, Typed, Forward, Opened, MaxRuns
<1>4. Tasked(s)'
  BY <1>2, <1>3, ForwardKeepsTasked
<1> QED  BY <1>2, <1>3, <1>4, MoveTypes

LEMMA StepTypes ==
  ASSUME TInv, NEW h \in Handlers, Step(h), UNCHANGED deployment
  PROVE  TInv'
<1> DEFINE s == handler[h]
           f == [s.flow EXCEPT !.step = "running"]
           w == Go(s, "perform")
<1>1. /\ s \in Calls /\ Locals(s) /\ Tasked(s) /\ s.job # "none" /\ HoldsLock(h)
      /\ s.flow \in Flows /\ walk \in [StepNumbers -> Nodes \cup {None}]
      /\ row \in Rows /\ FlowOK(row.flow) /\ Opened(row.flow.task)
  BY InsideTypes DEF Step, At, Moving, Calls, TInv, TypeOK
<1>2. /\ UNCHANGED <<deployment, task, chain, runs, calls>>
      /\ walk' \in [StepNumbers -> Nodes \cup {None}]
  BY <1>1 DEF Step, Flows, StepNumbers
<1>3. CASE Become(h, FailWorkflow(s)) /\ UNCHANGED <<row, walk>>
  BY <1>1, <1>2, <1>3, FailWorkflowTypes, GoOnTypes DEF history
<1>4. ASSUME StepLeft(s.flow)
      PROVE  w \in Calls /\ Locals(w) /\ Tasked(w) /\ w.job # "none"
  <2>1. "perform" \in Places
    BY DEF Places
  <2> QED  BY <1>1, <1>4, <2>1, GoKeeps, GoTypes DEF StepLeft
<1>5. CASE StepLeft(s.flow) /\ Become(h, w) /\ UNCHANGED row
  <2>1. Typed' /\ Forward /\ FlowOK(row'.flow) /\ Opened(row.flow.task)'
    BY <1>1, <1>2, <1>5 DEF Typed, TInv, TypeOK, Forward, Opened, MaxRuns
  <2> QED  BY <1>1, <1>2, <1>4, <1>5, <2>1, ForwardKeepsTasked, MoveTypes
<1>6. CASE StepLeft(s.flow) /\ WriteFlow(h, f, w)
  <2>1. f \in Flows /\ FlowOK(f) /\ Opened(f.task) /\ f.steps < MaxSteps
    BY <1>1, <1>6 DEF Flows, FlowOK, StepLeft, Tasked
  <2> HIDE DEF f, w
  <2> QED  BY <1>1, <1>2, <1>4, <1>6, <2>1, WriteTypes
<1> QED  BY <1>3, <1>5, <1>6 DEF Step

LEMMA FinishedKeeps ==
  ASSUME NEW s \in Calls, Locals(s), Tasked(s), s.job # "none", s.flow.steps < MaxSteps,
         NEW o \in Outcomes
  PROVE  LET c == Finished(s, o) IN
         /\ c \in Calls /\ Locals(c) /\ Tasked(c) /\ c.pc = "next" /\ c.next = "idle" /\ c.job = s.job
         /\ c.flow = s.flow /\ c.version = s.version /\ c.task = s.task /\ c.outcome = o
<1> DEFINE g == Go(s, "next")
           c == Finished(s, o)
<1>1. "next" \in Places
  BY DEF Places
<1>2. /\ g \in Calls /\ Locals(g) /\ Tasked(g) /\ g.pc = "next" /\ g.next = "idle" /\ g.job = s.job
      /\ g.flow = s.flow /\ g.version = s.version /\ g.task = s.task
  BY <1>1, GoKeeps, GoTypes
<1>3. c = [g EXCEPT !.outcome = o]
  BY DEF Finished
<1> HIDE DEF g, c
<1>4. /\ c \in Calls /\ c.pc = "next" /\ c.next = "idle" /\ c.job = s.job /\ c.seen = g.seen
      /\ c.flow = s.flow /\ c.version = s.version /\ c.task = s.task /\ c.outcome = o
  BY <1>2, <1>3 DEF Calls
<1>5. Locals(c) /\ Tasked(c)
  BY <1>2, <1>4 DEF Locals, Tasked
<1> QED  BY <1>4, <1>5 DEF c

LEMMA PerformTypes ==
  ASSUME TInv, NEW h \in Handlers, PerformTaskOrGate(h) \/ PerformCommand(h), UNCHANGED deployment
  PROVE  TInv'
<1> DEFINE s == handler[h]
<1>1. /\ s \in Calls /\ Locals(s) /\ Tasked(s) /\ s.job # "none" /\ HoldsLock(h)
      /\ s.flow.steps < MaxSteps
  BY InsideTypes DEF PerformTaskOrGate, PerformCommand, Performs, At, Moving, Locals, Stepping
<1>2. UNCHANGED <<deployment, row, task, chain, runs, history>>
  BY DEF PerformTaskOrGate, PerformCommand
<1>3. CASE PerformTaskOrGate(h)
  <2>1. PICK o \in Outcomes : Become(h, Finished(s, o))
    BY <1>3 DEF PerformTaskOrGate, Outcomes
  <2> QED  BY <1>1, <1>2, <2>1, FinishedKeeps, GoOnTypes
<1>4. CASE PerformCommand(h)
  <2> DEFINE g == Go(s, "load")
             t == [g EXCEPT !.to = "intent", !.next = "classify"]
  <2>1. "load" \in Places /\ "classify" \in Places
    BY DEF Places
  <2>2. /\ g \in Calls /\ g.pc = "load" /\ g.job = s.job
        /\ g.seen = FirstRow /\ g.flow = s.flow /\ g.task = s.task
    BY <1>1, <2>1, GoTypes
  <2>3. Become(h, t)
    BY <1>4 DEF PerformCommand
  <2> HIDE DEF g
  <2>4. /\ t \in Calls /\ t.pc = "load" /\ t.job = s.job /\ t.next = "classify"
        /\ t.seen = FirstRow /\ t.flow = s.flow /\ t.task = s.task
    BY <2>1, <2>2 DEF Calls
  <2> HIDE DEF t
  <2>5. Locals(t) /\ Tasked(t)
    BY <1>1, <2>4, FreeTypes, FreeKeeps DEF Locals, Tasked, Moving, Stepping, Opened
  <2> QED  BY <1>1, <1>2, <2>3, <2>4, <2>5, GoOnTypes
<1> QED  BY <1>3, <1>4

LEMMA OpenTaskTypes ==
  ASSUME TInv, NEW h \in Handlers, OpenTask(h), handler[h].pc \in {"perform", "classify"},
         UNCHANGED <<deployment, row, chain, runs, history>>
  PROVE  TInv'
<1> DEFINE s == handler[h]
           o == [state |-> "open", node |-> s.flow.current, step |-> s.flow.steps]
           g == Go(s, "pause")
<1>1. /\ s \in Calls /\ Locals(s) /\ Tasked(s) /\ s.job # "none" /\ HoldsLock(h)
      /\ s.flow.steps < MaxSteps /\ s.flow \in Flows
      /\ row \in Rows /\ FlowOK(row.flow) /\ Opened(row.flow.task)
  BY InsideTypes DEF Moving, Locals, Stepping, Calls
<1>2. PICK t \in Tasks : /\ task[t].state = "absent" /\ task' = [task EXCEPT ![t] = o]
                         /\ Become(h, [g EXCEPT !.task = t])
  BY DEF OpenTask
<1>3. task \in [Tasks -> HumanTasks] /\ o \in HumanTasks
  BY <1>1 DEF TInv, TypeOK, HumanTasks, Flows
<1>4. task' \in [Tasks -> HumanTasks] /\ Forward /\ task'[t].state = "open"
  BY <1>2, <1>3 DEF Forward
<1>5. g \in Calls /\ Locals(g) /\ Tasked(g) /\ g.pc = "pause" /\ g.next = "idle" /\ g.job = s.job
  <2>1. "pause" \in Places
    BY DEF Places
  <2> QED  BY <1>1, <2>1, GoKeeps, GoTypes
<1>6. Become(h, [g EXCEPT !.task = t])
  BY <1>2
<1> HIDE DEF g
<1>7. PICK c \in Calls :
        /\ Become(h, c) /\ c.pc = "pause" /\ c.next = "idle" /\ c.job = s.job /\ c.task = t
        /\ c.seen = g.seen /\ c.flow = g.flow
  BY <1>5, <1>6 DEF Calls
<1>8. Locals(c) /\ (Locked(c) => HoldsLock(h))
  BY <1>1, <1>5, <1>7 DEF Locals
<1>9. /\ c.flow.task \in Tasks \cup {None} /\ c.seen.flow.task \in Tasks \cup {None}
      /\ Opened(c.flow.task) /\ Opened(c.seen.flow.task)
  BY <1>5, <1>7 DEF Tasked, Calls, Rows, Flows
<1>10. Tasked(c)'
  <2>1. Opened(t)' /\ Opened(c.flow.task)' /\ Opened(c.seen.flow.task)'
    BY <1>4, <1>9 DEF Opened, Forward, Resolution
  <2> QED  BY <1>7, <2>1 DEF Tasked
<1>11. Typed' /\ FlowOK(row'.flow)
  BY <1>1, <1>4 DEF TInv, TypeOK, Typed, history, MaxRuns
<1>12. Opened(row.flow.task)'
  BY <1>1, <1>4 DEF Rows, Flows, Forward, Opened, Resolution
<1> QED  BY <1>4, <1>7, <1>8, <1>10, <1>11, <1>12, MoveTypes DEF history

LEMMA AskTypes ==
  ASSUME TInv, NEW h \in Handlers, PerformReview(h) \/ Classify(h), UNCHANGED deployment
  PROVE  TInv'
<1> DEFINE s == handler[h]
<1>1. CASE OpenTask(h)
  BY <1>1, OpenTaskTypes DEF PerformReview, Classify, Performs, At, history
<1>2. CASE Classify(h) /\ ~OpenTask(h)
  <2>1. /\ s \in Calls /\ Locals(s) /\ Tasked(s) /\ s.job # "none" /\ HoldsLock(h)
        /\ s.flow.steps < MaxSteps /\ s.flow.current \in Nodes
    BY <1>2, InsideTypes DEF Classify, At, Moving, Locals, Stepping, Calls, Flows
  <2>2. UNCHANGED <<deployment, row, task, chain, runs, history>>
    BY <1>2 DEF Classify
  <2>3. CASE Become(h, Finished(s, "fail"))
    BY <2>1, <2>2, <2>3, FinishedKeeps, GoOnTypes DEF Outcomes
  <2>4. CASE Become(h, [Go(s, "execute") EXCEPT !.seen.intent = s.flow.current])
    <3> DEFINE g == Go(s, "execute")
               c == [g EXCEPT !.seen.intent = s.flow.current]
    <3>1. "execute" \in Places
      BY DEF Places
    <3>2. /\ g \in Calls /\ g.pc = "execute" /\ g.next = "idle" /\ g.job = s.job
          /\ g.seen = FirstRow /\ g.flow = s.flow /\ g.task = s.task
      BY <2>1, <3>1, GoTypes
    <3>3. Become(h, c)
      BY <2>4
    <3> HIDE DEF g
    <3>4. /\ c \in Calls /\ c.pc = "execute" /\ c.next = "idle" /\ c.job = s.job
          /\ c.seen.flow = FirstRow.flow /\ c.seen.intent = s.flow.current
          /\ c.flow = s.flow /\ c.task = s.task
      BY <2>1, <3>2 DEF Calls, Rows
    <3> HIDE DEF c
    <3>5. Locals(c) /\ Tasked(c)
      BY <2>1, <3>4, FreeTypes, FreeKeeps DEF Locals, Tasked, Moving, Stepping, Opened
    <3> QED  BY <2>1, <2>2, <3>3, <3>4, <3>5, GoOnTypes
  <2> QED  BY <1>2, <2>3, <2>4 DEF Classify
<1> QED  BY <1>1, <1>2 DEF PerformReview

LEMMA PauseTypes ==
  ASSUME TInv, NEW h \in Handlers, Pause(h), UNCHANGED deployment
  PROVE  TInv'
<1> DEFINE s == handler[h]
           f == [s.flow EXCEPT !.step = "waiting", !.task = s.task]
           w == Transit(s, "waiting_for_approval", "release")
<1>1. /\ s \in Calls /\ Locals(s) /\ Tasked(s) /\ s.job # "none" /\ HoldsLock(h)
      /\ s.flow \in Flows /\ s.flow.steps < MaxSteps /\ s.task \in Tasks \cup {None}
  BY InsideTypes DEF Pause, PauseFlowFirst, At, Moving, Locals, Stepping, Calls
<1>2. WriteFlow(h, f, w) /\ UNCHANGED <<deployment, task, chain, runs, calls, walk>>
  BY DEF Pause, PauseFlowFirst, history
<1>3. walk' \in [StepNumbers -> Nodes \cup {None}]
  BY <1>2 DEF TInv, TypeOK
<1>4. f \in Flows /\ FlowOK(f) /\ Opened(f.task) /\ f.steps < MaxSteps
  BY <1>1 DEF Flows, FlowOK, Tasked
<1>5. w \in Calls /\ Locals(w) /\ Tasked(w) /\ w.job # "none"
  <2>1. "waiting_for_approval" \in Status /\ "release" \in Places
    BY DEF Status, Waiting, Places
  <2> QED  BY <1>1, <2>1, TransitKeeps, TransitTypes
<1> HIDE DEF f, w
<1> QED  BY <1>1, <1>2, <1>3, <1>4, <1>5, WriteTypes

LEMMA PerformStopOrEndTypes ==
  ASSUME TInv, NEW h \in Handlers, PerformStopOrEnd(h), UNCHANGED deployment
  PROVE  TInv'
<1> DEFINE s == handler[h]
           f == [s.flow EXCEPT !.step = "completed", !.steps = @ + 1, !.task = None]
           w == IF Performs(h, "stop") THEN FailWorkflow(s) ELSE Settle(s, "completed", "release")
<1>1. /\ s \in Calls /\ Locals(s) /\ Tasked(s) /\ s.job # "none" /\ HoldsLock(h)
      /\ s.flow \in Flows /\ s.flow.steps < MaxSteps
  BY InsideTypes DEF PerformStopOrEnd, Performs, At, Moving, Locals, Stepping, Calls
<1>2. WriteFlow(h, f, w) /\ UNCHANGED <<deployment, task, chain, runs, calls, walk>>
  BY DEF PerformStopOrEnd, history
<1>3. walk' \in [StepNumbers -> Nodes \cup {None}]
  BY <1>2 DEF TInv, TypeOK
<1>4. f \in Flows /\ FlowOK(f) /\ Opened(f.task)
  <2>1. s.flow.steps + 1 \in 0..MaxSteps
    BY <1>1, FlowAssumption DEF Flows, FlowAssumption
  <2> QED  BY <1>1, <2>1 DEF Flows, FlowOK, Opened
<1>5. w \in Calls /\ Locals(w) /\ Tasked(w) /\ w.job # "none"
      /\ w.pc \notin Stepping /\ w.next \notin {"next", "into", "route", "classify"}
  <2>1. "completed" \in Status /\ "release" \in Places /\ "failing" \in Places
    BY DEF Status, Terminal, Places
  <2>2. CASE w = FailWorkflow(s)
    BY <1>1, <2>1, <2>2, FailWorkflowTypes, GoTypes DEF FailWorkflow, Stepping
  <2>3. CASE w = Settle(s, "completed", "release")
    BY <1>1, <2>1, <2>3, TransitKeeps, SettleTypes DEF Stepping
  <2> QED  BY <2>2, <2>3
<1> HIDE DEF f, w
<1> QED  BY <1>1, <1>2, <1>3, <1>4, <1>5, WriteTypes

LEMMA TakeRouteTypes ==
  ASSUME TInv, NEW h \in Handlers, TakeRoute(h), UNCHANGED deployment
  PROVE  TInv'
<1> DEFINE s == handler[h]
           to == Route[s.flow.current][s.outcome]
           f == [current |-> to, step |-> "pending", task |-> None, steps |-> s.flow.steps + 1]
           next == IF At(h, "next") THEN "step" ELSE "reload"
           g == Go(s, next)
           w == [g EXCEPT !.task = None, !.outcome = "fail"]
<1>1. /\ s \in Calls /\ Locals(s) /\ Tasked(s) /\ s.job # "none" /\ HoldsLock(h)
      /\ s.flow \in Flows /\ s.flow.steps < MaxSteps
  BY InsideTypes DEF TakeRoute, At, Moving, Locals, Stepping, Calls
<1>2. UNCHANGED <<deployment, task, chain, runs, calls, walk>>
  BY DEF TakeRoute, history
<1>3. walk' \in [StepNumbers -> Nodes \cup {None}]
  BY <1>2 DEF TInv, TypeOK
<1>4. CASE Become(h, FailWorkflow(s)) /\ UNCHANGED row
  BY <1>1, <1>2, <1>4, FailWorkflowTypes, GoOnTypes DEF history
<1>5. CASE to # None /\ WriteFlow(h, f, w)
  <2>1. f \in Flows /\ FlowOK(f) /\ Opened(f.task)
    <3>1. to \in Nodes
      BY <1>1, <1>5, FlowAssumption DEF FlowAssumption, Flows, Calls
    <3>2. s.flow.steps + 1 \in 0..MaxSteps
      BY <1>1, FlowAssumption DEF Flows, FlowAssumption
    <3> QED  BY <3>1, <3>2 DEF Flows, FlowOK, Opened
  <2>2. next \in {"step", "reload"} /\ next \in Places
    BY DEF Places
  <2> HIDE DEF next, f
  <2>3. /\ g \in Calls /\ Locals(g) /\ Tasked(g) /\ g.pc = next /\ g.next = "idle"
        /\ g.job = s.job
    BY <1>1, <2>2, GoKeeps, GoTypes DEF Stepping
  <2> HIDE DEF g
  <2>4. /\ w \in Calls /\ w.pc = next /\ w.next = "idle" /\ w.job = s.job
        /\ w.seen = g.seen /\ w.flow = g.flow /\ w.task = None
    BY <2>3 DEF Calls, Outcomes
  <2> HIDE DEF w
  <2>5. Locals(w) /\ Tasked(w)
    BY <2>2, <2>3, <2>4 DEF Locals, Tasked, Opened
  <2>6. WriteFlow(h, f, w)
    BY <1>5 DEF f, w, g, next
  <2> QED  BY <1>1, <1>2, <1>3, <2>1, <2>2, <2>4, <2>5, <2>6, WriteTypes DEF Stepping
<1> QED  BY <1>4, <1>5 DEF TakeRoute

LEMMA BeginResumeTypes ==
  ASSUME TInv, NEW h \in Handlers, BeginResume(h), UNCHANGED deployment
  PROVE  TInv'
<1> DEFINE s == handler[h]
           g == Go(s, "bound")
           t == [g EXCEPT !.flow = row.flow]
<1>1. /\ s \in Calls /\ Locals(s) /\ Tasked(s) /\ s.job # "none" /\ HoldsLock(h)
      /\ s.pc = "resume" /\ row \in Rows /\ FlowOK(row.flow) /\ Opened(row.flow.task)
  BY InsideTypes DEF BeginResume, At
<1>2. UNCHANGED <<deployment, row, task, chain, runs, history>>
  BY DEF BeginResume
<1>3. "bound" \in Places /\ "release" \in Places
  BY DEF Places
<1>4. CASE Become(h, Go(s, "release"))
  BY <1>1, <1>2, <1>3, <1>4, GoKeeps, GoOnTypes DEF Stepping
<1>5. CASE Bound(s.task) /\ Become(h, t)
  <2>1. /\ g \in Calls /\ g.pc = "bound" /\ g.next = "idle" /\ g.job = s.job
        /\ g.seen = FirstRow /\ g.task = s.task
    BY <1>1, <1>3, GoTypes
  <2> HIDE DEF g
  <2>2. /\ t \in Calls /\ t.pc = "bound" /\ t.next = "idle" /\ t.job = s.job
        /\ t.seen = FirstRow /\ t.flow = row.flow /\ t.task = s.task
    BY <1>1, <2>1 DEF Calls, Rows
  <2> HIDE DEF t
  <2>3. row.flow.step = "waiting"
    BY <1>5 DEF Bound, BoundToNode
  <2>4. Locals(t) /\ Tasked(t)
    BY <1>1, <2>2, <2>3, FreeTypes, FreeKeeps DEF Locals, Tasked, Moving, Stepping, Opened, FlowOK
  <2> QED  BY <1>1, <1>2, <1>5, <2>2, <2>4, GoOnTypes
<1> QED  BY <1>4, <1>5 DEF BeginResume

(* Steps that only move on, most of them by a question to the row.           *)
LEMMA GoAlongTypes ==
  ASSUME TInv, NEW h \in Handlers, UNCHANGED <<deployment, row, task, chain, runs, history>>,
         handler[h].job # "none", HoldsLock(h), NEW p \in Places, Become(h, Go(handler[h], p)),
         p \in Stepping => handler[h].flow.steps < MaxSteps,
         p \notin {"execute", "reconcile", "resume?", "resume", "bound", "approved",
                  "unresumable", "wake"}
  PROVE  TInv'
BY HandlerTypes, GoKeeps, GoOnTypes

LEMMA TransitAlongTypes ==
  ASSUME TInv, NEW h \in Handlers, UNCHANGED <<deployment, row, task, chain, runs, history>>,
         handler[h].job # "none", HoldsLock(h), NEW to \in Status,
         NEW next \in {"release", "into", "route", "next", "fail", "orFail"},
         \/ Become(h, Transit(handler[h], to, next))
         \/ Become(h, Settle(handler[h], to, next)),
         next \in {"next", "into", "route"} => handler[h].flow.steps < MaxSteps
  PROVE  TInv'
BY HandlerTypes, TransitKeeps, GoOnTypes

LEMMA ReloadTypes ==
  ASSUME TInv, NEW h \in Handlers, Reload(h), UNCHANGED deployment
  PROVE  TInv'
<1>1. handler[h].job # "none" /\ HoldsLock(h) /\ "step" \in Places
  BY InsideTypes DEF Reload, At, Moving, Places
<1> QED  BY <1>1, GoAlongTypes DEF Reload, Stepping

LEMMA ExitWaitingTypes ==
  ASSUME TInv, NEW h \in Handlers, ExitWaiting(h), UNCHANGED deployment
  PROVE  TInv'
<1>1. handler[h].job # "none" /\ HoldsLock(h) /\ {"resuming", "failed"} \subseteq Status
  BY InsideTypes DEF ExitWaiting, At, Moving, Status, Terminal
<1> QED  BY <1>1, TransitAlongTypes DEF ExitWaiting

LEMMA SettleUnresumableTypes ==
  ASSUME TInv, NEW h \in Handlers, SettleUnresumable(h), UNCHANGED deployment
  PROVE  TInv'
<1>1. /\ handler[h].job # "none" /\ HoldsLock(h) /\ task[handler[h].task].state \in Status
      /\ "release" \in Places
  <2>1. handler[h].pc = "unresumable"
    BY DEF SettleUnresumable, At
  <2> QED  BY <2>1, InsideTypes DEF Moving, Tasked, Status, Terminal, Places
<1> QED  BY <1>1, GoAlongTypes, TransitAlongTypes DEF SettleUnresumable, Stepping

LEMMA WakeTypes ==
  ASSUME TInv, NEW h \in Handlers, Wake(h), UNCHANGED deployment
  PROVE  TInv'
<1> DEFINE next == handler[h].next
<1>1. /\ handler[h] \in Calls /\ handler[h].job # "none" /\ HoldsLock(h)
      /\ next \in {"next", "into", "route"} /\ handler[h].flow.steps < MaxSteps
  BY InsideTypes DEF Wake, At, Moving, Locals
<1>2. {"release", "into", "route", "next"} \subseteq Places /\ "resuming" \in Status
  BY DEF Places, Status
<1>3. \/ Become(h, Transit(handler[h], "resuming", next))
      \/ Become(h, Go(handler[h], "release")) \/ Become(h, Go(handler[h], next))
  BY DEF Wake
<1>4. UNCHANGED <<deployment, row, task, chain, runs, history>>
  BY DEF Wake
<1> HIDE DEF next
<1>5. CASE Become(h, Transit(handler[h], "resuming", next))
  BY <1>1, <1>2, <1>4, <1>5, TransitAlongTypes
<1>6. CASE Become(h, Go(handler[h], "release"))
  BY <1>1, <1>2, <1>4, <1>6, GoAlongTypes DEF Stepping
<1>7. CASE Become(h, Go(handler[h], next))
  BY <1>1, <1>2, <1>4, <1>7, GoAlongTypes
<1> QED  BY <1>3, <1>5, <1>6, <1>7

LEMMA ResumeIntoTypes ==
  ASSUME TInv, NEW h \in Handlers, ResumeInto(h), UNCHANGED deployment
  PROVE  TInv'
<1> DEFINE s == handler[h]
           g == Go(s, "wake")
           t == [g EXCEPT !.next = "route", !.version = row.version]
<1>1. /\ s \in Calls /\ Locals(s) /\ Tasked(s) /\ s.job # "none" /\ HoldsLock(h)
      /\ s.flow.steps < MaxSteps /\ row.version \in Nat
  BY InsideTypes DEF ResumeInto, At, Moving, Locals, Stepping, Rows
<1>2. "wake" \in Places /\ "route" \in Places
  BY DEF Places
<1>3. /\ g \in Calls /\ g.pc = "wake" /\ g.job = s.job
      /\ g.seen = FirstRow /\ g.flow = s.flow /\ g.task = s.task
  BY <1>1, <1>2, GoTypes
<1>4. Become(h, t) /\ UNCHANGED <<deployment, row, task, chain, runs, history>>
  BY DEF ResumeInto
<1> HIDE DEF g
<1>5. /\ t \in Calls /\ t.pc = "wake" /\ t.next = "route" /\ t.job = s.job
      /\ t.seen = FirstRow /\ t.flow = s.flow /\ t.task = s.task
  BY <1>1, <1>2, <1>3 DEF Calls
<1> HIDE DEF t
<1>6. Locals(t) /\ Tasked(t)
  BY <1>1, <1>5, FreeTypes, FreeKeeps DEF Locals, Tasked, Moving, Stepping, Opened
<1> QED  BY <1>1, <1>4, <1>5, <1>6, GoOnTypes

(* What a resolution makes of the outcome, in one step of the call.          *)
LEMMA GoWithTypes ==
  ASSUME TInv, NEW h \in Handlers, UNCHANGED <<deployment, row, task, chain, runs, history>>,
         handler[h].job # "none", HoldsLock(h), handler[h].flow.steps < MaxSteps,
         NEW p \in {"into", "approved", "unresumable", "wake"}, NEW o \in Outcomes,
         NEW next \in {"idle", "next", "into"}, (p = "wake") <=> (next # "idle"),
         Become(h, [Go(handler[h], p) EXCEPT !.next = next, !.outcome = o]),
         p \in {"approved", "unresumable"} =>
           handler[h].task # None /\ task[handler[h].task].state \in Resolution,
         p = "unresumable" => task[handler[h].task].state \in {"cancelled", "expired"}
  PROVE  TInv'
<1> DEFINE s == handler[h]
           g == Go(s, p)
           t == [g EXCEPT !.next = next, !.outcome = o]
<1>1. s \in Calls /\ Locals(s) /\ Tasked(s) /\ p \in Places /\ next \in Places
  BY HandlerTypes DEF Places
<1>2. /\ g \in Calls /\ g.pc = p /\ g.job = s.job
      /\ g.seen = FirstRow /\ g.flow = s.flow /\ g.task = s.task
  BY <1>1, GoTypes
<1>3. Become(h, t)
  OBVIOUS
<1> HIDE DEF g
<1>4. /\ t \in Calls /\ t.pc = p /\ t.next = next /\ t.job = s.job
      /\ t.seen = FirstRow /\ t.flow = s.flow /\ t.task = s.task
  BY <1>1, <1>2 DEF Calls
<1> HIDE DEF t
<1>5. Locals(t)
  BY <1>1, <1>4, FreeTypes, FreeKeeps DEF Locals, Moving, Stepping
<1>6. Tasked(t)
  BY <1>1, <1>4, FreeTypes DEF Tasked, Opened
<1> QED  BY <1>3, <1>4, <1>5, <1>6, GoOnTypes

LEMMA ResumeBoundTypes ==
  ASSUME TInv, NEW h \in Handlers, ResumeBound(h), UNCHANGED deployment
  PROVE  TInv'
<1> DEFINE s == handler[h]
           answer == task[s.task].state
           With(p, o) == [Go(s, p) EXCEPT !.next = "idle", !.outcome = o]
<1>1. /\ s \in Calls /\ s.job # "none" /\ HoldsLock(h) /\ s.flow.steps < MaxSteps
      /\ s.task # None /\ answer \in Resolution
  BY InsideTypes DEF ResumeBound, At, Moving, Locals, Stepping, Tasked
<1>2. UNCHANGED <<deployment, row, task, chain, runs, history>>
  BY DEF ResumeBound
<1>3. \E o \in Outcomes : \E p \in {"into", "approved", "unresumable"} :
        /\ Become(h, With(p, o))
        /\ p = "unresumable" => answer \in {"cancelled", "expired"}
  <2>1. \A p \in Places, o \in Outcomes :
          [Go(s, p) EXCEPT !.outcome = o] = With(p, o) /\ Go(s, p) = With(p, s.outcome)
    <3> TAKE p \in Places, o \in Outcomes
    <3> DEFINE g == Go(s, p)
    <3>1. g \in Calls /\ g.next = "idle" /\ g.outcome = s.outcome
      BY <1>1, GoTypes
    <3> HIDE DEF g
    <3>2. [g EXCEPT !.outcome = o] = [g EXCEPT !.next = "idle", !.outcome = o]
          /\ g = [g EXCEPT !.next = "idle", !.outcome = s.outcome]
      BY <3>1 DEF Calls
    <3> QED  BY <3>2 DEF g
  <2>2. s.outcome \in Outcomes /\ {"approve", "reject", "fail"} \subseteq Outcomes
        /\ {"into", "approved", "unresumable"} \subseteq Places
    BY <1>1 DEF Calls, Outcomes, Places
  <2>3. \/ Become(h, [Go(s, "into") EXCEPT !.outcome = "approve"])
        \/ Become(h, [Go(s, "into") EXCEPT !.outcome = "reject"])
        \/ Become(h, [Go(s, "into") EXCEPT !.outcome = "fail"])
        \/ Become(h, Go(s, "approved"))
        \/ Become(h, Go(s, "unresumable")) /\ answer \in {"cancelled", "expired"}
    BY <1>1 DEF ResumeBound, Allowed, Resolution
  <2> HIDE DEF With
  <2> QED  BY <2>1, <2>2, <2>3
<1> QED  BY <1>1, <1>2, <1>3, GoWithTypes

LEMMA ReadApprovedTypes ==
  ASSUME TInv, NEW h \in Handlers, ReadApproved(h), UNCHANGED deployment
  PROVE  TInv'
<1> DEFINE s == [handler[h] EXCEPT !.outcome = "fail"]
           g == Go(s, "execute")
           t == [g EXCEPT !.seen.intent = row.intent]
<1>1. /\ handler[h] \in Calls /\ Locals(handler[h]) /\ Tasked(handler[h])
      /\ handler[h].job # "none" /\ HoldsLock(h)
      /\ handler[h].pc = "approved" /\ handler[h].flow.steps < MaxSteps
      /\ row.intent \in Nodes \cup {None}
  BY InsideTypes DEF ReadApproved, At, Moving, Locals, Stepping, Rows
<1>2. /\ s \in Calls /\ s.pc = "approved" /\ s.next = handler[h].next
      /\ s.job = handler[h].job /\ s.seen = handler[h].seen /\ s.flow = handler[h].flow
      /\ s.task = handler[h].task
  BY <1>1 DEF Calls, Outcomes
<1>3. Locals(s) /\ Tasked(s)
  BY <1>1, <1>2 DEF Locals, Tasked, Stepping, Moving
<1>4. UNCHANGED <<deployment, row, task, chain, runs, history>>
  BY DEF ReadApproved
<1>5. Become(h, Settle(s, "failed", "into")) \/ (row.intent # None /\ Become(h, t))
  BY DEF ReadApproved
<1> HIDE DEF s
<1>6. CASE Become(h, Settle(s, "failed", "into"))
  <2>1. "failed" \in Status
    BY DEF Status, Terminal
  <2> QED  BY <1>1, <1>2, <1>3, <1>4, <1>6, <2>1, TransitKeeps, GoOnTypes
<1>7. CASE row.intent # None /\ Become(h, t)
  <2>1. "execute" \in Places
    BY DEF Places
  <2>2. /\ g \in Calls /\ g.pc = "execute" /\ g.next = "idle" /\ g.job = s.job
        /\ g.seen = FirstRow /\ g.flow = s.flow /\ g.task = s.task
    BY <1>2, <2>1, GoTypes
  <2> HIDE DEF g
  <2>3. /\ t \in Calls /\ t.pc = "execute" /\ t.next = "idle" /\ t.job = s.job
        /\ t.seen.flow = FirstRow.flow /\ t.seen.intent = row.intent
        /\ t.flow = s.flow /\ t.task = s.task
    BY <1>1, <2>2 DEF Calls, Rows
  <2> HIDE DEF t
  <2>4. Locals(t) /\ Tasked(t)
    BY <1>1, <1>2, <1>3, <1>7, <2>3, FreeTypes, FreeKeeps DEF Locals, Tasked, Moving, Stepping, Opened
  <2> QED  BY <1>1, <1>2, <1>4, <1>7, <2>3, <2>4, GoOnTypes
<1> QED  BY <1>5, <1>6, <1>7

LEMMA ExecuteTypes ==
  ASSUME TInv, NEW h \in Handlers, Execute(h), UNCHANGED deployment
  PROVE  TInv'
<1> DEFINE s == handler[h]
           ok == [s EXCEPT !.outcome = "success", !.seen = FirstRow]
           bad == [s EXCEPT !.outcome = "fail"]
           next == IF s.task # None THEN "into" ELSE "next"
           g == Go(ok, "wake")
           t == [g EXCEPT !.next = next]
<1>1. /\ s \in Calls /\ Locals(s) /\ Tasked(s) /\ s.job # "none" /\ HoldsLock(h)
      /\ s.pc = "execute" /\ s.flow.steps < MaxSteps /\ s.seen.intent \in Nodes
      /\ s.flow \in Flows
  BY InsideTypes DEF Execute, At, Moving, Locals, Stepping, Calls
<1>2. /\ calls' \in [StepNumbers -> Seq(Nodes)]
      /\ UNCHANGED <<deployment, row, task, chain, runs, walk>>
  <2>1. s.flow.steps \in StepNumbers
    BY <1>1, FlowAssumption DEF StepNumbers, Flows, FlowAssumption
  <2>2. calls \in [StepNumbers -> Seq(Nodes)]
    BY DEF TInv, TypeOK
  <2>3. Append(calls[s.flow.steps], s.seen.intent) \in Seq(Nodes)
    BY <1>1, <2>1, <2>2
  <2> QED  BY <2>1, <2>2, <2>3 DEF Execute
<1>3. /\ ok \in Calls /\ ok.job = s.job /\ ok.flow = s.flow /\ ok.task = s.task /\ ok.seen = FirstRow
  BY <1>1, FreeTypes DEF Calls, Outcomes
<1>4. /\ bad \in Calls /\ bad.pc = s.pc /\ bad.next = s.next /\ bad.job = s.job
      /\ bad.flow = s.flow /\ bad.task = s.task /\ bad.seen = s.seen
  BY <1>1 DEF Calls, Outcomes
<1>5. Locals(bad) /\ Tasked(bad)
  <2> HIDE DEF bad
  <2> QED  BY <1>1, <1>4 DEF Locals, Tasked
<1>6. t \in Calls /\ Locals(t) /\ Tasked(t)
  <2>1. "wake" \in Places /\ next \in {"into", "next"} /\ next \in Places
    BY DEF Places
  <2> HIDE DEF ok
  <2>2. /\ g \in Calls /\ g.pc = "wake" /\ g.job = s.job
        /\ g.seen = FirstRow /\ g.flow = s.flow /\ g.task = s.task
    BY <1>3, <2>1, GoTypes
  <2> HIDE DEF g, next
  <2>3. /\ t \in Calls /\ t.pc = "wake" /\ t.next = next /\ t.job = s.job
        /\ t.seen = FirstRow /\ t.flow = s.flow /\ t.task = s.task
    BY <2>1, <2>2 DEF Calls
  <2> HIDE DEF t
  <2> QED  BY <1>1, <2>1, <2>3, FreeTypes, FreeKeeps DEF Locals, Tasked, Moving, Stepping, Opened
<1>7. \/ Become(h, t) \/ Become(h, Throw(s))
      \/ Become(h, Settle(bad, "failed", "into")) \/ Become(h, Finished(s, "fail"))
  BY DEF Execute
<1> HIDE DEF t, bad
<1>8. PICK c \in Calls : Become(h, c) /\ Locals(c) /\ Tasked(c) /\ (Locked(c) => HoldsLock(h))
  <2>1. CASE Become(h, t)
    BY <1>1, <1>6, <2>1
  <2>2. CASE Become(h, Throw(s))
    BY <1>1, <2>2, ThrowKeeps
  <2>3. CASE Become(h, Settle(bad, "failed", "into"))
    <3>1. "failed" \in Status
      BY DEF Status, Terminal
    <3> QED  BY <1>1, <1>4, <1>5, <2>3, <3>1, TransitKeeps
  <2>4. CASE Become(h, Finished(s, "fail"))
    BY <1>1, <2>4, FinishedKeeps DEF Outcomes
  <2> QED  BY <1>7, <2>1, <2>2, <2>3, <2>4
<1>9. Typed' /\ Forward /\ FlowOK(row'.flow) /\ Opened(row.flow.task)'
  BY <1>2 DEF TInv, TypeOK, Typed, Forward, Opened, MaxRuns
<1>10. Tasked(c)'
  BY <1>8, <1>9, ForwardKeepsTasked
<1> QED  BY <1>2, <1>8, <1>9, <1>10, MoveTypes

(* A process dies or comes back: its calls are gone, the others stay.        *)
Failing(p, s) ==
  /\ s \in {Free, Down}
  /\ handler' = [h \in Handlers |-> IF ProcessOf[h] = p THEN s ELSE handler[h]]
  /\ chain' = chain \/ chain' = [chain EXCEPT ![p] = <<>>]
  /\ UNCHANGED <<deployment, task, runs, walk, calls>>
  /\ row' \in Rows /\ row'.flow = row.flow /\ row'.intent = row.intent
  /\ \/ row' = row
     \/ row.status \in {"running", "resuming"} /\ row'.status = "interrupted"

LEMMA ProcessFails ==
  ASSUME TInv, NEW p \in Processes, Crash(p) \/ Restart(p), UNCHANGED deployment
  PROVE  \E s : Failing(p, s)
<1>1. row \in Rows /\ "interrupted" \in Status
  BY DEF TInv, TypeOK, Status, Terminal
<1>2. CASE Crash(p)
  BY <1>1, <1>2 DEF Crash, Failing, history
<1>3. CASE Restart(p)
  <2>1. /\ row' \in Rows /\ row'.flow = row.flow /\ row'.intent = row.intent
        /\ \/ row' = row
           \/ row.status \in {"running", "resuming"} /\ row'.status = "interrupted"
    BY <1>1, <1>3 DEF Restart, Rows
  <2> QED  BY <1>3, <2>1 DEF Restart, Failing, history
<1> QED  BY <1>2, <1>3

LEMMA FailingTypes ==
  ASSUME TInv, NEW p \in Processes, NEW x, Failing(p, x)
  PROVE  TInv'
<1>1. /\ handler' = [h \in Handlers |-> IF ProcessOf[h] = p THEN x ELSE handler[h]]
      /\ chain' = chain \/ chain' = [chain EXCEPT ![p] = <<>>]
      /\ UNCHANGED <<deployment, task, runs, walk, calls>>
      /\ row' \in Rows /\ row'.flow = row.flow
  BY DEF Failing
<1>2. x \in Calls /\ Locals(x) /\ Tasked(x) /\ ~Locked(x)
  <2>1. CASE x = Free
    BY <2>1, FreeTypes, FreeKeeps
  <2>2. CASE x = Down
    <3>1. Locals(Down)
      BY DownTypes, FreeKeeps DEF Locals, Moving, Stepping
    <3>2. Tasked(Down) /\ ~Locked(Down)
      BY DownTypes, FreeTypes, FreeKeeps DEF Tasked, Locked
    <3> QED  BY <2>2, <3>1, <3>2, DownTypes
  <2>3. x \in {Free, Down}
    BY DEF Failing
  <2> QED  BY <2>1, <2>2, <2>3
<1>3. TypeOK'
  <2>1. handler' \in [Handlers -> Calls]
    BY <1>1, <1>2 DEF TInv, TypeOK
  <2>2. chain' \in [Processes -> Seq(Handlers)]
    <3>1. chain \in [Processes -> Seq(Handlers)] /\ <<>> \in Seq(Handlers)
      BY DEF TInv, TypeOK
    <3> QED  BY <1>1, <3>1
  <2> QED  BY <1>1, <2>1, <2>2 DEF TInv, TypeOK, MaxRuns
<1>4. (\A h \in Handlers : Locals(handler[h]) /\ Tasked(handler[h]))'
  <2>1. Forward
    BY <1>1 DEF Forward
  <2>2. ASSUME NEW h \in Handlers PROVE Locals(handler[h])' /\ Tasked(handler[h])'
    <3>1. PICK s \in {x, handler[h]} : s = handler'[h]
      BY <1>1
    <3>2. s \in Calls /\ Locals(s) /\ Tasked(s)
      BY <1>2 DEF TInv, TypeOK
    <3>3. Tasked(s)'
      BY <2>1, <3>2, ForwardKeepsTasked
    <3> QED  BY <3>1, <3>2, <3>3
  <2> QED  BY <2>2
<1>5. LockInv'
  <2>1. ASSUME NEW h \in Handlers, Locked(handler'[h]) PROVE HoldsLock(h)'
    <3>1. handler'[h] = handler[h] /\ ProcessOf[h] # p
      BY <1>1, <1>2, <2>1
    <3>2. HoldsLock(h)
      BY <2>1, <3>1 DEF TInv, LockInv
    <3>3. ProcessOf[h] \in Processes /\ DOMAIN chain = Processes
      BY ServerAssumption DEF TInv, TypeOK, ServerAssumption, ProcessOf
    <3>4. chain'[ProcessOf[h]] = chain[ProcessOf[h]]
      BY <1>1, <3>1, <3>3
    <3> QED  BY <1>1, <3>2, <3>4 DEF HoldsLock, ProcessOf
  <2> QED  BY <2>1 DEF LockInv, Locked
<1> QED  BY <1>1, <1>3, <1>4, <1>5 DEF TInv, Opened

LEMMA TypesStep == TInv /\ [Next]_vars => TInv'
<1> SUFFICES ASSUME TInv, [Next]_vars PROVE TInv'
  OBVIOUS
<1>1. CASE UNCHANGED vars
  <2>1. Forward
    BY <1>1 DEF vars, Forward
  <2> QED  BY <1>1 DEF vars, TInv, TypeOK, Opened, Tasked, LockInv, HoldsLock, ProcessOf, MaxRuns
<1>2. CASE Next
  <2>1. ASSUME NEW h \in Handlers, Run(h) \/ Cancel(h) \/ ReportUsage(h) \/ SkillChanged(h)
        PROVE  TInv'
    BY <1>2, <2>1, RequestTypes, SkillChangedTypes DEF Next
  <2>2. ASSUME NEW h \in Handlers, NEW t \in Tasks, NEW r \in Resolution, Resolve(h, t, r)
        PROVE  TInv'
    BY <1>2, <2>2, ResolveTypes DEF Next
  <2>3. ASSUME NEW h \in Handlers, Proceed(h)
        PROVE  TInv'
    BY <1>2, <2>3, SettleGuardTypes, CheckTypes, LoadTypes, StoreTypes, EnqueueTypes, ReleaseTypes,
       BeginRunTypes, ReconcileTypes, StepTypes, PerformTypes, AskTypes, PauseTypes,
       PerformStopOrEndTypes, TakeRouteTypes, ReloadTypes, BeginResumeTypes, ResumeBoundTypes,
       SettleUnresumableTypes, ReadApprovedTypes, ExecuteTypes, WakeTypes, ResumeIntoTypes,
       ExitWaitingTypes DEF Next, Proceed
  <2>4. ASSUME NEW p \in Processes, Crash(p) \/ Restart(p)
        PROVE  TInv'
    BY <1>2, <2>4, ProcessFails, FailingTypes DEF Next
  <2> QED  BY <1>2, <2>1, <2>2, <2>3, <2>4 DEF Next
<1> QED  BY <1>1, <1>2

LEMMA TypesInit == Init => TInv
<1> SUFFICES ASSUME Init PROVE TInv
  OBVIOUS
<1>1. TypeOK
  BY ServerAssumption, FlowAssumption, FreeTypes DEF Init, TypeOK, HumanTasks, ServerAssumption,
     FlowAssumption, MaxRuns
<1>2. (\A h \in Handlers : Locals(handler[h]) /\ Tasked(handler[h])) /\ LockInv
  BY FreeKeeps DEF Init, LockInv
<1>3. FlowOK(row.flow) /\ Opened(row.flow.task)
  BY FreeTypes, FreeKeeps DEF Init, Opened
<1> QED  BY <1>1, <1>2, <1>3 DEF TInv

(* Every variable keeps its type, whatever the flow, the faults and the      *)
(* number of calls, processes and runs: in particular a flow is never        *)
(* written with more than MAX_FLOW_STEPS steps (runner.ts, loop()).          *)
THEOREM TypesHold == Spec => []TypeOK
<1>1. TInv => TypeOK
  BY DEF TInv
<1> QED  BY <1>1, TypesInit, TypesStep, PTL DEF Spec

-------------------------------------------------------------------------------
(* A flow that is started once.                                              *)

OnceInv == OneRun /\ ClaimInv /\ FlowInv /\ DriverInv

(* What the bystanders of the flow do to it at most: people resolve tasks,   *)
(* the status leaves the wait.                                               *)
Resolved ==
  \A t \in Tasks :
    \/ task'[t] = task[t]
    \/ /\ task[t].state = "open" /\ task'[t].state \in Resolution
       /\ task'[t].step = task[t].step

Held ==
  /\ task' \in [Tasks -> HumanTasks] /\ Resolved
  /\ row'.flow = row.flow /\ row'.intent = row.intent
  /\ UNCHANGED <<deployment, walk, calls>>

Kept == Held /\ (Quiet => Quiet')

LEMMA AskedKept ==
  ASSUME Held, NEW k
  PROVE  /\ Promise!Asked(k)' = Promise!Asked(k)
         /\ Promise!Outcomes(k) \subseteq Promise!Outcomes(k)'
<1>1. Promise!Asked(k)' = Promise!Asked(k)
  BY DEF Held, Resolved, Promise!Asked, Resolution
<1>2. ASSUME NEW a \in {"approved", "rejected"}, Promise!Answered(k, a)
      PROVE  Promise!Answered(k, a)'
  <2>1. PICK t \in Promise!Asked(k) : task[t].state = a
    BY <1>2 DEF Promise!Answered
  <2>2. task'[t].state = a
    BY <2>1 DEF Held, Resolved, Promise!Asked
  <2> QED  BY <1>1, <2>1, <2>2 DEF Promise!Answered
<1>3. UNCHANGED <<walk, calls>>
  BY DEF Held
<1>4. ASSUME NEW o \in Promise!Outcomes(k)
      PROVE  o \in Promise!Outcomes(k)'
  BY <1>2, <1>3, <1>4 DEF Promise!Outcomes
<1> QED  BY <1>1, <1>4

LEMMA CleanKept ==
  ASSUME Held, NEW k, Clean(k)
  PROVE  Clean(k)'
BY AskedKept DEF Clean, Held

LEMMA BegunKept ==
  ASSUME Kept, Begun
  PROVE  Begun'
<1>1. \A t \in Tasks : task[t] = [state |-> "absent", node |-> None, step |-> 0]
  BY DEF Begun, Promise!Init
<1>2. \A t \in Tasks : task'[t] = task[t]
  BY <1>1 DEF Kept, Held, Resolved
<1>3. task' = [t \in Tasks |-> [state |-> "absent", node |-> None, step |-> 0]]
  BY <1>1, <1>2 DEF Kept, Held
<1> QED  BY <1>3 DEF Begun, Kept, Held, Promise!Init

LEMMA FlowKept ==
  ASSUME FlowInv, Held, Quiet' \/ row.flow.step = "waiting",
         row.flow.step = "waiting" /\ Unspent(row.flow.task)' => Unspent(row.flow.task)
  PROVE  FlowInv'
<1>1. row'.flow = row.flow /\ row'.intent = row.intent /\ UNCHANGED <<walk, calls>>
      /\ Step0' = Step0 /\ Node0' = Node0
  BY DEF Held, Step0, Node0
<1>2. row.flow.step = "pending" => Clean(Step0)' /\ Promise!Follows(Step0, Node0)'
  <2>1. Promise!Follows(Step0, Node0) => Promise!Follows(Step0, Node0)'
    BY <1>1, AskedKept DEF Promise!Follows
  <2> QED  BY <1>1, <2>1, CleanKept DEF FlowInv
<1>3. row.flow.step \in {"running", "waiting"} => Visited'
  BY <1>1, CleanKept DEF FlowInv, Visited
<1>4. row.flow.step = "waiting" => AskedBy(row.flow.task)'
  BY <1>1, AskedKept DEF FlowInv, AskedBy
<1> QED  BY <1>1, <1>2, <1>3, <1>4 DEF FlowInv

LEMMA StageKept ==
  ASSUME NEW s \in Calls, Stage(s), FlowInv, Kept
  PROVE  Stage(s)'
<1>1. /\ row'.flow = row.flow /\ row'.intent = row.intent /\ (Quiet => Quiet')
      /\ Step0' = Step0 /\ Node0' = Node0 /\ UNCHANGED <<walk, calls>>
  BY DEF Kept, Held, Step0, Node0
<1>2. Promise!Asked(Step0)' = Promise!Asked(Step0)
      /\ Promise!Outcomes(Step0) \subseteq Promise!Outcomes(Step0)'
  BY <1>1, AskedKept DEF Kept
<1>3. (Begun => Begun') /\ (Unasked => Unasked') /\ (AskedBy(s.task) => AskedBy(s.task)')
  BY <1>1, <1>2, BegunKept DEF Unasked, AskedBy
<1>4. row.flow.step = "waiting" /\ task[row.flow.task].state = "approved" =>
        task'[row.flow.task].state = "approved"
  BY DEF FlowInv, AskedBy, Kept, Held, Resolved
<1> QED  BY <1>1, <1>2, <1>3, <1>4 DEF Stage, Answering

(* What the one that drives does on his way from s to t.                     *)
LEMMA DriverActs ==
  ASSUME TInv, OnceInv, NEW h \in Handlers, NEW s \in Calls, Become(h, s), Driving(handler[h]),
         FlowInv', UNCHANGED <<deployment, runs>>,
         \A t \in Tasks : task'[t].state \in {"absent", "open"} => task[t].state \in {"absent", "open"},
         s.task \in Tasks /\ Claiming(s) => Claims(h, s.task),
         ~Aside(s), s.pc # "resume", s.pc = "store" => Backend # "memory",
         Driving(s) =>
           Stage(s)' /\ (~Quiet' => s.task = row'.flow.task /\ Claiming(s) /\ s.job = "resume")
  PROVE  OnceInv'
<1>1. handler' = [handler EXCEPT ![h] = s] /\ handler \in [Handlers -> Calls] /\ OneRun'
      /\ Backend' = Backend /\ runs # 0
  BY DEF Become, TInv, TypeOK, OnceInv, OneRun, DriverInv, MaxRuns, Faults, Backend
<1>2. ASSUME NEW g \in Handlers, NEW t \in Tasks, Claims(g, t)'
      PROVE  Claims(g, t)
  BY <1>1, <1>2 DEF Claims
<1>3. ClaimInv'
  BY <1>2 DEF OnceInv, ClaimInv
<1>4. \A g \in Handlers : Driving(handler'[g]) => g = h /\ handler'[g] = s
  BY <1>1 DEF OnceInv, DriverInv
<1>5. (\A g \in Handlers : Driving(handler[g]) =>
         /\ Stage(handler[g])
         /\ ~Quiet => Claims(g, row.flow.task) /\ handler[g].job = "resume")'
  BY <1>1, <1>4 DEF Claims
<1>6. DriverInv'
  BY <1>1, <1>4, <1>5 DEF OnceInv, DriverInv
<1> QED  BY <1>1, <1>3, <1>6 DEF OnceInv

LEMMA DriverMoves ==
  ASSUME TInv, OnceInv, NEW h \in Handlers, NEW s \in Calls, Become(h, s), Driving(handler[h]),
         UNCHANGED <<deployment, row, task, runs, history>>,
         Claiming(s) => Claiming(handler[h]) /\ s.task \in {None, handler[h].task},
         ~Aside(s), s.pc \notin {"resume?", "resume"}, s.pc = "store" => Backend # "memory",
         s.pc \in {"bound", "approved", "execute"} =>
           handler[h].pc \in {"resume?", "resume", "bound", "approved", "execute", "classify"},
         handler[h].pc = "classify" => s.task = None,
         Driving(s) =>
           Stage(s) /\ (~Quiet => s.task = row.flow.task /\ Claiming(s) /\ s.job = "resume")
  PROVE  OnceInv'
<1>1. Kept
  BY DEF Kept, Held, Resolved, history, TInv, TypeOK, Quiet
<1>2. handler' = [handler EXCEPT ![h] = s] /\ handler \in [Handlers -> Calls]
  BY DEF Become, TInv, TypeOK
<1>3. FlowInv /\ (Quiet' \/ row.flow.step = "waiting")
  BY DEF OnceInv, FlowInv, Quiet
<1>4. row.flow.step = "waiting" /\ Unspent(row.flow.task)' => Unspent(row.flow.task)
  <2>1. row.flow.step = "waiting" => row.flow.task \in Tasks
    BY <1>3 DEF FlowInv, AskedBy
  <2>2. s.pc \in {"bound", "approved", "execute"} => Claiming(s)
    BY DEF Claiming, Driving, Resting, Aside, Moving
  <2> QED  BY <1>2, <2>1, <2>2, NoneAssumption DEF Unspent, NoneAssumption
<1>5. FlowInv'
  BY <1>1, <1>3, <1>4, FlowKept DEF Kept
<1>6. Stage(s) => Stage(s)'
  BY <1>1, <1>3, StageKept
<1>7. s.task \in Tasks /\ Claiming(s) => Claims(h, s.task)
  BY NoneAssumption DEF Claims, NoneAssumption
<1> QED  BY <1>5, <1>6, <1>7, DriverActs DEF Quiet, Claims

(* What the others do.                                                       *)
LEMMA Bystander ==
  ASSUME TInv, OnceInv, NEW h \in Handlers, NEW s \in Calls, Become(h, s),
         ~Driving(handler[h]), ~Driving(s), Kept, runs' = runs,
         Quiet' \/ ~Quiet,
         \A t \in Tasks : s.task = t /\ Claiming(s) =>
           \/ Claims(h, t) /\ task'[t] = task[t]
           \/ task[t].state = "open" /\ task'[t].state \in Resolution,
         s.pc = "resume" => s.job = "resume",
         Aside(s) => Backend = "memory" /\ s.job = "none", s.pc # "store"
  PROVE  OnceInv'
<1>1. handler' = [handler EXCEPT ![h] = s] /\ handler \in [Handlers -> Calls] /\ OneRun'
      /\ Backend' = Backend
  BY DEF Become, TInv, TypeOK, OnceInv, OneRun, MaxRuns, Faults, Backend, Kept, Held
<1>2. ASSUME NEW g \in Handlers, NEW t \in Tasks, Claims(g, t)'
      PROVE  \/ Claims(g, t) /\ (g = h => task'[t] = task[t])
             \/ g = h /\ task[t].state = "open" /\ task'[t].state \in Resolution
  <2>1. CASE g # h
    BY <1>1, <1>2, <2>1 DEF Claims
  <2>2. CASE g = h
    <3>1. s.task = t /\ Claiming(s)
      BY <1>1, <1>2, <2>2 DEF Claims
    <3> QED  BY <2>2, <3>1
  <2> QED  BY <2>1, <2>2
<1>3. ClaimInv'
  BY <1>2 DEF OnceInv, ClaimInv, Kept, Held, Resolved, Resolution
<1>4. \A g \in Handlers : Driving(handler'[g]) => g # h /\ handler'[g] = handler[g]
  BY <1>1
<1>5. FlowInv'
  <2>1. row.flow.step = "waiting" => row.flow.task \in Tasks
    BY DEF OnceInv, FlowInv, AskedBy
  <2>2. s.pc \in {"resume?", "resume", "bound", "approved", "execute"} => Claiming(s)
    BY DEF Claiming, Driving, Resting, Aside, Moving
  <2>3. row.flow.step = "waiting" /\ Unspent(row.flow.task)' => Unspent(row.flow.task)
    <3>1. ASSUME NEW t \in Tasks, Unspent(t)' PROVE Unspent(t)
      <4>1. CASE task'[t].state = "open"
        BY <4>1 DEF Kept, Held, Resolved, Unspent, Resolution
      <4>2. CASE s.task = t /\ s.pc \in {"resume?", "resume", "bound", "approved", "execute"}
        BY <2>2, <4>2 DEF Claims, Claiming, Unspent
      <4>3. ASSUME NEW g \in Handlers, g # h, handler'[g].task = t,
                   handler'[g].pc \in {"resume?", "resume", "bound", "approved", "execute"}
            PROVE  Unspent(t)
        BY <1>1, <4>3 DEF Unspent
      <4>4. CASE task'[t].state # "open"
        <5>1. PICK g \in Handlers : /\ handler'[g].task = t
                /\ handler'[g].pc \in {"resume?", "resume", "bound", "approved", "execute"}
          BY <3>1, <4>4 DEF Unspent
        <5>2. g = h => handler'[g] = s
          BY <1>1
        <5> QED  BY <4>2, <4>3, <5>1, <5>2
      <4> QED  BY <4>1, <4>4
    <3>2. row'.flow = row.flow
      BY DEF Kept, Held
    <3> QED  BY <2>1, <3>1, <3>2
  <2> QED  BY <2>3, FlowKept DEF Kept, OnceInv, FlowInv
<1>6. (\A g \in Handlers : Driving(handler[g]) =>
         /\ Stage(handler[g])
         /\ ~Quiet => Claims(g, row.flow.task) /\ handler[g].job = "resume")'
  <2>1. ASSUME NEW g \in Handlers, Driving(handler'[g])
        PROVE  /\ Stage(handler[g])'
               /\ ~Quiet' => Claims(g, row'.flow.task) /\ handler[g].job = "resume"
    <3>1. PICK x \in Calls : x = handler[g] /\ x = handler'[g]
      BY <1>1, <1>4, <2>1
    <3>2. Stage(x) /\ (~Quiet => Claims(g, row.flow.task) /\ x.job = "resume")
      BY <2>1, <3>1 DEF OnceInv, DriverInv
    <3>3. Stage(x)'
      BY <3>2, StageKept DEF OnceInv
    <3> QED  BY <3>1, <3>2, <3>3 DEF Kept, Held
  <2> QED  BY <1>4, <2>1 DEF Kept, Held, Claims
<1>7. runs' = 0 => Begun'
  BY BegunKept DEF OnceInv, DriverInv
<1>8. DriverInv'
  BY <1>1, <1>4, <1>6, <1>7 DEF OnceInv, DriverInv
<1> QED  BY <1>1, <1>3, <1>5, <1>8 DEF OnceInv

(* Whoever begins to drive finds nobody who does.                            *)
LEMMA DriverStarts ==
  ASSUME TInv, OnceInv, NEW h \in Handlers, NEW s \in Calls, Become(h, s), Stage(s),
         \A g \in Handlers : ~Driving(handler[g]),
         UNCHANGED <<deployment, row, task, history>>, runs' # 0, runs' <= 1,
         s.task \in Tasks => Claims(h, s.task) /\ handler[h].pc = "resume",
         ~Aside(s), s.pc \notin {"store", "resume"},
         ~Quiet => s.task = row.flow.task /\ Claiming(s) /\ s.job = "resume"
  PROVE  OnceInv'
<1>1. handler' = [handler EXCEPT ![h] = s] /\ handler \in [Handlers -> Calls] /\ OneRun'
      /\ Backend' = Backend
  BY DEF Become, TInv, TypeOK, OnceInv, OneRun, MaxRuns, Faults, Backend
<1>2. Kept
  BY DEF Kept, Held, Resolved, history, TInv, TypeOK, Quiet
<1>3. ASSUME NEW g \in Handlers, NEW t \in Tasks, Claims(g, t)'
      PROVE  Claims(g, t)
  <2>1. CASE g = h
    <3>1. s.task = t
      BY <1>1, <1>3, <2>1 DEF Claims
    <3> QED  BY <2>1, <3>1
  <2>2. CASE g # h
    BY <1>1, <1>3, <2>2 DEF Claims
  <2> QED  BY <2>1, <2>2
<1>4. ClaimInv'
  BY <1>3 DEF OnceInv, ClaimInv
<1>5. FlowInv'
  <2>1. FlowInv /\ (Quiet' \/ row.flow.step = "waiting")
    BY DEF OnceInv, FlowInv, Quiet
  <2>2. row.flow.step = "waiting" => row.flow.task \in Tasks
    BY <2>1 DEF FlowInv, AskedBy
  <2>3. ASSUME NEW t \in Tasks, Unspent(t)' PROVE Unspent(t)
    <3>1. CASE task'[t].state = "open"
      BY <3>1 DEF Unspent
    <3>2. ASSUME NEW g \in Handlers, handler'[g].task = t,
                 handler'[g].pc \in {"resume?", "resume", "bound", "approved", "execute"}
          PROVE  Unspent(t)
      <4>1. CASE g = h
        <5>1. s.task = t
          BY <1>1, <3>2, <4>1
        <5> QED  BY <5>1 DEF Claims, Unspent
      <4>2. CASE g # h
        BY <1>1, <3>2, <4>2 DEF Unspent
      <4> QED  BY <4>1, <4>2
    <3> QED  BY <2>3, <3>1, <3>2 DEF Unspent
  <2>4. row' = row
    OBVIOUS
  <2> QED  BY <1>2, <2>1, <2>2, <2>3, <2>4, FlowKept DEF Kept
<1>6. (\A g \in Handlers : Driving(handler[g]) =>
         /\ Stage(handler[g])
         /\ ~Quiet => Claims(g, row.flow.task) /\ handler[g].job = "resume")'
  <2>1. Stage(s)'
    BY <1>2, StageKept DEF OnceInv
  <2>2. \A g \in Handlers : Driving(handler'[g]) => g = h /\ handler'[g] = s
    BY <1>1
  <2>3. Quiet' = Quiet
    BY DEF Quiet
  <2> QED  BY <1>1, <2>1, <2>2, <2>3 DEF Claims
<1>7. DriverInv'
  BY <1>1, <1>6 DEF OnceInv, DriverInv
<1> QED  BY <1>1, <1>4, <1>5, <1>7 DEF OnceInv

LEMMA RunOnce ==
  ASSUME TInv, OnceInv, NEW h \in Handlers, Run(h), UNCHANGED deployment, runs' <= 1
  PROVE  OnceInv'
<1> DEFINE s == Transit(Free, "running", "run?")
<1>1. /\ s \in Calls /\ s.pc = "check" /\ s.next = "run?" /\ s.to = "running"
      /\ s.job = "none" /\ s.task = None
  <2>1. "run?" \in Places /\ "running" \in Status
    BY DEF Places, Status
  <2> QED  BY <2>1, FreeTypes, TransitTypes
<1>2. Become(h, s) /\ UNCHANGED <<deployment, row, task, history>>
  BY DEF Run
<1> HIDE DEF s
<1>3. runs = 0 /\ runs' # 0
  <2>1. runs \in Nat
    BY DEF TInv, TypeOK
  <2> QED  BY <2>1 DEF Run
<1>4. Begun /\ Quiet /\ \A g \in Handlers : ~Driving(handler[g])
  BY <1>3 DEF OnceInv, DriverInv, Begun
<1>5. Stage(s)
  BY <1>1, <1>4 DEF Stage, Starting, Performing, Routing, Outgoing, Answering, Moving
<1>6. ~Aside(s) /\ s.task \notin Tasks
  BY <1>1, NoneAssumption DEF Aside, NoneAssumption
<1> QED  BY <1>1, <1>2, <1>3, <1>4, <1>5, <1>6, DriverStarts

LEMMA BeginResumeOnce ==
  ASSUME TInv, OnceInv, NEW h \in Handlers, BeginResume(h), UNCHANGED deployment
  PROVE  OnceInv'
<1> DEFINE s == handler[h]
           g == Go(s, "bound")
           t == [g EXCEPT !.flow = row.flow]
<1>1. /\ s \in Calls /\ s.pc = "resume" /\ s.job = "resume" /\ s.next = "idle"
      /\ s.task # None /\ s.task \in Tasks /\ row \in Rows
      /\ task[s.task].state \in Resolution
  BY HandlerTypes DEF BeginResume, At, OnceInv, DriverInv, Tasked, Locals, Moving, TInv, TypeOK, Calls
<1>2. UNCHANGED <<deployment, row, task, chain, runs, history>>
  BY DEF BeginResume
<1>3. "bound" \in Places /\ "release" \in Places
  BY DEF Places
<1>4. ~Driving(s) /\ Claims(h, s.task)
  BY <1>1 DEF Driving, Resting, Claims, Claiming
<1>5. CASE Become(h, Go(s, "release"))
  <2> DEFINE r == Go(s, "release")
  <2>1. r \in Calls /\ r.pc = "release" /\ r.next = "idle"
    BY <1>1, <1>3, GoTypes
  <2> HIDE DEF r
  <2>2. ~Driving(r) /\ ~Claiming(r) /\ ~Aside(r)
    BY <2>1 DEF Driving, Resting, Claiming, Aside, Moving
  <2>3. Kept
    BY <1>2 DEF Kept, Held, Resolved, history, TInv, TypeOK, Quiet
  <2> QED  BY <1>2, <1>4, <1>5, <2>1, <2>2, <2>3, Bystander DEF r, Quiet
<1>6. CASE Bound(s.task) /\ Become(h, t)
  <2>1. /\ g \in Calls /\ g.pc = "bound" /\ g.next = "idle" /\ g.job = s.job /\ g.task = s.task
    BY <1>1, <1>3, GoTypes
  <2> HIDE DEF g
  <2>2. /\ t \in Calls /\ t.pc = "bound" /\ t.next = "idle" /\ t.job = "resume"
        /\ t.flow = row.flow /\ t.task = s.task
    BY <1>1, <2>1 DEF Calls, Rows
  <2> HIDE DEF t
  <2>3. row.flow.task = s.task /\ row.flow.step = "waiting" /\ ~Quiet
    BY <1>6 DEF Bound, BoundToNode, Quiet
  <2>4. \A d \in Handlers : ~Driving(handler[d])
    BY <1>1, <1>4, <2>3 DEF OnceInv, DriverInv, ClaimInv
  <2>5. Stage(t)
    BY <2>2, <2>3 DEF Stage, Starting, Performing, Routing, Outgoing, Answering, Moving
  <2>6. ~Aside(t) /\ Claiming(t)
    BY <2>2 DEF Aside, Claiming, Driving, Resting, Moving
  <2>7. runs' # 0 /\ runs' <= 1
    BY <1>2, <2>3 DEF OnceInv, OneRun, DriverInv, Begun
  <2> QED  BY <1>1, <1>2, <1>4, <1>6, <2>2, <2>3, <2>4, <2>5, <2>6, <2>7, DriverStarts
<1> QED  BY <1>5, <1>6 DEF BeginResume

LEMMA RequestOnce ==
  ASSUME TInv, OnceInv, NEW h \in Handlers, Cancel(h) \/ ReportUsage(h), UNCHANGED deployment
  PROVE  OnceInv'
<1>1. PICK s \in {Settle(Free, "cancelled", "idle"), [Free EXCEPT !.pc = "load", !.to = "usage"]} :
        Become(h, s)
  BY DEF Cancel, ReportUsage
<1>2. /\ Backend = "memory" /\ handler[h].pc = "idle"
      /\ UNCHANGED <<deployment, row, task, runs, walk, calls>>
  BY DEF Cancel, ReportUsage, Begins, At, OnceInv, OneRun, history
<1>3. /\ s \in Calls /\ s.pc \in {"settle", "load"} /\ s.next = "idle"
      /\ s.to \in {"cancelled", "usage"} /\ s.job = "none" /\ s.task = None
  <2>1. {"idle", "load"} \subseteq Places /\ "cancelled" \in Status
    BY DEF Places, Status, Terminal
  <2>2. CASE s = Settle(Free, "cancelled", "idle")
    BY <2>1, <2>2, FreeTypes, SettleTypes
  <2>3. CASE s = [Free EXCEPT !.pc = "load", !.to = "usage"]
    BY <2>1, <2>3, FreeTypes DEF Calls
  <2> QED  BY <2>2, <2>3
<1>4. ~Driving(handler[h]) /\ ~Driving(s) /\ s.task \notin Tasks
  BY <1>2, <1>3, NoneAssumption DEF Driving, Resting, Aside, Moving, NoneAssumption
<1>5. Kept
  BY <1>2 DEF Kept, Held, Resolved, TInv, TypeOK, Quiet
<1> QED  BY <1>1, <1>2, <1>3, <1>4, <1>5, Bystander DEF Quiet

LEMMA ResolveOnce ==
  ASSUME TInv, OnceInv, NEW h \in Handlers, NEW t \in Tasks, NEW r \in Resolution,
         Resolve(h, t, r), TInv', UNCHANGED deployment
  PROVE  OnceInv'
<1> DEFINE s == [Free EXCEPT !.pc = "resume?", !.task = t]
<1>1. task' = [task EXCEPT ![t].state = r] /\ task[t].state = "open" /\ Become(h, s)
      /\ handler[h].pc = "idle" /\ UNCHANGED <<deployment, row, runs, walk, calls>>
  BY DEF Resolve, Closable, Begins, At, history
<1>2. s \in Calls /\ s.pc = "resume?" /\ s.next = "idle" /\ s.task = t
  BY FreeTypes DEF Calls, Places
<1> HIDE DEF s
<1>3. Kept /\ task'[t].state = r
  <2>1. task \in [Tasks -> HumanTasks] /\ task' \in [Tasks -> HumanTasks]
    BY DEF TInv, TypeOK
  <2> QED  BY <1>1, <2>1 DEF Kept, Held, Resolved, HumanTasks, Quiet
<1>4. ~Driving(handler[h]) /\ ~Driving(s) /\ ~Aside(s)
  BY <1>1, <1>2 DEF Driving, Resting, Aside, Moving
<1> QED  BY <1>1, <1>2, <1>3, <1>4, Bystander DEF Quiet

LEMMA ReleaseOnce ==
  ASSUME TInv, OnceInv, NEW h \in Handlers, Release(h), UNCHANGED deployment
  PROVE  OnceInv'
<1>1. UNCHANGED <<deployment, row, task, runs, walk, calls>>
  BY DEF Release, history
<1>2. Kept
  BY <1>1 DEF Kept, Held, Resolved, TInv, TypeOK, Quiet
<1>3. CASE At(h, "release")
  <2>1. ~Driving(handler[h]) /\ ~Driving(Free) /\ ~Aside(Free) /\ ~Claiming(Free)
    BY <1>3, FreeTypes DEF At, Driving, Resting, Aside, Moving, Claiming
  <2>2. Become(h, Free)
    BY <1>3 DEF Release, At
  <2> QED  BY <1>1, <1>2, <2>1, <2>2, FreeTypes, Bystander DEF Quiet
<1>4. CASE At(h, "thrown")
  <2>1. handler[h].pc = "thrown" /\ Become(h, Settle(Free, "failed", "idle"))
    BY <1>4 DEF Release, At
  <2>2. PICK s \in Calls :
          Become(h, s) /\ s.pc = "settle" /\ s.next = "idle" /\ s.to = "failed" /\ s.task = None
    <3>1. "idle" \in Places /\ "failed" \in Status
      BY DEF Places, Status, Terminal
    <3> QED  BY <2>1, <3>1, FreeTypes, SettleTypes
  <2>3. Driving(handler[h]) /\ handler[h].next = "idle"
    BY <2>1, HandlerTypes DEF Driving, Resting, Aside, Moving, Locals
  <2>4. Quiet
    BY <2>1, <2>3 DEF OnceInv, DriverInv, Claims, Claiming, Resting
  <2>5. Stage(s)
    BY <2>2 DEF Stage, Starting, Performing, Routing, Outgoing, Answering, Moving
  <2>6. ~Aside(s) /\ s.task \notin Tasks
    BY <2>2, NoneAssumption DEF Aside, NoneAssumption
  <2>7. FlowInv'
    BY <1>1, <1>2, <2>1, <2>2, <2>4, <2>6, FlowKept DEF Kept, OnceInv, FlowInv, Quiet, Unspent, AskedBy,
       Become, TInv, TypeOK
  <2>8. Stage(s)' /\ Quiet'
    BY <1>1, <1>2, <2>4, <2>5, StageKept DEF OnceInv, Quiet
  <2> QED  BY <1>1, <2>1, <2>2, <2>3, <2>6, <2>7, <2>8, DriverActs
<1> QED  BY <1>3, <1>4 DEF Release

LEMMA EnqueueOnce ==
  ASSUME TInv, OnceInv, NEW h \in Handlers, Enqueue(h), UNCHANGED deployment
  PROVE  OnceInv'
<1>1. handler[h] \in Calls /\ Locals(handler[h])
      /\ UNCHANGED <<deployment, row, task, runs, walk, calls>>
  BY HandlerTypes DEF Enqueue, history
<1>2. Kept
  BY <1>1 DEF Kept, Held, Resolved, TInv, TypeOK, Quiet
<1>3. CASE At(h, "resume?")
  <2> DEFINE s == [handler[h] EXCEPT !.pc = "resume", !.job = "resume"]
  <2>1. Become(h, s) /\ handler[h].pc = "resume?"
    BY <1>3 DEF Enqueue, At
  <2>2. s \in Calls /\ s.pc = "resume" /\ s.job = "resume" /\ s.task = handler[h].task
    <3>1. "resume" \in Places
      BY DEF Places
    <3> QED  BY <1>1, <3>1 DEF Calls
  <2> HIDE DEF s
  <2>3. ~Driving(handler[h]) /\ ~Driving(s) /\ ~Aside(s) /\ Claiming(handler[h])
    BY <2>1, <2>2 DEF Driving, Resting, Aside, Moving, Claiming
  <2> QED  BY <1>1, <1>2, <2>1, <2>2, <2>3, Bystander DEF Quiet, Claims
<1>4. CASE At(h, "run?")
  <2> DEFINE s == [handler[h] EXCEPT !.pc = "run", !.job = "run"]
  <2>1. Become(h, s) /\ handler[h].pc = "run?" /\ handler[h].next = "idle"
    BY <1>1, <1>4 DEF Enqueue, At, Locals, Moving
  <2>2. s \in Calls /\ s.pc = "run" /\ s.next = "idle" /\ s.task = handler[h].task
    BY <1>1, <2>1 DEF Calls, Places
  <2> HIDE DEF s
  <2>3. Driving(handler[h]) /\ ~Aside(s)
    BY <2>1, <2>2 DEF Driving, Resting, Aside, Moving
  <2>4. Begun /\ handler[h].task = None /\ Quiet
    BY <2>1, <2>3 DEF OnceInv, DriverInv, Stage, Starting, Begun
  <2>5. Stage(s)
    BY <2>2, <2>4 DEF Stage, Starting, Performing, Routing, Outgoing, Answering, Moving
  <2> QED  BY <1>1, <2>1, <2>2, <2>3, <2>4, <2>5, DriverMoves DEF history, Claiming, Moving, Resting
<1> QED  BY <1>3, <1>4 DEF Enqueue

(* A request that only changes the status, in the memory of the process.     *)
LEMMA AsideOnce ==
  ASSUME TInv, OnceInv, NEW h \in Handlers, Aside(handler[h]),
         SettleGuard(h) \/ Check(h) \/ Load(h) \/ Store(h), UNCHANGED deployment
  PROVE  OnceInv'
<1> DEFINE s == handler[h]
<1>1. /\ s \in Calls /\ Locals(s) /\ s.next = "idle" /\ s.to \in {"cancelled", "usage"}
      /\ s.job = "none" /\ Backend = "memory" /\ s.pc # "store" /\ ~Driving(s)
      /\ task \in [Tasks -> HumanTasks]
  BY HandlerTypes DEF Aside, OnceInv, DriverInv, Driving, TInv, TypeOK
<1>2. Continue(s) = Free /\ Throw(s) = Free
  BY <1>1, ContinueTypes DEF Throw
<1>3. Become(h, Free) \/ Become(h, [s EXCEPT !.pc = "check"]) \/ Become(h, [s EXCEPT !.pc = "load"])
  BY <1>1, <1>2 DEF SettleGuard, Check, Load, Store, At
<1>4. PICK t \in Calls :
        /\ Become(h, t) /\ t.task \in {None, s.task} /\ t.pc \in {"idle", "check", "load"}
        /\ t.pc # "idle" => Aside(t) /\ t.job = "none"
  <2>1. {"check", "load"} \subseteq Places
    BY DEF Places
  <2>2. CASE Become(h, Free)
    BY <2>2, FreeTypes
  <2>3. ASSUME NEW p \in {"check", "load"}, Become(h, [s EXCEPT !.pc = p])
        PROVE  \E t \in Calls : /\ Become(h, t) /\ t.task = s.task /\ t.pc = p
                                /\ Aside(t) /\ t.job = "none"
    <3> DEFINE t == [s EXCEPT !.pc = p]
    <3>1. /\ t \in Calls /\ t.pc = p /\ t.next = s.next /\ t.to = s.to /\ t.task = s.task
          /\ t.job = s.job
      BY <1>1, <2>1 DEF Calls
    <3> HIDE DEF t
    <3> QED  BY <1>1, <2>3, <3>1 DEF Aside, Moving, t
  <2> QED  BY <1>3, <2>2, <2>3
<1>5. ~Driving(t) /\ ~Claiming(t) /\ (Aside(t) => t.job = "none")
  BY <1>4 DEF Driving, Resting, Aside, Moving, Claiming
<1>6. t.pc \notin {"resume", "store"}
  BY <1>4
<1>7. /\ UNCHANGED <<deployment, task, runs, walk, calls>>
      /\ row' = row \/ row' = Merged(s, row)
  BY <1>1 DEF SettleGuard, Check, Load, Store, At, history
<1>8. /\ row'.flow = row.flow /\ row'.intent = row.intent
      /\ row'.status = row.status \/ row'.status = "cancelled"
  <2>1. row \in Rows
    BY DEF TInv, TypeOK
  <2>2. Merged(s, row) = row \/ Merged(s, row) = [row EXCEPT !.status = "cancelled"]
    BY <1>1 DEF Merged
  <2> QED  BY <1>7, <2>1, <2>2 DEF Rows
<1>9. Kept /\ (Quiet' \/ ~Quiet)
  <2>1. (Quiet => Quiet') /\ (Quiet' \/ ~Quiet)
    BY <1>8 DEF Quiet
  <2> QED  BY <1>1, <1>7, <1>8, <2>1 DEF Kept, Held, Resolved
<1> QED  BY <1>1, <1>4, <1>5, <1>6, <1>7, <1>9, Bystander

(* What is known of the one that drives.                                     *)
LEMMA DriverKnows ==
  ASSUME TInv, OnceInv, NEW h \in Handlers, Driving(handler[h])
  PROVE  /\ handler[h] \in Calls /\ Locals(handler[h]) /\ Tasked(handler[h]) /\ Stage(handler[h])
         /\ ~Quiet => /\ handler[h].task = row.flow.task /\ Claiming(handler[h])
                      /\ handler[h].job = "resume"
BY HandlerTypes DEF OnceInv, DriverInv, Claims

LEMMA ContinueStage ==
  ASSUME NEW s \in Calls, Locals(s), Stage(s)', s.pc \in Moving, Driving(s),
         s.to \notin {"intent", "waiting_for_approval"}, s.to = "resuming" => Quiet'
  PROVE  \E c \in Calls :
           /\ c = Continue(s) /\ c.task \in {None, s.task} /\ ~Aside(c)
           /\ c.pc \notin {"resume?", "resume", "store", "bound", "approved", "execute"}
           /\ Driving(c) => /\ Stage(c)' /\ c.task = s.task /\ c.job = s.job
                            /\ Claiming(c)
<1> DEFINE c == Continue(s)
<1>1. c \in Calls
  BY ContinueTypes
<1>2. CASE s.next = "idle"
  <2>1. c = Free
    BY <1>2, ContinueTypes
  <2> QED  BY <2>1, FreeTypes DEF Aside, Driving, Resting, Moving
<1>3. CASE s.next \in {"fail", "orFail", "release"}
  <2>1. /\ \/ c.pc = "settle" /\ c.next = "release" /\ c.to = "failed"
           \/ c.pc = "release" /\ c.next = "idle"
           \/ c.pc = "check" /\ c.next = "release" /\ c.to = "running"
        /\ c.task = s.task /\ c.job = s.job
    <3>1. "release" \in Places /\ {"failed", "running"} \subseteq Status
      BY DEF Places, Status, Terminal
    <3>2. CASE c = Settle(s, "failed", "release")
      BY <3>1, <3>2, SettleTypes
    <3>3. CASE c = Go(s, "release")
      BY <3>1, <3>3, GoTypes
    <3>4. CASE c = Transit(s, "running", "release")
      BY <3>1, <3>4, TransitTypes
    <3> QED  BY <1>3, <3>2, <3>3, <3>4, ContinueTypes
  <2> HIDE DEF c
  <2>2. PICK d \in Calls : d = c
    BY <1>1
  <2>3. Stage(d)'
    BY <2>1, <2>2 DEF Stage, Starting, Performing, Routing, Outgoing, Answering, Moving
  <2>4. ~Aside(d) /\ (Driving(d) => Claiming(d))
    BY <2>1, <2>2 DEF Aside, Claiming, Driving, Resting, Moving
  <2> QED  BY <2>1, <2>2, <2>3, <2>4 DEF c
<1>4. CASE s.next \in {"run?", "into", "route", "next"}
  <2>1. /\ \/ s.to # "resuming" /\ c.pc = s.next /\ c.next = "idle" /\ c.to = "created"
           \/ s.to = "resuming" /\ c.pc = "check" /\ c.next = s.next /\ c.to = "running"
        /\ c.task = s.task /\ c.job = s.job /\ c.flow = s.flow /\ c.outcome = s.outcome
    <3>1. s.next \in Places /\ "running" \in Status
      BY <1>4 DEF Places, Status
    <3>2. CASE s.to # "resuming"
      <4>1. c = Go(s, s.next)
        BY <1>4, <3>2, ContinueTypes
      <4> QED  BY <3>1, <3>2, <4>1, GoTypes
    <3>3. CASE s.to = "resuming"
      <4>1. c = Transit(s, "running", s.next)
        BY <1>4, <3>3, ContinueTypes
      <4> QED  BY <3>1, <3>3, <4>1, TransitTypes
    <3> QED  BY <3>2, <3>3
  <2> HIDE DEF c
  <2>2. PICK d \in Calls : d = c
    BY <1>1
  <2>3. Stage(d)'
    BY <1>4, <2>1, <2>2 DEF Stage, Starting, Performing, Routing, Outgoing, Answering, Moving
  <2>4. ~Aside(d) /\ Claiming(d)
    BY <1>4, <2>1, <2>2 DEF Aside, Claiming, Driving, Resting, Moving
  <2> QED  BY <1>4, <2>1, <2>2, <2>3, <2>4 DEF c
<1>5. s.next \notin {"classify", "resume"}
  BY DEF Stage
<1> QED  BY <1>2, <1>3, <1>4, <1>5 DEF Locals

LEMMA FlowStays ==
  ASSUME TInv, OnceInv, NEW h \in Handlers, NEW s \in Calls, Become(h, s),
         UNCHANGED <<deployment, row, task, runs, history>>,
         s.pc \notin {"resume?", "resume", "bound", "approved", "execute"}
  PROVE  FlowInv'
<1>1. Held /\ FlowInv
  BY DEF Held, Resolved, history, TInv, TypeOK, OnceInv
<1>2. Quiet' \/ row.flow.step = "waiting"
  BY <1>1 DEF FlowInv, Quiet
<1>3. Unspent(row.flow.task)' => Unspent(row.flow.task)
  <2>1. handler' = [handler EXCEPT ![h] = s] /\ handler \in [Handlers -> Calls]
    BY DEF Become, TInv, TypeOK
  <2> QED  BY <2>1 DEF Unspent
<1> QED  BY <1>1, <1>2, <1>3, FlowKept

(* From one statement of a call of the service to the next.                  *)
LEMMA NextStatement ==
  ASSUME TInv, OnceInv, NEW h \in Handlers, Driving(handler[h]),
         NEW p \in {"check", "load", "store"},
         \/ handler[h].pc = "settle" /\ p = "check"
         \/ handler[h].pc = "check" /\ p = "load"
         \/ handler[h].pc = "load" /\ p = "store",
         NEW t \in Calls, Become(h, t),
         t.pc = p, t.next = handler[h].next, t.to = handler[h].to, t.job = handler[h].job,
         t.flow = handler[h].flow, t.task = handler[h].task, t.outcome = handler[h].outcome,
         p = "store" => t.seen = row /\ Backend # "memory",
         UNCHANGED <<deployment, row, task, runs, history>>
  PROVE  OnceInv'
<1> DEFINE s == handler[h]
<1>1. /\ Stage(s) /\ s.pc \in Moving
      /\ ~Quiet => s.task = row.flow.task /\ Claiming(s) /\ s.job = "resume"
  BY DriverKnows DEF Moving
<1>2. s.next = "classify" => s.pc = "load"
  BY <1>1 DEF Stage, Moving
<1>3. Driving(t) /\ ~Aside(t) /\ (Claiming(t) <=> Claiming(s))
  BY <1>1 DEF Driving, Resting, Aside, Moving, Claiming
<1>4. Stage(t)
  <2>1. Quiet => row.status # "waiting_for_approval"
    BY DEF Quiet
  <2> QED  BY <1>1, <1>2, <2>1 DEF Stage, Starting, Performing, Routing, Outgoing, Answering, Moving
<1> QED  BY <1>1, <1>3, <1>4, DriverMoves DEF Moving

(* The last statement of a call of the service.                              *)
LEMMA LastStatement ==
  ASSUME TInv, OnceInv, NEW h \in Handlers, Driving(handler[h]), handler[h].pc \in Moving,
         Become(h, Continue(handler[h])), UNCHANGED <<deployment, task, runs, history>>,
         row'.flow = row.flow, row'.intent = row.intent,
         handler[h].to \notin {"intent", "waiting_for_approval"},
         Quiet' \/ (row' = row /\ handler[h].to # "resuming")
  PROVE  OnceInv'
<1>1. PICK s \in Calls : s = handler[h]
  BY HandlerTypes
<1>2. /\ Locals(s) /\ Stage(s) /\ s.pc \in Moving /\ Driving(s)
      /\ ~Quiet => s.task = row.flow.task /\ Claiming(s) /\ s.job = "resume"
  BY <1>1, DriverKnows
<1>3. Held /\ (Quiet => Quiet')
  BY DEF Held, Resolved, history, TInv, TypeOK, Quiet
<1>4. Stage(s)' /\ FlowInv
  BY <1>2, <1>3, StageKept DEF Kept, OnceInv
<1>5. s.to = "resuming" => Quiet'
  BY <1>1
<1>6. PICK c \in Calls :
        /\ Become(h, c) /\ c.task \in {None, s.task} /\ ~Aside(c)
        /\ c.pc \notin {"resume?", "resume", "store", "bound", "approved", "execute"}
        /\ Driving(c) => Stage(c)' /\ c.task = s.task /\ c.job = s.job /\ Claiming(c)
  <2>1. \E c \in Calls :
           /\ c = Continue(s) /\ c.task \in {None, s.task} /\ ~Aside(c)
           /\ c.pc \notin {"resume?", "resume", "store", "bound", "approved", "execute"}
           /\ Driving(c) => /\ Stage(c)' /\ c.task = s.task /\ c.job = s.job
                            /\ Claiming(c)
    BY <1>1, <1>2, <1>4, <1>5, ContinueStage
  <2> QED  BY <1>1, <2>1
<1>7. Claiming(s)
  BY <1>1, <1>2 DEF Claiming, Moving
<1>8. handler' = [handler EXCEPT ![h] = c] /\ handler \in [Handlers -> Calls]
  BY <1>6 DEF Become, TInv, TypeOK
<1>9. FlowInv'
  <2>1. Quiet' \/ row.flow.step = "waiting"
    BY <1>4 DEF FlowInv, Quiet
  <2>2. row.flow.step = "waiting" /\ Unspent(row.flow.task)' => Unspent(row.flow.task)
    <3>1. row'.flow = row.flow /\ task' = task
      OBVIOUS
    <3> QED  BY <1>6, <1>8, <3>1 DEF Unspent
  <2> QED  BY <1>3, <1>4, <2>1, <2>2, FlowKept
<1>10. ~Quiet' => ~Quiet
  BY DEF Quiet
<1>11. Claiming(c) => Driving(c)
  BY <1>6 DEF Claiming
<1>12. c.task \in Tasks /\ Claiming(c) => Claims(h, c.task)
  BY <1>1, <1>6, <1>7, <1>11, NoneAssumption DEF Claims, NoneAssumption
<1> QED  BY <1>1, <1>2, <1>6, <1>9, <1>10, <1>12, DriverActs

LEMMA SettleGuardOnce ==
  ASSUME TInv, OnceInv, NEW h \in Handlers, Driving(handler[h]), SettleGuard(h),
         UNCHANGED deployment
  PROVE  OnceInv'
<1> DEFINE s == handler[h]
           t == [s EXCEPT !.pc = "check"]
<1>1. /\ s \in Calls /\ Stage(s) /\ s.pc = "settle" /\ s.pc \in Moving
      /\ UNCHANGED <<deployment, row, task, runs, history>>
  BY DriverKnows DEF SettleGuard, At, Moving
<1>2. CASE Become(h, t)
  <2>1. "check" \in Places
    BY DEF Places
  <2>2. /\ t \in Calls /\ t.pc = "check" /\ t.next = s.next /\ t.to = s.to /\ t.job = s.job
        /\ t.flow = s.flow /\ t.task = s.task /\ t.outcome = s.outcome
    BY <1>1, <2>1 DEF Calls
  <2> HIDE DEF t
  <2> QED  BY <1>1, <1>2, <2>2, NextStatement
<1>3. CASE /\ Become(h, Continue(s))
           /\ \/ row.status \in Terminal
              \/ (s.to = "completed" /\ row.status \in Waiting)
  <2>1. s.to \notin {"intent", "waiting_for_approval"}
    BY <1>1 DEF Stage
  <2>2. Quiet' \/ (row' = row /\ s.to # "resuming")
    BY <1>1, <1>3 DEF Quiet, Terminal
  <2>3. row'.flow = row.flow /\ row'.intent = row.intent
    BY <1>1
  <2> HIDE DEF t
  <2> QED  BY <1>1, <1>3, <2>1, <2>2, <2>3, LastStatement
<1> QED  BY <1>2, <1>3 DEF SettleGuard

(* What a call of the one that drives throws is nobody's business but his.   *)
LEMMA ThrowOnce ==
  ASSUME TInv, OnceInv, NEW h \in Handlers, Driving(handler[h]), Become(h, Throw(handler[h])),
         FlowInv', UNCHANGED <<deployment, row, task, runs>>,
         handler[h].job = "run" => Quiet
  PROVE  OnceInv'
<1> DEFINE s == handler[h]
<1>1. s \in Calls
  BY DriverKnows
<1>2. PICK t \in Calls :
        /\ Become(h, t)
        /\ \/ t.pc \in {"idle", "release"} /\ t.next = "idle"
           \/ t.pc = "thrown" /\ t.next = "idle" /\ s.job = "run"
  <2>1. {"thrown", "release"} \subseteq Places
    BY DEF Places
  <2>2. CASE s.job = "run"
    BY <1>1, <2>1, <2>2, GoTypes DEF Throw
  <2>3. CASE s.job = "resume"
    BY <1>1, <2>1, <2>3, GoTypes DEF Throw
  <2>4. CASE s.job \notin {"run", "resume"}
    BY <1>1, <2>4, FreeTypes DEF Throw
  <2> QED  BY <2>2, <2>3, <2>4
<1>3. ~Claiming(t) /\ ~Aside(t) /\ (Driving(t) => s.job = "run")
  BY <1>2 DEF Claiming, Driving, Resting, Aside, Moving
<1>4. Stage(t)'
  BY <1>2 DEF Stage, Starting, Performing, Routing, Outgoing, Answering, Moving
<1>5. Quiet => Quiet'
  BY DEF Quiet
<1> QED  BY <1>2, <1>3, <1>4, <1>5, DriverActs

LEMMA CheckOnce ==
  ASSUME TInv, OnceInv, NEW h \in Handlers, Driving(handler[h]), Check(h), UNCHANGED deployment
  PROVE  OnceInv'
<1> DEFINE s == handler[h]
           t == [s EXCEPT !.pc = "load"]
<1>1. /\ s \in Calls /\ Locals(s) /\ Stage(s) /\ s.pc = "check" /\ s.pc \in Moving
      /\ ~Quiet => s.task = row.flow.task /\ Claiming(s) /\ s.job = "resume"
      /\ UNCHANGED <<deployment, row, task, runs, history>>
  BY DriverKnows DEF Check, At, Moving
<1>2. CASE Become(h, t)
  <2>1. "load" \in Places
    BY DEF Places
  <2>2. /\ t \in Calls /\ t.pc = "load" /\ t.next = s.next /\ t.to = s.to /\ t.job = s.job
        /\ t.flow = s.flow /\ t.task = s.task /\ t.outcome = s.outcome
    BY <1>1, <2>1 DEF Calls
  <2> HIDE DEF t
  <2> QED  BY <1>1, <1>2, <2>2, NextStatement
<1>3. CASE s.next = "orFail" /\ Become(h, Settle(s, "failed", "release"))
  <2> DEFINE u == Settle(s, "failed", "release")
  <2>1. /\ u \in Calls /\ u.pc = "settle" /\ u.next = "release" /\ u.to = "failed"
        /\ u.job = s.job /\ u.task = s.task
    <3>1. "release" \in Places /\ "failed" \in Status
      BY DEF Places, Status, Terminal
    <3> QED  BY <1>1, <3>1, SettleTypes
  <2> HIDE DEF u
  <2>2. Stage(u)
    BY <2>1 DEF Stage, Starting, Performing, Routing, Outgoing, Answering, Moving
  <2>3. ~Aside(u) /\ Claiming(u) /\ Claiming(s)
    BY <1>1, <1>3, <2>1 DEF Claiming, Driving, Resting, Aside, Moving, Stage
  <2> QED  BY <1>1, <1>3, <2>1, <2>2, <2>3, DriverMoves DEF u
<1>4. CASE Become(h, Throw(s))
  <2>1. FlowInv'
    <3>1. {"idle", "release", "thrown"} \subseteq Places
      BY DEF Places
    <3>2. Throw(s) \in Calls /\ Throw(s).pc \in {"idle", "release", "thrown"}
      BY <1>1, <3>1, FreeTypes, GoTypes DEF Throw
    <3> QED  BY <1>1, <1>4, <3>2, FlowStays
  <2> QED  BY <1>1, <1>4, <2>1, ThrowOnce
<1> QED  BY <1>2, <1>3, <1>4 DEF Check

LEMMA WriteOnce ==
  ASSUME TInv, OnceInv, NEW h \in Handlers, Driving(handler[h]), handler[h].pc \in Moving,
         Become(h, Continue(handler[h])), UNCHANGED <<deployment, task, runs, history>>,
         row'.flow = row.flow,
         row'.intent = IF handler[h].to = "intent" THEN handler[h].flow.current ELSE row.intent,
         handler[h].to # "intent" => row'.status = handler[h].to,
         handler[h].to = "intent" => Quiet'
  PROVE  OnceInv'
<1> DEFINE s == handler[h]
<1>1. /\ s \in Calls /\ Locals(s) /\ Stage(s) /\ FlowInv
      /\ ~Quiet => s.task = row.flow.task /\ Claiming(s) /\ s.job = "resume"
  BY DriverKnows DEF OnceInv
<1>2. task \in [Tasks -> HumanTasks] /\ UNCHANGED <<walk, calls>>
      /\ handler' = [handler EXCEPT ![h] = Continue(s)] /\ handler \in [Handlers -> Calls]
  BY DEF TInv, TypeOK, history, Become
<1>3. {"release", "classify"} \subseteq Places
  BY DEF Places
<1>4. CASE s.to \notin {"intent", "waiting_for_approval"}
  <2>1. Quiet'
    BY <1>4 DEF Quiet
  <2> QED  BY <1>4, <2>1, LastStatement
<1>5. CASE s.to = "waiting_for_approval"
  <2>1. s.next = "release" /\ row.flow.step = "waiting"
    BY <1>1, <1>5 DEF Stage
  <2>2. Continue(s) = Go(s, "release")
    BY <1>1, <1>5, <2>1, ContinueTypes
  <2>3. PICK c \in Calls : c = Continue(s) /\ c.pc = "release" /\ c.next = "idle"
    BY <1>1, <1>3, <2>2, GoTypes
  <2>4. Held
    BY <1>2, <1>5 DEF Held, Resolved
  <2>5. Unspent(row.flow.task)' => Unspent(row.flow.task)
    <3>1. row'.flow = row.flow /\ task' = task
      OBVIOUS
    <3> QED  BY <1>2, <2>3, <3>1 DEF Unspent
  <2>6. FlowInv'
    BY <1>1, <2>1, <2>4, <2>5, FlowKept
  <2>7. ~Driving(c) /\ ~Claiming(c) /\ ~Aside(c)
    BY <2>3 DEF Driving, Resting, Claiming, Aside, Moving
  <2> QED  BY <2>3, <2>6, <2>7, DriverActs
<1>6. CASE s.to = "intent"
  <2>1. /\ s.next = "classify" /\ Type[Node0] = "command" /\ Performing(s)
        /\ Quiet /\ s.flow = row.flow /\ row.flow.step = "running" /\ s.task = None /\ Unasked
    BY <1>1, <1>6 DEF Stage, Performing
  <2>2. Continue(s) = Go(s, "classify")
    BY <1>1, <1>6, <2>1, ContinueTypes
  <2>3. PICK c \in Calls : /\ c = Continue(s) /\ c.pc = "classify" /\ c.next = "idle"
                           /\ c.flow = row.flow /\ c.task = None
    BY <1>1, <1>3, <2>1, <2>2, GoTypes
  <2>4. /\ Step0' = Step0 /\ Node0' = Node0 /\ row'.intent = Node0'
        /\ \A k : Promise!Asked(k)' = Promise!Asked(k)
    BY <1>6, <2>1 DEF Step0, Node0, Promise!Asked
  <2>5. FlowInv'
    <3>1. Visited'
      BY <1>1, <1>2, <2>1, <2>4 DEF FlowInv, Visited, Clean
    <3> QED  BY <1>1, <1>2, <1>6, <2>1, <3>1 DEF FlowInv
  <2>6. Unasked'
    BY <1>2, <2>1, <2>4 DEF Unasked
  <2>7. Stage(c)'
    <3>1. Quiet' /\ row'.flow = row.flow /\ row.flow.step = "running" /\ Type[Node0'] = "command"
      BY <1>6, <2>1, <2>4
    <3> QED  BY <2>3, <2>4, <2>6, <3>1
             DEF Stage, Starting, Performing, Routing, Outgoing, Answering, Moving
  <2>8. ~Aside(c) /\ c.task \notin Tasks
    BY <2>3, NoneAssumption DEF Aside, Moving, NoneAssumption
  <2> QED  BY <1>6, <2>3, <2>5, <2>7, <2>8, DriverActs
<1> QED  BY <1>4, <1>5, <1>6

LEMMA LoadOnce ==
  ASSUME TInv, OnceInv, NEW h \in Handlers, Driving(handler[h]), Load(h), UNCHANGED deployment
  PROVE  OnceInv'
<1> DEFINE s == handler[h]
           t == [s EXCEPT !.pc = "store", !.seen = row]
<1>1. /\ s \in Calls /\ Stage(s) /\ s.pc = "load" /\ s.pc \in Moving /\ row \in Rows
      /\ UNCHANGED <<deployment, task, runs, history>>
  BY DriverKnows DEF Load, At, Moving, TInv, TypeOK
<1>2. CASE Backend = "sql" /\ Become(h, t) /\ row' = row
  <2>1. "store" \in Places
    BY DEF Places
  <2>2. /\ t \in Calls /\ t.pc = "store" /\ t.next = s.next /\ t.to = s.to /\ t.job = s.job
        /\ t.flow = s.flow /\ t.task = s.task /\ t.outcome = s.outcome /\ t.seen = row
    BY <1>1, <2>1 DEF Calls
  <2> HIDE DEF t
  <2> QED  BY <1>1, <1>2, <2>2, NextStatement
<1>3. CASE row' = Merged(s, row) /\ Become(h, Continue(s))
  <2>1. s.to # "usage" /\ (s.to = "intent" => Quiet)
    BY <1>1 DEF Stage, Performing
  <2>2. /\ row'.flow = row.flow
        /\ row'.intent = IF s.to = "intent" THEN s.flow.current ELSE row.intent
        /\ s.to # "intent" => row'.status = s.to
        /\ s.to = "intent" => row'.status = row.status
    BY <1>1, <1>3, <2>1 DEF Merged, Rows
  <2>3. s.to = "intent" => Quiet'
    BY <2>1, <2>2 DEF Quiet
  <2> QED  BY <1>1, <1>3, <2>2, <2>3, WriteOnce
<1> QED  BY <1>2, <1>3 DEF Load

LEMMA StoreOnce ==
  ASSUME TInv, OnceInv, NEW h \in Handlers, Driving(handler[h]), Store(h), UNCHANGED deployment
  PROVE  OnceInv'
<1> DEFINE s == handler[h]
<1>1. /\ s \in Calls /\ Stage(s) /\ s.pc = "store" /\ s.pc \in Moving /\ s.seen \in Rows
      /\ UNCHANGED <<deployment, task, runs, history>>
      /\ row' = Upserted(Merged(s, s.seen)) /\ Become(h, Continue(s))
  BY DriverKnows DEF Store, At, Moving, Calls
<1>2. /\ s.to # "usage" /\ s.seen.flow = row.flow /\ s.seen.intent = row.intent
      /\ s.to = "intent" => s.seen.status # "waiting_for_approval"
  BY <1>1 DEF Stage
<1>3. /\ row'.flow = row.flow
      /\ row'.intent = IF s.to = "intent" THEN s.flow.current ELSE row.intent
      /\ s.to # "intent" => row'.status = s.to
      /\ s.to = "intent" => row'.status = s.seen.status
  <2>1. Merged(s, s.seen) = IF s.to = "intent" THEN [s.seen EXCEPT !.intent = s.flow.current]
                                             ELSE [s.seen EXCEPT !.status = s.to]
    BY <1>2 DEF Merged
  <2> QED  BY <1>1, <1>2, <2>1 DEF Upserted, Rows
<1>4. s.to = "intent" => Quiet'
  BY <1>2, <1>3 DEF Quiet
<1> QED  BY <1>1, <1>3, <1>4, WriteOnce

(* The one that drives goes on without touching anything else.               *)
LEMMA GoesOn ==
  ASSUME TInv, OnceInv, NEW h \in Handlers, Driving(handler[h]), Claiming(handler[h]),
         NEW t \in Calls, Become(h, t), UNCHANGED <<deployment, row, task, runs, history>>,
         t.task = handler[h].task, t.job = handler[h].job, ~Aside(t),
         t.pc \notin {"resume?", "resume", "store", "bound", "approved", "execute"},
         Driving(t) => Stage(t) /\ Claiming(t)
  PROVE  OnceInv'
<1>1. handler[h].pc = "classify" => t.task = None
  BY DriverKnows DEF Stage, Performing
<1>2. /\ t.task \in {None, handler[h].task}
      /\ ~Quiet => t.task = row.flow.task /\ t.job = "resume"
      /\ t.pc \notin {"resume?", "resume"} /\ (t.pc = "store" => Backend # "memory")
  BY DriverKnows
<1> QED  BY <1>1, <1>2, DriverMoves

LEMMA FailsOnce ==
  ASSUME TInv, OnceInv, NEW h \in Handlers, Driving(handler[h]), Claiming(handler[h]),
         NEW p \in {"failing", "release"}, NEW s \in Calls, Become(h, Go(s, p)),
         s.task = handler[h].task, s.job = handler[h].job,
         UNCHANGED <<deployment, row, task, runs, history>>
  PROVE  OnceInv'
<1> DEFINE t == Go(s, p)
<1>1. p \in Places
  BY DEF Places
<1>2. t \in Calls /\ t.pc = p /\ t.next = "idle" /\ t.job = s.job /\ t.task = s.task
  BY <1>1, GoTypes
<1> HIDE DEF t
<1>3. Stage(t) /\ ~Aside(t) /\ (Driving(t) => Claiming(t))
  BY <1>2 DEF Stage, Starting, Performing, Routing, Outgoing, Answering, Moving, Aside, Driving,
              Resting, Claiming
<1> QED  BY <1>2, <1>3, GoesOn DEF t

LEMMA SkillChangedOnce ==
  ASSUME TInv, OnceInv, NEW h \in Handlers, SkillChanged(h), UNCHANGED deployment
  PROVE  OnceInv'
<1>1. /\ Driving(handler[h]) /\ Claiming(handler[h]) /\ handler[h] \in Calls
      /\ UNCHANGED <<deployment, row, task, runs, history>>
  BY HandlerTypes DEF SkillChanged, At, Driving, Resting, Aside, Claiming, Moving
<1> QED  BY <1>1, FailsOnce DEF SkillChanged, FailWorkflow

LEMMA BeginRunOnce ==
  ASSUME TInv, OnceInv, NEW h \in Handlers, BeginRun(h), UNCHANGED deployment
  PROVE  OnceInv'
<1> DEFINE s == [handler[h] EXCEPT !.flow = row.flow, !.version = row.version]
           t == Go(s, "step")
<1>1. /\ Driving(handler[h]) /\ Claiming(handler[h]) /\ handler[h] \in Calls
      /\ handler[h].pc = "run" /\ row \in Rows
      /\ UNCHANGED <<deployment, row, task, runs, history>>
  BY HandlerTypes DEF BeginRun, At, Driving, Resting, Aside, Claiming, Moving, TInv, TypeOK
<1>2. Begun /\ handler[h].task = None
  BY <1>1, DriverKnows DEF Stage, Starting
<1>3. row.flow = FirstFlow /\ row.flow.step = "pending" /\ Quiet
  BY <1>2, FreeTypes DEF Begun
<1>4. Become(h, t)
  BY <1>3 DEF BeginRun, Admitted
<1>5. s \in Calls /\ s.flow = row.flow /\ s.task = handler[h].task /\ s.job = handler[h].job
  BY <1>1 DEF Calls, Rows
<1> HIDE DEF s
<1>6. /\ t \in Calls /\ t.pc = "step" /\ t.next = "idle" /\ t.job = s.job /\ t.task = s.task
      /\ t.flow = s.flow
  <2>1. "step" \in Places
    BY DEF Places
  <2> QED  BY <1>5, <2>1, GoTypes
<1> HIDE DEF t
<1>7. Stage(t) /\ ~Aside(t) /\ Claiming(t)
  BY <1>2, <1>3, <1>5, <1>6 DEF Stage, Starting, Performing, Routing, Outgoing, Answering, Moving,
     Aside, Driving, Resting, Claiming
<1> QED  BY <1>1, <1>4, <1>5, <1>6, <1>7, GoesOn

LEMMA FlowWrites ==
  ASSUME TInv, NEW h \in Handlers, NEW flow \in Flows, NEW then \in Calls,
         WriteFlow(h, flow, then)
  PROVE  \/ /\ CasHolds(handler[h])
            /\ row'.flow = flow /\ row'.status = row.status /\ row'.intent = row.intent
            /\ \E t \in Calls :
                 /\ Become(h, t) /\ t.flow = flow /\ t.pc = then.pc /\ t.next = then.next
                 /\ t.to = then.to /\ t.job = then.job /\ t.task = then.task
                 /\ t.outcome = then.outcome
         \/ ~CasHolds(handler[h]) /\ Become(h, Go(handler[h], "release")) /\ UNCHANGED row
<1> DEFINE v == row.version + 1
           t == [then EXCEPT !.flow = flow, !.version = v]
<1>1. row \in Rows /\ v \in Nat
  BY DEF TInv, TypeOK, Rows
<1>2. CASE CasHolds(handler[h]) /\ row' = [row EXCEPT !.flow = flow, !.version = @ + 1] /\ Become(h, t)
  <2>1. row'.flow = flow /\ row'.status = row.status /\ row'.intent = row.intent
    BY <1>1, <1>2 DEF Rows
  <2> HIDE DEF v
  <2>2. /\ t \in Calls /\ t.flow = flow /\ t.pc = then.pc /\ t.next = then.next
        /\ t.to = then.to /\ t.job = then.job /\ t.task = then.task /\ t.outcome = then.outcome
    BY <1>1 DEF Calls
  <2> QED  BY <1>2, <2>1, <2>2
<1>3. CASE ~CasHolds(handler[h]) /\ Become(h, Go(handler[h], "release")) /\ UNCHANGED row
  BY <1>3
<1> QED  BY <1>2, <1>3 DEF WriteFlow

(* A conflict: somebody else has moved the flow, this advance is over.       *)
LEMMA ConflictOnce ==
  ASSUME TInv, OnceInv, NEW h \in Handlers, Driving(handler[h]),
         Become(h, Go(handler[h], "release")),
         UNCHANGED <<deployment, row, task, runs, history>>
  PROVE  OnceInv'
<1> DEFINE t == Go(handler[h], "release")
<1>1. "release" \in Places /\ handler[h] \in Calls
  BY HandlerTypes DEF Places
<1>2. t \in Calls /\ t.pc = "release" /\ t.next = "idle" /\ t.task = handler[h].task
  BY <1>1, GoTypes
<1> HIDE DEF t
<1>3. ~Driving(t) /\ ~Aside(t) /\ ~Claiming(t)
  BY <1>2 DEF Driving, Resting, Aside, Claiming, Moving
<1>4. handler[h].pc = "classify" => t.task = None
  BY <1>2, DriverKnows DEF Stage, Performing
<1> QED  BY <1>2, <1>3, <1>4, DriverMoves DEF t

(* The next step is marked as running, and it is nobody's yet.               *)
LEMMA VisitOnce ==
  ASSUME FlowInv, Step0 \in StepNumbers, row.flow.step = "pending", Quiet,
         row \in Rows, walk \in [StepNumbers -> Nodes \cup {None}],
         row'.flow = [row.flow EXCEPT !.step = "running"], row'.status = row.status,
         walk' = [walk EXCEPT ![Step0] = Node0], UNCHANGED <<task, calls>>
  PROVE  FlowInv' /\ Unasked' /\ Quiet'
<1>1. /\ Step0' = Step0 /\ Node0' = Node0 /\ row'.flow.step = "running" /\ Quiet'
      /\ Step0 \in Nat /\ \A k : Promise!Asked(k)' = Promise!Asked(k)
  BY DEF Step0, Node0, Rows, Flows, Quiet, Promise!Asked, StepNumbers
<1>2. Clean(Step0)
  BY DEF FlowInv
<1>3. Unasked'
  BY <1>1, <1>2 DEF Clean, Unasked, StepNumbers
<1>4. Visited'
  <2>1. walk'[Step0] = Node0
    OBVIOUS
  <2>2. \A j \in StepNumbers : j >= Step0 + 1 =>
          walk'[j] = None /\ calls'[j] = <<>> /\ Promise!Asked(j)' = {}
    BY <1>1, <1>2 DEF Clean, StepNumbers
  <2> QED  BY <1>1, <2>1, <2>2 DEF Visited, Clean
<1> QED  BY <1>1, <1>3, <1>4 DEF FlowInv

LEMMA StepOnce ==
  ASSUME TInv, OnceInv, NEW h \in Handlers, Step(h), UNCHANGED deployment
  PROVE  OnceInv'
<1> DEFINE s == handler[h]
           f == [s.flow EXCEPT !.step = "running"]
           w == Go(s, "perform")
<1>1. /\ Driving(s) /\ Claiming(s) /\ s \in Calls /\ Stage(s) /\ s.pc = "step"
      /\ UNCHANGED <<deployment, task, runs, calls>> /\ OnceInv
  <2>1. s.pc = "step"
    BY DEF Step, At
  <2>2. Driving(s) /\ Claiming(s)
    BY <2>1 DEF Driving, Resting, Aside, Claiming, Moving
  <2> QED  BY <2>1, <2>2, DriverKnows DEF Step
<1>2. Quiet /\ s.flow = row.flow /\ row.flow.step = "pending" /\ s.task = None
  BY <1>1 DEF Stage
<1>3. row \in Rows /\ row.flow \in Flows /\ walk \in [StepNumbers -> Nodes \cup {None}]
  BY DEF TInv, TypeOK, Rows
<1>4. CASE Become(h, Go(s, "failing")) /\ UNCHANGED <<row, walk>>
  BY <1>1, <1>4, FailsOnce DEF history
<1>5. CASE StepLeft(s.flow) /\ WriteFlow(h, f, w)
           /\ IF CasHolds(s) THEN walk' = [walk EXCEPT ![s.flow.steps] = s.flow.current]
                             ELSE UNCHANGED walk
  <2>1. f \in Flows
    BY <1>2, <1>3 DEF Flows
  <2>2. w \in Calls /\ w.pc = "perform" /\ w.next = "idle" /\ w.to = "created" /\ w.task = None
    <3>1. "perform" \in Places
      BY DEF Places
    <3> QED  BY <1>1, <1>2, <3>1, GoTypes
  <2> HIDE DEF f, w
  <2>3. CASE ~CasHolds(s) /\ Become(h, Go(s, "release")) /\ UNCHANGED row
    BY <1>1, <1>5, <2>3, ConflictOnce DEF history
  <2>4. ASSUME CasHolds(s), row'.flow = f, row'.status = row.status, NEW t \in Calls, Become(h, t),
               t.flow = f, t.pc = w.pc, t.next = w.next, t.to = w.to, t.task = w.task
        PROVE  OnceInv'
    <3>1. Step0 \in StepNumbers /\ Step0 = s.flow.steps /\ Node0 = s.flow.current
      BY <1>2, <1>3, <1>5, FlowAssumption DEF FlowAssumption, StepLeft, StepNumbers, Flows, Step0, Node0
    <3>2. walk' = [walk EXCEPT ![Step0] = Node0] /\ row'.flow = [row.flow EXCEPT !.step = "running"]
      BY <1>2, <1>5, <2>4, <3>1 DEF f
    <3>3. FlowInv' /\ Unasked' /\ Quiet'
      BY <1>1, <1>2, <1>3, <2>4, <3>1, <3>2, VisitOnce DEF OnceInv
    <3>4. row'.flow.step = "running"
      BY <1>3, <3>2 DEF Flows
    <3>5. Stage(t)' /\ ~Aside(t) /\ t.task \notin Tasks
      BY <2>2, <2>4, <3>3, <3>4, NoneAssumption DEF NoneAssumption,
         Stage, Starting, Performing, Routing, Outgoing, Answering, Moving, Aside
    <3> QED  BY <1>1, <2>2, <2>4, <3>3, <3>5, DriverActs
  <2> QED  BY <1>5, <2>1, <2>2, <2>3, <2>4, FlowWrites
<1> QED  BY <1>2, <1>4, <1>5 DEF Step, FailWorkflow

LEMMA PerformTaskOrGateOnce ==
  ASSUME TInv, OnceInv, NEW h \in Handlers, PerformTaskOrGate(h), UNCHANGED deployment
  PROVE  OnceInv'
<1> DEFINE s == handler[h]
<1>1. /\ Driving(s) /\ Claiming(s) /\ s \in Calls /\ Locals(s) /\ Tasked(s) /\ Stage(s)
      /\ s.pc = "perform" /\ UNCHANGED <<deployment, row, task, runs, history>>
  <2>1. s.pc = "perform"
    BY DEF PerformTaskOrGate, Performs, At
  <2>2. Driving(s) /\ Claiming(s)
    BY <2>1 DEF Driving, Resting, Aside, Claiming, Moving
  <2> QED  BY <2>1, <2>2, DriverKnows DEF PerformTaskOrGate
<1>2. PICK o \in Outcomes : Become(h, Finished(s, o)) /\ Type[s.flow.current] \in {"task", "gate"}
  BY DEF PerformTaskOrGate, Performs, Outcomes
<1>3. PICK c \in Calls :
        /\ c = Finished(s, o) /\ c.pc = "next" /\ c.next = "idle" /\ c.job = s.job
        /\ c.flow = s.flow /\ c.task = s.task /\ c.outcome = o
  <2>1. "next" \in Places
    BY DEF Places
  <2>2. s.job # "none" /\ s.flow.steps < MaxSteps
    BY <1>1 DEF Locals, Moving, Stepping
  <2> DEFINE d == Finished(s, o)
  <2>3. /\ d \in Calls /\ d.pc = "next" /\ d.next = "idle" /\ d.job = s.job
        /\ d.flow = s.flow /\ d.task = s.task /\ d.outcome = o
    BY <1>1, <2>2, FinishedKeeps
  <2> HIDE DEF d
  <2> QED  BY <2>3 DEF d
<1>4. /\ Quiet /\ s.flow = row.flow /\ row.flow.step = "running" /\ s.task = None
  BY <1>1 DEF Stage, Performing
<1>5. o \in Promise!Outcomes(Step0)
  <2>1. walk[Step0] = Node0 /\ Node0 = s.flow.current /\ Node0 \in Nodes
    BY <1>4 DEF OnceInv, FlowInv, Visited, Node0, TInv, TypeOK, Rows, Flows
  <2>2. DOMAIN Route[Node0] = Outcomes
    BY <2>1, FlowAssumption DEF FlowAssumption
  <2> QED  BY <1>2, <2>1, <2>2 DEF Promise!Outcomes
<1>6. Stage(c) /\ ~Aside(c) /\ Claiming(c)
  BY <1>3, <1>4, <1>5 DEF Stage, Starting, Performing, Routing, Outgoing, Answering, Moving, Aside,
     Driving, Resting, Claiming
<1> QED  BY <1>1, <1>2, <1>3, <1>6, GoesOn

LEMMA PerformCommandOnce ==
  ASSUME TInv, OnceInv, NEW h \in Handlers, PerformCommand(h), UNCHANGED deployment
  PROVE  OnceInv'
<1> DEFINE s == handler[h]
           g == Go(s, "load")
           t == [g EXCEPT !.to = "intent", !.next = "classify"]
<1>1. /\ Driving(s) /\ Claiming(s) /\ s \in Calls /\ Stage(s) /\ s.pc = "perform"
      /\ UNCHANGED <<deployment, row, task, runs, history>>
      /\ Type[s.flow.current] = "command" /\ Become(h, t)
  <2>1. s.pc = "perform"
    BY DEF PerformCommand, Performs, At
  <2>2. Driving(s) /\ Claiming(s)
    BY <2>1 DEF Driving, Resting, Aside, Claiming, Moving
  <2> QED  BY <2>1, <2>2, DriverKnows DEF PerformCommand, Performs
<1>2. /\ Quiet /\ s.flow = row.flow /\ row.flow.step = "running" /\ s.task = None /\ Unasked
      /\ Type[Node0] = "command"
  BY <1>1 DEF Stage, Performing, Node0
<1>3. /\ t \in Calls /\ t.pc = "load" /\ t.next = "classify" /\ t.to = "intent" /\ t.job = s.job
      /\ t.flow = s.flow /\ t.task = s.task
  <2>1. "load" \in Places /\ "classify" \in Places
    BY DEF Places
  <2>2. /\ g \in Calls /\ g.pc = "load" /\ g.job = s.job /\ g.flow = s.flow /\ g.task = s.task
    BY <1>1, <2>1, GoTypes
  <2> HIDE DEF g
  <2> QED  BY <2>1, <2>2 DEF Calls
<1> HIDE DEF t
<1>4. Stage(t) /\ ~Aside(t) /\ Claiming(t)
  BY <1>2, <1>3 DEF Stage, Starting, Performing, Routing, Outgoing, Answering, Moving, Aside,
     Driving, Resting, Claiming
<1> QED  BY <1>1, <1>3, <1>4, GoesOn

(* People are asked about the step that is performed, for the first time.    *)
LEMMA AskOnce ==
  ASSUME TInv, TInv', OnceInv, NEW h \in Handlers, Driving(handler[h]), OpenTask(h),
         handler[h].flow = row.flow, Quiet, Unasked, row.flow.step = "running",
         Type[Node0] \in {"review", "command"}, Type[Node0] = "command" => row.intent = Node0,
         UNCHANGED <<deployment, row, runs, walk, calls>>
  PROVE  OnceInv'
<1> DEFINE s == handler[h]
           g == Go(s, "pause")
<1>1. PICK t \in Tasks :
        /\ task[t].state = "absent"
        /\ task' = [task EXCEPT ![t] = [state |-> "open", node |-> s.flow.current,
                                        step |-> s.flow.steps]]
        /\ Become(h, [g EXCEPT !.task = t])
  BY DEF OpenTask
<1>2. PICK c \in Calls :
        /\ Become(h, c) /\ c.pc = "pause" /\ c.next = "idle" /\ c.flow = row.flow /\ c.task = t
  <2> DEFINE c == [g EXCEPT !.task = t]
  <2>1. g \in Calls /\ g.pc = "pause" /\ g.next = "idle" /\ g.flow = row.flow
    <3>1. "pause" \in Places
      BY DEF Places
    <3> QED  BY <3>1, HandlerTypes, GoTypes
  <2> HIDE DEF g
  <2>2. c \in Calls /\ c.pc = "pause" /\ c.next = "idle" /\ c.flow = row.flow /\ c.task = t
    BY <2>1 DEF Calls
  <2> QED  BY <1>1, <2>2
<1>3. /\ task \in [Tasks -> HumanTasks] /\ Step0' = Step0 /\ Node0' = Node0 /\ Step0 \in Nat
      /\ row' = row /\ FlowInv
  BY DEF TInv, TypeOK, Step0, Node0, OnceInv, Rows, Flows
<1>4. /\ task'[t].state = "open" /\ task'[t].step = Step0
      /\ \A u \in Tasks : u # t => task'[u] = task[u]
  BY <1>1, <1>3 DEF Step0
<1>5. Promise!Asked(Step0)' = {t}
  BY <1>3, <1>4 DEF Unasked, Promise!Asked
<1>6. \A k : k # Step0 => Promise!Asked(k)' = Promise!Asked(k)
  BY <1>1, <1>3, <1>4 DEF Promise!Asked
<1>7. AskedBy(t)' /\ Quiet'
  BY <1>3, <1>5 DEF AskedBy, Quiet
<1>8. FlowInv'
  <2>1. Visited'
    <3>1. \A j \in StepNumbers : j >= Step0 + 1 => j # Step0
      BY <1>3 DEF StepNumbers
    <3> QED  BY <1>3, <1>6, <3>1 DEF FlowInv, Visited, Clean
  <2> QED  BY <1>3, <1>7, <2>1 DEF FlowInv
<1>9. Stage(c)' /\ calls'[Step0] = <<>>
  <2>1. calls'[Step0] = <<>> /\ row'.flow.step = "running" /\ row'.flow = row.flow
    BY DEF Unasked
  <2> QED  BY <1>2, <1>3, <1>7, <2>1
           DEF Stage, Starting, Performing, Routing, Outgoing, Answering, Moving
<1>10. ~Aside(c) /\ ~Claiming(c)
  BY <1>2 DEF Aside, Claiming, Moving
<1>11. \A u \in Tasks : task'[u].state \in {"absent", "open"} => task[u].state \in {"absent", "open"}
  BY <1>1, <1>4
<1> QED  BY <1>2, <1>7, <1>8, <1>9, <1>10, <1>11, DriverActs

LEMMA PerformReviewOnce ==
  ASSUME TInv, TInv', OnceInv, NEW h \in Handlers, PerformReview(h), UNCHANGED deployment
  PROVE  OnceInv'
<1>1. handler[h].pc = "perform" /\ Type[handler[h].flow.current] = "review" /\ OpenTask(h)
      /\ UNCHANGED <<deployment, row, runs, walk, calls>>
  BY DEF PerformReview, Performs, At, history
<1>2. Driving(handler[h])
  BY <1>1 DEF Driving, Resting, Aside, Moving
<1>3. /\ Quiet /\ handler[h].flow = row.flow /\ row.flow.step = "running" /\ Unasked
      /\ Type[Node0] = "review"
  BY <1>1, <1>2, DriverKnows DEF Stage, Performing, Node0
<1> QED  BY <1>1, <1>2, <1>3, AskOnce

LEMMA ClassifyOnce ==
  ASSUME TInv, TInv', OnceInv, NEW h \in Handlers, Classify(h), UNCHANGED deployment
  PROVE  OnceInv'
<1> DEFINE s == handler[h]
<1>1. /\ Driving(s) /\ Claiming(s) /\ s \in Calls /\ Locals(s) /\ Tasked(s) /\ Stage(s)
      /\ s.pc = "classify" /\ UNCHANGED <<deployment, row, runs, walk, calls>>
  <2>1. s.pc = "classify"
    BY DEF Classify, At
  <2>2. Driving(s) /\ Claiming(s)
    BY <2>1 DEF Driving, Resting, Aside, Claiming, Moving
  <2> QED  BY <2>1, <2>2, DriverKnows DEF Classify, history
<1>2. /\ Quiet /\ s.flow = row.flow /\ row.flow.step = "running" /\ s.task = None /\ Unasked
      /\ Type[Node0] = "command" /\ row.intent = Node0 /\ Node0 = s.flow.current
  BY <1>1 DEF Stage, Performing, Node0
<1>3. CASE OpenTask(h)
  BY <1>1, <1>2, <1>3, AskOnce
<1>4. CASE Become(h, Finished(s, "fail")) /\ UNCHANGED task
  <2>1. PICK c \in Calls :
          /\ c = Finished(s, "fail") /\ c.pc = "next" /\ c.next = "idle" /\ c.job = s.job
          /\ c.flow = s.flow /\ c.task = s.task /\ c.outcome = "fail"
    <3>1. s.job # "none" /\ s.flow.steps < MaxSteps /\ "fail" \in Outcomes
      BY <1>1 DEF Locals, Moving, Stepping, Outcomes
    <3> DEFINE d == Finished(s, "fail")
    <3>2. /\ d \in Calls /\ d.pc = "next" /\ d.next = "idle" /\ d.job = s.job
          /\ d.flow = s.flow /\ d.task = s.task /\ d.outcome = "fail"
      BY <1>1, <3>1, FinishedKeeps
    <3> HIDE DEF d
    <3> QED  BY <3>2 DEF d
  <2>2. "fail" \in Promise!Outcomes(Step0)
    <3>1. walk[Step0] = Node0 /\ Node0 \in Nodes
      BY <1>2 DEF OnceInv, FlowInv, Visited, Node0, TInv, TypeOK, Rows, Flows
    <3>2. "fail" \in DOMAIN Route[Node0]
      BY <3>1, FlowAssumption DEF FlowAssumption, Outcomes
    <3> QED  BY <1>2, <3>1, <3>2 DEF Promise!Outcomes
  <2>3. Stage(c) /\ ~Aside(c) /\ Claiming(c)
    BY <1>2, <2>1, <2>2 DEF Stage, Starting, Performing, Routing, Outgoing, Answering, Moving, Aside,
       Driving, Resting, Claiming
  <2> QED  BY <1>1, <1>4, <2>1, <2>3, GoesOn DEF history
<1>5. CASE Verdict[s.flow.current] = "auto_approve" /\ UNCHANGED task
           /\ Become(h, [Go(s, "execute") EXCEPT !.seen.intent = s.flow.current])
  <2> DEFINE g == Go(s, "execute")
             c == [g EXCEPT !.seen.intent = s.flow.current]
  <2>1. g \in Calls /\ g.pc = "execute" /\ g.next = "idle" /\ g.flow = s.flow /\ g.task = s.task
        /\ g.job = s.job
    <3>1. "execute" \in Places
      BY DEF Places
    <3> QED  BY <1>1, <3>1, GoTypes
  <2> HIDE DEF g
  <2>2. /\ c \in Calls /\ c.pc = "execute" /\ c.next = "idle" /\ c.flow = s.flow
        /\ c.task = s.task /\ c.job = s.job /\ c.seen.intent = s.flow.current
    BY <1>1, <2>1 DEF Calls, Rows, Flows
  <2> HIDE DEF c
  <2>3. Stage(c) /\ ~Aside(c) /\ Claiming(c)
    BY <1>2, <1>5, <2>2 DEF Stage, Starting, Performing, Routing, Outgoing, Answering, Moving, Aside,
       Driving, Resting, Claiming
  <2>4. Become(h, c)
    BY <1>5 DEF c, g
  <2> QED  BY <1>1, <1>2, <1>5, <2>2, <2>3, <2>4, DriverMoves DEF history
<1> QED  BY <1>3, <1>4, <1>5 DEF Classify

LEMMA PauseOnce ==
  ASSUME TInv, OnceInv, NEW h \in Handlers, Pause(h), UNCHANGED deployment
  PROVE  OnceInv'
<1> DEFINE s == handler[h]
           f == [s.flow EXCEPT !.step = "waiting", !.task = s.task]
           w == Transit(s, "waiting_for_approval", "release")
<1>1. /\ Driving(s) /\ s \in Calls /\ Stage(s) /\ s.pc = "pause" /\ WriteFlow(h, f, w)
      /\ UNCHANGED <<deployment, task, runs, walk, calls>>
  <2>1. s.pc = "pause"
    BY DEF Pause, PauseFlowFirst, At
  <2>2. Driving(s)
    BY <2>1 DEF Driving, Resting, Aside, Moving
  <2> QED  BY <2>1, <2>2, DriverKnows DEF Pause, PauseFlowFirst, history
<1>2. /\ Quiet /\ s.flow = row.flow /\ row.flow.step = "running" /\ AskedBy(s.task)
      /\ calls[Step0] = <<>>
  BY <1>1 DEF Stage
<1>3. row \in Rows /\ row.flow \in Flows /\ s.task \in Tasks
  BY <1>2 DEF TInv, TypeOK, Rows, AskedBy
<1>4. f \in Flows /\ f.step = "waiting" /\ f.task = s.task /\ f.steps = Step0 /\ f.current = Node0
  BY <1>2, <1>3 DEF Flows, Step0, Node0
<1>5. /\ w \in Calls /\ w.pc = "check" /\ w.next = "release" /\ w.to = "waiting_for_approval"
      /\ w.task = s.task
  <2>1. "release" \in Places /\ "waiting_for_approval" \in Status
    BY DEF Places, Status, Waiting
  <2> QED  BY <1>1, <2>1, TransitTypes
<1> HIDE DEF f, w
<1>6. CASE Become(h, Go(s, "release")) /\ UNCHANGED row
  BY <1>1, <1>6, ConflictOnce DEF history
<1>7. ASSUME row'.flow = f, row'.status = row.status, row'.intent = row.intent,
             NEW t \in Calls, Become(h, t), t.flow = f, t.pc = w.pc, t.next = w.next,
             t.to = w.to, t.task = w.task
      PROVE  OnceInv'
  <2>1. Step0' = Step0 /\ Node0' = Node0 /\ Quiet' /\ \A k : Promise!Asked(k)' = Promise!Asked(k)
    BY <1>1, <1>2, <1>4, <1>7 DEF Step0, Node0, Quiet, Promise!Asked
  <2>2. FlowInv'
    <3>1. Visited'
      BY <1>1, <1>2, <2>1 DEF OnceInv, FlowInv, Visited, Clean
    <3>2. AskedBy(row.flow.task)'
      BY <1>2, <1>4, <1>7, <2>1 DEF AskedBy
    <3>3. row'.flow.step = "waiting" /\ calls'[Step0'] = <<>>
      BY <1>1, <1>2, <1>4, <1>7, <2>1
    <3> QED  BY <1>1, <2>1, <3>1, <3>2, <3>3 DEF OnceInv, FlowInv
  <2>3. Stage(t)'
    BY <1>1, <1>2, <1>4, <1>5, <1>7, <2>1
    DEF Stage, Starting, Performing, Routing, Outgoing, Answering, Moving
  <2>4. ~Aside(t) /\ ~Claiming(t)
    BY <1>5, <1>7 DEF Aside, Claiming, Moving
  <2> QED  BY <1>1, <1>5, <1>7, <2>1, <2>2, <2>3, <2>4, DriverActs
<1> QED  BY <1>1, <1>4, <1>5, <1>6, <1>7, FlowWrites

LEMMA PerformStopOrEndOnce ==
  ASSUME TInv, OnceInv, NEW h \in Handlers, PerformStopOrEnd(h), UNCHANGED deployment
  PROVE  OnceInv'
<1> DEFINE s == handler[h]
           f == [s.flow EXCEPT !.step = "completed", !.steps = @ + 1, !.task = None]
<1>1. /\ Driving(s) /\ s \in Calls /\ Locals(s) /\ Stage(s) /\ s.pc = "perform"
      /\ UNCHANGED <<deployment, task, runs, walk, calls>>
      /\ WriteFlow(h, f, FailWorkflow(s)) \/ WriteFlow(h, f, Settle(s, "completed", "release"))
  <2>1. s.pc = "perform"
    BY DEF PerformStopOrEnd, Performs, At
  <2>2. Driving(s)
    BY <2>1 DEF Driving, Resting, Aside, Moving
  <2> QED  BY <2>1, <2>2, DriverKnows DEF PerformStopOrEnd, history
<1>2. Quiet /\ s.task = None /\ s.flow = row.flow
  BY <1>1 DEF Stage, Performing
<1>3. PICK w \in Calls :
        /\ WriteFlow(h, f, w) /\ w.task = None
        /\ \/ w.pc = "failing" /\ w.next = "idle"
           \/ w.pc = "settle" /\ w.next = "release" /\ w.to = "completed"
  <2>1. {"failing", "release"} \subseteq Places /\ "completed" \in Status
    BY DEF Places, Status, Terminal
  <2>2. Go(s, "failing") \in Calls /\ Go(s, "failing").task = None
        /\ Go(s, "failing").pc = "failing" /\ Go(s, "failing").next = "idle"
    BY <1>1, <1>2, <2>1, GoTypes
  <2> DEFINE u == Settle(s, "completed", "release")
  <2>3. u \in Calls /\ u.task = None /\ u.pc = "settle" /\ u.next = "release" /\ u.to = "completed"
    BY <1>1, <1>2, <2>1, SettleTypes
  <2> HIDE DEF u
  <2> QED  BY <1>1, <2>2, <2>3 DEF FailWorkflow, u
<1>4. f \in Flows /\ f.step = "completed"
  <2>1. s.flow \in Flows /\ s.flow.steps < MaxSteps
    BY <1>1 DEF Calls, Locals, Stepping
  <2>2. s.flow.steps + 1 \in 0..MaxSteps
    BY <2>1, FlowAssumption DEF Flows, FlowAssumption
  <2> QED  BY <2>1, <2>2 DEF Flows
<1> HIDE DEF f
<1>5. CASE Become(h, Go(s, "release")) /\ UNCHANGED row
  BY <1>1, <1>5, ConflictOnce DEF history
<1>6. ASSUME row'.flow = f, row'.status = row.status,
             NEW t \in Calls, Become(h, t), t.pc = w.pc, t.next = w.next, t.to = w.to, t.task = w.task
      PROVE  OnceInv'
  <2>1. Quiet' /\ row'.flow.step = "completed"
    BY <1>2, <1>4, <1>6 DEF Quiet
  <2>2. FlowInv'
    BY <1>1, <2>1 DEF OnceInv, FlowInv
  <2>3. Stage(t)'
    BY <1>3, <1>6, <2>1 DEF Stage, Starting, Performing, Routing, Outgoing, Answering, Moving
  <2>4. ~Aside(t) /\ t.task \notin Tasks
    BY <1>3, <1>6, NoneAssumption DEF Aside, Moving, NoneAssumption
  <2> QED  BY <1>1, <1>3, <1>6, <2>1, <2>2, <2>3, <2>4, DriverActs
<1> QED  BY <1>3, <1>4, <1>5, <1>6, FlowWrites

LEMMA TakeRouteOnce ==
  ASSUME TInv, OnceInv, NEW h \in Handlers, TakeRoute(h), UNCHANGED deployment
  PROVE  OnceInv'
<1> DEFINE s == handler[h]
           to == Route[s.flow.current][s.outcome]
           f == [current |-> to, step |-> "pending", task |-> None, steps |-> s.flow.steps + 1]
           p == IF s.pc = "next" THEN "step" ELSE "reload"
           w == [Go(s, p) EXCEPT !.task = None, !.outcome = "fail"]
<1>1. /\ Driving(s) /\ Claiming(s) /\ s \in Calls /\ Locals(s) /\ Stage(s)
      /\ s.pc \in {"next", "route"} /\ UNCHANGED <<deployment, task, runs, walk, calls>>
  <2>1. s.pc \in {"next", "route"}
    BY DEF TakeRoute, At
  <2>2. Driving(s) /\ Claiming(s)
    BY <2>1 DEF Driving, Resting, Aside, Claiming, Moving
  <2> QED  BY <2>1, <2>2, DriverKnows DEF TakeRoute, history
<1>2. /\ Quiet /\ s.flow = row.flow /\ row.flow.step \in {"running", "waiting"}
      /\ s.outcome \in Promise!Outcomes(Step0)
  BY <1>1 DEF Stage, Routing, Answering, Outgoing
<1>3. /\ Visited /\ row \in Rows /\ row.flow \in Flows /\ Node0 \in Nodes
      /\ Step0 \in StepNumbers /\ Step0 \in Nat /\ walk[Step0] = Node0
  BY <1>2 DEF OnceInv, FlowInv, Visited, TInv, TypeOK, Rows, Flows, Node0, Step0
<1>4. CASE Become(h, Go(s, "failing")) /\ UNCHANGED row
  BY <1>1, <1>4, FailsOnce DEF history
<1>5. CASE to # None /\ WriteFlow(h, f, w)
  <2>1. f \in Flows
    <3>1. to \in Nodes
      BY <1>1, <1>2, <1>3, <1>5, FlowAssumption DEF FlowAssumption, Calls, Node0
    <3>2. s.flow.steps + 1 \in 0..MaxSteps
      BY <1>2, <1>3, FlowAssumption DEF FlowAssumption, StepNumbers, Step0
    <3> QED  BY <3>1, <3>2 DEF Flows
  <2>2. w \in Calls /\ w.pc = p /\ w.next = "idle" /\ w.task = None
    <3> DEFINE g == Go(s, p)
    <3>1. p \in Places /\ "fail" \in Outcomes
      BY DEF Places, Outcomes
    <3>2. g \in Calls /\ g.pc = p /\ g.next = "idle"
      BY <1>1, <3>1, GoTypes
    <3>3. w = [g EXCEPT !.task = None, !.outcome = "fail"]
      OBVIOUS
    <3> HIDE DEF g, p, w
    <3> QED  BY <3>1, <3>2, <3>3 DEF Calls
  <2>3. /\ f.current = Route[Node0][s.outcome] /\ f.steps = Step0 + 1 /\ f.step = "pending"
    BY <1>2 DEF Node0, Step0
  <2> HIDE DEF f, w
  <2>4. CASE Become(h, Go(s, "release")) /\ UNCHANGED row
    BY <1>1, <2>4, ConflictOnce DEF history
  <2>5. ASSUME row'.flow = f, row'.status = row.status, NEW t \in Calls, Become(h, t),
               t.flow = f, t.pc = w.pc, t.next = w.next, t.to = w.to, t.task = w.task
        PROVE  OnceInv'
    <3>1. /\ Step0' = Step0 + 1 /\ Node0' = Route[Node0][s.outcome] /\ Quiet'
          /\ row'.flow.step = "pending"
          /\ \A k : Promise!Asked(k)' = Promise!Asked(k)
      BY <1>1, <1>2, <2>3, <2>5 DEF Step0, Node0, Quiet, Promise!Asked
    <3>3. Promise!Follows(Step0, Node0)'
      <4>1. Step0' # 0 /\ Step0' - 1 = Step0
        BY <1>3, <3>1
      <4>2. walk'[Step0] = Node0 /\ Node0 # None
        BY <1>1, <1>3, NoneAssumption DEF NoneAssumption
      <4>3. \E o \in Promise!Outcomes(Step0) : Node0' = Route[Node0][o]
        BY <1>2, <3>1
      <4>4. \A k : Promise!Outcomes(k)' = Promise!Outcomes(k)
        BY <1>1 DEF Promise!Outcomes, Promise!Answered, Promise!Asked
      <4> QED  BY <1>1, <4>1, <4>2, <4>3, <4>4 DEF Promise!Follows
    <3>4. Clean(Step0)'
      BY <1>1, <1>3, <3>1 DEF Visited, Clean
    <3>5. FlowInv'
      BY <1>1, <3>1, <3>3, <3>4 DEF OnceInv, FlowInv
    <3>6. Stage(t)' /\ ~Aside(t) /\ t.task \notin Tasks
      BY <2>2, <2>5, <3>1, NoneAssumption DEF NoneAssumption, Stage, Starting, Performing, Routing,
         Outgoing, Answering, Moving, Aside
    <3>7. t.pc \in {"step", "reload"}
      BY <2>2, <2>5
    <3> QED  BY <1>1, <2>5, <3>1, <3>5, <3>6, <3>7, DriverActs
  <2> QED  BY <1>5, <2>1, <2>2, <2>4, <2>5, FlowWrites
<1> QED  BY <1>4, <1>5 DEF TakeRoute, At, FailWorkflow

LEMMA ReloadOnce ==
  ASSUME TInv, OnceInv, NEW h \in Handlers, Reload(h), UNCHANGED deployment
  PROVE  OnceInv'
<1> DEFINE s == handler[h]
           t == Go(s, "step")
<1>1. /\ Driving(s) /\ Claiming(s) /\ s \in Calls /\ Stage(s) /\ s.pc = "reload"
      /\ UNCHANGED <<deployment, row, task, runs, history>> /\ Become(h, t)
  <2>1. s.pc = "reload"
    BY DEF Reload, At
  <2>2. Driving(s) /\ Claiming(s)
    BY <2>1 DEF Driving, Resting, Aside, Claiming, Moving
  <2> QED  BY <2>1, <2>2, DriverKnows DEF Reload
<1>2. t \in Calls /\ t.pc = "step" /\ t.next = "idle" /\ t.flow = s.flow /\ t.task = s.task
      /\ t.job = s.job
  <2>1. "step" \in Places
    BY DEF Places
  <2> QED  BY <1>1, <2>1, GoTypes
<1> HIDE DEF t
<1>3. Quiet /\ s.flow = row.flow /\ row.flow.step = "pending" /\ s.task = None
  BY <1>1 DEF Stage
<1>4. Stage(t) /\ ~Aside(t) /\ Claiming(t)
  BY <1>2, <1>3 DEF Stage, Starting, Performing, Routing, Outgoing, Answering, Moving, Aside,
     Driving, Resting, Claiming
<1> QED  BY <1>1, <1>2, <1>4, GoesOn

LEMMA ResumeBoundOnce ==
  ASSUME TInv, OnceInv, NEW h \in Handlers, ResumeBound(h), UNCHANGED deployment
  PROVE  OnceInv'
<1> DEFINE s == handler[h]
           answer == task[s.task].state
<1>1. /\ Driving(s) /\ Claiming(s) /\ s \in Calls /\ Stage(s) /\ s.pc = "bound"
      /\ UNCHANGED <<deployment, row, task, runs, history>>
  <2>1. s.pc = "bound"
    BY DEF ResumeBound, At
  <2>2. Driving(s) /\ Claiming(s)
    BY <2>1 DEF Driving, Resting, Aside, Claiming, Moving
  <2> QED  BY <2>1, <2>2, DriverKnows DEF ResumeBound
<1>2. /\ s.flow = row.flow /\ row.flow.step = "waiting" /\ s.task = row.flow.task
      /\ s.job = "resume"
  BY <1>1 DEF Stage, Answering
<1>3. /\ AskedBy(s.task) /\ walk[Step0] = Node0 /\ Node0 = s.flow.current /\ Node0 \in Nodes
      /\ Promise!Asked(Step0) = {s.task} /\ Type[Node0] \in {"review", "command"}
  BY <1>2 DEF OnceInv, FlowInv, Visited, AskedBy, Node0, TInv, TypeOK, Rows, Flows
<1>4. DOMAIN Route[Node0] = Outcomes
  BY <1>3, FlowAssumption DEF FlowAssumption
<1>5. ASSUME NEW o \in {"approve", "reject", "fail"}, Become(h, [Go(s, "into") EXCEPT !.outcome = o]),
             o \in Promise!Outcomes(Step0)
      PROVE  OnceInv'
  <2> DEFINE g == Go(s, "into")
             c == [g EXCEPT !.outcome = o]
  <2>1. "into" \in Places /\ o \in Outcomes
    BY DEF Places, Outcomes
  <2>2. /\ g \in Calls /\ g.pc = "into" /\ g.next = "idle" /\ g.flow = s.flow /\ g.task = s.task
        /\ g.job = s.job
    BY <1>1, <2>1, GoTypes
  <2> HIDE DEF g
  <2>3. /\ c \in Calls /\ c.pc = "into" /\ c.next = "idle" /\ c.flow = s.flow /\ c.task = s.task
        /\ c.job = s.job /\ c.outcome = o
    BY <2>1, <2>2 DEF Calls
  <2> HIDE DEF c
  <2>4. Stage(c) /\ ~Aside(c) /\ Claiming(c)
    BY <1>2, <1>5, <2>3 DEF Stage, Starting, Performing, Routing, Outgoing, Answering, Moving,
       Aside, Driving, Resting, Claiming
  <2>5. Become(h, c)
    BY <1>5 DEF c, g
  <2> QED  BY <1>1, <2>3, <2>4, <2>5, GoesOn
<1>6. CASE answer = "approved" /\ Type[Node0] = "review"
  <2>1. "approve" \in Promise!Outcomes(Step0)
    BY <1>3, <1>4, <1>6 DEF Promise!Outcomes, Promise!Answered, Outcomes
  <2>2. Become(h, [Go(s, "into") EXCEPT !.outcome = "approve"])
    BY <1>3, <1>6 DEF ResumeBound
  <2> QED  BY <1>5, <2>1, <2>2
<1>7. CASE answer = "rejected" /\ Type[Node0] = "review"
  <2>1. "reject" \in Promise!Outcomes(Step0)
    BY <1>3, <1>4, <1>7 DEF Promise!Outcomes, Promise!Answered, Outcomes
  <2>2. Become(h, [Go(s, "into") EXCEPT !.outcome = "reject"])
    BY <1>3, <1>7 DEF ResumeBound
  <2> QED  BY <1>5, <2>1, <2>2
<1>8. CASE answer = "rejected" /\ Type[Node0] = "command"
  <2>1. "fail" \in Promise!Outcomes(Step0)
    BY <1>3, <1>4, <1>8 DEF Promise!Outcomes, Outcomes
  <2>2. Become(h, [Go(s, "into") EXCEPT !.outcome = "fail"])
    BY <1>3, <1>8 DEF ResumeBound, Allowed
  <2> QED  BY <1>5, <2>1, <2>2
<1>9. ASSUME NEW p \in {"approved", "unresumable"}, Become(h, Go(s, p)),
             p = "approved" => answer = "approved" /\ Type[Node0] = "command"
      PROVE  OnceInv'
  <2> DEFINE c == Go(s, p)
  <2>1. p \in Places
    BY DEF Places
  <2>2. /\ c \in Calls /\ c.pc = p /\ c.next = "idle" /\ c.flow = s.flow /\ c.task = s.task
        /\ c.job = s.job
    BY <1>1, <2>1, GoTypes
  <2> HIDE DEF c
  <2>3. Stage(c) /\ ~Aside(c) /\ Claiming(c)
    BY <1>2, <1>9, <2>2 DEF Stage, Starting, Performing, Routing, Outgoing, Answering, Moving,
       Aside, Driving, Resting, Claiming
  <2> QED  BY <1>1, <1>2, <1>9, <2>2, <2>3, DriverMoves DEF c
<1>10. CASE answer = "approved" /\ Type[Node0] = "command"
  <2>1. Become(h, Go(s, "approved"))
    BY <1>3, <1>10 DEF ResumeBound, Allowed
  <2> QED  BY <1>9, <1>10, <2>1
<1>11. CASE answer \notin {"approved", "rejected"}
  <2>1. Become(h, Go(s, "unresumable"))
    BY <1>11 DEF ResumeBound, Allowed
  <2> QED  BY <1>9, <2>1
<1> QED  BY <1>3, <1>6, <1>7, <1>8, <1>10, <1>11

LEMMA SettleUnresumableOnce ==
  ASSUME TInv, OnceInv, NEW h \in Handlers, SettleUnresumable(h), UNCHANGED deployment
  PROVE  OnceInv'
<1> DEFINE s == handler[h]
<1>1. /\ Driving(s) /\ Claiming(s) /\ s \in Calls /\ Tasked(s) /\ s.pc = "unresumable"
      /\ UNCHANGED <<deployment, row, task, runs, history>>
  <2>1. s.pc = "unresumable"
    BY DEF SettleUnresumable, At
  <2>2. Driving(s) /\ Claiming(s)
    BY <2>1 DEF Driving, Resting, Aside, Claiming, Moving
  <2> QED  BY <2>1, <2>2, DriverKnows DEF SettleUnresumable
<1>2. CASE Become(h, Go(s, "release"))
  BY <1>1, <1>2, ConflictOnce
<1>3. CASE Become(h, Transit(s, task[s.task].state, "orFail"))
  <2> DEFINE a == task[s.task].state
             c == Transit(s, a, "orFail")
  <2>1. a \in {"cancelled", "expired"}
    BY <1>1 DEF Tasked
  <2>2. a \in Status /\ "orFail" \in Places \cup {"fail", "orFail"}
    BY <2>1 DEF Status, Terminal
  <2> HIDE DEF a
  <2>3. /\ c \in Calls /\ c.pc = "check" /\ c.next = "orFail" /\ c.to = a
        /\ c.job = s.job /\ c.task = s.task
    BY <1>1, <2>2, TransitTypes
  <2> HIDE DEF c
  <2>4. Stage(c) /\ ~Aside(c) /\ Claiming(c)
    BY <2>1, <2>3 DEF Stage, Starting, Performing, Routing, Outgoing, Answering, Moving,
       Aside, Driving, Resting, Claiming
  <2>5. Become(h, c)
    BY <1>3 DEF c, a
  <2> QED  BY <1>1, <2>3, <2>4, <2>5, GoesOn
<1> QED  BY <1>2, <1>3 DEF SettleUnresumable

LEMMA ReadApprovedOnce ==
  ASSUME TInv, OnceInv, NEW h \in Handlers, ReadApproved(h), UNCHANGED deployment
  PROVE  OnceInv'
<1> DEFINE s == handler[h]
           r == [s EXCEPT !.outcome = "fail"]
           g == Go(r, "execute")
           c == [g EXCEPT !.seen.intent = row.intent]
<1>1. /\ Driving(s) /\ Claiming(s) /\ s \in Calls /\ Stage(s) /\ s.pc = "approved"
      /\ UNCHANGED <<deployment, row, task, runs, history>> /\ row \in Rows
  <2>1. s.pc = "approved"
    BY DEF ReadApproved, At
  <2>2. Driving(s) /\ Claiming(s)
    BY <2>1 DEF Driving, Resting, Aside, Claiming, Moving
  <2> QED  BY <2>1, <2>2, DriverKnows DEF ReadApproved, TInv, TypeOK
<1>2. /\ s.flow = row.flow /\ row.flow.step = "waiting" /\ s.task = row.flow.task
      /\ s.job = "resume" /\ Type[Node0] = "command" /\ task[row.flow.task].state = "approved"
  BY <1>1 DEF Stage, Answering
<1>3. row.intent = Node0 /\ Node0 \in Nodes /\ Node0 # None /\ s.task # None
  BY <1>1, <1>2, NoneAssumption DEF OnceInv, FlowInv, AskedBy, Node0, Rows, Flows, NoneAssumption
<1>4. Become(h, c)
  BY <1>3 DEF ReadApproved
<1>5. r \in Calls /\ r.flow = s.flow /\ r.task = s.task /\ r.job = s.job
  BY <1>1 DEF Calls, Outcomes
<1> HIDE DEF r
<1>6. /\ g \in Calls /\ g.pc = "execute" /\ g.next = "idle" /\ g.flow = s.flow /\ g.task = s.task
      /\ g.job = s.job
  <2>1. "execute" \in Places
    BY DEF Places
  <2> QED  BY <1>5, <2>1, GoTypes
<1> HIDE DEF g
<1>7. /\ c \in Calls /\ c.pc = "execute" /\ c.next = "idle" /\ c.flow = s.flow /\ c.task = s.task
      /\ c.job = s.job /\ c.seen.intent = row.intent
  BY <1>1, <1>6 DEF Calls, Rows
<1> HIDE DEF c
<1>8. Stage(c) /\ ~Aside(c) /\ Claiming(c)
  BY <1>2, <1>3, <1>7 DEF Stage, Starting, Performing, Routing, Outgoing, Answering, Moving,
     Aside, Driving, Resting, Claiming
<1> QED  BY <1>1, <1>2, <1>4, <1>7, <1>8, DriverMoves

LEMMA WakeOnce ==
  ASSUME TInv, OnceInv, NEW h \in Handlers, Wake(h), UNCHANGED deployment
  PROVE  OnceInv'
<1> DEFINE s == handler[h]
<1>1. /\ Driving(s) /\ Claiming(s) /\ s \in Calls /\ Locals(s) /\ Stage(s) /\ s.pc = "wake"
      /\ UNCHANGED <<deployment, row, task, runs, history>>
  <2>1. s.pc = "wake"
    BY DEF Wake, At
  <2>2. Driving(s) /\ Claiming(s)
    BY <2>1 DEF Driving, Resting, Aside, Claiming, Moving
  <2> QED  BY <2>1, <2>2, DriverKnows DEF Wake
<1>2. s.next \in {"next", "into", "route"}
  BY <1>1 DEF Locals
<1>3. /\ s.next = "next" => /\ Quiet /\ s.flow = row.flow /\ row.flow.step = "running"
                            /\ s.task = None /\ s.outcome \in Promise!Outcomes(Step0)
      /\ s.next \in {"into", "route"} =>
           /\ s.flow = row.flow /\ row.flow.step = "waiting" /\ s.task = row.flow.task
           /\ s.job = "resume" /\ s.outcome \in Promise!Outcomes(Step0)
  BY <1>1 DEF Stage, Routing, Outgoing, Answering
<1>4. CASE Become(h, Transit(s, "resuming", s.next))
  <2> DEFINE c == Transit(s, "resuming", s.next)
  <2>1. s.next \in Places /\ "resuming" \in Status
    BY <1>2 DEF Places, Status
  <2>2. /\ c \in Calls /\ c.pc = "check" /\ c.next = s.next /\ c.to = "resuming"
        /\ c.job = s.job /\ c.task = s.task /\ c.flow = s.flow /\ c.outcome = s.outcome
    BY <1>1, <2>1, TransitTypes
  <2> HIDE DEF c
  <2>3. Stage(c) /\ ~Aside(c) /\ Claiming(c)
    BY <1>2, <1>3, <2>2 DEF Stage, Starting, Performing, Routing, Outgoing, Answering, Moving,
       Aside, Driving, Resting, Claiming
  <2>4. Become(h, c)
    BY <1>4 DEF c
  <2> QED  BY <1>1, <2>2, <2>3, <2>4, GoesOn
<1>5. CASE Become(h, Go(s, "release"))
  BY <1>1, <1>5, ConflictOnce
<1>6. CASE Become(h, Go(s, s.next)) /\ (s.next = "route" => row.status = "running")
  <2> DEFINE c == Go(s, s.next)
  <2>1. s.next \in Places
    BY <1>2 DEF Places
  <2>2. /\ c \in Calls /\ c.pc = s.next /\ c.next = "idle"
        /\ c.job = s.job /\ c.task = s.task /\ c.flow = s.flow /\ c.outcome = s.outcome
    BY <1>1, <2>1, GoTypes
  <2> HIDE DEF c
  <2>3. c.pc = "route" => Quiet
    BY <1>6, <2>2 DEF Quiet
  <2>4. Stage(c) /\ ~Aside(c) /\ Claiming(c)
    BY <1>2, <1>3, <2>2, <2>3 DEF Stage, Starting, Performing, Routing, Outgoing, Answering, Moving,
       Aside, Driving, Resting, Claiming
  <2>5. Become(h, c)
    BY <1>6 DEF c
  <2> QED  BY <1>1, <1>2, <2>2, <2>4, <2>5, GoesOn
<1> QED  BY <1>4, <1>5, <1>6 DEF Wake

LEMMA ResumeIntoOnce ==
  ASSUME TInv, OnceInv, NEW h \in Handlers, ResumeInto(h), UNCHANGED deployment
  PROVE  OnceInv'
<1> DEFINE s == handler[h]
           g == Go(s, "wake")
           c == [g EXCEPT !.next = "route", !.version = row.version]
<1>1. /\ Driving(s) /\ Claiming(s) /\ s \in Calls /\ Stage(s) /\ s.pc = "into"
      /\ UNCHANGED <<deployment, row, task, runs, history>> /\ row \in Rows /\ Become(h, c)
  <2>1. s.pc = "into"
    BY DEF ResumeInto, At
  <2>2. Driving(s) /\ Claiming(s)
    BY <2>1 DEF Driving, Resting, Aside, Claiming, Moving
  <2> QED  BY <2>1, <2>2, DriverKnows DEF ResumeInto, TInv, TypeOK
<1>2. /\ s.flow = row.flow /\ row.flow.step = "waiting" /\ s.task = row.flow.task
      /\ s.job = "resume" /\ s.outcome \in Promise!Outcomes(Step0)
  BY <1>1 DEF Stage, Outgoing, Answering
<1>3. /\ g \in Calls /\ g.pc = "wake" /\ g.job = s.job /\ g.task = s.task /\ g.flow = s.flow
      /\ g.outcome = s.outcome
  <2>1. "wake" \in Places
    BY DEF Places
  <2> QED  BY <1>1, <2>1, GoTypes
<1> HIDE DEF g
<1>4. /\ c \in Calls /\ c.pc = "wake" /\ c.next = "route" /\ c.job = s.job /\ c.task = s.task
      /\ c.flow = s.flow /\ c.outcome = s.outcome
  <2>1. "route" \in Places /\ row.version \in Nat
    BY <1>1 DEF Places, Rows
  <2> QED  BY <1>3, <2>1 DEF Calls
<1> HIDE DEF c
<1>5. Stage(c) /\ ~Aside(c) /\ Claiming(c)
  BY <1>2, <1>4 DEF Stage, Starting, Performing, Routing, Outgoing, Answering, Moving,
     Aside, Driving, Resting, Claiming
<1> QED  BY <1>1, <1>4, <1>5, GoesOn

LEMMA ExitWaitingOnce ==
  ASSUME TInv, OnceInv, NEW h \in Handlers, ExitWaiting(h), UNCHANGED deployment
  PROVE  OnceInv'
<1> DEFINE s == handler[h]
<1>1. /\ Driving(s) /\ Claiming(s) /\ s \in Calls /\ s.pc = "failing"
      /\ UNCHANGED <<deployment, row, task, runs, history>>
  <2>1. s.pc = "failing"
    BY DEF ExitWaiting, At
  <2>2. Driving(s) /\ Claiming(s)
    BY <2>1 DEF Driving, Resting, Aside, Claiming, Moving
  <2> QED  BY <2>1, <2>2, DriverKnows DEF ExitWaiting
<1>2. PICK c \in Calls :
        /\ Become(h, c) /\ c.job = s.job /\ c.task = s.task
        /\ \/ c.pc = "check" /\ c.to = "resuming" /\ c.next = "fail"
           \/ c.pc = "settle" /\ c.to = "failed" /\ c.next = "release"
  <2>1. "release" \in Places /\ {"resuming", "failed"} \subseteq Status
    BY DEF Places, Status, Terminal
  <2> DEFINE t == Transit(s, "resuming", "fail")
             u == Settle(s, "failed", "release")
  <2>2. t \in Calls /\ t.job = s.job /\ t.task = s.task /\ t.pc = "check" /\ t.to = "resuming"
        /\ t.next = "fail"
    BY <1>1, <2>1, TransitTypes
  <2>3. u \in Calls /\ u.job = s.job /\ u.task = s.task /\ u.pc = "settle" /\ u.to = "failed"
        /\ u.next = "release"
    BY <1>1, <2>1, SettleTypes
  <2>4. Become(h, t) \/ Become(h, u)
    BY DEF ExitWaiting
  <2> HIDE DEF t, u
  <2> QED  BY <2>2, <2>3, <2>4
<1>3. Stage(c) /\ ~Aside(c) /\ Claiming(c)
  BY <1>2 DEF Stage, Starting, Performing, Routing, Outgoing, Answering, Moving,
     Aside, Driving, Resting, Claiming
<1> QED  BY <1>1, <1>2, <1>3, GoesOn

(* A command is executed for the first time in its step.                     *)
LEMMA CallOnce ==
  ASSUME TInv, OnceInv, NEW h \in Handlers, handler[h].pc = "execute", Execute(h),
         UNCHANGED deployment, NEW c \in Calls, Become(h, c),
         c.pc \notin {"resume?", "resume", "bound", "approved", "execute"}
  PROVE  /\ FlowInv' /\ calls'[Step0] # <<>> /\ Step0' = Step0 /\ Node0' = Node0
         /\ Quiet' = Quiet /\ row' = row /\ task' = task /\ walk' = walk /\ runs' = runs
         /\ Promise!Outcomes(Step0)' = {o \in Outcomes : TRUE}
<1> DEFINE s == handler[h]
<1>1. Driving(s)
  BY DEF Driving, Resting, Aside, Moving
<1>2. /\ s \in Calls /\ Stage(s) /\ FlowInv /\ row' = row /\ UNCHANGED <<task, runs, walk>>
      /\ calls' = [calls EXCEPT ![s.flow.steps] = Append(@, s.seen.intent)]
  BY <1>1, DriverKnows DEF Execute, OnceInv
<1>3. /\ s.flow = row.flow /\ row.flow.step \in {"running", "waiting"}
      /\ s.seen.intent = Node0 /\ Type[Node0] = "command"
  BY <1>2 DEF Stage, Performing, Answering
<1>4. /\ Visited /\ Step0 = s.flow.steps /\ Node0 \in Nodes /\ Step0 \in StepNumbers
      /\ Step0 \in Nat /\ calls \in [StepNumbers -> Seq(Nodes)] /\ walk[Step0] = Node0
  BY <1>2, <1>3 DEF FlowInv, Visited, Step0, Node0, TInv, TypeOK, Rows, Flows, StepNumbers
<1>5. calls[Step0] = <<>>
  <2>1. CASE s.task = None
    BY <1>2, <2>1 DEF Stage, Performing, Unasked
  <2>2. CASE s.task # None
    BY <1>2, <2>2 DEF Stage, Answering, FlowInv, Unspent
  <2> QED  BY <2>1, <2>2
<1>6. /\ calls'[Step0] = <<Node0>> /\ \A k \in StepNumbers : k # Step0 => calls'[k] = calls[k]
  BY <1>2, <1>3, <1>4, <1>5
<1>7. /\ Step0' = Step0 /\ Node0' = Node0 /\ Quiet' = Quiet
      /\ \A k : Promise!Asked(k)' = Promise!Asked(k)
  BY <1>2 DEF Step0, Node0, Quiet, Promise!Asked
<1>8. Visited'
  <2>1. \A j \in StepNumbers : j >= Step0 + 1 => j # Step0
    BY <1>4 DEF StepNumbers
  <2> QED  BY <1>2, <1>4, <1>6, <1>7, <2>1 DEF Visited, Clean
<1>9. row.flow.step = "waiting" => ~Unspent(row.flow.task)'
  <2> SUFFICES ASSUME row.flow.step = "waiting", Unspent(row.flow.task)' PROVE FALSE
    OBVIOUS
  <2>1. s.task = row.flow.task /\ task[row.flow.task].state = "approved" /\ row.flow.task \in Tasks
    BY <1>2, <1>3 DEF Stage, Performing, Answering, FlowInv, AskedBy
  <2>2. handler' = [handler EXCEPT ![h] = c] /\ handler \in [Handlers -> Calls]
    BY DEF Become, TInv, TypeOK
  <2>3. PICK g \in Handlers :
          /\ handler'[g].task = row.flow.task
          /\ handler'[g].pc \in {"resume?", "resume", "bound", "approved", "execute"}
    BY <1>2, <2>1 DEF Unspent
  <2>4. g # h /\ handler[g] = handler'[g]
    BY <2>2, <2>3
  <2>5. Claims(g, row.flow.task)
    BY <2>3, <2>4 DEF Claims, Claiming, Driving, Resting, Aside, Moving
  <2>6. Claims(h, row.flow.task)
    BY <1>1, <2>1 DEF Claims, Claiming, Moving
  <2> QED  BY <2>1, <2>4, <2>5, <2>6 DEF OnceInv, ClaimInv
<1>10. FlowInv'
  <2>1. row.flow.step = "waiting" => AskedBy(row.flow.task)'
    BY <1>2, <1>7 DEF FlowInv, AskedBy
  <2>2. ASSUME NEW k \in StepNumbers
        PROVE  Len(calls'[k]) <= 1
    <3>1. CASE k = Step0
      <4>1. Len(calls'[k]) = 1
        BY <1>4, <1>6, <3>1
      <4> QED  BY <4>1
    <3>2. CASE k # Step0
      BY <1>2, <1>6, <3>2 DEF FlowInv
    <3> QED  BY <3>1, <3>2
  <2> QED  BY <1>2, <1>3, <1>7, <1>8, <1>9, <2>1, <2>2 DEF FlowInv
<1>11. Promise!Outcomes(Step0)' = {o \in Outcomes : TRUE}
  <2>1. DOMAIN Route[Node0] = Outcomes
    BY <1>4, FlowAssumption DEF FlowAssumption
  <2> QED  BY <1>2, <1>3, <1>4, <1>6, <1>7, <2>1 DEF Promise!Outcomes
<1> QED  BY <1>2, <1>6, <1>7, <1>10, <1>11

LEMMA ExecuteOnce ==
  ASSUME TInv, OnceInv, NEW h \in Handlers, Execute(h), UNCHANGED deployment
  PROVE  OnceInv'
<1> DEFINE s == handler[h]
<1>1. s.pc = "execute"
  BY DEF Execute, At
<1>2. Driving(s) /\ Claiming(s)
  BY <1>1 DEF Driving, Resting, Aside, Claiming, Moving
<1>3. /\ s \in Calls /\ Locals(s) /\ Tasked(s) /\ Stage(s)
      /\ ~Quiet => s.task = row.flow.task /\ s.job = "resume"
  BY <1>2, DriverKnows
<1>4. /\ s.task = None => Quiet /\ s.flow = row.flow /\ row.flow.step = "running"
      /\ s.task # None => /\ s.flow = row.flow /\ row.flow.step = "waiting"
                          /\ s.task = row.flow.task /\ s.job = "resume"
  BY <1>1, <1>3 DEF Stage, Performing, Answering
<1>5. CASE Become(h, Throw(s))
  <2>1. Throw(s) \in Calls /\ Throw(s).pc \in {"idle", "release", "thrown"}
    <3>1. {"idle", "release", "thrown"} \subseteq Places
      BY DEF Places
    <3> QED  BY <1>3, <3>1, FreeTypes, GoTypes DEF Throw
  <2>2. FlowInv' /\ row' = row /\ task' = task /\ runs' = runs
    BY <1>1, <1>5, <2>1, CallOnce
  <2>3. s.job = "run" => Quiet
    BY <1>3
  <2> QED  BY <1>2, <1>5, <2>2, <2>3, ThrowOnce
<1>6. ASSUME NEW c \in Calls, Become(h, c), c.flow = s.flow, c.task = s.task, c.job = s.job,
             \/ s.task = None /\ c.next = "idle" /\ c.pc = "next"
             \/ s.task = None /\ c.next = "next" /\ c.pc = "wake"
             \/ s.task # None /\ c.next = "into" /\ c.pc = "wake"
             \/ s.task # None /\ c.next = "into" /\ c.pc = "settle" /\ c.to = "failed"
      PROVE  OnceInv'
  <2>1. c.pc \in {"next", "wake", "settle"} /\ c.outcome \in Outcomes
    BY <1>6 DEF Calls
  <2>2. /\ FlowInv' /\ row' = row /\ task' = task /\ runs' = runs
        /\ Step0' = Step0 /\ Node0' = Node0 /\ Quiet' = Quiet
        /\ Promise!Outcomes(Step0)' = {o \in Outcomes : TRUE}
    BY <1>1, <1>6, <2>1, CallOnce
  <2>3. c.outcome \in Promise!Outcomes(Step0)'
    BY <2>1, <2>2
  <2>4. Stage(c)' /\ ~Aside(c) /\ Claiming(c)
    BY <1>4, <1>6, <2>2, <2>3 DEF Stage, Starting, Performing, Routing, Outgoing, Answering, Moving,
       Aside, Driving, Resting, Claiming
  <2>5. s.task \in Tasks => Claims(h, s.task)
    BY <1>2 DEF Claims
  <2>6. ~Quiet' => c.task = row'.flow.task /\ c.job = "resume"
    BY <1>3, <1>6, <2>2
  <2> QED  BY <1>2, <1>6, <2>1, <2>2, <2>4, <2>5, <2>6, DriverActs
<1>7. CASE s.task = None /\ Become(h, Finished(s, "fail"))
  <2> DEFINE d == Finished(s, "fail")
  <2>1. s.job # "none" /\ s.flow.steps < MaxSteps /\ "fail" \in Outcomes
    BY <1>1, <1>3 DEF Locals, Moving, Stepping, Outcomes
  <2>2. /\ d \in Calls /\ d.pc = "next" /\ d.next = "idle" /\ d.job = s.job
        /\ d.flow = s.flow /\ d.task = s.task
    BY <1>3, <2>1, FinishedKeeps
  <2> HIDE DEF d
  <2> QED  BY <1>6, <1>7, <2>2 DEF d
<1>8. CASE s.task # None
           /\ Become(h, Settle([s EXCEPT !.outcome = "fail"], "failed", "into"))
  <2> DEFINE r == [s EXCEPT !.outcome = "fail"]
             d == Settle(r, "failed", "into")
  <2>1. r \in Calls /\ r.flow = s.flow /\ r.task = s.task /\ r.job = s.job
    BY <1>3 DEF Calls, Outcomes
  <2> HIDE DEF r
  <2>2. /\ d \in Calls /\ d.pc = "settle" /\ d.next = "into" /\ d.to = "failed" /\ d.job = s.job
        /\ d.flow = s.flow /\ d.task = s.task
    <3>1. "failed" \in Status /\ "into" \in Places
      BY DEF Status, Terminal, Places
    <3> QED  BY <2>1, <3>1, SettleTypes
  <2>3. Become(h, d)
    BY <1>8 DEF d, r
  <2> HIDE DEF d
  <2> QED  BY <1>6, <1>8, <2>2, <2>3
<1>9. ASSUME Become(h, [Go([s EXCEPT !.outcome = "success", !.seen = FirstRow], "wake") EXCEPT
                         !.next = IF s.task # None THEN "into" ELSE "next"])
      PROVE  OnceInv'
  <2> DEFINE r == [s EXCEPT !.outcome = "success", !.seen = FirstRow]
             g == Go(r, "wake")
             n == IF s.task # None THEN "into" ELSE "next"
             d == [g EXCEPT !.next = n]
  <2>1. r \in Calls /\ r.flow = s.flow /\ r.task = s.task /\ r.job = s.job
    BY <1>3, FreeTypes DEF Calls, Outcomes
  <2> HIDE DEF r
  <2>2. g \in Calls /\ g.pc = "wake" /\ g.flow = s.flow /\ g.task = s.task /\ g.job = s.job
    <3>1. "wake" \in Places
      BY DEF Places
    <3> QED  BY <2>1, <3>1, GoTypes
  <2> HIDE DEF g
  <2>3. n \in Places
    BY DEF Places
  <2>4. /\ d \in Calls /\ d.pc = "wake" /\ d.next = n
        /\ d.flow = s.flow /\ d.task = s.task /\ d.job = s.job
    <3> HIDE DEF n
    <3> QED  BY <2>2, <2>3 DEF Calls
  <2>5. Become(h, d)
    BY <1>9 DEF d, g, r, n
  <2> HIDE DEF d
  <2> QED  BY <1>6, <2>4, <2>5
<1> QED  BY <1>5, <1>7, <1>8, <1>9 DEF Execute

(* A process dies: what its calls claimed is claimed by nobody.              *)
LEMMA FailingOnce ==
  ASSUME TInv, OnceInv, NEW p \in Processes, NEW f, Failing(p, f)
  PROVE  OnceInv'
<1>1. /\ handler' = [h \in Handlers |-> IF ProcessOf[h] = p THEN f ELSE handler[h]]
      /\ UNCHANGED <<deployment, task, runs, walk, calls>> /\ OneRun' /\ Backend' = Backend
  BY DEF Failing, OnceInv, OneRun, MaxRuns, Faults, Backend
<1>2. \A h \in Handlers : handler'[h] = f \/ handler'[h] = handler[h]
  BY <1>1
<1>3. ~Driving(f) /\ ~Aside(f) /\ ~Claiming(f) /\ f.pc \in {"idle", "down"}
  BY FreeTypes, DownTypes DEF Failing, Driving, Resting, Aside, Claiming, Moving
<1>4. Kept /\ (Quiet' \/ ~Quiet)
  <2>1. row'.flow = row.flow /\ row'.intent = row.intent
        /\ (row' = row \/ row'.status = "interrupted")
    BY DEF Failing
  <2>2. (Quiet => Quiet')
    BY <2>1 DEF Quiet
  <2> QED  BY <1>1, <2>1, <2>2 DEF Kept, Held, Resolved, TInv, TypeOK
<1>5. ClaimInv'
  BY <1>1, <1>2, <1>3 DEF OnceInv, ClaimInv, Claims
<1>6. FlowInv'
  <2>1. row.flow.step = "waiting" /\ Unspent(row.flow.task)' => Unspent(row.flow.task)
    BY <1>1, <1>2, <1>3, <1>4 DEF Unspent, Kept, Held
  <2> QED  BY <1>4, <2>1, FlowKept DEF Kept, OnceInv, FlowInv
<1>7. ASSUME NEW h \in Handlers, Driving(handler'[h])
      PROVE  /\ Stage(handler[h])'
             /\ ~Quiet' => Claims(h, row.flow.task)' /\ handler'[h].job = "resume"
  <2>1. PICK x \in Calls : x = handler[h] /\ x = handler'[h]
    BY <1>2, <1>3, <1>7 DEF TInv, TypeOK
  <2>2. Stage(x) /\ (~Quiet => Claims(h, row.flow.task) /\ x.job = "resume")
    BY <1>7, <2>1 DEF OnceInv, DriverInv
  <2>3. Stage(x)'
    BY <1>4, <2>2, StageKept DEF OnceInv
  <2> QED  BY <1>4, <2>1, <2>2, <2>3 DEF Kept, Held, Claims
<1>8. DriverInv'
  <2>1. runs' = 0 => Begun'
    BY <1>1, <1>4, BegunKept DEF OnceInv, DriverInv
  <2> QED  BY <1>1, <1>2, <1>3, <1>7, <2>1 DEF OnceInv, DriverInv
<1> QED  BY <1>1, <1>5, <1>6, <1>8 DEF OnceInv

LEMMA StutterOnce ==
  ASSUME TInv, OnceInv, UNCHANGED vars
  PROVE  OnceInv'
<1>1. UNCHANGED <<deployment, row, task, handler, runs, walk, calls>>
  BY DEF vars, history
<1>2. Kept /\ OneRun' /\ Backend' = Backend
  BY <1>1 DEF Kept, Held, Resolved, Quiet, TInv, TypeOK, OnceInv, OneRun, MaxRuns, Faults, Backend
<1>3. ClaimInv'
  BY <1>1 DEF OnceInv, ClaimInv, Claims
<1>4. FlowInv'
  <2>1. Quiet' \/ row.flow.step = "waiting"
    BY <1>1 DEF OnceInv, FlowInv, Quiet
  <2>2. Unspent(row.flow.task)' => Unspent(row.flow.task)
    BY <1>1 DEF Unspent
  <2> QED  BY <1>2, <2>1, <2>2, FlowKept DEF Kept, OnceInv
<1>5. ASSUME NEW h \in Handlers, Driving(handler[h])
      PROVE  Stage(handler[h])'
  <2>1. PICK x \in Calls : x = handler[h] /\ x = handler'[h] /\ Stage(x)
    BY <1>1, <1>5 DEF OnceInv, DriverInv, TInv, TypeOK
  <2>2. Stage(x)'
    BY <1>2, <2>1, StageKept DEF OnceInv
  <2> QED  BY <2>1, <2>2
<1>6. DriverInv'
  <2>1. Begun => Begun'
    BY <1>2, BegunKept
  <2>2. Quiet' = Quiet /\ \A h : Claims(h, row.flow.task)' = Claims(h, row.flow.task)
    BY <1>1 DEF Quiet, Claims
  <2> QED  BY <1>1, <1>2, <1>5, <2>1, <2>2 DEF OnceInv, DriverInv
<1> QED  BY <1>2, <1>3, <1>4, <1>6 DEF OnceInv

LEMMA OnceStep == TInv /\ TInv' /\ OnceInv /\ OneRun' /\ [Next]_vars => OnceInv'
<1> SUFFICES ASSUME TInv, TInv', OnceInv, runs' <= 1, [Next]_vars
             PROVE  OnceInv'
  BY DEF OneRun
<1>1. CASE UNCHANGED vars
  BY <1>1, StutterOnce
<1>2. ASSUME NEW h \in Handlers, UNCHANGED deployment,
             \/ Run(h) \/ Cancel(h) \/ ReportUsage(h) \/ SkillChanged(h)
             \/ \E t \in Tasks, r \in Resolution : Resolve(h, t, r)
             \/ Proceed(h)
      PROVE  OnceInv'
  <2>1. ASSUME SettleGuard(h) \/ Check(h) \/ Load(h) \/ Store(h)
        PROVE  OnceInv'
    <3>1. handler[h].pc \in Moving
      BY <2>1 DEF SettleGuard, Check, Load, Store, At, Moving
    <3>2. CASE Aside(handler[h])
      BY <1>2, <2>1, <3>2, AsideOnce
    <3>3. CASE ~Aside(handler[h])
      <4>1. Driving(handler[h])
        BY <3>1, <3>3 DEF Driving, Resting, Moving
      <4> QED  BY <1>2, <2>1, <4>1, SettleGuardOnce, CheckOnce, LoadOnce, StoreOnce
    <3> QED  BY <3>2, <3>3
  <2>2. ~Reconcile(h)
    <3> SUFFICES ASSUME Reconcile(h) PROVE FALSE
      OBVIOUS
    <3>1. handler[h].pc = "reconcile"
      BY DEF Reconcile, At
    <3>2. Driving(handler[h])
      BY <3>1 DEF Driving, Resting, Aside, Moving
    <3> QED  BY <3>1, <3>2, DriverKnows DEF Stage
  <2>3. CASE Run(h)
    BY <1>2, <2>3, RunOnce
  <2>4. CASE Cancel(h) \/ ReportUsage(h)
    BY <1>2, <2>4, RequestOnce
  <2>5. CASE SkillChanged(h)
    BY <1>2, <2>5, SkillChangedOnce
  <2>6. CASE \E t \in Tasks, r \in Resolution : Resolve(h, t, r)
    BY <1>2, <2>6, ResolveOnce
  <2>7. CASE Enqueue(h)
    BY <1>2, <2>7, EnqueueOnce
  <2>8. CASE Release(h)
    BY <1>2, <2>8, ReleaseOnce
  <2>9. CASE BeginRun(h)
    BY <1>2, <2>9, BeginRunOnce
  <2>10. CASE Step(h)
    BY <1>2, <2>10, StepOnce
  <2>11. CASE PerformTaskOrGate(h)
    BY <1>2, <2>11, PerformTaskOrGateOnce
  <2>12. CASE PerformCommand(h)
    BY <1>2, <2>12, PerformCommandOnce
  <2>13. CASE PerformReview(h)
    BY <1>2, <2>13, PerformReviewOnce
  <2>14. CASE Classify(h)
    BY <1>2, <2>14, ClassifyOnce
  <2>15. CASE Pause(h)
    BY <1>2, <2>15, PauseOnce
  <2>16. CASE PerformStopOrEnd(h)
    BY <1>2, <2>16, PerformStopOrEndOnce
  <2>17. CASE TakeRoute(h)
    BY <1>2, <2>17, TakeRouteOnce
  <2>18. CASE Reload(h)
    BY <1>2, <2>18, ReloadOnce
  <2>19. CASE BeginResume(h)
    BY <1>2, <2>19, BeginResumeOnce
  <2>20. CASE ResumeBound(h)
    BY <1>2, <2>20, ResumeBoundOnce
  <2>21. CASE SettleUnresumable(h)
    BY <1>2, <2>21, SettleUnresumableOnce
  <2>22. CASE ReadApproved(h)
    BY <1>2, <2>22, ReadApprovedOnce
  <2>23. CASE Execute(h)
    BY <1>2, <2>23, ExecuteOnce
  <2>24. CASE Wake(h)
    BY <1>2, <2>24, WakeOnce
  <2>25. CASE ResumeInto(h)
    BY <1>2, <2>25, ResumeIntoOnce
  <2>26. CASE ExitWaiting(h)
    BY <1>2, <2>26, ExitWaitingOnce
  <2> QED  BY <1>2, <2>1, <2>2, <2>3, <2>4, <2>5, <2>6, <2>7, <2>8, <2>9, <2>10, <2>11, <2>12,
              <2>13, <2>14, <2>15, <2>16, <2>17, <2>18, <2>19, <2>20, <2>21, <2>22, <2>23, <2>24,
              <2>25, <2>26 DEF Proceed
<1>3. ASSUME NEW p \in Processes, UNCHANGED deployment, Crash(p) \/ Restart(p)
      PROVE  OnceInv'
  BY <1>3, ProcessFails, FailingOnce
<1> QED  BY <1>1, <1>2, <1>3 DEF Next

LEMMA OnceInit == Init /\ OneRun => OnceInv
<1> SUFFICES ASSUME Init, OneRun
             PROVE  OnceInv
  OBVIOUS
<1>1. \A h \in Handlers :
        /\ ~Driving(handler[h]) /\ ~Claiming(handler[h]) /\ ~Aside(handler[h])
        /\ handler[h].pc = "idle" /\ handler[h] = Free
  BY FreeTypes DEF Init, Driving, Resting, Claiming, Aside, Moving
<1>2. row = FirstRow /\ row.flow = FirstFlow /\ Step0 = 0 /\ Node0 = Start /\ Quiet
      /\ row.flow.step = "pending"
  BY FreeTypes DEF Init, Step0, Node0, Quiet
<1>3. \A k : Promise!Asked(k) = {}
  BY DEF Init, Promise!Asked
<1>4. Clean(Step0)
  BY <1>3 DEF Clean, Init
<1>5. Promise!Follows(Step0, Node0)
  BY <1>2 DEF Promise!Follows
<1>6. \A k \in StepNumbers : Len(calls[k]) <= 1
  BY DEF Init
<1>7. FlowInv
  BY <1>2, <1>4, <1>5, <1>6 DEF FlowInv
<1>8. Begun
  BY <1>2 DEF Begun, Promise!Init, Init, Promise!StepNumbers, StepNumbers
<1>9. ClaimInv
  BY <1>1 DEF ClaimInv, Claims
<1>10. DriverInv
  BY <1>1, <1>8 DEF DriverInv
<1> QED  BY <1>7, <1>9, <1>10 DEF OnceInv

(* How often the flow was started only grows, in a deployment that stays.    *)
LEMMA RunsGrow ==
  TInv /\ [Next]_vars => runs \in Nat /\ runs' \in {runs, runs + 1} /\ UNCHANGED deployment
<1> SUFFICES ASSUME TInv, [Next]_vars
             PROVE  runs \in Nat /\ runs' \in {runs, runs + 1} /\ UNCHANGED deployment
  OBVIOUS
<1>1. runs \in Nat
  BY DEF TInv, TypeOK
<1>2. ASSUME NEW h \in Handlers, Run(h) PROVE runs' = runs + 1
  BY <1>2 DEF Run
<1>3. ASSUME NEW h \in Handlers, Proceed(h) PROVE runs' = runs
  BY <1>3 DEF Proceed, SettleGuard, Check, Load, Store, Enqueue, Release, BeginRun, Reconcile,
     Step, PerformTaskOrGate, PerformCommand, PerformReview, Classify, Pause, PerformStopOrEnd,
     TakeRoute, Reload, BeginResume, ResumeBound, SettleUnresumable, ReadApproved, Execute, Wake,
     ResumeInto, ExitWaiting
<1>4. ASSUME NEW h \in Handlers,
             \/ Cancel(h) \/ ReportUsage(h) \/ SkillChanged(h)
             \/ \E t \in Tasks, r \in Resolution : Resolve(h, t, r)
      PROVE  runs' = runs
  BY <1>4 DEF Cancel, ReportUsage, SkillChanged, Resolve
<1>5. ASSUME NEW p \in Processes, Crash(p) \/ Restart(p) PROVE runs' = runs
  BY <1>5 DEF Crash, Restart
<1>6. UNCHANGED vars => runs' = runs /\ UNCHANGED deployment
  BY DEF vars
<1> QED  BY <1>1, <1>2, <1>3, <1>4, <1>5, <1>6 DEF Next

LEMMA OnceKept ==
  TInv /\ (OneRun => OnceInv) /\ [Next]_vars => (OneRun' => OnceInv')
<1> SUFFICES ASSUME TInv, OneRun => OnceInv, [Next]_vars, OneRun'
             PROVE  OnceInv'
  OBVIOUS
<1>1. OneRun
  BY RunsGrow DEF OneRun, Backend, Faults
<1> QED  BY <1>1, TypesStep, OnceStep

-------------------------------------------------------------------------------
(* A flow that is run as often as it pleases: in one process and in memory,  *)
(* where the lock is the only one and a write merges what it changes, or     *)
(* anywhere, by requests that do not overlap.                                *)
InMemory ==
  /\ Backend = "memory" /\ "crash" \notin Faults
  /\ \A g, h \in Handlers : ProcessOf[g] = ProcessOf[h]

InTurn == ~Overlap

Repeatable == InMemory \/ InTurn

Active(h) == handler[h].pc \notin Inactive

SoleInv ==
  InTurn => \A g, h \in Handlers : Active(g) /\ Active(h) => g = h

Holds(h) == HoldsLock(h) /\ Active(h)

(* The row that a call read is still the row, but for the status.            *)
Fresh(s) ==
  s.seen.flow = row.flow /\ (s.to # "intent" => s.seen.intent = row.intent)

(* Calls outside the lock: they begin, wait for it, or change the status,    *)
(* and never to waiting_for_approval.                                        *)
Apart(s) ==
  /\ s.pc \in Moving =>
       \/ s.next = "idle" /\ s.to \in {"cancelled", "failed", "usage"}
       \/ s.next = "run?" /\ s.to = "running" /\ s.task = None
  /\ s.pc \in {"run?", "run"} => s.task = None

Outside(s) == s.pc # "store" /\ Apart(s)

Storing(s) ==
  /\ s.pc = "store" /\ InTurn /\ Apart(s) /\ Fresh(s)
  /\ s.to = "usage" /\ Quiet => s.seen.status # "waiting_for_approval"

(* A task the step was put to people with.                                   *)
PutTo(t) ==
  AskedBy(t) /\ (Type[Node0] = "command" => Verdict[Node0] = "needs_approval")

Walked == \E k \in StepNumbers : walk[k] # None

(* The call that holds the lock, and what it knows of the flow.              *)
Inside(s) ==
  /\ s.pc \notin {"idle", "down", "run?", "resume?"}
  /\ s.pc = "store" => Fresh(s)
  /\ s.pc = "store" /\ s.to = "intent" => s.seen.status # "waiting_for_approval"
  /\ s.pc \in Moving => s.next \notin {"idle", "run?"} /\ s.to # "usage"
  /\ s.pc = "settle" => s.next \in {"release", "into"}
  /\ s.pc = "reconcile" => row.flow.step = "waiting" /\ s.task = row.flow.task
  /\ s.pc \in {"step", "reload"} =>
       /\ s.flow = row.flow /\ row.flow.step # "waiting" /\ s.task = None
       /\ row.flow.step = "running" => Type[Node0] \in ReplaySafe
  /\ s.pc = "reload" => Walked
  /\ Performing(s) =>
       /\ s.flow = row.flow /\ row.flow.step = "running" /\ s.task = None
       /\ Type[Node0] \in ReplaySafe \/ Unasked
  /\ s.pc \in Moving /\ s.next = "classify" =>
       s.to = "intent" /\ s.pc \in {"load", "store"} /\ Type[Node0] = "command"
  /\ s.pc \in Moving /\ s.to = "intent" => s.next = "classify"
  /\ s.pc = "classify" => Type[Node0] = "command" /\ row.intent = Node0
  /\ s.pc = "execute" => /\ s.seen.intent = Node0 /\ Type[Node0] = "command"
                         /\ s.task = None => Verdict[Node0] = "auto_approve"
  /\ s.pc = "pause" => /\ s.flow = row.flow /\ row.flow.step = "running"
                       /\ PutTo(s.task) /\ calls[Step0] = <<>>
  /\ s.pc \in Moving /\ s.to = "waiting_for_approval" =>
       s.next \in {"release", "resume"} /\ row.flow.step = "waiting"
  /\ Routing(s) => /\ s.flow = row.flow /\ row.flow.step = "running" /\ s.task = None
                   /\ s.outcome \in Promise!Outcomes(Step0)
  /\ Answering(s) => /\ s.flow = row.flow /\ row.flow.step = "waiting"
                     /\ s.task = row.flow.task
  /\ Outgoing(s) => s.outcome \in Promise!Outcomes(Step0)
  /\ s.pc = "approved" \/ (s.pc = "execute" /\ s.task # None) =>
       task[row.flow.task].state = "approved" /\ Type[Node0] = "command"
  /\ s.pc \in Moving /\ s.next = "route" => s.to \in {"resuming", "running"}
  /\ s.pc = "route" \/ (s.pc \in Moving /\ s.next = "route" /\ s.to = "running") => Quiet

(* The row, and the history behind it.                                       *)
RowInv ==
  /\ row.flow.step \in {"pending", "completed"} =>
       Clean(Step0) /\ Promise!Follows(Step0, Node0)
  /\ row.flow.step \in {"running", "waiting"} => Visited
  /\ row.flow.step = "waiting" => PutTo(row.flow.task)
  /\ ~Quiet => row.flow.step = "waiting"
  /\ \A k \in StepNumbers :
       Len(calls[k]) > 1 => walk[k] # None /\ Verdict[walk[k]] # "auto_approve"

Placed(s) == IF Locked(s) THEN Inside(s) ELSE Outside(s) \/ Storing(s)

RepeatedInv ==
  /\ Repeatable
  /\ \A h \in Handlers : Placed(handler[h])
  /\ RowInv

-------------------------------------------------------------------------------
(* Where requests do not overlap, a call that takes a step is the only one.  *)
Begin(h) == Begins(h) \/ Active(h)

LEMMA StepsOfCalls ==
  ASSUME NEW h \in Handlers,
         \/ Run(h) \/ Cancel(h) \/ ReportUsage(h) \/ SkillChanged(h)
         \/ \E t \in Tasks, r \in Resolution : Resolve(h, t, r)
         \/ Proceed(h)
  PROVE  Begin(h) /\ \E s : Become(h, s)
<1>1. CASE \/ Run(h) \/ Cancel(h) \/ ReportUsage(h) \/ SkillChanged(h)
           \/ \E t \in Tasks, r \in Resolution : Resolve(h, t, r)
  BY <1>1 DEF Run, Cancel, ReportUsage, SkillChanged, Resolve, Begin, Active, Inactive, At
<1>2. CASE \/ SettleGuard(h) \/ Check(h) \/ Load(h) \/ Store(h) \/ Enqueue(h) \/ Release(h)
           \/ BeginRun(h) \/ Reconcile(h) \/ Reload(h) \/ BeginResume(h) \/ ResumeBound(h)
  BY <1>2 DEF SettleGuard, Check, Load, Store, Enqueue, Release, BeginRun, Reconcile, Reload,
     BeginResume, ResumeBound, Begin, Active, Inactive, At
<1>3. CASE \/ PerformTaskOrGate(h) \/ PerformCommand(h) \/ PerformReview(h) \/ Classify(h)
           \/ SettleUnresumable(h) \/ ReadApproved(h) \/ Wake(h) \/ ResumeInto(h) \/ ExitWaiting(h)
  BY <1>3 DEF PerformTaskOrGate, PerformCommand, PerformReview, Classify, OpenTask, Performs,
     SettleUnresumable, ReadApproved, Wake, ResumeInto, ExitWaiting, Begin, Active, Inactive, At
<1>4. CASE Step(h) \/ Pause(h) \/ PerformStopOrEnd(h) \/ TakeRoute(h) \/ Execute(h)
  BY <1>4 DEF Step, Pause, PauseFlowFirst, PerformStopOrEnd, Performs, TakeRoute, Execute,
     WriteFlow, Begin, Active, Inactive, At
<1> QED  BY <1>1, <1>2, <1>3, <1>4 DEF Proceed

LEMMA OnlyOne ==
  ASSUME SoleInv, InTurn, NEW g \in Handlers, NEW h \in Handlers, Begin(h), g # h
  PROVE  ~Active(g)
BY DEF SoleInv, InTurn, Begin, Begins, Active

LEMMA SoleStep == TInv /\ SoleInv /\ [Next]_vars => SoleInv'
<1> SUFFICES ASSUME TInv, SoleInv, [Next]_vars, InTurn'
             PROVE  \A g, h \in Handlers : Active(g)' /\ Active(h)' => g = h
  BY DEF SoleInv
<1>1. InTurn /\ UNCHANGED deployment
  BY DEF InTurn, Overlap, Next, vars
<1>2. ASSUME NEW h \in Handlers, Begin(h), NEW s, Become(h, s), NEW g \in Handlers, Active(g)'
      PROVE  g = h
  <2>1. g # h => handler'[g] = handler[g]
    BY <1>2 DEF Become, TInv, TypeOK
  <2> QED  BY <1>1, <1>2, <2>1, OnlyOne DEF Active
<1>3. ASSUME NEW h \in Handlers,
             \/ Run(h) \/ Cancel(h) \/ ReportUsage(h) \/ SkillChanged(h)
             \/ \E t \in Tasks, r \in Resolution : Resolve(h, t, r)
             \/ Proceed(h)
      PROVE  \A f, g \in Handlers : Active(f)' /\ Active(g)' => f = g
  BY <1>2, <1>3, StepsOfCalls
<1>4. ASSUME NEW p \in Processes, Crash(p) \/ Restart(p)
      PROVE  \A f, g \in Handlers : Active(f)' /\ Active(g)' => f = g
  <2>1. PICK x : Failing(p, x)
    BY <1>1, <1>4, ProcessFails
  <2>2. x.pc \in Inactive
    BY <2>1, FreeTypes, DownTypes DEF Failing, Inactive
  <2>3. ASSUME NEW f \in Handlers, Active(f)' PROVE Active(f)
    BY <2>1, <2>2, <2>3 DEF Failing, Active
  <2> QED  BY <1>1, <2>3 DEF SoleInv
<1>5. CASE UNCHANGED vars
  BY <1>1, <1>5 DEF vars, SoleInv, Active
<1> QED  BY <1>3, <1>4, <1>5 DEF Next

(* The lock is held by one call.                                             *)
LEMMA Alone ==
  ASSUME TInv, SoleInv, RepeatedInv, NEW g \in Handlers, NEW h \in Handlers, Locked(handler[g]),
         Holds(h)
  PROVE  g = h
<1>1. HoldsLock(g) /\ Active(g)
  BY DEF TInv, LockInv, RepeatedInv, Placed, Inside, Active, Inactive
<1>2. CASE InMemory
  <2>1. ProcessOf[g] = ProcessOf[h]
    BY <1>2 DEF InMemory
  <2> QED  BY <1>1, <2>1 DEF HoldsLock, Holds
<1>3. CASE InTurn
  BY <1>1, <1>3 DEF SoleInv, Holds
<1> QED  BY <1>2, <1>3 DEF RepeatedInv, Repeatable

LEMMA RowKept ==
  ASSUME RowInv, Kept
  PROVE  RowInv'
<1>1. /\ row'.flow = row.flow /\ row'.intent = row.intent /\ UNCHANGED <<walk, calls>>
      /\ Step0' = Step0 /\ Node0' = Node0 /\ (Quiet => Quiet')
  BY DEF Kept, Held, Step0, Node0
<1>2. row.flow.step \in {"pending", "completed"} => Clean(Step0)' /\ Promise!Follows(Step0, Node0)'
  <2>1. Promise!Follows(Step0, Node0) => Promise!Follows(Step0, Node0)'
    BY <1>1, AskedKept DEF Promise!Follows, Kept
  <2> QED  BY <1>1, <2>1, CleanKept DEF RowInv, Kept
<1>3. row.flow.step \in {"running", "waiting"} => Visited'
  BY <1>1, CleanKept DEF RowInv, Visited, Kept
<1>4. row.flow.step = "waiting" => PutTo(row.flow.task)'
  BY <1>1, AskedKept DEF RowInv, PutTo, AskedBy, Kept
<1> QED  BY <1>1, <1>2, <1>3, <1>4 DEF RowInv

LEMMA InsideKept ==
  ASSUME NEW s, Inside(s), RowInv, Kept
  PROVE  Inside(s)'
<1>1. /\ row'.flow = row.flow /\ row'.intent = row.intent /\ (Quiet => Quiet')
      /\ Step0' = Step0 /\ Node0' = Node0 /\ UNCHANGED <<walk, calls>>
  BY DEF Kept, Held, Step0, Node0
<1>2. Promise!Asked(Step0)' = Promise!Asked(Step0)
      /\ Promise!Outcomes(Step0) \subseteq Promise!Outcomes(Step0)'
  BY <1>1, AskedKept DEF Kept
<1>3. (Unasked => Unasked') /\ (PutTo(s.task) => PutTo(s.task)')
  BY <1>1, <1>2 DEF Unasked, PutTo, AskedBy
<1>4. row.flow.step = "waiting" /\ task[row.flow.task].state = "approved" =>
        task'[row.flow.task].state = "approved"
  BY DEF RowInv, PutTo, AskedBy, Kept, Held, Resolved
<1> QED  BY <1>1, <1>2, <1>3, <1>4 DEF Inside, Answering, Fresh, Walked

(* What the one with the lock does may change everything.                    *)
LEMMA HolderActs ==
  ASSUME TInv, SoleInv, RepeatedInv, NEW h \in Handlers, NEW s, Become(h, s), Holds(h),
         UNCHANGED deployment, RowInv', IF Locked(s) THEN Inside(s)' ELSE Outside(s)
  PROVE  RepeatedInv'
<1>1. handler' = [handler EXCEPT ![h] = s] /\ handler \in [Handlers -> Calls] /\ Repeatable'
  BY DEF Become, TInv, TypeOK, RepeatedInv, Repeatable, InMemory, InTurn, Overlap, Backend, Faults,
     ProcessOf
<1>2. ASSUME NEW g \in Handlers
      PROVE  Placed(handler[g])'
  <2>1. CASE g = h
    <3>1. handler'[g] = s
      BY <1>1, <2>1
    <3> QED  BY <3>1 DEF Placed, Locked, Outside, Apart, Inside, Performing, Routing, Answering,
                         Outgoing, PutTo, AskedBy, Fresh, Walked
  <2>2. CASE g # h
    <3>1. handler'[g] = handler[g] /\ ~Locked(handler[g])
      BY <1>1, <2>2, Alone
    <3>2. ~Storing(handler[g])
      BY <2>2, OnlyOne DEF Storing, Holds, Begin, Active, Inactive
    <3>3. Outside(handler[g])
      BY <3>1, <3>2 DEF RepeatedInv, Placed
    <3> QED  BY <3>1, <3>3 DEF Placed, Locked, Outside, Apart
  <2> QED  BY <2>1, <2>2
<1> QED  BY <1>1, <1>2 DEF RepeatedInv

LEMMA NothingHappens ==
  ASSUME TInv, UNCHANGED <<deployment, row, task, history>>
  PROVE  Kept
BY DEF Kept, Held, Resolved, history, TInv, TypeOK, Quiet

LEMMA HolderMoves ==
  ASSUME TInv, SoleInv, RepeatedInv, NEW h \in Handlers, NEW s, Become(h, s), Holds(h),
         UNCHANGED <<deployment, row, task, history>>,
         IF Locked(s) THEN Inside(s) ELSE Outside(s)
  PROVE  RepeatedInv'
<1>1. Kept
  BY NothingHappens
<1>2. RowInv' /\ (Inside(s) => Inside(s)')
  BY <1>1, RowKept, InsideKept DEF RepeatedInv
<1> QED  BY <1>2, HolderActs

(* What the others do leaves all that the one with the lock relies upon.     *)
LEMMA OutsiderActs ==
  ASSUME TInv, SoleInv, RepeatedInv, NEW h \in Handlers, NEW s, Become(h, s), Begin(h),
         ~Locked(handler[h]), Kept, ~Locked(s), Outside(s) \/ Storing(s)'
  PROVE  RepeatedInv'
<1>1. handler' = [handler EXCEPT ![h] = s] /\ handler \in [Handlers -> Calls] /\ Repeatable'
  BY DEF Become, TInv, TypeOK, RepeatedInv, Repeatable, InMemory, InTurn, Overlap, Backend, Faults,
     ProcessOf, Kept, Held
<1>2. RowInv'
  BY RowKept DEF RepeatedInv
<1>3. ASSUME NEW g \in Handlers
      PROVE  Placed(handler[g])'
  <2>1. CASE g = h
    <3>1. handler'[g] = s
      BY <1>1, <2>1
    <3> QED  BY <3>1 DEF Placed, Locked, Outside, Storing, Apart, Fresh
  <2>2. CASE g # h
    <3>1. PICK x : x = handler[g] /\ x = handler'[g]
      BY <1>1, <2>2
    <3>2. Placed(x)
      BY <3>1 DEF RepeatedInv
    <3>3. Inside(x) => Inside(x)'
      BY InsideKept DEF RepeatedInv
    <3>4. ~Storing(x)
      BY <2>2, <3>1, OnlyOne DEF Storing, Active, Inactive
    <3>5. Placed(x)'
      BY <3>2, <3>3, <3>4 DEF Placed
    <3> QED  BY <3>1, <3>5
  <2> QED  BY <2>1, <2>2
<1> QED  BY <1>1, <1>2, <1>3 DEF RepeatedInv

(* Who stands behind the entrance of the lock holds it.                      *)
LEMMA HolderKnows ==
  ASSUME TInv, SoleInv, RepeatedInv, NEW h \in Handlers,
         \/ handler[h].pc \notin Moving \cup {"idle", "down", "run?", "resume?", "run", "resume"}
         \/ handler[h].pc \in Moving /\ handler[h].next \notin {"idle", "run?"}
  PROVE  /\ handler[h] \in Calls /\ Locals(handler[h]) /\ Tasked(handler[h])
         /\ handler[h].job # "none" /\ Locked(handler[h]) /\ Holds(h) /\ Inside(handler[h])
<1>1. handler[h] \in Calls /\ Locals(handler[h]) /\ Tasked(handler[h])
  BY HandlerTypes
<1>2. handler[h].job # "none" /\ Locked(handler[h]) /\ Active(h)
  BY <1>1 DEF Locals, Locked, Moving, Active, Inactive
<1> QED  BY <1>1, <1>2, HandlerTypes DEF RepeatedInv, Placed, Holds

-------------------------------------------------------------------------------
(* Requests, and the way into the lock.                                      *)
LEMMA RequestRepeated ==
  ASSUME TInv, SoleInv, RepeatedInv, NEW h \in Handlers, Run(h) \/ Cancel(h) \/ ReportUsage(h),
         UNCHANGED deployment
  PROVE  RepeatedInv'
<1>1. PICK s \in {Transit(Free, "running", "run?"), Settle(Free, "cancelled", "idle"),
                  [Free EXCEPT !.pc = "load", !.to = "usage"]} : Become(h, s)
  BY DEF Run, Cancel, ReportUsage
<1>2. handler[h].pc = "idle" /\ Begin(h) /\ UNCHANGED <<deployment, row, task, history>>
  BY DEF Run, Cancel, ReportUsage, Begin, Begins, At
<1>3. /\ s.pc \in {"settle", "check", "load"} /\ s.job = "none" /\ s.task = None
      /\ \/ s.next = "idle" /\ s.to \in {"cancelled", "usage"}
         \/ s.next = "run?" /\ s.to = "running"
  <2>1. {"idle", "load", "run?"} \subseteq Places /\ {"cancelled", "running"} \subseteq Status
    BY DEF Places, Status, Terminal
  <2>2. CASE s = Settle(Free, "cancelled", "idle")
    BY <2>1, <2>2, FreeTypes, SettleTypes
  <2>3. CASE s = [Free EXCEPT !.pc = "load", !.to = "usage"]
    BY <2>1, <2>3, FreeTypes DEF Calls
  <2>4. CASE s = Transit(Free, "running", "run?")
    BY <2>1, <2>4, FreeTypes, TransitTypes
  <2> QED  BY <2>2, <2>3, <2>4
<1>4. ~Locked(s) /\ Outside(s)
  BY <1>3 DEF Locked, Outside, Apart, Moving
<1>5. ~Locked(handler[h])
  <2>1. Locked(handler[h]) => Inside(handler[h])
    BY DEF RepeatedInv, Placed
  <2> QED  BY <1>2, <2>1 DEF Inside
<1> QED  BY <1>1, <1>2, <1>4, <1>5, NothingHappens, OutsiderActs

LEMMA ResolveRepeated ==
  ASSUME TInv, SoleInv, RepeatedInv, NEW h \in Handlers, NEW t \in Tasks, NEW r \in Resolution,
         Resolve(h, t, r), TInv', UNCHANGED deployment
  PROVE  RepeatedInv'
<1> DEFINE s == [Free EXCEPT !.pc = "resume?", !.task = t]
<1>1. task' = [task EXCEPT ![t].state = r] /\ task[t].state = "open" /\ Become(h, s)
      /\ handler[h].pc = "idle" /\ Begin(h) /\ UNCHANGED <<deployment, row, walk, calls>>
  BY DEF Resolve, Closable, Begin, Begins, At, history
<1>2. s \in Calls /\ s.pc = "resume?" /\ s.job = "none"
  BY FreeTypes DEF Calls, Places
<1> HIDE DEF s
<1>3. Kept
  <2>1. task \in [Tasks -> HumanTasks] /\ task' \in [Tasks -> HumanTasks]
    BY DEF TInv, TypeOK
  <2> QED  BY <1>1, <2>1 DEF Kept, Held, Resolved, HumanTasks, Quiet
<1>4. ~Locked(handler[h])
  <2>1. Locked(handler[h]) => Inside(handler[h])
    BY DEF RepeatedInv, Placed
  <2> QED  BY <1>1, <2>1 DEF Inside
<1>5. ~Locked(s) /\ Outside(s)
  BY <1>2 DEF Locked, Outside, Apart, Moving
<1> QED  BY <1>1, <1>3, <1>4, <1>5, OutsiderActs

LEMMA EnqueueRepeated ==
  ASSUME TInv, SoleInv, RepeatedInv, NEW h \in Handlers, Enqueue(h), UNCHANGED deployment
  PROVE  RepeatedInv'
<1> DEFINE s == handler[h]
           resumes == [s EXCEPT !.pc = "resume", !.job = "resume"]
           runs1 == [s EXCEPT !.pc = "run", !.job = "run"]
<1>1. /\ s \in Calls /\ s.pc \in {"run?", "resume?"} /\ Begin(h)
      /\ UNCHANGED <<deployment, row, task, history>>
  BY HandlerTypes DEF Enqueue, At, Begin, Active, Inactive
<1>2. ~Locked(s) /\ Outside(s)
  <2>1. Placed(s)
    BY DEF RepeatedInv
  <2> QED  BY <1>1, <2>1 DEF Placed, Inside, Storing
<1>3. PICK c : /\ Become(h, c) /\ c.pc \in {"run", "resume"}
               /\ c.pc = "run" => s.pc = "run?" /\ c.task = s.task
  <2>1. resumes.pc = "resume" /\ runs1.pc = "run" /\ runs1.task = s.task
    BY <1>1 DEF Calls
  <2> HIDE DEF resumes, runs1
  <2>2. (Become(h, runs1) /\ s.pc = "run?") \/ Become(h, resumes)
    BY <1>1 DEF Enqueue, At, runs1, resumes
  <2> QED  BY <2>1, <2>2
<1>4. ~Locked(c) /\ Outside(c)
  BY <1>2, <1>3 DEF Locked, Outside, Apart, Moving
<1> QED  BY <1>1, <1>2, <1>3, <1>4, NothingHappens, OutsiderActs

(* A call that changes the status from outside the lock.                     *)
LEMMA StatusRepeated ==
  ASSUME TInv, SoleInv, RepeatedInv, NEW h \in Handlers, ~Locked(handler[h]),
         SettleGuard(h) \/ Check(h) \/ Load(h) \/ Store(h), UNCHANGED deployment
  PROVE  RepeatedInv'
<1> DEFINE s == handler[h]
<1>1. /\ s \in Calls /\ Locals(s) /\ Apart(s) /\ s.job = "none"
      /\ s.pc \in {"settle", "check", "load", "store"} /\ (s.pc = "store" => Storing(s))
      /\ task \in [Tasks -> HumanTasks] /\ Begin(h) /\ row \in Rows
  <2>1. s.pc \in Moving /\ Begin(h)
    BY DEF SettleGuard, Check, Load, Store, At, Moving, Begin, Active, Inactive
  <2>2. Outside(s) \/ Storing(s)
    BY DEF RepeatedInv, Placed
  <2>3. s \in Calls /\ Locals(s) /\ s.job = "none"
    BY <2>1, HandlerTypes DEF Locked, Moving
  <2>4. Apart(s) /\ (s.pc = "store" => Storing(s))
    BY <2>2 DEF Outside, Storing
  <2> QED  BY <2>1, <2>3, <2>4 DEF Moving, TInv, TypeOK
<1>2. \/ s.next = "idle" /\ s.to \in {"cancelled", "failed", "usage"}
      \/ s.next = "run?" /\ s.to = "running" /\ s.task = None
  BY <1>1 DEF Apart, Moving
<1> DEFINE Later(c) ==
             /\ c.job = "none"
             /\ \/ c = Free
                \/ /\ c.pc \in {"check", "load", "store"}
                   /\ c.next = s.next /\ c.to = s.to /\ c.task = s.task
                   /\ c.pc = "store" => InTurn /\ c.seen = row /\ UNCHANGED row
                \/ c.pc = "run?" /\ c.task = None
<1>3. PICK c : Become(h, c) /\ Later(c)
  <2>1. Throw(s) = Free /\ Free.job = "none"
    BY <1>1, FreeTypes DEF Throw
  <2>2. Later(Continue(s))
    <3>1. "run?" \in Places
      BY DEF Places
    <3>2. s.next = "run?" => LET d == Continue(s) IN d.pc = "run?" /\ d.task = None /\ d.job = "none"
      BY <1>1, <1>2, <3>1, ContinueTypes, GoTypes
    <3>3. s.next = "idle" => Continue(s) = Free
      BY <1>1, ContinueTypes
    <3> QED  BY <1>2, <2>1, <3>2, <3>3
  <2>3. ASSUME NEW p \in {"check", "load"}
        PROVE  Later([s EXCEPT !.pc = p])
    BY <1>1 DEF Calls
  <2>4. Backend = "sql" /\ UNCHANGED row => Later([s EXCEPT !.pc = "store", !.seen = row])
    <3>1. Backend = "sql" => InTurn
      BY DEF RepeatedInv, Repeatable, InMemory
    <3> QED  BY <1>1, <3>1 DEF Calls
  <2>5. \/ Become(h, Free) \/ Become(h, Continue(s))
        \/ \E p \in {"check", "load"} : Become(h, [s EXCEPT !.pc = p])
        \/ /\ Backend = "sql" /\ UNCHANGED row
           /\ Become(h, [s EXCEPT !.pc = "store", !.seen = row])
    BY <1>1, <1>2, <2>1 DEF SettleGuard, Check, Load, Store, At
  <2> QED  BY <2>1, <2>2, <2>3, <2>4, <2>5
<1>4. /\ UNCHANGED <<deployment, task, walk, calls>>
      /\ row' = row \/ row' = Merged(s, row) \/ (s.pc = "store" /\ row' = Upserted(Merged(s, s.seen)))
  BY <1>1 DEF SettleGuard, Check, Load, Store, At, history
<1>5. /\ row'.flow = row.flow /\ row'.intent = row.intent
      /\ \/ row'.status = row.status \/ row'.status \in {"cancelled", "failed", "running"}
         \/ s.pc = "store" /\ s.to = "usage" /\ row'.status = s.seen.status
  <2>1. CASE row' = row
    BY <2>1
  <2>2. CASE row' = Merged(s, row)
    <3>1. \/ Merged(s, row) = row
          \/ \E to \in {"cancelled", "failed", "running"} : Merged(s, row) = [row EXCEPT !.status = to]
      BY <1>2 DEF Merged
    <3> QED  BY <1>1, <2>2, <3>1 DEF Rows
  <2>3. CASE s.pc = "store" /\ row' = Upserted(Merged(s, s.seen))
    <3>1. s.seen \in Rows /\ s.seen.flow = row.flow /\ s.seen.intent = row.intent
      BY <1>1, <1>2, <2>3 DEF Storing, Fresh, Calls
    <3>2. \/ s.to = "usage" /\ Merged(s, s.seen) = s.seen
          \/ \E to \in {"cancelled", "failed", "running"} :
               Merged(s, s.seen) = [s.seen EXCEPT !.status = to]
      BY <1>2 DEF Merged
    <3> QED  BY <2>3, <3>1, <3>2 DEF Rows, Upserted
  <2> QED  BY <1>4, <2>1, <2>2, <2>3
<1>6. Kept
  <2>1. Quiet => Quiet'
    BY <1>1, <1>5 DEF Quiet, Storing
  <2> QED  BY <1>1, <1>4, <1>5, <2>1 DEF Kept, Held, Resolved
<1>7. ~Locked(c) /\ (Outside(c) \/ Storing(c)')
  <2>1. ~Locked(c) /\ Apart(c)
    BY <1>2, <1>3, FreeTypes DEF Locked, Apart, Moving
  <2>2. c.pc = "store" => Storing(c)'
    BY <1>3, <1>4, <2>1, FreeTypes DEF Storing, Fresh, Apart, InTurn, Overlap, Quiet
  <2> QED  BY <2>1, <2>2 DEF Outside
<1> QED  BY <1>1, <1>3, <1>6, <1>7, OutsiderActs

LEMMA ReleaseRepeated ==
  ASSUME TInv, SoleInv, RepeatedInv, NEW h \in Handlers, Release(h), UNCHANGED deployment
  PROVE  RepeatedInv'
<1>1. handler[h].pc \in {"release", "thrown"} /\ UNCHANGED <<deployment, row, task, history>>
  BY DEF Release, At
<1>2. Holds(h)
  BY <1>1, HolderKnows DEF Moving
<1>3. PICK s \in {Settle(Free, "failed", "idle"), Free} : Become(h, s)
  BY DEF Release
<1>4. ~Locked(s) /\ Outside(s)
  <2>1. "idle" \in Places /\ "failed" \in Status
    BY DEF Places, Status, Terminal
  <2>2. CASE s = Settle(Free, "failed", "idle")
    BY <2>1, <2>2, FreeTypes, SettleTypes DEF Locked, Outside, Apart, Moving
  <2>3. CASE s = Free
    BY <2>3, FreeTypes DEF Locked, Outside, Apart, Moving
  <2> QED  BY <2>2, <2>3
<1> QED  BY <1>1, <1>2, <1>3, <1>4, HolderMoves

(* Whoever gets the lock looks at the row.                                   *)
LEMMA FailsRepeated ==
  ASSUME TInv, SoleInv, RepeatedInv, NEW h \in Handlers, NEW s \in Calls, Become(h, FailWorkflow(s)),
         Holds(h), UNCHANGED <<deployment, row, task, history>>
  PROVE  RepeatedInv'
<1>1. "failing" \in Places
  BY DEF Places
<1> DEFINE c == Go(s, "failing")
<1>2. c.pc = "failing" /\ c.next = "idle"
  BY <1>1, GoTypes
<1> HIDE DEF c
<1>3. Inside(c) /\ Outside(c)
  BY <1>2 DEF Inside, Outside, Apart, Performing, Routing, Answering, Outgoing, Moving
<1>4. Become(h, c)
  BY DEF FailWorkflow, c
<1> QED  BY <1>3, <1>4, HolderMoves

LEMMA SkillChangedRepeated ==
  ASSUME TInv, SoleInv, RepeatedInv, NEW h \in Handlers, SkillChanged(h), UNCHANGED deployment
  PROVE  RepeatedInv'
<1>1. handler[h] \in Calls /\ Holds(h)
  BY HandlerTypes DEF SkillChanged, At, Holds, Active, Inactive
<1> QED  BY <1>1, FailsRepeated DEF SkillChanged

LEMMA BeginRunRepeated ==
  ASSUME TInv, SoleInv, RepeatedInv, NEW h \in Handlers, BeginRun(h), UNCHANGED deployment
  PROVE  RepeatedInv'
<1> DEFINE c0 == handler[h]
           s == [c0 EXCEPT !.flow = row.flow, !.version = row.version]
           w == [Go(s, "reconcile") EXCEPT !.task = row.flow.task, !.seen = row]
<1>1. /\ c0 \in Calls /\ c0.pc = "run" /\ c0.job # "none" /\ c0.task = None /\ Holds(h)
      /\ UNCHANGED <<deployment, row, task, history>> /\ row \in Rows
  <2>1. c0.pc = "run" /\ Holds(h)
    BY DEF BeginRun, At, Holds, Active, Inactive
  <2>2. Outside(c0) /\ c0 \in Calls /\ Locals(c0)
    BY <2>1, HandlerTypes DEF RepeatedInv, Placed, Storing, Locked
  <2> QED  BY <2>1, <2>2 DEF BeginRun, Locals, Moving, Outside, Apart, TInv, TypeOK
<1>2. s \in Calls /\ s.flow = row.flow /\ s.task = None /\ s.job # "none"
  BY <1>1 DEF Calls, Rows
<1> HIDE DEF s
<1>3. \/ Become(h, FailWorkflow(s))
      \/ row.flow.step = "waiting" /\ row.flow.task # None /\ Become(h, w)
      \/ Admitted(row.flow) /\ row.flow.step # "waiting" /\ Become(h, Go(s, "step"))
  BY DEF BeginRun, Admitted, s
<1>4. CASE Become(h, FailWorkflow(s))
  BY <1>1, <1>2, <1>4, FailsRepeated
<1>5. CASE row.flow.step = "waiting" /\ row.flow.task # None /\ Become(h, w)
  <2> DEFINE g == Go(s, "reconcile")
  <2>1. "reconcile" \in Places
    BY DEF Places
  <2>2. g \in Calls /\ g.pc = "reconcile" /\ g.next = "idle" /\ g.job = s.job
    BY <1>2, <2>1, GoTypes
  <2> HIDE DEF g
  <2>3. w.pc = "reconcile" /\ w.task = row.flow.task /\ w.next = "idle" /\ w.job = s.job
    BY <2>2 DEF Calls, g
  <2> HIDE DEF w
  <2>4. Inside(w) /\ Locked(w)
    BY <1>2, <1>5, <2>3 DEF Inside, Locked, Performing, Routing, Answering, Outgoing, Moving
  <2> QED  BY <1>1, <1>5, <2>4, HolderMoves
<1>6. CASE Admitted(row.flow) /\ row.flow.step # "waiting" /\ Become(h, Go(s, "step"))
  <2> DEFINE g == Go(s, "step")
  <2>1. "step" \in Places
    BY DEF Places
  <2>2. g \in Calls /\ g.pc = "step" /\ g.next = "idle" /\ g.job = s.job /\ g.flow = row.flow
        /\ g.task = None
    BY <1>2, <2>1, GoTypes
  <2> HIDE DEF g
  <2>3. Inside(g) /\ Locked(g)
    BY <1>2, <1>6, <2>2 DEF Inside, Locked, Performing, Routing, Answering, Outgoing, Moving,
       Admitted, Node0
  <2> QED  BY <1>1, <1>6, <2>3, HolderMoves DEF g
<1> QED  BY <1>3, <1>4, <1>5, <1>6

LEMMA BeginResumeRepeated ==
  ASSUME TInv, SoleInv, RepeatedInv, NEW h \in Handlers, BeginResume(h), UNCHANGED deployment
  PROVE  RepeatedInv'
<1> DEFINE s == handler[h]
           g == Go(s, "bound")
           t == [g EXCEPT !.flow = row.flow]
           r == Go(s, "release")
<1>1. /\ s \in Calls /\ s.pc = "resume" /\ s.job # "none" /\ Holds(h) /\ row \in Rows
      /\ UNCHANGED <<deployment, row, task, history>>
  <2>1. s.pc = "resume" /\ s \in Calls /\ Locals(s)
    BY HandlerTypes DEF BeginResume, At
  <2> QED  BY <2>1 DEF BeginResume, Locals, Moving, TInv, TypeOK, Holds, Active, Inactive
<1>2. "bound" \in Places /\ "release" \in Places
  BY DEF Places
<1>3. /\ r.pc = "release" /\ r.next = "idle" /\ r.job = s.job
      /\ g \in Calls /\ g.pc = "bound" /\ g.next = "idle" /\ g.job = s.job /\ g.task = s.task
  BY <1>1, <1>2, GoTypes
<1>4. (Bound(s.task) /\ Become(h, t)) \/ Become(h, r)
  BY DEF BeginResume
<1> HIDE DEF g, r
<1>5. t.pc = "bound" /\ t.next = "idle" /\ t.job = s.job /\ t.flow = row.flow /\ t.task = s.task
  BY <1>1, <1>3 DEF Calls
<1> HIDE DEF t
<1>6. CASE Become(h, r)
  <2>1. Inside(r) /\ Locked(r)
    BY <1>1, <1>3 DEF Inside, Locked, Performing, Routing, Answering, Outgoing, Moving
  <2> QED  BY <1>1, <1>6, <2>1, HolderMoves
<1>7. CASE Bound(s.task) /\ Become(h, t)
  <2>1. Inside(t) /\ Locked(t)
    BY <1>1, <1>5, <1>7 DEF Inside, Locked, Performing, Routing, Answering, Outgoing, Moving,
       Bound, BoundToNode
  <2> QED  BY <1>1, <1>7, <2>1, HolderMoves
<1> QED  BY <1>4, <1>6, <1>7

LEMMA ReconcileRepeated ==
  ASSUME TInv, SoleInv, RepeatedInv, NEW h \in Handlers, Reconcile(h), UNCHANGED deployment
  PROVE  RepeatedInv'
<1> DEFINE s == handler[h]
<1>1. /\ s \in Calls /\ s.pc = "reconcile" /\ s.job # "none" /\ Holds(h) /\ Inside(s)
      /\ UNCHANGED <<deployment, row, task, history>>
  <2>1. s.pc = "reconcile"
    BY DEF Reconcile, At
  <2> QED  BY <2>1, HolderKnows DEF Reconcile, Moving
<1>2. row.flow.step = "waiting"
  BY <1>1 DEF Inside
<1>3. PICK next \in {"release", "resume"} :
        Become(h, Transit(s, "waiting_for_approval", next)) \/ Become(h, Go(s, next))
  BY DEF Reconcile
<1>4. {"release", "resume"} \subseteq Places /\ "waiting_for_approval" \in Status
  BY DEF Places, Status, Waiting
<1>5. CASE Become(h, Transit(s, "waiting_for_approval", next))
  <2> DEFINE c == Transit(s, "waiting_for_approval", next)
  <2>1. c.pc = "check" /\ c.next = next /\ c.to = "waiting_for_approval" /\ c.job = s.job
    BY <1>1, <1>4, TransitTypes
  <2> HIDE DEF c
  <2>2. Inside(c) /\ Locked(c)
    BY <1>1, <1>2, <2>1 DEF Inside, Locked, Performing, Routing, Answering, Outgoing, Moving
  <2> QED  BY <1>1, <1>5, <2>2, HolderMoves DEF c
<1>6. CASE Become(h, Go(s, next))
  <2> DEFINE c == Go(s, next)
  <2>1. c.pc = next /\ c.next = "idle" /\ c.job = s.job
    BY <1>1, <1>4, GoTypes
  <2> HIDE DEF c
  <2>2. Inside(c) /\ Outside(c)
    BY <1>1, <1>2, <2>1 DEF Inside, Outside, Apart, Performing, Routing, Answering, Outgoing, Moving
  <2> QED  BY <1>1, <1>6, <2>2, HolderMoves DEF c
<1> QED  BY <1>3, <1>5, <1>6

-------------------------------------------------------------------------------
(* The one with the lock changes the status, or stores the intent.           *)
LEMMA Continues ==
  ASSUME NEW s \in Calls, Locals(s), s.next \notin {"idle", "run?"}
  PROVE  LET c == Continue(s) IN
         /\ c.job = s.job /\ c.flow = s.flow /\ c.task = s.task /\ c.outcome = s.outcome
         /\ \/ s.next = "fail" /\ c.pc = "settle" /\ c.next = "release" /\ c.to = "failed"
            \/ s.next = "orFail" /\ c.pc = "release" /\ c.next = "idle"
            \/ /\ s.next \notin {"fail", "orFail"} /\ s.to = "resuming"
               /\ c.pc = "check" /\ c.next = s.next /\ c.to = "running"
            \/ /\ s.next \notin {"fail", "orFail"} /\ s.to # "resuming"
               /\ c.pc = s.next /\ c.next = "idle"
<1> DEFINE c == Continue(s)
<1>1. s.next \in {"resume", "release", "into", "route", "next", "classify", "fail", "orFail"}
  BY DEF Locals
<1>2. {"resume", "release", "into", "route", "next", "classify"} \subseteq Places
      /\ "failed" \in Status /\ "running" \in Status
  BY DEF Places, Status, Terminal
<1>3. CASE s.next = "fail"
  <2>1. c = Settle(s, "failed", "release")
    BY <1>3, ContinueTypes
  <2>2. PICK d : /\ d = Settle(s, "failed", "release")
                 /\ d.job = s.job /\ d.flow = s.flow /\ d.task = s.task /\ d.outcome = s.outcome
                 /\ d.pc = "settle" /\ d.next = "release" /\ d.to = "failed"
    BY <1>2, SettleTypes
  <2> QED  BY <1>3, <2>1, <2>2
<1>4. CASE s.next = "orFail"
  <2>1. c = Go(s, "release")
    BY <1>4, ContinueTypes
  <2>2. PICK d : /\ d = Go(s, "release")
                 /\ d.job = s.job /\ d.flow = s.flow /\ d.task = s.task /\ d.outcome = s.outcome
                 /\ d.pc = "release" /\ d.next = "idle"
    BY <1>2, GoTypes
  <2> QED  BY <1>4, <2>1, <2>2
<1>5. CASE s.next \notin {"fail", "orFail"} /\ s.to = "resuming"
  <2>1. c = Transit(s, "running", s.next)
    BY <1>1, <1>5, ContinueTypes
  <2>0. s.next \in Places \cup {"fail", "orFail"} /\ "running" \in Status \cup {"usage", "intent"}
    BY <1>1, <1>2, <1>5
  <2> DEFINE d == Transit(s, "running", s.next)
  <2>2. /\ d.job = s.job /\ d.flow = s.flow /\ d.task = s.task /\ d.outcome = s.outcome
        /\ d.pc = "check" /\ d.next = s.next /\ d.to = "running"
    BY <2>0, TransitTypes
  <2>3. c = d
    BY <2>1
  <2> HIDE DEF c, d
  <2>4. /\ c.job = s.job /\ c.flow = s.flow /\ c.task = s.task /\ c.outcome = s.outcome
        /\ c.pc = "check" /\ c.next = s.next /\ c.to = "running"
    BY <2>2, <2>3
  <2> QED  BY <1>5, <2>4 DEF c
<1>6. CASE s.next \notin {"fail", "orFail"} /\ s.to # "resuming"
  <2>1. c = Go(s, s.next) /\ s.next \in Places
    BY <1>1, <1>2, <1>6, ContinueTypes
  <2> QED  BY <1>6, <2>1, GoTypes
<1> QED  BY <1>3, <1>4, <1>5, <1>6

LEMMA ContinueInside ==
  ASSUME NEW s \in Calls, Locals(s), s.job # "none", Inside(s)', s.pc \in Moving,
         s.next = "classify" => (row.intent = Node0)',
         s.next = "route" => Quiet'
  PROVE  IF Locked(Continue(s)) THEN Inside(Continue(s))' ELSE Outside(Continue(s))
<1>1. s.next \in {"resume", "release", "into", "route", "next", "classify", "fail", "orFail"}
  BY DEF Locals, Inside
<1>2. PICK c :
         /\ c = Continue(s)
         /\ c.job = s.job /\ c.flow = s.flow /\ c.task = s.task /\ c.outcome = s.outcome
         /\ \/ s.next = "fail" /\ c.pc = "settle" /\ c.next = "release" /\ c.to = "failed"
            \/ s.next = "orFail" /\ c.pc = "release" /\ c.next = "idle"
            \/ /\ s.next \notin {"fail", "orFail"} /\ s.to = "resuming"
               /\ c.pc = "check" /\ c.next = s.next /\ c.to = "running"
            \/ /\ s.next \notin {"fail", "orFail"} /\ s.to # "resuming"
               /\ c.pc = s.next /\ c.next = "idle"
  BY <1>1, Continues
<1>3. CASE c.pc \in {"settle", "check"}
  <2>1. Inside(c)' /\ Locked(c)
    BY <1>1, <1>2, <1>3 DEF Inside, Locked, Performing, Routing, Answering, Outgoing, Moving
  <2> QED  BY <1>2, <2>1
<1>4. CASE c.pc \in {"release", "resume"}
  <2>1. Inside(c)' /\ Outside(c)
    BY <1>2, <1>4 DEF Inside, Outside, Apart, Performing, Routing, Answering, Outgoing, Moving
  <2> QED  BY <1>2, <2>1
<1>5. CASE c.pc \in {"into", "route", "next", "classify"}
  <2>1. Inside(c)' /\ Locked(c)
    BY <1>2, <1>5 DEF Inside, Locked, Performing, Routing, Answering, Outgoing, Moving
  <2> QED  BY <1>2, <2>1
<1> QED  BY <1>1, <1>2, <1>3, <1>4, <1>5

LEMMA ThrowRepeated ==
  ASSUME TInv, SoleInv, RepeatedInv, NEW h \in Handlers, Become(h, Throw(handler[h])),
         Locked(handler[h]), Holds(h), UNCHANGED <<deployment, row, task, history>>
  PROVE  RepeatedInv'
<1> DEFINE s == handler[h]
<1>1. s \in Calls /\ s.job \in {"run", "resume"}
  BY HandlerTypes DEF Locked, Calls
<1>2. PICK p \in {"thrown", "release"} : Throw(s) = Go(s, p)
  BY <1>1 DEF Throw
<1> DEFINE c == Go(s, p)
<1>3. c.pc = p /\ c.next = "idle" /\ c.job = s.job
  <2>1. p \in Places
    BY DEF Places
  <2> QED  BY <1>1, <2>1, GoTypes
<1> HIDE DEF c
<1>4. Inside(c) /\ Outside(c)
  BY <1>3 DEF Inside, Outside, Apart, Performing, Routing, Answering, Outgoing, Moving
<1>5. Become(h, c)
  BY <1>2 DEF c
<1> QED  BY <1>4, <1>5, HolderMoves

LEMMA NextStatementInside ==
  ASSUME NEW s \in Calls, Locked(s), Inside(s), s.pc \in Moving, NEW p \in {"check", "load"},
         s.next = "classify" => p = "load"
  PROVE  Inside([s EXCEPT !.pc = p]) /\ Locked([s EXCEPT !.pc = p])
<1> DEFINE c == [s EXCEPT !.pc = p]
<1>1. /\ c.pc = p /\ c.next = s.next /\ c.to = s.to /\ c.job = s.job /\ c.flow = s.flow
      /\ c.task = s.task /\ c.outcome = s.outcome
  BY DEF Calls
<1> HIDE DEF c
<1>2. Inside(c) /\ Locked(c)
  BY <1>1 DEF Inside, Locked, Performing, Routing, Answering, Outgoing, Moving
<1> QED  BY <1>2 DEF c

LEMMA SettleGuardInside ==
  ASSUME TInv, SoleInv, RepeatedInv, NEW h \in Handlers, Locked(handler[h]), SettleGuard(h),
         UNCHANGED deployment
  PROVE  RepeatedInv'
<1>0. PICK s \in Calls : s = handler[h]
  BY HandlerTypes
<1>1. /\ s \in Calls /\ Locals(s) /\ Locked(s) /\ Holds(h) /\ Inside(s) /\ s.pc = "settle"
      /\ UNCHANGED <<deployment, row, task, history>>
  BY <1>0, HandlerTypes DEF SettleGuard, At, RepeatedInv, Placed, Holds, Active, Inactive
<1>2. s.job # "none" /\ s.next \in {"release", "into"} /\ s.pc \in Moving
  BY <1>1 DEF Locked, Inside, Moving
<1>3. CASE Become(h, Continue(s))
  <2>1. Kept
    BY <1>1, NothingHappens
  <2>2. Inside(s)' /\ RowInv'
    BY <1>1, <2>1, InsideKept, RowKept DEF RepeatedInv
  <2>3. IF Locked(Continue(s)) THEN Inside(Continue(s))' ELSE Outside(Continue(s))
    BY <1>1, <1>2, <2>2, ContinueInside
  <2> QED  BY <1>1, <1>3, <2>2, <2>3, HolderActs
<1>4. CASE Become(h, [s EXCEPT !.pc = "check"])
  <2>1. Inside([s EXCEPT !.pc = "check"]) /\ Locked([s EXCEPT !.pc = "check"])
    BY <1>1, <1>2, NextStatementInside
  <2> QED  BY <1>1, <1>4, <2>1, HolderMoves
<1> QED  BY <1>0, <1>3, <1>4 DEF SettleGuard

LEMMA CheckInside ==
  ASSUME TInv, SoleInv, RepeatedInv, NEW h \in Handlers, Locked(handler[h]), Check(h), UNCHANGED deployment
  PROVE  RepeatedInv'
<1> DEFINE s == handler[h]
<1>1. /\ s \in Calls /\ Locals(s) /\ Locked(s) /\ Holds(h) /\ Inside(s) /\ s.pc = "check"
      /\ UNCHANGED <<deployment, row, task, history>> /\ s.pc \in Moving
  BY HandlerTypes DEF Check, At, RepeatedInv, Placed, Holds, Active, Inactive, Moving
<1>2. CASE Become(h, [s EXCEPT !.pc = "load"])
  <2>1. Inside([s EXCEPT !.pc = "load"]) /\ Locked([s EXCEPT !.pc = "load"])
    BY <1>1, NextStatementInside
  <2> QED  BY <1>1, <1>2, <2>1, HolderMoves
<1>3. CASE Become(h, Settle(s, "failed", "release"))
  <2> DEFINE c == Settle(s, "failed", "release")
  <2>1. c.pc = "settle" /\ c.next = "release" /\ c.to = "failed" /\ c.job = s.job
    <3>1. "release" \in Places /\ "failed" \in Status
      BY DEF Places, Status, Terminal
    <3> QED  BY <1>1, <3>1, SettleTypes
  <2> HIDE DEF c
  <2>2. Inside(c) /\ Locked(c)
    BY <1>1, <2>1 DEF Inside, Locked, Performing, Routing, Answering, Outgoing, Moving
  <2> QED  BY <1>1, <1>3, <2>2, HolderMoves DEF c
<1>4. CASE Become(h, Throw(s))
  BY <1>1, <1>4, ThrowRepeated
<1> QED  BY <1>2, <1>3, <1>4 DEF Check

(* The upsert writes what was read, which is what there is but for the status. *)
LEMMA WriteInside ==
  ASSUME TInv, SoleInv, RepeatedInv, NEW h \in Handlers, Locked(handler[h]),
         handler[h].pc \in {"load", "store"}, Become(h, Continue(handler[h])),
         UNCHANGED <<deployment, task, walk, calls>>, row'.flow = row.flow,
         handler[h].to = "intent" =>
           /\ row'.intent = handler[h].flow.current
           /\ ~Quiet' => row.flow.step = "waiting",
         handler[h].to \notin {"intent", "usage"} =>
           row'.intent = row.intent /\ row'.status = handler[h].to
  PROVE  RepeatedInv'
<1>0. PICK s \in Calls : s = handler[h]
  BY HandlerTypes
<1>1. /\ s \in Calls /\ Locals(s) /\ Locked(s) /\ Holds(h) /\ Inside(s) /\ s.pc \in Moving
      /\ RowInv /\ Become(h, Continue(s)) /\ s.job # "none"
  BY <1>0, HandlerTypes DEF RepeatedInv, Placed, Moving, Locked, Holds, Active, Inactive
<1>2. Become(h, Continue(s)) /\ (RowInv' /\ Inside(s)' /\ (s.next = "classify" => (row.intent = Node0)')
         /\ (s.next = "route" => Quiet') => RepeatedInv')
  <2> SUFFICES ASSUME RowInv', Inside(s)', s.next = "classify" => (row.intent = Node0)',
                      s.next = "route" => Quiet'
               PROVE  RepeatedInv'
    BY <1>1
  <2>1. IF Locked(Continue(s)) THEN Inside(Continue(s))' ELSE Outside(Continue(s))
    BY <1>1, ContinueInside
  <2> QED  BY <1>1, <2>1, HolderActs
<1>3. CASE s.to = "intent"
  <2>1. /\ s.next = "classify" /\ Type[Node0] = "command" /\ s.flow = row.flow
        /\ row.flow.step = "running"
    BY <1>1, <1>3 DEF Inside, Performing
  <2>2. row'.flow = row.flow /\ row'.intent = Node0 /\ Quiet'
    BY <1>0, <1>3, <2>1 DEF Node0
  <2>3. Step0' = Step0 /\ Node0' = Node0 /\ \A k : Promise!Asked(k)' = Promise!Asked(k)
    BY <2>2 DEF Step0, Node0, Promise!Asked
  <2>4. RowInv'
    BY <1>1, <2>1, <2>2, <2>3 DEF RowInv, Visited, Clean, Promise!Follows, Promise!Outcomes, Promise!Answered
  <2>5. Inside(s)'
    BY <1>1, <1>3, <2>1, <2>2, <2>3 DEF Inside, Performing, Routing, Answering, Outgoing, Moving,
       Unasked, Fresh
  <2> QED  BY <1>2, <2>1, <2>2, <2>3, <2>4, <2>5
<1>4. CASE s.to = "waiting_for_approval"
  <2>1. row.flow.step = "waiting" /\ s.next \in {"release", "resume"}
    BY <1>1, <1>4 DEF Inside
  <2>2. row'.flow = row.flow /\ row'.intent = row.intent
    BY <1>0, <1>4
  <2>3. Step0' = Step0 /\ Node0' = Node0 /\ \A k : Promise!Asked(k)' = Promise!Asked(k)
    BY <2>2 DEF Step0, Node0, Promise!Asked
  <2>4. RowInv'
    BY <1>1, <2>1, <2>2, <2>3 DEF RowInv, Visited, Clean, PutTo, AskedBy
  <2>5. Inside(s)'
    BY <1>1, <1>4, <2>1, <2>2 DEF Inside, Performing, Routing, Answering, Outgoing, Moving, Fresh
  <2> QED  BY <1>2, <2>1, <2>4, <2>5
<1>5. CASE s.to \notin {"intent", "waiting_for_approval"}
  <2>1. s.to # "usage" /\ s.next # "classify"
    BY <1>1, <1>5 DEF Inside
  <2>2. row'.flow = row.flow /\ row'.intent = row.intent /\ row'.status = s.to
    BY <1>0, <1>5, <2>1
  <2>3. Kept /\ Quiet'
    BY <1>5, <2>2 DEF Kept, Held, Resolved, Quiet, TInv, TypeOK
  <2>4. RowInv' /\ Inside(s)'
    BY <1>1, <2>3, RowKept, InsideKept
  <2> QED  BY <1>2, <2>1, <2>3, <2>4
<1> QED  BY <1>3, <1>4, <1>5

LEMMA LoadInside ==
  ASSUME TInv, SoleInv, RepeatedInv, NEW h \in Handlers, Locked(handler[h]), Load(h),
         UNCHANGED deployment
  PROVE  RepeatedInv'
<1> DEFINE s == handler[h]
<1>1. /\ s \in Calls /\ Locked(s) /\ Inside(s) /\ s.pc = "load" /\ Holds(h) /\ row \in Rows
      /\ UNCHANGED <<deployment, task, walk, calls>> /\ RowInv
  BY HandlerTypes DEF Load, At, RepeatedInv, Placed, history, TInv, TypeOK, Holds, Active, Inactive
<1>2. s.to \in {"intent", "usage"} =>
        s.to = "intent" /\ s.flow = row.flow /\ row.flow.step = "running" /\ Quiet
  BY <1>1 DEF Inside, Performing, Moving, RowInv
<1>3. CASE row' = Merged(s, row) /\ Become(h, Continue(s))
  <2>1. row'.flow = row.flow /\ (s.to = "intent" => row'.intent = s.flow.current /\ row'.status = row.status)
        /\ (s.to \notin {"intent", "usage"} => row'.intent = row.intent /\ row'.status = s.to)
    BY <1>1, <1>3 DEF Merged, Rows
  <2>2. s.to = "intent" => Quiet'
    BY <1>2, <2>1 DEF Quiet
  <2> QED  BY <1>1, <1>3, <2>1, <2>2, WriteInside
<1>4. CASE UNCHANGED row /\ Become(h, [s EXCEPT !.pc = "store", !.seen = row])
  <2> DEFINE c == [s EXCEPT !.pc = "store", !.seen = row]
  <2>1. /\ c.pc = "store" /\ c.next = s.next /\ c.to = s.to /\ c.job = s.job /\ c.flow = s.flow
        /\ c.task = s.task /\ c.outcome = s.outcome /\ c.seen = row
    BY <1>1 DEF Calls
  <2> HIDE DEF c
  <2>2. Inside(c) /\ Locked(c)
    BY <1>1, <1>2, <2>1 DEF Inside, Locked, Performing, Routing, Answering, Outgoing, Moving, Fresh,
       Quiet
  <2> QED  BY <1>1, <1>4, <2>2, HolderMoves DEF c, history
<1> QED  BY <1>3, <1>4 DEF Load

LEMMA StoreInside ==
  ASSUME TInv, SoleInv, RepeatedInv, NEW h \in Handlers, Locked(handler[h]), Store(h),
         UNCHANGED deployment
  PROVE  RepeatedInv'
<1> DEFINE s == handler[h]
<1>1. /\ s \in Calls /\ Locked(s) /\ Inside(s) /\ s.pc = "store" /\ s.seen \in Rows
      /\ UNCHANGED <<deployment, task, walk, calls>>
      /\ row' = Upserted(Merged(s, s.seen)) /\ Become(h, Continue(s))
  BY HandlerTypes DEF Store, At, RepeatedInv, Placed, history, Calls
<1>2. /\ s.seen.flow = row.flow /\ s.to # "usage"
      /\ s.to # "intent" => s.seen.intent = row.intent
      /\ s.to = "intent" => s.seen.status # "waiting_for_approval"
  BY <1>1 DEF Inside, Fresh, Moving
<1>3. /\ row'.flow = row.flow
      /\ s.to = "intent" => row'.intent = s.flow.current /\ row'.status = s.seen.status
      /\ s.to # "intent" => row'.intent = row.intent /\ row'.status = s.to
  BY <1>1, <1>2 DEF Merged, Upserted, Rows
<1> QED  BY <1>1, <1>2, <1>3, WriteInside DEF Quiet

LEMMA MovingRepeated ==
  ASSUME TInv, SoleInv, RepeatedInv, NEW h \in Handlers,
         SettleGuard(h) \/ Check(h) \/ Load(h) \/ Store(h), UNCHANGED deployment
  PROVE  RepeatedInv'
<1>1. CASE ~Locked(handler[h])
  BY <1>1, StatusRepeated
<1>2. CASE Locked(handler[h])
  BY <1>2, SettleGuardInside, CheckInside, LoadInside, StoreInside
<1> QED  BY <1>1, <1>2

-------------------------------------------------------------------------------
(* The flow goes on, one step after the other.                               *)
LEMMA GoRepeated ==
  ASSUME TInv, SoleInv, RepeatedInv, NEW h \in Handlers, NEW s \in Calls, s.job # "none", Holds(h),
         NEW p \in {"release", "failing"}, Become(h, Go(s, p)),
         UNCHANGED <<deployment, row, task, history>>
  PROVE  RepeatedInv'
<1> DEFINE c == Go(s, p)
<1>1. c.pc = p /\ c.next = "idle"
  <2>1. p \in Places
    BY DEF Places
  <2> QED  BY <2>1, GoTypes
<1> HIDE DEF c
<1>2. Inside(c) /\ Outside(c)
  BY <1>1 DEF Inside, Outside, Apart, Performing, Routing, Answering, Outgoing, Moving
<1> QED  BY <1>2, HolderMoves DEF c

(* The next step is marked as running, and it is nobody's yet.               *)
LEMMA VisitRow ==
  ASSUME RowInv, Step0 \in StepNumbers, row.flow.step \in {"pending", "completed"},
         row \in Rows, walk \in [StepNumbers -> Nodes \cup {None}],
         row'.flow = [row.flow EXCEPT !.step = "running"], row'.status = row.status,
         walk' = [walk EXCEPT ![Step0] = Node0], UNCHANGED <<task, calls>>
  PROVE  RowInv' /\ Unasked' /\ row'.flow.step = "running"
<1>1. /\ Step0' = Step0 /\ Node0' = Node0 /\ row'.flow.step = "running" /\ Quiet'
      /\ Step0 \in Nat /\ \A k : Promise!Asked(k)' = Promise!Asked(k)
  BY DEF Step0, Node0, Rows, Flows, Quiet, Promise!Asked, StepNumbers, RowInv
<1>2. Clean(Step0)
  BY DEF RowInv
<1>3. Unasked'
  BY <1>1, <1>2 DEF Clean, Unasked, StepNumbers
<1>4. Visited'
  <2>1. walk'[Step0] = Node0
    OBVIOUS
  <2>2. \A j \in StepNumbers : j >= Step0 + 1 =>
          walk'[j] = None /\ calls'[j] = <<>> /\ Promise!Asked(j)' = {}
    BY <1>1, <1>2 DEF Clean, StepNumbers
  <2> QED  BY <1>1, <2>1, <2>2 DEF Visited, Clean
<1>5. ASSUME NEW k \in StepNumbers, Len(calls'[k]) > 1
      PROVE  walk'[k] # None /\ Verdict[walk'[k]] # "auto_approve"
  <2>1. Len(calls[Step0]) = 0
    BY <1>2 DEF Clean, StepNumbers
  <2>2. k # Step0
    BY <1>5, <2>1
  <2> QED  BY <1>5, <2>2 DEF RowInv
<1> QED  BY <1>1, <1>3, <1>4, <1>5 DEF RowInv

LEMMA StepRepeated ==
  ASSUME TInv, SoleInv, RepeatedInv, NEW h \in Handlers, Step(h), UNCHANGED deployment
  PROVE  RepeatedInv'
<1> DEFINE s == handler[h]
           f == [s.flow EXCEPT !.step = "running"]
           w == Go(s, "perform")
<1>1. /\ s \in Calls /\ s.pc = "step" /\ s.job # "none" /\ Holds(h) /\ Inside(s) /\ RowInv
      /\ UNCHANGED <<deployment, task, calls>>
  <2>1. s.pc = "step"
    BY DEF Step, At
  <2> QED  BY <2>1, HolderKnows DEF Step, Moving, RepeatedInv
<1>2. /\ s.flow = row.flow /\ row.flow.step # "waiting" /\ s.task = None
      /\ row.flow.step = "running" => Type[Node0] \in ReplaySafe
  BY <1>1 DEF Inside
<1>3. row \in Rows /\ row.flow \in Flows /\ walk \in [StepNumbers -> Nodes \cup {None}]
  BY DEF TInv, TypeOK, Rows
<1>4. /\ w \in Calls /\ w.pc = "perform" /\ w.next = "idle" /\ w.to = "created" /\ w.task = None
      /\ w.job = s.job /\ w.flow = s.flow
  <2>1. "perform" \in Places
    BY DEF Places
  <2> QED  BY <1>1, <1>2, <2>1, GoTypes
<1>5. CASE Become(h, Go(s, "failing")) /\ UNCHANGED <<row, walk>>
  BY <1>1, <1>5, GoRepeated DEF history
<1>6. CASE s.flow.step = "running" /\ Become(h, w)
           /\ walk' = [walk EXCEPT ![s.flow.steps] = s.flow.current] /\ UNCHANGED row
  <2>1. walk[s.flow.steps] = s.flow.current /\ s.flow.steps \in StepNumbers
    BY <1>1, <1>2, <1>6 DEF RowInv, Visited, Step0, Node0
  <2>2. UNCHANGED <<row, history>>
    <3>1. walk' = walk
      BY <1>3, <1>6, <2>1
    <3> QED  BY <1>1, <1>6, <3>1 DEF history
  <2> HIDE DEF w
  <2>3. Inside(w) /\ Locked(w)
    BY <1>1, <1>2, <1>4, <1>6 DEF Inside, Locked, Performing, Routing, Answering, Outgoing, Moving
  <2> QED  BY <1>1, <1>6, <2>2, <2>3, HolderMoves
<1>7. CASE StepLeft(s.flow) /\ s.flow.step # "running" /\ WriteFlow(h, f, w)
           /\ IF CasHolds(s) THEN walk' = [walk EXCEPT ![s.flow.steps] = s.flow.current]
                             ELSE UNCHANGED walk
  <2>1. f \in Flows
    BY <1>2, <1>3 DEF Flows
  <2> HIDE DEF f, w
  <2>2. CASE ~CasHolds(s) /\ Become(h, Go(s, "release")) /\ UNCHANGED row
    BY <1>1, <1>7, <2>2, GoRepeated DEF history
  <2>3. ASSUME CasHolds(s), row'.flow = f, row'.status = row.status, NEW t \in Calls, Become(h, t),
               t.flow = f, t.pc = w.pc, t.next = w.next, t.to = w.to, t.task = w.task, t.job = w.job
        PROVE  RepeatedInv'
    <3>1. Step0 \in StepNumbers /\ Step0 = s.flow.steps /\ Node0 = s.flow.current
      BY <1>2, <1>3, <1>7, FlowAssumption DEF FlowAssumption, StepLeft, StepNumbers, Flows, Step0, Node0
    <3>2. walk' = [walk EXCEPT ![Step0] = Node0] /\ row'.flow = [row.flow EXCEPT !.step = "running"]
      BY <1>2, <1>7, <2>3, <3>1 DEF f
    <3>3. row.flow.step \in {"pending", "completed"}
      BY <1>2, <1>3, <1>7 DEF Flows
    <3>4. RowInv' /\ Unasked' /\ row'.flow.step = "running"
      BY <1>1, <1>3, <2>3, <3>1, <3>2, <3>3, VisitRow
    <3>5. Inside(t)' /\ Locked(t)
      BY <1>1, <1>4, <2>3, <3>4 DEF Inside, Locked, Performing, Routing, Answering, Outgoing, Moving
    <3> QED  BY <1>1, <2>3, <3>4, <3>5, HolderActs
  <2> QED  BY <1>1, <1>4, <1>7, <2>1, <2>2, <2>3, FlowWrites
<1> QED  BY <1>2, <1>5, <1>6, <1>7 DEF Step, FailWorkflow

LEMMA PerformTaskOrGateRepeated ==
  ASSUME TInv, SoleInv, RepeatedInv, NEW h \in Handlers, PerformTaskOrGate(h), UNCHANGED deployment
  PROVE  RepeatedInv'
<1> DEFINE s == handler[h]
<1>1. /\ s \in Calls /\ Locals(s) /\ Tasked(s) /\ s.pc = "perform" /\ s.job # "none" /\ Holds(h)
      /\ Inside(s) /\ RowInv /\ UNCHANGED <<deployment, row, task, history>>
  <2>1. s.pc = "perform"
    BY DEF PerformTaskOrGate, Performs, At
  <2> QED  BY <2>1, HolderKnows DEF PerformTaskOrGate, Moving, RepeatedInv
<1>2. PICK o \in Outcomes : Become(h, Finished(s, o)) /\ Type[s.flow.current] \in {"task", "gate"}
  BY DEF PerformTaskOrGate, Performs, Outcomes
<1> DEFINE c == Finished(s, o)
<1>3. /\ c.pc = "next" /\ c.next = "idle" /\ c.job = s.job
      /\ c.flow = s.flow /\ c.task = s.task /\ c.outcome = o
  <2>1. s.flow.steps < MaxSteps
    BY <1>1 DEF Locals, Stepping
  <2> QED  BY <1>1, <2>1, FinishedKeeps
<1> HIDE DEF c
<1>4. s.flow = row.flow /\ row.flow.step = "running" /\ s.task = None
  BY <1>1 DEF Inside, Performing
<1>5. o \in Promise!Outcomes(Step0)
  <2>1. walk[Step0] = Node0 /\ Node0 = s.flow.current /\ Node0 \in Nodes
    BY <1>1, <1>4 DEF RowInv, Visited, Node0, TInv, TypeOK, Rows, Flows
  <2>2. DOMAIN Route[Node0] = Outcomes
    BY <2>1, FlowAssumption DEF FlowAssumption
  <2> QED  BY <1>2, <2>1, <2>2 DEF Promise!Outcomes
<1>6. Inside(c) /\ Locked(c)
  BY <1>1, <1>3, <1>4, <1>5 DEF Inside, Locked, Performing, Routing, Answering, Outgoing, Moving
<1> QED  BY <1>1, <1>2, <1>6, HolderMoves DEF c

LEMMA PerformCommandRepeated ==
  ASSUME TInv, SoleInv, RepeatedInv, NEW h \in Handlers, PerformCommand(h), UNCHANGED deployment
  PROVE  RepeatedInv'
<1> DEFINE s == handler[h]
           g == Go(s, "load")
           t == [g EXCEPT !.to = "intent", !.next = "classify"]
<1>1. /\ s \in Calls /\ s.pc = "perform" /\ s.job # "none" /\ Holds(h) /\ Inside(s)
      /\ UNCHANGED <<deployment, row, task, history>>
      /\ Type[s.flow.current] = "command" /\ Become(h, t)
  <2>1. s.pc = "perform"
    BY DEF PerformCommand, Performs, At
  <2> QED  BY <2>1, HolderKnows DEF PerformCommand, Performs, Moving
<1>2. /\ s.flow = row.flow /\ row.flow.step = "running" /\ s.task = None /\ Unasked
      /\ Type[Node0] = "command"
  BY <1>1 DEF Inside, Performing, Node0, ReplaySafe
<1>3. /\ t.pc = "load" /\ t.next = "classify" /\ t.to = "intent" /\ t.job = s.job
      /\ t.flow = s.flow /\ t.task = s.task
  <2>1. "load" \in Places /\ "classify" \in Places
    BY DEF Places
  <2>2. /\ g \in Calls /\ g.pc = "load" /\ g.job = s.job /\ g.flow = s.flow /\ g.task = s.task
    BY <1>1, <2>1, GoTypes
  <2> HIDE DEF g
  <2> QED  BY <2>1, <2>2 DEF Calls
<1> HIDE DEF t
<1>4. Inside(t) /\ Locked(t)
  BY <1>1, <1>2, <1>3 DEF Inside, Locked, Performing, Routing, Answering, Outgoing, Moving
<1> QED  BY <1>1, <1>4, HolderMoves

(* People are asked, about a step that nobody was asked about.               *)
LEMMA AskRepeated ==
  ASSUME TInv, SoleInv, RepeatedInv, NEW h \in Handlers, OpenTask(h), Holds(h),
         handler[h].job # "none", handler[h].flow = row.flow, Quiet, Unasked,
         row.flow.step = "running",
         Type[Node0] = "review" \/ (Type[Node0] = "command" /\ row.intent = Node0
                                      /\ Verdict[Node0] = "needs_approval"),
         UNCHANGED <<deployment, row, walk, calls>>
  PROVE  RepeatedInv'
<1> DEFINE s == handler[h]
           g == Go(s, "pause")
<1>1. PICK t \in Tasks :
        /\ task[t].state = "absent"
        /\ task' = [task EXCEPT ![t] = [state |-> "open", node |-> s.flow.current,
                                        step |-> s.flow.steps]]
        /\ Become(h, [g EXCEPT !.task = t])
  BY DEF OpenTask
<1>2. PICK c \in Calls :
        /\ Become(h, c) /\ c.pc = "pause" /\ c.next = "idle" /\ c.flow = row.flow /\ c.task = t
        /\ c.job # "none"
  <2> DEFINE c == [g EXCEPT !.task = t]
  <2>1. g \in Calls /\ g.pc = "pause" /\ g.next = "idle" /\ g.flow = row.flow /\ g.job # "none"
    <3>1. "pause" \in Places
      BY DEF Places
    <3> QED  BY <3>1, HandlerTypes, GoTypes
  <2> HIDE DEF g
  <2>2. /\ c \in Calls /\ c.pc = "pause" /\ c.next = "idle" /\ c.flow = row.flow /\ c.task = t
        /\ c.job # "none"
    BY <2>1 DEF Calls
  <2> QED  BY <1>1, <2>2
<1>3. /\ task \in [Tasks -> HumanTasks] /\ Step0' = Step0 /\ Node0' = Node0 /\ Step0 \in Nat
      /\ row' = row /\ RowInv
  BY DEF TInv, TypeOK, Step0, Node0, RepeatedInv, Rows, Flows
<1>4. /\ task'[t].state = "open" /\ task'[t].step = Step0
      /\ \A u \in Tasks : u # t => task'[u] = task[u]
  BY <1>1, <1>3 DEF Step0
<1>5. Promise!Asked(Step0)' = {t}
  BY <1>3, <1>4 DEF Unasked, Promise!Asked
<1>6. \A k : k # Step0 => Promise!Asked(k)' = Promise!Asked(k)
  BY <1>1, <1>3, <1>4 DEF Promise!Asked
<1>7. PutTo(t)' /\ Quiet' /\ row'.flow.step = "running"
  BY <1>3, <1>5 DEF PutTo, AskedBy, Quiet
<1>10. calls'[Step0'] = <<>>
  BY <1>3 DEF Unasked
<1>8. RowInv'
  <2>1. Visited'
    <3>1. \A j \in StepNumbers : j >= Step0 + 1 => j # Step0
      BY <1>3 DEF StepNumbers
    <3> QED  BY <1>3, <1>6, <3>1 DEF RowInv, Visited, Clean
  <2> QED  BY <1>3, <1>7, <2>1 DEF RowInv
<1>9. Inside(c)' /\ Locked(c)
  BY <1>2, <1>3, <1>7, <1>10 DEF Inside, Locked, Performing, Routing, Outgoing, Answering, Moving
<1> QED  BY <1>2, <1>8, <1>9, HolderActs

LEMMA PerformReviewRepeated ==
  ASSUME TInv, SoleInv, RepeatedInv, NEW h \in Handlers, PerformReview(h), UNCHANGED deployment
  PROVE  RepeatedInv'
<1>1. handler[h].pc = "perform" /\ Type[handler[h].flow.current] = "review" /\ OpenTask(h)
      /\ UNCHANGED <<deployment, row, walk, calls>>
  BY DEF PerformReview, Performs, At, history
<1>2. Inside(handler[h]) /\ Holds(h) /\ handler[h].job # "none"
  BY <1>1, HolderKnows DEF Moving
<1>3. /\ handler[h].flow = row.flow /\ row.flow.step = "running" /\ Unasked
      /\ Type[Node0] = "review" /\ Quiet
  BY <1>1, <1>2 DEF Inside, Performing, Node0, ReplaySafe, RepeatedInv, RowInv
<1> QED  BY <1>1, <1>2, <1>3, AskRepeated

LEMMA ClassifyRepeated ==
  ASSUME TInv, SoleInv, RepeatedInv, NEW h \in Handlers, Classify(h), UNCHANGED deployment
  PROVE  RepeatedInv'
<1> DEFINE s == handler[h]
<1>1. /\ s \in Calls /\ Locals(s) /\ Tasked(s) /\ s.pc = "classify" /\ s.job # "none"
      /\ Holds(h) /\ Inside(s) /\ UNCHANGED <<deployment, row, walk, calls>>
  <2>1. s.pc = "classify"
    BY DEF Classify, At
  <2> QED  BY <2>1, HolderKnows DEF Classify, Moving, history
<1>2. /\ s.flow = row.flow /\ row.flow.step = "running" /\ s.task = None /\ Unasked /\ Quiet
      /\ Type[Node0] = "command" /\ row.intent = Node0 /\ Node0 = s.flow.current
  BY <1>1 DEF Inside, Performing, Node0, ReplaySafe, RepeatedInv, RowInv
<1>3. CASE OpenTask(h) /\ Verdict[s.flow.current] = "needs_approval"
  BY <1>1, <1>2, <1>3, AskRepeated
<1>4. CASE Become(h, Finished(s, "fail")) /\ UNCHANGED task
  <2> DEFINE c == Finished(s, "fail")
  <2>1. /\ c.pc = "next" /\ c.next = "idle" /\ c.job = s.job
        /\ c.flow = s.flow /\ c.task = s.task /\ c.outcome = "fail"
    <3>1. s.flow.steps < MaxSteps /\ "fail" \in Outcomes
      BY <1>1 DEF Locals, Stepping, Outcomes
    <3> QED  BY <1>1, <3>1, FinishedKeeps
  <2> HIDE DEF c
  <2>2. "fail" \in Promise!Outcomes(Step0)
    <3>1. walk[Step0] = Node0 /\ Node0 \in Nodes
      BY <1>2 DEF RepeatedInv, RowInv, Visited, Node0, TInv, TypeOK, Rows, Flows
    <3>2. "fail" \in DOMAIN Route[Node0]
      BY <3>1, FlowAssumption DEF FlowAssumption, Outcomes
    <3> QED  BY <1>2, <3>1, <3>2 DEF Promise!Outcomes
  <2>3. Inside(c) /\ Locked(c)
    BY <1>1, <1>2, <2>1, <2>2 DEF Inside, Locked, Performing, Routing, Outgoing, Answering, Moving
  <2> QED  BY <1>1, <1>4, <2>3, HolderMoves DEF history, c
<1>5. CASE Verdict[s.flow.current] = "auto_approve" /\ UNCHANGED task
           /\ Become(h, [Go(s, "execute") EXCEPT !.seen.intent = s.flow.current])
  <2> DEFINE g == Go(s, "execute")
             c == [g EXCEPT !.seen.intent = s.flow.current]
  <2>1. g \in Calls /\ g.pc = "execute" /\ g.next = "idle" /\ g.flow = s.flow /\ g.task = s.task
        /\ g.job = s.job
    <3>1. "execute" \in Places
      BY DEF Places
    <3> QED  BY <1>1, <3>1, GoTypes
  <2> HIDE DEF g
  <2>2. /\ c.pc = "execute" /\ c.next = "idle" /\ c.flow = s.flow
        /\ c.task = s.task /\ c.job = s.job /\ c.seen.intent = s.flow.current
    BY <1>1, <2>1 DEF Calls, Rows, Flows
  <2>3. Become(h, c)
    BY <1>5 DEF g
  <2> HIDE DEF c
  <2>4. Inside(c) /\ Locked(c)
    BY <1>1, <1>2, <1>5, <2>2 DEF Inside, Locked, Performing, Routing, Outgoing, Answering, Moving
  <2> QED  BY <1>1, <1>5, <2>3, <2>4, HolderMoves DEF history
<1> QED  BY <1>3, <1>4, <1>5 DEF Classify

LEMMA ConflictRepeated ==
  ASSUME TInv, SoleInv, RepeatedInv, NEW h \in Handlers, Holds(h), handler[h].job # "none",
         Become(h, Go(handler[h], "release")), UNCHANGED <<deployment, row, task, history>>
  PROVE  RepeatedInv'
BY HandlerTypes, GoRepeated

LEMMA PauseRepeated ==
  ASSUME TInv, SoleInv, RepeatedInv, NEW h \in Handlers, Pause(h), UNCHANGED deployment
  PROVE  RepeatedInv'
<1> DEFINE s == handler[h]
           f == [s.flow EXCEPT !.step = "waiting", !.task = s.task]
           w == Transit(s, "waiting_for_approval", "release")
<1>1. /\ s \in Calls /\ s.pc = "pause" /\ s.job # "none" /\ Holds(h) /\ Inside(s)
      /\ WriteFlow(h, f, w) /\ UNCHANGED <<deployment, task, walk, calls>>
  <2>1. s.pc = "pause"
    BY DEF Pause, PauseFlowFirst, At
  <2> QED  BY <2>1, HolderKnows DEF Pause, PauseFlowFirst, history, Moving
<1>2. s.flow = row.flow /\ row.flow.step = "running" /\ PutTo(s.task) /\ RowInv /\ Quiet
  BY <1>1 DEF Inside, RepeatedInv, RowInv
<1>3. row \in Rows /\ row.flow \in Flows /\ s.task \in Tasks
  BY <1>2 DEF TInv, TypeOK, Rows, PutTo, AskedBy
<1>4. f \in Flows /\ f.step = "waiting" /\ f.task = s.task /\ f.steps = Step0 /\ f.current = Node0
  BY <1>2, <1>3 DEF Flows, Step0, Node0
<1>5. /\ w \in Calls /\ w.pc = "check" /\ w.next = "release" /\ w.to = "waiting_for_approval"
      /\ w.task = s.task /\ w.job = s.job
  <2>1. "release" \in Places /\ "waiting_for_approval" \in Status
    BY DEF Places, Status, Waiting
  <2> QED  BY <1>1, <2>1, TransitTypes
<1> HIDE DEF f, w
<1>6. CASE Become(h, Go(s, "release")) /\ UNCHANGED row
  BY <1>1, <1>6, ConflictRepeated DEF history
<1>7. ASSUME row'.flow = f, row'.status = row.status, row'.intent = row.intent,
             NEW t \in Calls, Become(h, t), t.flow = f, t.pc = w.pc, t.next = w.next,
             t.to = w.to, t.task = w.task, t.job = w.job
      PROVE  RepeatedInv'
  <2>1. Step0' = Step0 /\ Node0' = Node0 /\ Quiet' /\ row'.flow.step = "waiting"
        /\ row'.flow.task = s.task /\ \A k : Promise!Asked(k)' = Promise!Asked(k)
    BY <1>1, <1>2, <1>4, <1>7 DEF Step0, Node0, Quiet, Promise!Asked
  <2>2. RowInv'
    <3>1. Visited'
      BY <1>1, <1>2, <2>1 DEF RowInv, Visited, Clean
    <3>2. PutTo(row.flow.task)'
      BY <1>2, <1>7, <2>1 DEF PutTo, AskedBy
    <3> QED  BY <1>1, <1>2, <2>1, <3>1, <3>2 DEF RowInv
  <2>3. Inside(t)' /\ Locked(t)
    BY <1>1, <1>5, <1>7, <2>1
    DEF Inside, Locked, Performing, Routing, Outgoing, Answering, Moving
  <2> QED  BY <1>1, <1>7, <2>2, <2>3, HolderActs
<1> QED  BY <1>1, <1>4, <1>5, <1>6, <1>7, FlowWrites

LEMMA PerformStopOrEndRepeated ==
  ASSUME TInv, SoleInv, RepeatedInv, NEW h \in Handlers, PerformStopOrEnd(h), UNCHANGED deployment
  PROVE  RepeatedInv'
<1> DEFINE s == handler[h]
           f == [s.flow EXCEPT !.step = "completed", !.steps = @ + 1, !.task = None]
<1>1. /\ s \in Calls /\ Locals(s) /\ s.pc = "perform" /\ s.job # "none" /\ Holds(h)
      /\ Inside(s) /\ RowInv /\ UNCHANGED <<deployment, task, walk, calls>>
      /\ Type[s.flow.current] \in {"stop", "end"}
      /\ WriteFlow(h, f, FailWorkflow(s)) \/ WriteFlow(h, f, Settle(s, "completed", "release"))
  <2>1. s.pc = "perform"
    BY DEF PerformStopOrEnd, Performs, At
  <2> QED  BY <2>1, HolderKnows DEF PerformStopOrEnd, Performs, history, Moving, RepeatedInv
<1>2. s.task = None /\ s.flow = row.flow /\ row.flow.step = "running"
  BY <1>1 DEF Inside, Performing
<1>3. PICK w \in Calls :
        /\ WriteFlow(h, f, w) /\ w.job = s.job
        /\ \/ w.pc = "failing" /\ w.next = "idle"
           \/ w.pc = "settle" /\ w.next = "release" /\ w.to = "completed"
  <2>1. {"failing", "release"} \subseteq Places /\ "completed" \in Status
    BY DEF Places, Status, Terminal
  <2>2. Go(s, "failing") \in Calls /\ Go(s, "failing").job = s.job
        /\ Go(s, "failing").pc = "failing" /\ Go(s, "failing").next = "idle"
    BY <1>1, <2>1, GoTypes
  <2> DEFINE u == Settle(s, "completed", "release")
  <2>3. u \in Calls /\ u.job = s.job /\ u.pc = "settle" /\ u.next = "release" /\ u.to = "completed"
    BY <1>1, <2>1, SettleTypes
  <2> HIDE DEF u
  <2> QED  BY <1>1, <2>2, <2>3 DEF FailWorkflow, u
<1>4. /\ row \in Rows /\ row.flow \in Flows /\ Step0 \in Nat /\ Visited
      /\ walk[Step0] = Node0 /\ Node0 \in Nodes
  BY <1>1, <1>2 DEF TInv, TypeOK, Rows, Flows, Step0, Node0, RowInv, Visited
<1>5. f \in Flows /\ f.step = "completed" /\ f.steps = Step0 + 1 /\ f.current = Node0
  <2>1. s.flow \in Flows /\ s.flow.steps < MaxSteps
    BY <1>1 DEF Calls, Locals, Stepping
  <2>2. s.flow.steps + 1 \in 0..MaxSteps
    BY <2>1, FlowAssumption DEF Flows, FlowAssumption
  <2> QED  BY <1>2, <2>1, <2>2 DEF Flows, Step0, Node0
<1> HIDE DEF f
<1>6. CASE Become(h, Go(s, "release")) /\ UNCHANGED row
  BY <1>1, <1>6, ConflictRepeated DEF history
<1>7. ASSUME row'.flow = f, row'.status = row.status,
             NEW t \in Calls, Become(h, t), t.pc = w.pc, t.next = w.next, t.to = w.to, t.job = w.job
      PROVE  RepeatedInv'
  <2>1. /\ Step0' = Step0 + 1 /\ Node0' = Node0 /\ row'.flow.step = "completed" /\ Quiet'
        /\ \A k : Promise!Asked(k)' = Promise!Asked(k)
    BY <1>1, <1>2, <1>5, <1>7 DEF Step0, Node0, Quiet, Promise!Asked, RowInv
  <2>2. Promise!Follows(Step0, Node0)'
    <3>1. Step0' # 0 /\ Step0' - 1 = Step0
      BY <1>4, <2>1
    <3>2. walk'[Step0] = Node0 /\ Node0 # None /\ Type[Node0] \in {"stop", "end"}
      BY <1>1, <1>2, <1>4, NoneAssumption DEF NoneAssumption, Node0
    <3> QED  BY <2>1, <3>1, <3>2 DEF Promise!Follows
  <2>3. Clean(Step0)'
    BY <1>1, <1>4, <2>1 DEF Visited, Clean
  <2>4. RowInv'
    BY <1>1, <2>1, <2>2, <2>3 DEF RowInv
  <2>5. Inside(t)' /\ Locked(t)
    BY <1>1, <1>3, <1>7, <2>1 DEF Inside, Locked, Performing, Routing, Outgoing, Answering, Moving
  <2> QED  BY <1>1, <1>7, <2>4, <2>5, HolderActs
<1> QED  BY <1>3, <1>5, <1>6, <1>7, FlowWrites

LEMMA TakeRouteRepeated ==
  ASSUME TInv, SoleInv, RepeatedInv, NEW h \in Handlers, TakeRoute(h), UNCHANGED deployment
  PROVE  RepeatedInv'
<1> DEFINE s == handler[h]
           to == Route[s.flow.current][s.outcome]
           f == [current |-> to, step |-> "pending", task |-> None, steps |-> s.flow.steps + 1]
           p == IF s.pc = "next" THEN "step" ELSE "reload"
           w == [Go(s, p) EXCEPT !.task = None, !.outcome = "fail"]
<1>1. /\ s \in Calls /\ Locals(s) /\ s.pc \in {"next", "route"} /\ s.job # "none" /\ Holds(h)
      /\ Inside(s) /\ RowInv /\ UNCHANGED <<deployment, task, walk, calls>>
  <2>1. s.pc \in {"next", "route"}
    BY DEF TakeRoute, At
  <2> QED  BY <2>1, HolderKnows DEF TakeRoute, history, Moving, RepeatedInv
<1>2. /\ Quiet /\ s.flow = row.flow /\ row.flow.step \in {"running", "waiting"}
      /\ s.outcome \in Promise!Outcomes(Step0)
  <2>1. CASE s.pc = "next"
    BY <1>1, <2>1 DEF Inside, Routing, RowInv
  <2>2. CASE s.pc = "route"
    BY <1>1, <2>2 DEF Inside, Outgoing, Answering
  <2> QED  BY <1>1, <2>1, <2>2
<1>3. /\ Visited /\ row \in Rows /\ row.flow \in Flows /\ Node0 \in Nodes
      /\ Step0 \in StepNumbers /\ Step0 \in Nat /\ walk[Step0] = Node0
  BY <1>1, <1>2 DEF RowInv, Visited, TInv, TypeOK, Rows, Flows, Node0, Step0
<1>4. CASE Become(h, Go(s, "failing")) /\ UNCHANGED row
  BY <1>1, <1>4, GoRepeated DEF history
<1>5. CASE to # None /\ WriteFlow(h, f, w)
  <2>1. f \in Flows
    <3>1. to \in Nodes
      BY <1>1, <1>2, <1>3, <1>5, FlowAssumption DEF FlowAssumption, Calls, Node0
    <3>2. s.flow.steps + 1 \in 0..MaxSteps
      BY <1>2, <1>3, FlowAssumption DEF FlowAssumption, StepNumbers, Step0
    <3> QED  BY <3>1, <3>2 DEF Flows
  <2>2. /\ w \in Calls /\ w.pc \in {"step", "reload"} /\ w.next = "idle" /\ w.task = None
        /\ w.job = s.job
    <3> DEFINE g == Go(s, p)
    <3>1. p \in Places /\ "fail" \in Outcomes /\ p \in {"step", "reload"}
      BY DEF Places, Outcomes
    <3>2. g \in Calls /\ g.pc = p /\ g.next = "idle" /\ g.job = s.job
      BY <1>1, <3>1, GoTypes
    <3>3. w = [g EXCEPT !.task = None, !.outcome = "fail"]
      OBVIOUS
    <3> HIDE DEF g, p, w
    <3> QED  BY <3>1, <3>2, <3>3 DEF Calls
  <2>3. f.current = Route[Node0][s.outcome] /\ f.steps = Step0 + 1 /\ f.step = "pending"
    BY <1>2 DEF Node0, Step0
  <2> HIDE DEF f, w
  <2>4. CASE Become(h, Go(s, "release")) /\ UNCHANGED row
    BY <1>1, <2>4, ConflictRepeated DEF history
  <2>5. ASSUME row'.flow = f, row'.status = row.status, NEW t \in Calls, Become(h, t),
               t.flow = f, t.pc = w.pc, t.next = w.next, t.task = w.task, t.job = w.job
        PROVE  RepeatedInv'
    <3>1. /\ Step0' = Step0 + 1 /\ Node0' = Route[Node0][s.outcome] /\ Quiet'
          /\ row'.flow.step = "pending"
          /\ \A k : Promise!Asked(k)' = Promise!Asked(k)
      BY <1>1, <1>2, <2>3, <2>5 DEF Step0, Node0, Quiet, Promise!Asked
    <3>3. Promise!Follows(Step0, Node0)'
      <4>1. Step0' # 0 /\ Step0' - 1 = Step0
        BY <1>3, <3>1
      <4>2. walk'[Step0] = Node0 /\ Node0 # None
        BY <1>1, <1>3, NoneAssumption DEF NoneAssumption
      <4>3. \E o \in Promise!Outcomes(Step0) : Node0' = Route[Node0][o]
        BY <1>2, <3>1
      <4>4. \A k : Promise!Outcomes(k)' = Promise!Outcomes(k)
        BY <1>1 DEF Promise!Outcomes, Promise!Answered, Promise!Asked
      <4> QED  BY <1>1, <4>1, <4>2, <4>3, <4>4 DEF Promise!Follows
    <3>4. Clean(Step0)'
      BY <1>1, <1>3, <3>1 DEF Visited, Clean
    <3>5. RowInv'
      BY <1>1, <3>1, <3>3, <3>4 DEF RowInv
    <3>6. Inside(t)' /\ Locked(t)
      <4>1. Walked'
        BY <1>1, <1>3, NoneAssumption DEF Walked, NoneAssumption
      <4> QED  BY <1>1, <2>2, <2>5, <3>1, <4>1
                  DEF Inside, Locked, Performing, Routing, Outgoing, Answering, Moving
    <3> QED  BY <1>1, <2>5, <3>5, <3>6, HolderActs
  <2> QED  BY <1>1, <1>5, <2>1, <2>2, <2>4, <2>5, FlowWrites
<1> QED  BY <1>4, <1>5 DEF TakeRoute, At, FailWorkflow

LEMMA ReloadRepeated ==
  ASSUME TInv, SoleInv, RepeatedInv, NEW h \in Handlers, Reload(h), UNCHANGED deployment
  PROVE  RepeatedInv'
<1> DEFINE s == handler[h]
           t == Go(s, "step")
<1>1. /\ s \in Calls /\ s.pc = "reload" /\ s.job # "none" /\ Holds(h) /\ Inside(s)
      /\ UNCHANGED <<deployment, row, task, history>> /\ Become(h, t)
  <2>1. s.pc = "reload"
    BY DEF Reload, At
  <2> QED  BY <2>1, HolderKnows DEF Reload, Moving
<1>2. t.pc = "step" /\ t.next = "idle" /\ t.flow = s.flow /\ t.task = s.task /\ t.job = s.job
  <2>1. "step" \in Places
    BY DEF Places
  <2> QED  BY <1>1, <2>1, GoTypes
<1> HIDE DEF t
<1>3. Inside(t) /\ Locked(t)
  BY <1>1, <1>2 DEF Inside, Locked, Performing, Routing, Outgoing, Answering, Moving
<1> QED  BY <1>1, <1>3, HolderMoves

-------------------------------------------------------------------------------
(* A resolution is acted upon.                                               *)
LEMMA ResumeBoundRepeated ==
  ASSUME TInv, SoleInv, RepeatedInv, NEW h \in Handlers, ResumeBound(h), UNCHANGED deployment
  PROVE  RepeatedInv'
<1> DEFINE s == handler[h]
           answer == task[s.task].state
<1>1. /\ s \in Calls /\ s.pc = "bound" /\ s.job # "none" /\ Holds(h) /\ Inside(s)
      /\ UNCHANGED <<deployment, row, task, history>>
  <2>1. s.pc = "bound"
    BY DEF ResumeBound, At
  <2> QED  BY <2>1, HolderKnows DEF ResumeBound, Moving
<1>2. s.flow = row.flow /\ row.flow.step = "waiting" /\ s.task = row.flow.task
  BY <1>1 DEF Inside, Answering
<1>3. /\ walk[Step0] = Node0 /\ Node0 = s.flow.current /\ Node0 \in Nodes
      /\ Promise!Asked(Step0) = {s.task} /\ Type[Node0] \in {"review", "command"}
  BY <1>2 DEF RepeatedInv, RowInv, Visited, PutTo, AskedBy, Node0, TInv, TypeOK, Rows, Flows
<1>4. DOMAIN Route[Node0] = Outcomes
  BY <1>3, FlowAssumption DEF FlowAssumption
<1>5. ASSUME NEW o \in {"approve", "reject", "fail"}, Become(h, [Go(s, "into") EXCEPT !.outcome = o]),
             o \in Promise!Outcomes(Step0)
      PROVE  RepeatedInv'
  <2> DEFINE g == Go(s, "into")
             c == [g EXCEPT !.outcome = o]
  <2>1. "into" \in Places /\ o \in Outcomes
    BY DEF Places, Outcomes
  <2>2. /\ g \in Calls /\ g.pc = "into" /\ g.next = "idle" /\ g.flow = s.flow /\ g.task = s.task
        /\ g.job = s.job
    BY <1>1, <2>1, GoTypes
  <2> HIDE DEF g
  <2>3. /\ c.pc = "into" /\ c.next = "idle" /\ c.flow = s.flow /\ c.task = s.task
        /\ c.job = s.job /\ c.outcome = o
    BY <2>1, <2>2 DEF Calls
  <2> HIDE DEF c
  <2>4. Inside(c) /\ Locked(c)
    BY <1>1, <1>2, <1>5, <2>3 DEF Inside, Locked, Performing, Routing, Outgoing, Answering, Moving
  <2>5. Become(h, c)
    BY <1>5 DEF c, g
  <2> QED  BY <1>1, <2>4, <2>5, HolderMoves
<1>6. CASE answer = "approved" /\ Type[Node0] = "review"
  <2>1. "approve" \in Promise!Outcomes(Step0)
    BY <1>3, <1>4, <1>6 DEF Promise!Outcomes, Promise!Answered, Outcomes
  <2>2. Become(h, [Go(s, "into") EXCEPT !.outcome = "approve"])
    BY <1>3, <1>6 DEF ResumeBound
  <2> QED  BY <1>5, <2>1, <2>2
<1>7. CASE answer = "rejected" /\ Type[Node0] = "review"
  <2>1. "reject" \in Promise!Outcomes(Step0)
    BY <1>3, <1>4, <1>7 DEF Promise!Outcomes, Promise!Answered, Outcomes
  <2>2. Become(h, [Go(s, "into") EXCEPT !.outcome = "reject"])
    BY <1>3, <1>7 DEF ResumeBound
  <2> QED  BY <1>5, <2>1, <2>2
<1>8. CASE answer = "rejected" /\ Type[Node0] = "command"
  <2>1. "fail" \in Promise!Outcomes(Step0)
    BY <1>3, <1>4, <1>8 DEF Promise!Outcomes, Outcomes
  <2>2. Become(h, [Go(s, "into") EXCEPT !.outcome = "fail"])
    BY <1>3, <1>8 DEF ResumeBound, Allowed
  <2> QED  BY <1>5, <2>1, <2>2
<1>9. ASSUME NEW p \in {"approved", "unresumable"}, Become(h, Go(s, p)),
             p = "approved" => answer = "approved" /\ Type[Node0] = "command"
      PROVE  RepeatedInv'
  <2> DEFINE c == Go(s, p)
  <2>1. p \in Places
    BY DEF Places
  <2>2. /\ c.pc = p /\ c.next = "idle" /\ c.flow = s.flow /\ c.task = s.task /\ c.job = s.job
    BY <1>1, <2>1, GoTypes
  <2> HIDE DEF c
  <2>3. Inside(c) /\ Locked(c)
    BY <1>1, <1>2, <1>9, <2>2 DEF Inside, Locked, Performing, Routing, Outgoing, Answering, Moving
  <2> QED  BY <1>1, <1>9, <2>3, HolderMoves DEF c
<1>10. CASE answer = "approved" /\ Type[Node0] = "command"
  <2>1. Become(h, Go(s, "approved"))
    BY <1>3, <1>10 DEF ResumeBound, Allowed
  <2> QED  BY <1>9, <1>10, <2>1
<1>11. CASE answer \notin {"approved", "rejected"}
  <2>1. Become(h, Go(s, "unresumable"))
    BY <1>11 DEF ResumeBound, Allowed
  <2> QED  BY <1>9, <2>1
<1> QED  BY <1>3, <1>6, <1>7, <1>8, <1>10, <1>11

LEMMA SettleUnresumableRepeated ==
  ASSUME TInv, SoleInv, RepeatedInv, NEW h \in Handlers, SettleUnresumable(h), UNCHANGED deployment
  PROVE  RepeatedInv'
<1> DEFINE s == handler[h]
<1>1. /\ s \in Calls /\ Tasked(s) /\ s.pc = "unresumable" /\ s.job # "none" /\ Holds(h)
      /\ UNCHANGED <<deployment, row, task, history>>
  <2>1. s.pc = "unresumable"
    BY DEF SettleUnresumable, At
  <2> QED  BY <2>1, HolderKnows DEF SettleUnresumable, Moving
<1>2. CASE Become(h, Go(s, "release"))
  BY <1>1, <1>2, ConflictRepeated
<1>3. CASE Become(h, Transit(s, task[s.task].state, "orFail"))
  <2> DEFINE a == task[s.task].state
             c == Transit(s, a, "orFail")
  <2>1. a \in {"cancelled", "expired"}
    BY <1>1 DEF Tasked
  <2>2. a \in Status /\ "orFail" \in Places \cup {"fail", "orFail"}
    BY <2>1 DEF Status, Terminal
  <2> HIDE DEF a
  <2>3. c.pc = "check" /\ c.next = "orFail" /\ c.to = a /\ c.job = s.job
    BY <1>1, <2>2, TransitTypes
  <2> HIDE DEF c
  <2>4. Inside(c) /\ Locked(c)
    BY <1>1, <2>1, <2>3 DEF Inside, Locked, Performing, Routing, Outgoing, Answering, Moving
  <2>5. Become(h, c)
    BY <1>3 DEF c, a
  <2> QED  BY <1>1, <2>4, <2>5, HolderMoves
<1> QED  BY <1>2, <1>3 DEF SettleUnresumable

LEMMA ReadApprovedRepeated ==
  ASSUME TInv, SoleInv, RepeatedInv, NEW h \in Handlers, ReadApproved(h), UNCHANGED deployment
  PROVE  RepeatedInv'
<1> DEFINE s == handler[h]
           r == [s EXCEPT !.outcome = "fail"]
           g == Go(r, "execute")
           c == [g EXCEPT !.seen.intent = row.intent]
<1>1. /\ s \in Calls /\ s.pc = "approved" /\ s.job # "none" /\ Holds(h) /\ Inside(s)
      /\ UNCHANGED <<deployment, row, task, history>> /\ row \in Rows
  <2>1. s.pc = "approved"
    BY DEF ReadApproved, At
  <2> QED  BY <2>1, HolderKnows DEF ReadApproved, TInv, TypeOK, Moving
<1>2. /\ s.flow = row.flow /\ row.flow.step = "waiting" /\ s.task = row.flow.task
      /\ Type[Node0] = "command" /\ task[row.flow.task].state = "approved"
  BY <1>1 DEF Inside, Answering
<1>3. row.intent = Node0 /\ Node0 \in Nodes /\ Node0 # None /\ s.task # None
  BY <1>1, <1>2, NoneAssumption DEF RepeatedInv, RowInv, PutTo, AskedBy, Node0, Rows, Flows,
     NoneAssumption
<1>4. Become(h, c)
  BY <1>3 DEF ReadApproved
<1>5. r \in Calls /\ r.flow = s.flow /\ r.task = s.task /\ r.job = s.job
  BY <1>1 DEF Calls, Outcomes
<1> HIDE DEF r
<1>6. /\ g \in Calls /\ g.pc = "execute" /\ g.next = "idle" /\ g.flow = s.flow /\ g.task = s.task
      /\ g.job = s.job
  <2>1. "execute" \in Places
    BY DEF Places
  <2> QED  BY <1>5, <2>1, GoTypes
<1> HIDE DEF g
<1>7. /\ c.pc = "execute" /\ c.next = "idle" /\ c.flow = s.flow /\ c.task = s.task
      /\ c.job = s.job /\ c.seen.intent = row.intent
  BY <1>1, <1>6 DEF Calls, Rows
<1> HIDE DEF c
<1>8. Inside(c) /\ Locked(c)
  BY <1>1, <1>2, <1>3, <1>7 DEF Inside, Locked, Performing, Routing, Outgoing, Answering, Moving
<1> QED  BY <1>1, <1>4, <1>8, HolderMoves

LEMMA WakeRepeated ==
  ASSUME TInv, SoleInv, RepeatedInv, NEW h \in Handlers, Wake(h), UNCHANGED deployment
  PROVE  RepeatedInv'
<1> DEFINE s == handler[h]
<1>1. /\ s \in Calls /\ Locals(s) /\ s.pc = "wake" /\ s.job # "none" /\ Holds(h) /\ Inside(s)
      /\ UNCHANGED <<deployment, row, task, history>>
  <2>1. s.pc = "wake"
    BY DEF Wake, At
  <2> QED  BY <2>1, HolderKnows DEF Wake, Moving
<1>2. s.next \in {"next", "into", "route"}
  BY <1>1 DEF Locals
<1>3. CASE Become(h, Transit(s, "resuming", s.next))
  <2> DEFINE c == Transit(s, "resuming", s.next)
  <2>1. s.next \in Places /\ "resuming" \in Status
    BY <1>2 DEF Places, Status
  <2>2. /\ c.pc = "check" /\ c.next = s.next /\ c.to = "resuming"
        /\ c.job = s.job /\ c.task = s.task /\ c.flow = s.flow /\ c.outcome = s.outcome
    BY <1>1, <2>1, TransitTypes
  <2> HIDE DEF c
  <2>3. Inside(c) /\ Locked(c)
    BY <1>1, <1>2, <2>2 DEF Inside, Locked, Performing, Routing, Outgoing, Answering, Moving
  <2> QED  BY <1>1, <1>3, <2>3, HolderMoves DEF c
<1>4. CASE Become(h, Go(s, "release"))
  BY <1>1, <1>4, ConflictRepeated
<1>5. CASE Become(h, Go(s, s.next)) /\ (s.next = "route" => row.status = "running")
  <2> DEFINE c == Go(s, s.next)
  <2>1. s.next \in Places
    BY <1>2 DEF Places
  <2>2. /\ c.pc = s.next /\ c.next = "idle"
        /\ c.job = s.job /\ c.task = s.task /\ c.flow = s.flow /\ c.outcome = s.outcome
    BY <1>1, <2>1, GoTypes
  <2>3. Become(h, c)
    BY <1>5
  <2> HIDE DEF c
  <2>4. c.pc = "route" => Quiet
    BY <1>5, <2>2 DEF Quiet
  <2>5. Inside(c) /\ Locked(c)
    BY <1>1, <1>2, <2>2, <2>4 DEF Inside, Locked, Performing, Routing, Outgoing, Answering, Moving
  <2> QED  BY <1>1, <2>3, <2>5, HolderMoves
<1> QED  BY <1>3, <1>4, <1>5 DEF Wake

LEMMA ResumeIntoRepeated ==
  ASSUME TInv, SoleInv, RepeatedInv, NEW h \in Handlers, ResumeInto(h), UNCHANGED deployment
  PROVE  RepeatedInv'
<1> DEFINE s == handler[h]
           g == Go(s, "wake")
           c == [g EXCEPT !.next = "route", !.version = row.version]
<1>1. /\ s \in Calls /\ s.pc = "into" /\ s.job # "none" /\ Holds(h) /\ Inside(s)
      /\ UNCHANGED <<deployment, row, task, history>> /\ row \in Rows /\ Become(h, c)
  <2>1. s.pc = "into"
    BY DEF ResumeInto, At
  <2> QED  BY <2>1, HolderKnows DEF ResumeInto, TInv, TypeOK, Moving
<1>2. /\ g \in Calls /\ g.pc = "wake" /\ g.job = s.job /\ g.task = s.task /\ g.flow = s.flow
      /\ g.outcome = s.outcome
  <2>1. "wake" \in Places
    BY DEF Places
  <2> QED  BY <1>1, <2>1, GoTypes
<1> HIDE DEF g
<1>3. /\ c.pc = "wake" /\ c.next = "route" /\ c.job = s.job /\ c.task = s.task
      /\ c.flow = s.flow /\ c.outcome = s.outcome
  BY <1>2 DEF Calls
<1> HIDE DEF c
<1>4. Inside(c) /\ Locked(c)
  BY <1>1, <1>3 DEF Inside, Locked, Performing, Routing, Outgoing, Answering, Moving
<1> QED  BY <1>1, <1>4, HolderMoves

LEMMA ExitWaitingRepeated ==
  ASSUME TInv, SoleInv, RepeatedInv, NEW h \in Handlers, ExitWaiting(h), UNCHANGED deployment
  PROVE  RepeatedInv'
<1> DEFINE s == handler[h]
<1>1. /\ s \in Calls /\ s.pc = "failing" /\ s.job # "none" /\ Holds(h)
      /\ UNCHANGED <<deployment, row, task, history>>
  <2>1. s.pc = "failing"
    BY DEF ExitWaiting, At
  <2> QED  BY <2>1, HolderKnows DEF ExitWaiting, Moving
<1>2. PICK c \in Calls :
        /\ Become(h, c) /\ c.job = s.job
        /\ \/ c.pc = "check" /\ c.to = "resuming" /\ c.next = "fail"
           \/ c.pc = "settle" /\ c.to = "failed" /\ c.next = "release"
  <2>1. "release" \in Places /\ {"resuming", "failed"} \subseteq Status
    BY DEF Places, Status, Terminal
  <2> DEFINE t == Transit(s, "resuming", "fail")
             u == Settle(s, "failed", "release")
  <2>2. t \in Calls /\ t.job = s.job /\ t.pc = "check" /\ t.to = "resuming" /\ t.next = "fail"
    BY <1>1, <2>1, TransitTypes
  <2>3. u \in Calls /\ u.job = s.job /\ u.pc = "settle" /\ u.to = "failed" /\ u.next = "release"
    BY <1>1, <2>1, SettleTypes
  <2>4. Become(h, t) \/ Become(h, u)
    BY DEF ExitWaiting
  <2> HIDE DEF t, u
  <2> QED  BY <2>2, <2>3, <2>4
<1>3. Inside(c) /\ Locked(c)
  BY <1>1, <1>2 DEF Inside, Locked, Performing, Routing, Outgoing, Answering, Moving
<1> QED  BY <1>1, <1>2, <1>3, HolderMoves

(* A command is executed: for the first time in its step, or because people  *)
(* were asked about it.                                                      *)
LEMMA CallRepeated ==
  ASSUME TInv, SoleInv, RepeatedInv, NEW h \in Handlers, Execute(h), UNCHANGED deployment
  PROVE  /\ RowInv' /\ row' = row /\ Step0' = Step0 /\ Node0' = Node0
         /\ UNCHANGED <<task, walk>>
         /\ Promise!Outcomes(Step0)' = {o \in Outcomes : TRUE}
<1> DEFINE s == handler[h]
<1>1. /\ s \in Calls /\ s.pc = "execute" /\ Inside(s) /\ RowInv /\ row' = row
      /\ UNCHANGED <<task, walk>>
      /\ calls' = [calls EXCEPT ![s.flow.steps] = Append(@, s.seen.intent)]
  <2>1. s.pc = "execute"
    BY DEF Execute, At
  <2> QED  BY <2>1, HolderKnows DEF Execute, RepeatedInv, Moving
<1>2. /\ s.flow = row.flow /\ row.flow.step \in {"running", "waiting"}
      /\ s.seen.intent = Node0 /\ Type[Node0] = "command"
  BY <1>1 DEF Inside, Performing, Answering
<1>3. /\ Visited /\ Step0 = s.flow.steps /\ Node0 \in Nodes /\ Step0 \in StepNumbers
      /\ Step0 \in Nat /\ calls \in [StepNumbers -> Seq(Nodes)] /\ walk[Step0] = Node0
      /\ Node0 # None
  BY <1>1, <1>2, NoneAssumption DEF NoneAssumption, RowInv, Visited, Step0, Node0, TInv, TypeOK,
     Rows, Flows, StepNumbers
<1>4. /\ calls'[Step0] = Append(calls[Step0], Node0) /\ calls[Step0] \in Seq(Nodes)
      /\ \A k \in StepNumbers : k # Step0 => calls'[k] = calls[k]
  BY <1>1, <1>2, <1>3
<1>5. Len(calls'[Step0]) = Len(calls[Step0]) + 1 /\ calls'[Step0] # <<>>
  BY <1>3, <1>4
<1>6. calls[Step0] = <<>> \/ Verdict[Node0] = "needs_approval"
  <2>1. CASE s.task = None
    BY <1>1, <1>2, <2>1 DEF Inside, Performing, Unasked, ReplaySafe
  <2>2. CASE s.task # None
    BY <1>1, <1>2, <2>2 DEF Inside, Answering, RowInv, PutTo
  <2> QED  BY <2>1, <2>2
<1>7. /\ Step0' = Step0 /\ Node0' = Node0 /\ Quiet' = Quiet
      /\ \A k : Promise!Asked(k)' = Promise!Asked(k)
  BY <1>1 DEF Step0, Node0, Quiet, Promise!Asked
<1>8. RowInv'
  <2>1. Visited'
    <3>1. \A j \in StepNumbers : j >= Step0 + 1 => j # Step0
      BY <1>3 DEF StepNumbers
    <3> QED  BY <1>1, <1>3, <1>4, <1>7, <3>1 DEF Visited, Clean
  <2>2. row.flow.step = "waiting" => PutTo(row.flow.task)'
    BY <1>1, <1>7 DEF RowInv, PutTo, AskedBy
  <2>3. ASSUME NEW k \in StepNumbers, Len(calls'[k]) > 1
        PROVE  walk'[k] # None /\ Verdict[walk'[k]] # "auto_approve"
    <3>1. CASE k = Step0
      <4>1. calls[Step0] # <<>>
        <5>1. calls[Step0] = <<>> => Len(calls[Step0]) = 0
          OBVIOUS
        <5> QED  BY <1>4, <1>5, <2>3, <3>1, <5>1
      <4> QED  BY <1>1, <1>3, <1>6, <3>1, <4>1
    <3>2. CASE k # Step0
      BY <1>1, <1>4, <2>3, <3>2 DEF RowInv
    <3> QED  BY <3>1, <3>2
  <2> QED  BY <1>1, <1>2, <1>7, <2>1, <2>2, <2>3 DEF RowInv
<1>9. Promise!Outcomes(Step0)' = {o \in Outcomes : TRUE}
  <2>1. DOMAIN Route[Node0] = Outcomes
    BY <1>3, FlowAssumption DEF FlowAssumption
  <2> QED  BY <1>1, <1>2, <1>3, <1>5, <1>7, <2>1 DEF Promise!Outcomes
<1> QED  BY <1>1, <1>7, <1>8, <1>9

LEMMA ExecuteRepeated ==
  ASSUME TInv, SoleInv, RepeatedInv, NEW h \in Handlers, Execute(h), UNCHANGED deployment
  PROVE  RepeatedInv'
<1> DEFINE s == handler[h]
<1>1. /\ s \in Calls /\ Locals(s) /\ Tasked(s) /\ s.pc = "execute" /\ s.job # "none"
      /\ Holds(h) /\ Inside(s)
  <2>1. s.pc = "execute"
    BY DEF Execute, At
  <2> QED  BY <2>1, HolderKnows DEF Moving
<1>2. /\ s.task = None => s.flow = row.flow /\ row.flow.step = "running"
      /\ s.task # None => /\ s.flow = row.flow /\ row.flow.step = "waiting"
                          /\ s.task = row.flow.task
  BY <1>1 DEF Inside, Performing, Answering
<1>3. /\ RowInv' /\ row' = row /\ Step0' = Step0 /\ Node0' = Node0
      /\ Promise!Outcomes(Step0)' = {o \in Outcomes : TRUE}
  BY CallRepeated
<1>4. CASE Become(h, Throw(s))
  <2>1. PICK c : Become(h, c) /\ c.pc \in {"thrown", "release"} /\ c.next = "idle"
    <3>1. PICK p \in {"thrown", "release"} : Throw(s) = Go(s, p)
      BY <1>1 DEF Throw, Calls
    <3>2. p \in Places
      BY DEF Places
    <3>3. Go(s, p).pc = p /\ Go(s, p).next = "idle"
      BY <1>1, <3>2, GoTypes
    <3> QED  BY <1>4, <3>1, <3>3
  <2>2. Inside(c)' /\ Outside(c)
    BY <2>1 DEF Inside, Outside, Apart, Performing, Routing, Answering, Outgoing, Moving
  <2> QED  BY <1>1, <1>3, <2>1, <2>2, HolderActs
<1>5. ASSUME NEW c \in Calls, Become(h, c), c.flow = s.flow, c.task = s.task, c.job = s.job,
             \/ s.task = None /\ c.next = "idle" /\ c.pc = "next"
             \/ s.task = None /\ c.next = "next" /\ c.pc = "wake"
             \/ s.task # None /\ c.next = "into" /\ c.pc = "wake"
             \/ s.task # None /\ c.next = "into" /\ c.pc = "settle" /\ c.to = "failed"
      PROVE  RepeatedInv'
  <2>1. c.outcome \in Promise!Outcomes(Step0)'
    BY <1>3 DEF Calls
  <2>2. Inside(c)' /\ Locked(c)
    BY <1>1, <1>2, <1>3, <1>5, <2>1 DEF Inside, Locked, Performing, Routing, Outgoing, Answering,
       Moving
  <2> QED  BY <1>1, <1>3, <1>5, <2>2, HolderActs
<1>6. CASE s.task = None /\ Become(h, Finished(s, "fail"))
  <2> DEFINE d == Finished(s, "fail")
  <2>1. s.flow.steps < MaxSteps /\ "fail" \in Outcomes
    BY <1>1 DEF Locals, Stepping, Outcomes
  <2>2. /\ d \in Calls /\ d.pc = "next" /\ d.next = "idle" /\ d.job = s.job
        /\ d.flow = s.flow /\ d.task = s.task
    BY <1>1, <2>1, FinishedKeeps
  <2> HIDE DEF d
  <2> QED  BY <1>5, <1>6, <2>2 DEF d
<1>7. CASE s.task # None
           /\ Become(h, Settle([s EXCEPT !.outcome = "fail"], "failed", "into"))
  <2> DEFINE r == [s EXCEPT !.outcome = "fail"]
             d == Settle(r, "failed", "into")
  <2>1. r \in Calls /\ r.flow = s.flow /\ r.task = s.task /\ r.job = s.job
    BY <1>1 DEF Calls, Outcomes
  <2> HIDE DEF r
  <2>2. /\ d \in Calls /\ d.pc = "settle" /\ d.next = "into" /\ d.to = "failed" /\ d.job = s.job
        /\ d.flow = s.flow /\ d.task = s.task
    <3>1. "failed" \in Status /\ "into" \in Places
      BY DEF Status, Terminal, Places
    <3> QED  BY <2>1, <3>1, SettleTypes
  <2>3. Become(h, d)
    BY <1>7 DEF d, r
  <2> HIDE DEF d
  <2> QED  BY <1>5, <1>7, <2>2, <2>3
<1>8. ASSUME Become(h, [Go([s EXCEPT !.outcome = "success", !.seen = FirstRow], "wake") EXCEPT
                         !.next = IF s.task # None THEN "into" ELSE "next"])
      PROVE  RepeatedInv'
  <2> DEFINE r == [s EXCEPT !.outcome = "success", !.seen = FirstRow]
             g == Go(r, "wake")
             n == IF s.task # None THEN "into" ELSE "next"
             d == [g EXCEPT !.next = n]
  <2>1. r \in Calls /\ r.flow = s.flow /\ r.task = s.task /\ r.job = s.job
    BY <1>1, FreeTypes DEF Calls, Outcomes
  <2> HIDE DEF r
  <2>2. g \in Calls /\ g.pc = "wake" /\ g.flow = s.flow /\ g.task = s.task /\ g.job = s.job
    <3>1. "wake" \in Places
      BY DEF Places
    <3> QED  BY <2>1, <3>1, GoTypes
  <2> HIDE DEF g
  <2>3. n \in Places
    BY DEF Places
  <2>4. /\ d \in Calls /\ d.pc = "wake" /\ d.next = n
        /\ d.flow = s.flow /\ d.task = s.task /\ d.job = s.job
    <3> HIDE DEF n
    <3> QED  BY <2>2, <2>3 DEF Calls
  <2>5. Become(h, d)
    BY <1>8 DEF d, g, r, n
  <2> HIDE DEF d
  <2> QED  BY <1>5, <2>4, <2>5
<1> QED  BY <1>4, <1>6, <1>7, <1>8 DEF Execute

-------------------------------------------------------------------------------
LEMMA FailingRepeated ==
  ASSUME TInv, SoleInv, RepeatedInv, NEW p \in Processes, NEW x, Failing(p, x)
  PROVE  RepeatedInv'
<1>1. /\ \A h \in Handlers : handler'[h] = x \/ handler'[h] = handler[h]
      /\ UNCHANGED <<deployment, task, walk, calls>> /\ Quiet' = Quiet
      /\ row'.flow = row.flow /\ row'.intent = row.intent
  BY DEF Failing, Quiet
<1>2. Kept /\ Repeatable'
  BY <1>1 DEF Kept, Held, Resolved, TInv, TypeOK, RepeatedInv, Repeatable, InMemory, InTurn, Overlap,
     Backend, Faults, ProcessOf
<1>3. ~Locked(x) /\ Outside(x)
  BY FreeTypes, DownTypes DEF Failing, Locked, Outside, Apart, Moving
<1>4. RowInv'
  BY <1>2, RowKept DEF RepeatedInv
<1>5. ASSUME NEW h \in Handlers PROVE Placed(handler[h])'
  <2>1. PICK y : y = handler'[h] /\ (y = x \/ Placed(y))
    BY <1>1 DEF RepeatedInv
  <2>2. Inside(y) => Inside(y)'
    BY <1>2, InsideKept DEF RepeatedInv
  <2>3. Storing(y) => Storing(y)'
    BY <1>1 DEF Storing, Apart, Fresh, InTurn, Overlap
  <2>4. Placed(y)'
    BY <1>3, <2>1, <2>2, <2>3 DEF Placed
  <2> QED  BY <2>1, <2>4
<1> QED  BY <1>2, <1>4, <1>5 DEF RepeatedInv

LEMMA RepeatedStep == TInv /\ TInv' /\ SoleInv /\ RepeatedInv /\ [Next]_vars => RepeatedInv'
<1> SUFFICES ASSUME TInv, TInv', SoleInv, RepeatedInv, [Next]_vars
             PROVE  RepeatedInv'
  OBVIOUS
<1>1. CASE UNCHANGED vars
  <2>1. Kept /\ Repeatable' /\ UNCHANGED <<deployment, row, handler>>
    BY <1>1, NothingHappens DEF vars, history, RepeatedInv, Repeatable, InMemory, InTurn, Overlap,
       Backend, Faults, ProcessOf
  <2>2. RowInv'
    BY <2>1, RowKept DEF RepeatedInv
  <2>3. ASSUME NEW h \in Handlers
        PROVE  Placed(handler[h])'
    <3>1. PICK x : x = handler[h] /\ x = handler'[h] /\ Placed(x)
      BY <2>1 DEF RepeatedInv
    <3>2. Inside(x) => Inside(x)'
      BY <2>1, InsideKept DEF RepeatedInv
    <3>3. Storing(x) => Storing(x)'
      BY <2>1 DEF Storing, Apart, Fresh, InTurn, Overlap, Quiet
    <3>4. Placed(x)'
      BY <3>1, <3>2, <3>3 DEF Placed
    <3> QED  BY <3>1, <3>4
  <2> QED  BY <2>1, <2>2, <2>3 DEF RepeatedInv
<1>2. ASSUME NEW h \in Handlers, UNCHANGED deployment,
             \/ Run(h) \/ Cancel(h) \/ ReportUsage(h) \/ SkillChanged(h)
             \/ \E t \in Tasks, r \in Resolution : Resolve(h, t, r)
             \/ Proceed(h)
      PROVE  RepeatedInv'
  <2>1. CASE SettleGuard(h) \/ Check(h) \/ Load(h) \/ Store(h)
    BY <1>2, <2>1, MovingRepeated
  <2>2. CASE Run(h) \/ Cancel(h) \/ ReportUsage(h)
    BY <1>2, <2>2, RequestRepeated
  <2>3. CASE SkillChanged(h)
    BY <1>2, <2>3, SkillChangedRepeated
  <2>4. CASE \E t \in Tasks, r \in Resolution : Resolve(h, t, r)
    BY <1>2, <2>4, ResolveRepeated
  <2>5. CASE Enqueue(h)
    BY <1>2, <2>5, EnqueueRepeated
  <2>6. CASE Release(h)
    BY <1>2, <2>6, ReleaseRepeated
  <2>7. CASE BeginRun(h)
    BY <1>2, <2>7, BeginRunRepeated
  <2>8. CASE Reconcile(h)
    BY <1>2, <2>8, ReconcileRepeated
  <2>9. CASE Step(h)
    BY <1>2, <2>9, StepRepeated
  <2>10. CASE PerformTaskOrGate(h)
    BY <1>2, <2>10, PerformTaskOrGateRepeated
  <2>11. CASE PerformCommand(h)
    BY <1>2, <2>11, PerformCommandRepeated
  <2>12. CASE PerformReview(h)
    BY <1>2, <2>12, PerformReviewRepeated
  <2>13. CASE Classify(h)
    BY <1>2, <2>13, ClassifyRepeated
  <2>14. CASE Pause(h)
    BY <1>2, <2>14, PauseRepeated
  <2>15. CASE PerformStopOrEnd(h)
    BY <1>2, <2>15, PerformStopOrEndRepeated
  <2>16. CASE TakeRoute(h)
    BY <1>2, <2>16, TakeRouteRepeated
  <2>17. CASE Reload(h)
    BY <1>2, <2>17, ReloadRepeated
  <2>18. CASE BeginResume(h)
    BY <1>2, <2>18, BeginResumeRepeated
  <2>19. CASE ResumeBound(h)
    BY <1>2, <2>19, ResumeBoundRepeated
  <2>20. CASE SettleUnresumable(h)
    BY <1>2, <2>20, SettleUnresumableRepeated
  <2>21. CASE ReadApproved(h)
    BY <1>2, <2>21, ReadApprovedRepeated
  <2>22. CASE Execute(h)
    BY <1>2, <2>22, ExecuteRepeated
  <2>23. CASE Wake(h)
    BY <1>2, <2>23, WakeRepeated
  <2>24. CASE ResumeInto(h)
    BY <1>2, <2>24, ResumeIntoRepeated
  <2>25. CASE ExitWaiting(h)
    BY <1>2, <2>25, ExitWaitingRepeated
  <2> QED  BY <1>2, <2>1, <2>2, <2>3, <2>4, <2>5, <2>6, <2>7, <2>8, <2>9, <2>10, <2>11, <2>12,
              <2>13, <2>14, <2>15, <2>16, <2>17, <2>18, <2>19, <2>20, <2>21, <2>22, <2>23, <2>24,
              <2>25 DEF Proceed
<1>3. ASSUME NEW p \in Processes, Crash(p) \/ Restart(p), UNCHANGED deployment
      PROVE  RepeatedInv'
  BY <1>3, ProcessFails, FailingRepeated
<1> QED  BY <1>1, <1>2, <1>3 DEF Next

LEMMA RepeatedInit == Init /\ Repeatable => SoleInv /\ RepeatedInv
<1> SUFFICES ASSUME Init, Repeatable
             PROVE  SoleInv /\ RepeatedInv
  OBVIOUS
<1>1. \A h \in Handlers : ~Locked(handler[h]) /\ Outside(handler[h])
  BY FreeTypes DEF Init, Locked, Outside, Apart, Moving
<1>2. row = FirstRow /\ row.flow = FirstFlow /\ Step0 = 0 /\ Node0 = Start /\ Quiet
      /\ row.flow.step = "pending"
  BY FreeTypes DEF Init, Step0, Node0, Quiet
<1>3. \A k : Promise!Asked(k) = {}
  BY DEF Init, Promise!Asked
<1>4. Clean(Step0) /\ Promise!Follows(Step0, Node0)
  BY <1>2, <1>3 DEF Clean, Init, Promise!Follows
<1>5. \A k \in StepNumbers : ~(Len(calls[k]) > 1)
  BY DEF Init
<1>6. SoleInv
  BY FreeTypes DEF Init, SoleInv, Active, Inactive
<1> QED  BY <1>1, <1>2, <1>4, <1>5, <1>6 DEF RepeatedInv, Placed, RowInv

-------------------------------------------------------------------------------
(* How often the command of a step is executed that was put to people: once  *)
(* for the answer they gave, and once for each run that had not got to a     *)
(* step yet when the flow began.                                             *)
MayCall(s, t) ==
  \/ s.next = "run?" \/ s.pc \in {"run?", "run", "reconcile"}
  \/ s.pc = "step" /\ ~Walked
  \/ /\ s.task = t
     /\ s.next = "resume" \/ s.pc \in {"resume?", "resume", "bound", "approved", "execute"}

Callers(t) == {h \in Handlers : MayCall(handler[h], t)}
Unresolved(t) == task[t].state \in {"absent", "open"}
WaitsFor(t) == row.flow.step = "waiting" /\ row.flow.task = t
Made(t) == IF WaitsFor(t) THEN Len(calls[Step0]) ELSE 0
OneIf(b) == IF b THEN 1 ELSE 0

CountInv ==
  /\ \A t \in Tasks :
       Made(t) + Cardinality(Callers(t)) + OneIf(Unresolved(t)) <= runs + OneIf(~Walked)
  /\ \A k \in StepNumbers : Len(calls[k]) > 1 => Len(calls[k]) <= runs

LEMMA CountTypes ==
  ASSUME TInv, NEW t \in Tasks
  PROVE  /\ IsFiniteSet(Callers(t)) /\ Cardinality(Callers(t)) \in Nat
         /\ runs \in Nat /\ Made(t) \in Nat
         /\ \A k \in StepNumbers : Len(calls[k]) \in Nat
<1>1. IsFiniteSet(Callers(t)) /\ Cardinality(Callers(t)) \in Nat
  BY ServerAssumption, FS_Subset, FS_CardinalityType DEF ServerAssumption, Callers
<1>2. runs \in Nat /\ \A k \in StepNumbers : Len(calls[k]) \in Nat
  BY DEF TInv, TypeOK
<1>3. WaitsFor(t) => Step0 \in StepNumbers
  <2>1. row.flow \in Flows /\ FlowOK(row.flow)
    BY DEF TInv, TypeOK, Rows
  <2> QED  BY <2>1, FlowAssumption DEF FlowAssumption, WaitsFor, FlowOK, Flows, Step0, StepNumbers
<1> QED  BY <1>1, <1>2, <1>3 DEF Made

(* The calls of the others do not change.                                    *)
LEMMA CallersKept ==
  ASSUME TInv, NEW h \in Handlers, NEW c, Become(h, c), Walked => Walked',
         NEW t, MayCall(c, t)' => MayCall(handler[h], t)
  PROVE  Callers(t)' \subseteq Callers(t)
<1>1. handler'[h] = c /\ \A g \in Handlers : g # h => handler'[g] = handler[g]
  BY DEF Become, TInv, TypeOK
<1>2. ASSUME NEW g \in Handlers, MayCall(handler[g], t)' PROVE MayCall(handler[g], t)
  BY <1>1, <1>2 DEF MayCall
<1> QED  BY <1>2 DEF Callers

LEMMA CallerLeaves ==
  ASSUME TInv, NEW h \in Handlers, NEW c, Become(h, c), Walked => Walked',
         NEW t \in Tasks, MayCall(handler[h], t), ~MayCall(c, t)'
  PROVE  /\ IsFiniteSet(Callers(t)') /\ Cardinality(Callers(t)') \in Nat
         /\ Cardinality(Callers(t)') + 1 <= Cardinality(Callers(t))
<1>1. handler'[h] = c
  BY DEF Become, TInv, TypeOK
<1>2. h \in Callers(t) /\ h \notin Callers(t)'
  BY <1>1 DEF Callers, MayCall
<1>3. Callers(t)' \subseteq Callers(t) \ {h}
  BY <1>2, CallersKept
<1>4. /\ IsFiniteSet(Callers(t) \ {h})
      /\ Cardinality(Callers(t) \ {h}) = Cardinality(Callers(t)) - 1
  BY <1>2, CountTypes, FS_RemoveElement
<1>5. /\ IsFiniteSet(Callers(t)') /\ Cardinality(Callers(t)') \in Nat
      /\ Cardinality(Callers(t)') <= Cardinality(Callers(t) \ {h})
  BY <1>3, <1>4, FS_Subset, FS_CardinalityType
<1> QED  BY <1>4, <1>5, CountTypes

LEMMA CallerJoins ==
  ASSUME TInv, NEW h \in Handlers, NEW c, Become(h, c), Walked' = Walked, NEW t \in Tasks
  PROVE  /\ Cardinality(Callers(t)') \in Nat
         /\ Cardinality(Callers(t)') <= Cardinality(Callers(t)) + 1
<1>1. Callers(t)' \subseteq Callers(t) \cup {h}
  <2>1. \A g \in Handlers : g # h => handler'[g] = handler[g]
    BY DEF Become, TInv, TypeOK
  <2>2. ASSUME NEW g \in Handlers, g # h, MayCall(handler[g], t)' PROVE MayCall(handler[g], t)
    BY <2>1, <2>2 DEF MayCall
  <2> QED  BY <2>2 DEF Callers
<1>2. /\ IsFiniteSet(Callers(t) \cup {h})
      /\ Cardinality(Callers(t) \cup {h}) <= Cardinality(Callers(t)) + 1
  <2>1. IsFiniteSet(Callers(t)) /\ Cardinality(Callers(t)) \in Nat
    BY CountTypes
  <2>2. /\ IsFiniteSet(Callers(t) \cup {h})
        /\ Cardinality(Callers(t) \cup {h}) \in
             {Cardinality(Callers(t)), Cardinality(Callers(t)) + 1}
    BY <2>1, FS_AddElement
  <2> QED  BY <2>1, <2>2
<1>3. /\ Cardinality(Callers(t)') \in Nat /\ Cardinality(Callers(t) \cup {h}) \in Nat
      /\ Cardinality(Callers(t)') <= Cardinality(Callers(t) \cup {h})
  BY <1>1, <1>2, FS_Subset, FS_CardinalityType
<1> QED  BY <1>2, <1>3, CountTypes

(* Steps that call nothing, visit nothing and let nobody in.                 *)
Steady ==
  /\ UNCHANGED <<runs, walk, calls>>
  /\ \A t \in Tasks :
       /\ Unresolved(t)' => Unresolved(t)
       /\ WaitsFor(t)' => (WaitsFor(t) /\ Step0' = Step0) \/ calls[Step0'] = <<>>

LEMMA SteadyCounts ==
  ASSUME TInv, CountInv, Steady, \A t \in Tasks : Callers(t)' \subseteq Callers(t)
  PROVE  CountInv'
<1>1. Walked' = Walked
  BY DEF Steady, Walked
<1>2. ASSUME NEW t \in Tasks
      PROVE  (Made(t) + Cardinality(Callers(t)) + OneIf(Unresolved(t)) <= runs + OneIf(~Walked))'
  <2>1. /\ Cardinality(Callers(t)) \in Nat /\ Cardinality(Callers(t)') \in Nat
        /\ Cardinality(Callers(t)') <= Cardinality(Callers(t))
    BY CountTypes, FS_Subset, FS_CardinalityType
  <2>2. Made(t) \in Nat /\ (Made(t)' = Made(t) \/ Made(t)' = 0)
    <3>1. Len(<<>>) = 0
      OBVIOUS
    <3> QED  BY <3>1, CountTypes DEF Made, Steady
  <2>3. OneIf(Unresolved(t)) \in {0, 1} /\ OneIf(Unresolved(t)') \in {0, 1}
        /\ OneIf(Unresolved(t)') <= OneIf(Unresolved(t))
    BY DEF OneIf, Steady
  <2>4. runs' = runs /\ runs \in Nat /\ OneIf(~Walked') = OneIf(~Walked) /\ OneIf(~Walked) \in {0, 1}
    BY <1>1, CountTypes DEF OneIf, Steady
  <2>5. Made(t) + Cardinality(Callers(t)) + OneIf(Unresolved(t)) <= runs + OneIf(~Walked)
    BY DEF CountInv
  <2>6. Made(t)' + Cardinality(Callers(t)') + OneIf(Unresolved(t)') <= runs' + OneIf(~Walked')
    BY <2>1, <2>2, <2>3, <2>4, <2>5
  <2> QED  BY <2>6 DEF OneIf
<1> QED  BY <1>2 DEF CountInv, Steady

(* What a call becomes from which nothing is called for now.                 *)
Calm(c) ==
  /\ c.next \notin {"run?", "resume"}
  /\ c.pc \notin {"run?", "run", "reconcile", "step", "resume?", "resume", "bound", "approved",
                  "execute"}

Calmer(h) ==
  \E c : Become(h, c) /\ \A t \in Tasks : MayCall(c, t)' => MayCall(handler[h], t)

LEMMA CalmCounts ==
  ASSUME TInv, CountInv, Steady, NEW h \in Handlers, Calmer(h)
  PROVE  CountInv'
<1>1. PICK c : Become(h, c) /\ \A t \in Tasks : MayCall(c, t)' => MayCall(handler[h], t)
  BY DEF Calmer
<1>2. Walked' = Walked
  BY DEF Steady, Walked
<1>3. \A t \in Tasks : Callers(t)' \subseteq Callers(t)
  BY <1>1, <1>2, CallersKept
<1> QED  BY <1>3, SteadyCounts

LEMMA CalmIsCalmer ==
  ASSUME NEW h, NEW c, Become(h, c), Calm(c)
  PROVE  Calmer(h)
BY DEF Calm, Calmer, MayCall

LEMMA RowSteady ==
  ASSUME UNCHANGED <<task, runs, history>>, row'.flow = row.flow \/ row'.flow.step # "waiting"
  PROVE  Steady
BY DEF Steady, Unresolved, WaitsFor, Step0, history

LEMMA CalmTypes ==
  ASSUME NEW s \in Calls
  PROVE  /\ Calm(Free) /\ Calm(FailWorkflow(s)) /\ Calm(Throw(s))
         /\ \A p \in {"perform", "pause", "next", "route", "reload", "unresumable", "wake", "into",
                      "failing", "release", "thrown"} : Calm(Go(s, p))
         /\ \A to \in Status, n \in {"idle", "release", "into", "route", "next", "fail", "orFail"} :
              Calm(Settle(s, to, n)) /\ Calm(Transit(s, to, n))
<1>1. {"perform", "pause", "next", "route", "reload", "unresumable", "wake", "into",
       "failing", "release", "thrown", "idle"} \subseteq Places
  BY DEF Places
<1>2. \A p \in {"perform", "pause", "next", "route", "reload", "unresumable", "wake", "into",
                "failing", "release", "thrown"} : Calm(Go(s, p))
  <2>1. \A p \in Places : Go(s, p).pc = p /\ Go(s, p).next = "idle"
    BY GoTypes
  <2> QED  BY <1>1, <2>1 DEF Calm
<1>3. ASSUME NEW to \in Status,
             NEW n \in {"idle", "release", "into", "route", "next", "fail", "orFail"}
      PROVE  Calm(Settle(s, to, n)) /\ Calm(Transit(s, to, n))
  <2>1. to \in Status \cup {"usage", "intent"} /\ n \in Places \cup {"fail", "orFail"}
    BY <1>1
  <2>2. LET c == Settle(s, to, n) IN c.pc = "settle" /\ c.next = n
    BY <2>1, SettleTypes
  <2>3. LET c == Transit(s, to, n) IN c.pc = "check" /\ c.next = n
    BY <2>1, TransitTypes
  <2> QED  BY <2>2, <2>3 DEF Calm
<1>4. Calm(Free)
  BY FreeTypes DEF Calm
<1>5. Calm(Throw(s)) /\ Calm(FailWorkflow(s))
  <2>1. Calm(Go(s, "thrown")) /\ Calm(Go(s, "release")) /\ Calm(Go(s, "failing"))
    BY <1>2
  <2>2. Throw(s) \in {Go(s, "thrown"), Go(s, "release"), Free} /\ FailWorkflow(s) = Go(s, "failing")
    BY DEF Throw, FailWorkflow
  <2> QED  BY <1>4, <2>1, <2>2
<1> QED  BY <1>2, <1>3, <1>4, <1>5

LEMMA ContinueCalls ==
  ASSUME NEW s \in Calls, Locals(s), UNCHANGED walk
  PROVE  \A t \in Tasks : MayCall(Continue(s), t)' => MayCall(s, t)
<1>1. /\ {"run?", "resume", "release", "into", "route", "next", "classify"} \subseteq Places
      /\ {"failed", "running"} \subseteq Status
  BY DEF Places, Status, Terminal
<1>2. CASE s.next \in {"idle", "fail", "orFail"}
  <2>1. Calm(Continue(s))
    BY <1>1, <1>2, ContinueTypes, CalmTypes
  <2> QED  BY <2>1 DEF Calm, MayCall
<1>3. CASE s.next \notin {"idle", "fail", "orFail"}
  <2> DEFINE c == Continue(s)
  <2>1. s.next \in {"run?", "resume", "release", "into", "route", "next", "classify"}
    BY <1>3 DEF Locals
  <2>2. /\ c.task = s.task
        /\ (c.pc = "check" /\ c.next = s.next) \/ (c.pc = s.next /\ c.next = "idle")
    <3>1. CASE s.to = "resuming"
      <4>1. c = Transit(s, "running", s.next)
        BY <1>3, <3>1, ContinueTypes
      <4>2. "running" \in Status /\ s.next \in Places
        BY <1>1, <2>1
      <4>3. LET d == Transit(s, "running", s.next) IN
            d.pc = "check" /\ d.next = s.next /\ d.task = s.task
        BY <4>2, TransitTypes
      <4> QED  BY <4>1, <4>3
    <3>2. CASE s.to # "resuming"
      <4>1. c = Go(s, s.next)
        BY <1>3, <3>2, ContinueTypes
      <4>2. s.next \in Places
        BY <1>1, <2>1
      <4>3. LET d == Go(s, s.next) IN d.pc = s.next /\ d.next = "idle" /\ d.task = s.task
        BY <4>2, GoTypes
      <4> QED  BY <4>1, <4>3
    <3> QED  BY <3>1, <3>2
  <2> HIDE DEF c
  <2>3. \A t \in Tasks : MayCall(c, t)' => MayCall(s, t)
    BY <2>1, <2>2 DEF MayCall
  <2> QED  BY <2>3 DEF c
<1> QED  BY <1>2, <1>3

LEMMA CalmStepsCount ==
  ASSUME TInv, CountInv, NEW h \in Handlers,
         \/ Cancel(h) \/ ReportUsage(h) \/ SkillChanged(h) \/ Release(h) \/ PerformTaskOrGate(h)
         \/ PerformCommand(h) \/ SettleUnresumable(h) \/ Wake(h) \/ ResumeInto(h) \/ ExitWaiting(h)
  PROVE  CountInv'
<1> DEFINE s == handler[h]
<1>1. s \in Calls /\ Locals(s) /\ Tasked(s)
  BY HandlerTypes
<1>2. {"cancelled", "failed", "running", "resuming", "expired"} \subseteq Status
      /\ {"load", "classify", "next", "wake", "route"} \subseteq Places
  BY DEF Status, Terminal, Places
<1>3. ASSUME NEW p \in Places
      PROVE  Go(s, p) \in Calls /\ Go(s, p).pc = p /\ Go(s, p).next = "idle"
  BY <1>1, GoTypes
<1>4. PICK c : Become(h, c) /\ Calm(c)
  <2>1. CASE Cancel(h)
    BY <1>2, <2>1, FreeTypes, CalmTypes DEF Cancel
  <2>2. CASE ReportUsage(h)
    <3>1. Calm([Free EXCEPT !.pc = "load", !.to = "usage"])
      BY FreeTypes DEF Calm, Calls
    <3> QED  BY <2>2, <3>1 DEF ReportUsage
  <2>3. CASE SkillChanged(h)
    BY <1>1, <2>3, CalmTypes DEF SkillChanged
  <2>4. CASE Release(h)
    BY <1>2, <2>4, FreeTypes, CalmTypes DEF Release
  <2>5. CASE PerformTaskOrGate(h)
    <3>1. PICK o \in Outcomes : Become(h, Finished(s, o))
      BY <2>5 DEF PerformTaskOrGate, Outcomes
    <3> DEFINE g == Go(s, "next")
    <3>2. g \in Calls /\ g.pc = "next" /\ g.next = "idle" /\ Finished(s, o) = [g EXCEPT !.outcome = o]
      BY <1>2, <1>3 DEF Finished
    <3> HIDE DEF g
    <3>3. Calm([g EXCEPT !.outcome = o])
      BY <3>2 DEF Calm, Calls
    <3> QED  BY <3>1, <3>2, <3>3
  <2>6. CASE PerformCommand(h)
    <3> DEFINE g == Go(s, "load")
    <3>1. g \in Calls /\ g.pc = "load" /\ Become(h, [g EXCEPT !.to = "intent", !.next = "classify"])
      BY <1>2, <1>3, <2>6 DEF PerformCommand
    <3> HIDE DEF g
    <3>2. Calm([g EXCEPT !.to = "intent", !.next = "classify"])
      BY <3>1 DEF Calm, Calls
    <3> QED  BY <3>1, <3>2
  <2>7. CASE SettleUnresumable(h)
    <3>1. task[s.task].state \in Status
      BY <1>1, <1>2, <2>7 DEF SettleUnresumable, At, Tasked
    <3> QED  BY <1>1, <2>7, <3>1, CalmTypes DEF SettleUnresumable
  <2>8. CASE Wake(h)
    <3>1. s.next \in {"next", "into", "route"}
      BY <1>1, <2>8 DEF Wake, At, Locals
    <3>2. Calm(Go(s, s.next)) /\ Calm(Go(s, "release")) /\ Calm(Transit(s, "resuming", s.next))
      BY <1>1, <1>2, <3>1, CalmTypes
    <3>3. \/ Become(h, Go(s, s.next)) \/ Become(h, Go(s, "release"))
          \/ Become(h, Transit(s, "resuming", s.next))
      BY <2>8 DEF Wake
    <3> QED  BY <3>2, <3>3
  <2>9. CASE ResumeInto(h)
    <3> DEFINE g == Go(s, "wake")
               v == row.version
    <3>1. g \in Calls /\ g.pc = "wake" /\ Become(h, [g EXCEPT !.next = "route", !.version = v])
      BY <1>2, <1>3, <2>9 DEF ResumeInto
    <3> HIDE DEF g, v
    <3>2. Calm([g EXCEPT !.next = "route", !.version = v])
      BY <3>1 DEF Calm, Calls
    <3> QED  BY <3>1, <3>2
  <2>10. CASE ExitWaiting(h)
    <3>1. Calm(Transit(s, "resuming", "fail")) /\ Calm(Settle(s, "failed", "release"))
      BY <1>1, <1>2, CalmTypes
    <3> QED  BY <2>10, <3>1 DEF ExitWaiting
  <2> QED  BY <2>1, <2>2, <2>3, <2>4, <2>5, <2>6, <2>7, <2>8, <2>9, <2>10
<1>5. UNCHANGED <<row, task, runs, history>>
  BY DEF Cancel, ReportUsage, SkillChanged, Release, PerformTaskOrGate, PerformCommand,
     SettleUnresumable, Wake, ResumeInto, ExitWaiting
<1> QED  BY <1>4, <1>5, RowSteady, CalmIsCalmer, CalmCounts

(* Waiting for the lock, and on the way from it to the command.              *)
LEMMA CallersCount ==
  ASSUME TInv, SoleInv, RepeatedInv, CountInv, NEW h \in Handlers,
         \/ Enqueue(h) \/ BeginRun(h) \/ Reconcile(h) \/ BeginResume(h) \/ ResumeBound(h)
         \/ ReadApproved(h) \/ SettleGuard(h) \/ Check(h) \/ Reload(h)
  PROVE  CountInv'
<1> DEFINE s == handler[h]
<1>1. s \in Calls /\ Locals(s)
  BY HandlerTypes
<1>2. UNCHANGED <<row, task, runs, history>> /\ Walked' = Walked
  BY DEF Enqueue, BeginRun, Reconcile, BeginResume, ResumeBound, ReadApproved, SettleGuard, Check,
     Reload, history, Walked
<1>3. {"bound", "release", "approved", "into", "unresumable", "execute", "settle", "load", "check",
       "step"} \subseteq Places /\ "failed" \in Status
  BY DEF Places, Status, Terminal
<1>4. \A p \in Places :
        Go(s, p) \in Calls /\ Go(s, p).pc = p /\ Go(s, p).next = "idle" /\ Go(s, p).task = s.task
  BY <1>1, GoTypes
<1>5. Calmer(h)
  <2>1. CASE Enqueue(h)
    <3>1. s.pc \in {"run?", "resume?"} /\ s.next = "idle"
      BY <1>1, <2>1 DEF Enqueue, At, Locals, Moving
    <3>2. PICK p \in {<<"run", "run">>, <<"resume", "resume">>} :
            /\ Become(h, [s EXCEPT !.pc = p[1], !.job = p[2]])
            /\ p[1] = "run" <=> s.pc = "run?"
      BY <2>1, <3>1 DEF Enqueue, At
    <3> DEFINE d == [s EXCEPT !.pc = p[1], !.job = p[2]]
    <3>3. d.pc = p[1] /\ d.next = "idle" /\ d.task = s.task
      BY <1>1, <3>1 DEF Calls
    <3>4. Become(h, d)
      BY <3>2
    <3> HIDE DEF d
    <3>5. PICK c : Become(h, c) /\ c.pc = p[1] /\ c.next = "idle" /\ c.task = s.task
      BY <3>3, <3>4
    <3>6. \A t \in Tasks : MayCall(c, t)' => MayCall(s, t)
      BY <3>1, <3>2, <3>5 DEF MayCall
    <3> QED  BY <3>5, <3>6 DEF Calmer
  <2>2. CASE BeginRun(h) \/ Reconcile(h)
    <3>1. \E c : Become(h, c)
      BY <2>2 DEF BeginRun, Reconcile
    <3>2. \A t : MayCall(s, t)
      BY <2>2 DEF BeginRun, Reconcile, At, MayCall
    <3> QED  BY <3>1, <3>2 DEF Calmer
  <2>3. ASSUME NEW c, Become(h, c), c.task = s.task, c.next = "idle",
               c.pc \in {"bound", "approved", "execute"},
               s.pc \in {"resume", "bound", "approved"}
        PROVE  Calmer(h)
    BY <2>3 DEF Calmer, MayCall
  <2>4. CASE BeginResume(h)
    <3> DEFINE g == Go(s, "bound")
    <3>1. g \in Calls /\ g.pc = "bound" /\ g.next = "idle" /\ g.task = s.task
      BY <1>3, <1>4
    <3>2. Calm(Go(s, "release"))
      BY <1>1, CalmTypes
    <3>3. Become(h, [g EXCEPT !.flow = row.flow]) \/ Become(h, Go(s, "release"))
      BY <2>4 DEF BeginResume
    <3> DEFINE c == [g EXCEPT !.flow = row.flow]
    <3> HIDE DEF g
    <3>4. c.pc = "bound" /\ c.next = "idle" /\ c.task = s.task
      BY <3>1 DEF Calls
    <3>5. s.pc = "resume"
      BY <2>4 DEF BeginResume, At
    <3> HIDE DEF c
    <3> QED  BY <2>3, <3>2, <3>3, <3>4, <3>5, CalmIsCalmer DEF c
  <2>5. CASE ResumeBound(h)
    <3> DEFINE g == Go(s, "into")
    <3>1. g \in Calls /\ g.pc = "into" /\ g.next = "idle"
      BY <1>3, <1>4
    <3>2. PICK o \in {"approve", "reject", "fail"} :
            \/ Become(h, [g EXCEPT !.outcome = o]) \/ Become(h, Go(s, "approved"))
            \/ Become(h, Go(s, "unresumable"))
      BY <2>5 DEF ResumeBound
    <3> HIDE DEF g
    <3>3. Calm([g EXCEPT !.outcome = o]) /\ Calm(Go(s, "unresumable"))
      BY <1>1, <3>1, CalmTypes DEF Calm, Calls
    <3>4. s.pc = "bound"
      BY <2>5 DEF ResumeBound, At
    <3> QED  BY <1>3, <1>4, <2>3, <3>2, <3>3, <3>4, CalmIsCalmer
  <2>6. CASE ReadApproved(h)
    <3> DEFINE r == [s EXCEPT !.outcome = "fail"]
               g == Go(r, "execute")
               i == row.intent
               c == [g EXCEPT !.seen.intent = i]
    <3>1. r \in Calls /\ r.task = s.task
      BY <1>1 DEF Calls, Outcomes
    <3>2. s.pc = "approved" /\ (Become(h, Settle(r, "failed", "into")) \/ Become(h, c))
      BY <2>6 DEF ReadApproved, At
    <3> HIDE DEF r
    <3>3. g \in Calls /\ g.pc = "execute" /\ g.next = "idle" /\ g.task = s.task
      BY <1>3, <3>1, GoTypes
    <3> HIDE DEF g, i
    <3>4. c.pc = "execute" /\ c.next = "idle" /\ c.task = s.task
      BY <3>3 DEF Calls
    <3> HIDE DEF c
    <3>5. Calm(Settle(r, "failed", "into"))
      BY <1>3, <3>1, CalmTypes
    <3> QED  BY <2>3, <3>2, <3>4, <3>5, CalmIsCalmer
  <2>7. ASSUME NEW p \in {"check", "load"}, Become(h, [s EXCEPT !.pc = p])
        PROVE  Calmer(h)
    <3> DEFINE d == [s EXCEPT !.pc = p]
    <3>1. d.pc = p /\ d.next = s.next /\ d.task = s.task /\ Become(h, d)
      BY <1>1, <2>7 DEF Calls
    <3> HIDE DEF d
    <3>2. PICK c : Become(h, c) /\ c.pc = p /\ c.next = s.next /\ c.task = s.task
      BY <3>1
    <3>3. \A t \in Tasks : MayCall(c, t)' => MayCall(s, t)
      BY <3>2 DEF MayCall
    <3> QED  BY <3>2, <3>3 DEF Calmer
  <2>8. CASE SettleGuard(h)
    <3>1. Become(h, Continue(s)) => Calmer(h)
      BY <1>1, <1>2, ContinueCalls DEF Calmer, history
    <3>2. Become(h, Continue(s)) \/ Become(h, [s EXCEPT !.pc = "check"])
      BY <2>8 DEF SettleGuard
    <3> QED  BY <2>7, <3>1, <3>2
  <2>9. CASE Check(h)
    <3>1. Calm(Throw(s)) /\ Calm(Settle(s, "failed", "release"))
      BY <1>1, <1>3, CalmTypes
    <3>2. \/ Become(h, [s EXCEPT !.pc = "load"]) \/ Become(h, Settle(s, "failed", "release"))
          \/ Become(h, Throw(s))
      BY <2>9 DEF Check
    <3> QED  BY <2>7, <3>1, <3>2, CalmIsCalmer
  <2>10. CASE Reload(h)
    <3>1. s.pc = "reload"
      BY <2>10 DEF Reload, At
    <3>2. Walked
      BY <3>1, HolderKnows DEF Inside, Moving
    <3>3. PICK c : Become(h, c) /\ c.pc = "step" /\ c.next = "idle"
      BY <1>3, <1>4, <2>10 DEF Reload
    <3>4. \A t \in Tasks : ~MayCall(c, t)'
      BY <1>2, <3>2, <3>3 DEF MayCall
    <3> QED  BY <3>3, <3>4 DEF Calmer
  <2> QED  BY <2>1, <2>2, <2>4, <2>5, <2>6, <2>8, <2>9, <2>10
<1> QED  BY <1>2, <1>5, RowSteady, CalmCounts

LEMMA RowWritesCount ==
  ASSUME TInv, SoleInv, RepeatedInv, CountInv, NEW h \in Handlers, Load(h) \/ Store(h)
  PROVE  CountInv'
<1> DEFINE s == handler[h]
<1>1. s \in Calls /\ Locals(s) /\ row \in Rows /\ UNCHANGED <<task, runs, history>> /\ UNCHANGED walk
  BY HandlerTypes DEF Load, Store, history, TInv, TypeOK
<1>2. \A r \in Rows : Merged(s, r).flow = r.flow /\ Upserted(Merged(s, r)).flow = r.flow
  <2>1. ASSUME NEW r \in Rows
        PROVE  Merged(s, r).flow = r.flow /\ Upserted(Merged(s, r)).flow = r.flow
    <3>1. PICK m : m = Merged(s, r)
      OBVIOUS
    <3>2. \/ m = r \/ m = [r EXCEPT !.intent = s.flow.current] \/ m = [r EXCEPT !.status = s.to]
      BY <3>1 DEF Merged
    <3>3. m.flow = r.flow /\ [m EXCEPT !.version = row.version].flow = r.flow
      BY <2>1, <3>2 DEF Rows
    <3> QED  BY <3>1, <3>3 DEF Upserted
  <2> QED  BY <2>1
<1>3. row'.flow = row.flow
  <2>1. CASE Load(h)
    BY <1>1, <1>2, <2>1 DEF Load
  <2>2. CASE Store(h)
    <3>1. s.pc = "store" /\ row' = Upserted(Merged(s, s.seen))
      BY <2>2 DEF Store, At
    <3>2. s.seen \in Rows /\ s.seen.flow = row.flow
      BY <1>1, <3>1 DEF RepeatedInv, Placed, Inside, Outside, Storing, Fresh, Calls
    <3> QED  BY <1>2, <3>1, <3>2
  <2> QED  BY <2>1, <2>2
<1>4. CASE Become(h, Continue(s))
  BY <1>1, <1>3, <1>4, ContinueCalls, RowSteady, CalmCounts DEF Calmer
<1>5. CASE s.pc = "load" /\ Become(h, [s EXCEPT !.pc = "store", !.seen = row])
  <2> DEFINE d == [s EXCEPT !.pc = "store", !.seen = row]
  <2>1. d.pc = "store" /\ d.next = s.next /\ d.task = s.task /\ Become(h, d)
    BY <1>1, <1>5 DEF Calls
  <2> HIDE DEF d
  <2>2. PICK c : Become(h, c) /\ c.pc = "store" /\ c.next = s.next /\ c.task = s.task
    BY <2>1
  <2>3. \A t \in Tasks : MayCall(c, t)' => MayCall(s, t)
    BY <2>2 DEF MayCall
  <2> QED  BY <1>1, <1>3, <2>2, <2>3, RowSteady, CalmCounts DEF Calmer
<1> QED  BY <1>4, <1>5 DEF Load, Store, At

(* Where a write of the flow enters the wait, the command of the step has    *)
(* not been executed yet.                                                    *)
LEMMA FlowWritesCount ==
  ASSUME TInv, SoleInv, RepeatedInv, CountInv, NEW h \in Handlers,
         Pause(h) \/ PerformStopOrEnd(h) \/ TakeRoute(h)
  PROVE  CountInv'
<1> DEFINE s == handler[h]
<1>1. s \in Calls /\ Locals(s) /\ row \in Rows /\ Inside(s) /\ UNCHANGED <<task, runs, history>>
  <2>1. s.pc \in {"pause", "perform", "next", "route"}
    BY DEF Pause, PauseFlowFirst, PerformStopOrEnd, Performs, TakeRoute, At
  <2> QED  BY <2>1, HolderKnows DEF Pause, PerformStopOrEnd, TakeRoute, Moving, TInv, TypeOK
<1>2. {"failed", "completed", "waiting_for_approval"} \subseteq Status
      /\ {"step", "reload"} \subseteq Places
  BY DEF Status, Terminal, Waiting, Places
<1>3. ASSUME NEW f, NEW then \in Calls, WriteFlow(h, f, then)
      PROVE  \/ Become(h, Go(s, "release")) /\ UNCHANGED row
             \/ /\ row'.flow = f
                /\ \E c : Become(h, c) /\ c.pc = then.pc /\ c.next = then.next /\ c.task = then.task
  <2> DEFINE v == row.version + 1
             d == [then EXCEPT !.flow = f, !.version = v]
  <2>1. d.pc = then.pc /\ d.next = then.next /\ d.task = then.task
    BY DEF Calls
  <2>2. \/ Become(h, Go(s, "release")) /\ UNCHANGED row
        \/ row' = [row EXCEPT !.flow = f, !.version = v] /\ Become(h, d)
    BY <1>3 DEF WriteFlow
  <2> HIDE DEF d, v
  <2>3. row' = [row EXCEPT !.flow = f, !.version = v] => row'.flow = f
    BY <1>1 DEF Rows
  <2> QED  BY <2>1, <2>2, <2>3
<1>4. CASE Become(h, Go(s, "release")) /\ UNCHANGED row
  BY <1>1, <1>4, CalmTypes, CalmIsCalmer, RowSteady, CalmCounts
<1>5. CASE Pause(h)
  <2> DEFINE f == [s.flow EXCEPT !.step = "waiting", !.task = s.task]
             w == Transit(s, "waiting_for_approval", "release")
  <2>1. s.flow = row.flow /\ calls[Step0] = <<>>
    BY <1>1, <1>5 DEF Pause, PauseFlowFirst, At, Inside
  <2>2. f.steps = Step0
    BY <1>1, <2>1 DEF Rows, Flows, Step0
  <2>3. w \in Calls /\ w.pc = "check" /\ w.next = "release"
    <3>1. "release" \in Places
      BY DEF Places
    <3> QED  BY <1>1, <1>2, <3>1, TransitTypes
  <2>4. WriteFlow(h, f, w)
    BY <1>5 DEF Pause, PauseFlowFirst
  <2> HIDE DEF f, w
  <2>5. CASE row'.flow = f /\ \E c : Become(h, c) /\ c.pc = w.pc /\ c.next = w.next
    <3>1. Calmer(h)
      BY <2>3, <2>5, CalmIsCalmer DEF Calm
    <3>2. Steady
      BY <1>1, <2>1, <2>2, <2>5 DEF Steady, Unresolved, Step0, history
    <3> QED  BY <3>1, <3>2, CalmCounts
  <2> QED  BY <1>3, <1>4, <2>3, <2>4, <2>5
<1>6. CASE PerformStopOrEnd(h)
  <2> DEFINE f == [s.flow EXCEPT !.step = "completed", !.steps = @ + 1, !.task = None]
  <2>1. f.step = "completed"
    BY <1>1 DEF Calls, Flows
  <2>2. PICK w \in {FailWorkflow(s), Settle(s, "completed", "release")} : WriteFlow(h, f, w)
    BY <1>6 DEF PerformStopOrEnd
  <2>3. w \in Calls /\ Calm(w)
    <3>1. "release" \in Places /\ "failing" \in Places
      BY DEF Places
    <3>2. FailWorkflow(s) \in Calls /\ Settle(s, "completed", "release") \in Calls
      BY <1>1, <1>2, <3>1, GoTypes, SettleTypes DEF FailWorkflow
    <3>3. Calm(FailWorkflow(s)) /\ Calm(Settle(s, "completed", "release"))
      BY <1>1, <1>2, CalmTypes
    <3> QED  BY <2>2, <3>2, <3>3
  <2> HIDE DEF f
  <2>4. CASE row'.flow = f /\ \E c : Become(h, c) /\ c.pc = w.pc /\ c.next = w.next
    <3>1. Calmer(h)
      BY <2>3, <2>4, CalmIsCalmer DEF Calm
    <3> QED  BY <1>1, <2>1, <2>4, <3>1, RowSteady, CalmCounts
  <2> QED  BY <1>3, <1>4, <2>2, <2>3, <2>4
<1>7. CASE TakeRoute(h)
  <2> DEFINE to == Route[s.flow.current][s.outcome]
             f == [current |-> to, step |-> "pending", task |-> None,
                   steps |-> s.flow.steps + 1]
             p == IF s.pc = "next" THEN "step" ELSE "reload"
             g == Go(s, p)
             w == [g EXCEPT !.task = None, !.outcome = "fail"]
  <2>1. f.step = "pending"
    OBVIOUS
  <2>2. \/ Become(h, FailWorkflow(s)) /\ UNCHANGED row
        \/ WriteFlow(h, f, w)
    BY <1>7 DEF TakeRoute, At
  <2>3. p \in {"step", "reload"} /\ (p = "step" => s.pc = "next")
    OBVIOUS
  <2> HIDE DEF p
  <2>4. g \in Calls /\ g.pc = p /\ g.next = "idle"
    BY <1>1, <1>2, <2>3, GoTypes
  <2> HIDE DEF g
  <2>5. w \in Calls /\ w.pc = p /\ w.next = "idle" /\ w.task = None
    BY <2>4 DEF Calls, Outcomes
  <2> HIDE DEF f, w
  <2>6. CASE row'.flow = f /\ \E c : /\ Become(h, c) /\ c.pc = w.pc /\ c.next = w.next
                                     /\ c.task = w.task
    <3>1. s.pc = "next" => Walked'
      <4>1. s.pc = "next" => Visited
        BY <1>1 DEF Inside, Routing, RepeatedInv, RowInv
      <4>2. Visited => Node0 \in Nodes /\ walk[Step0] = Node0 /\ Step0 \in StepNumbers
        BY <1>1 DEF Visited, Node0, Rows, Flows
      <4> QED  BY <1>1, <4>1, <4>2, NoneAssumption DEF NoneAssumption, Walked, history
    <3>2. Calmer(h)
      BY <2>3, <2>5, <2>6, <3>1, NoneAssumption DEF NoneAssumption, Calmer, MayCall
    <3> QED  BY <1>1, <2>1, <2>6, <3>2, RowSteady, CalmCounts
  <2>7. CASE Become(h, FailWorkflow(s)) /\ UNCHANGED row
    BY <1>1, <2>7, CalmTypes, CalmIsCalmer, RowSteady, CalmCounts
  <2> QED  BY <1>3, <1>4, <2>2, <2>5, <2>6, <2>7
<1> QED  BY <1>5, <1>6, <1>7

LEMMA AsksCount ==
  ASSUME TInv, SoleInv, RepeatedInv, CountInv, NEW h \in Handlers, PerformReview(h) \/ Classify(h)
  PROVE  CountInv'
<1> DEFINE s == handler[h]
<1>1. s \in Calls /\ Inside(s) /\ UNCHANGED <<row, runs, history>>
      /\ s.pc \in {"perform", "classify"}
  <2>1. s.pc \in {"perform", "classify"}
    BY DEF PerformReview, Classify, Performs, At
  <2> QED  BY <2>1, HolderKnows DEF PerformReview, Classify, Moving
<1>2. {"pause", "next", "execute"} \subseteq Places
  BY DEF Places
<1>3. \A p \in Places :
        Go(s, p) \in Calls /\ Go(s, p).pc = p /\ Go(s, p).next = "idle" /\ Go(s, p).task = s.task
  BY <1>1, GoTypes
<1>4. ASSUME UNCHANGED task PROVE Steady
  BY <1>1, <1>4, RowSteady
<1>5. CASE OpenTask(h)
  <2> DEFINE g == Go(s, "pause")
  <2>1. g \in Calls /\ g.pc = "pause" /\ g.next = "idle"
    BY <1>2, <1>3
  <2>2. PICK t \in Tasks :
          /\ task[t].state = "absent" /\ Become(h, [g EXCEPT !.task = t])
          /\ \A u \in Tasks : u # t => task'[u] = task[u]
    BY <1>5 DEF OpenTask, TInv, TypeOK
  <2> HIDE DEF g
  <2>3. Calm([g EXCEPT !.task = t])
    BY <2>1 DEF Calm, Calls
  <2>4. Steady
    BY <1>1, <2>2 DEF Steady, Unresolved, WaitsFor, Step0, history
  <2> QED  BY <2>2, <2>3, <2>4, CalmIsCalmer, CalmCounts
<1>6. CASE Become(h, Finished(s, "fail")) /\ UNCHANGED task
  <2> DEFINE g == Go(s, "next")
  <2>1. g \in Calls /\ g.pc = "next" /\ g.next = "idle" /\ Finished(s, "fail") = [g EXCEPT !.outcome = "fail"]
    BY <1>2, <1>3 DEF Finished
  <2> HIDE DEF g
  <2>2. Calm([g EXCEPT !.outcome = "fail"])
    BY <2>1 DEF Calm, Calls
  <2> QED  BY <1>4, <1>6, <2>1, <2>2, CalmIsCalmer, CalmCounts
<1>7. CASE s.pc = "classify" /\ UNCHANGED task
           /\ Become(h, [Go(s, "execute") EXCEPT !.seen.intent = s.flow.current])
  <2> DEFINE g == Go(s, "execute")
             i == s.flow.current
             d == [g EXCEPT !.seen.intent = i]
  <2>1. s.task = None
    BY <1>1, <1>7 DEF Inside, Performing
  <2>2. g \in Calls /\ g.pc = "execute" /\ g.next = "idle" /\ g.task = None /\ Become(h, d)
    BY <1>2, <1>3, <1>7, <2>1
  <2> HIDE DEF g, i
  <2>3. d.pc = "execute" /\ d.next = "idle" /\ d.task = None
    BY <2>2 DEF Calls
  <2> HIDE DEF d
  <2>4. Calmer(h)
    BY <2>2, <2>3, NoneAssumption DEF NoneAssumption, Calmer, MayCall
  <2> QED  BY <1>4, <1>7, <2>4, CalmCounts
<1> QED  BY <1>5, <1>6, <1>7 DEF PerformReview, Classify, At

(* The ones that count: a run comes in, a task is resolved, the flow begins, *)
(* a command is executed.                                                    *)
LEMMA RunCounts ==
  ASSUME TInv, CountInv, NEW h \in Handlers, Run(h)
  PROVE  CountInv'
<1>1. /\ Become(h, Transit(Free, "running", "run?")) /\ runs' = runs + 1
      /\ UNCHANGED <<row, task, walk, calls>>
  BY DEF Run, history
<1>2. Walked' = Walked
  BY <1>1 DEF Walked
<1>3. ASSUME NEW t \in Tasks
      PROVE  (Made(t) + Cardinality(Callers(t)) + OneIf(Unresolved(t)) <= runs + OneIf(~Walked))'
  <2>1. /\ Cardinality(Callers(t)) \in Nat /\ Cardinality(Callers(t)') \in Nat
        /\ Cardinality(Callers(t)') <= Cardinality(Callers(t)) + 1
    BY <1>1, <1>2, CountTypes, CallerJoins
  <2>2. Made(t) \in Nat /\ Made(t)' = Made(t)
    BY <1>1, CountTypes DEF Made, WaitsFor, Step0
  <2>3. /\ OneIf(Unresolved(t)) \in {0, 1} /\ OneIf(Unresolved(t)') = OneIf(Unresolved(t))
        /\ OneIf(~Walked) \in {0, 1} /\ OneIf(~Walked') = OneIf(~Walked)
    BY <1>1, <1>2 DEF OneIf, Unresolved
  <2>4. runs \in Nat /\ Made(t) + Cardinality(Callers(t)) + OneIf(Unresolved(t)) <= runs + OneIf(~Walked)
    BY CountTypes DEF CountInv
  <2>5. Made(t)' + Cardinality(Callers(t)') + OneIf(Unresolved(t)') <= runs' + OneIf(~Walked')
    BY <1>1, <2>1, <2>2, <2>3, <2>4
  <2> QED  BY <2>5 DEF OneIf
<1>4. ASSUME NEW k \in StepNumbers, Len(calls'[k]) > 1 PROVE Len(calls'[k]) <= runs'
  <2>1. runs \in Nat /\ Len(calls[k]) \in Nat
    BY DEF TInv, TypeOK
  <2> QED  BY <1>1, <1>4, <2>1 DEF CountInv
<1> QED  BY <1>3, <1>4 DEF CountInv

LEMMA ResolveCounts ==
  ASSUME TInv, CountInv, NEW h \in Handlers, NEW t \in Tasks, NEW r \in Resolution, Resolve(h, t, r)
  PROVE  CountInv'
<1>1. /\ task' = [task EXCEPT ![t].state = r] /\ task[t].state = "open"
      /\ UNCHANGED <<row, runs, walk, calls>> /\ task \in [Tasks -> HumanTasks]
  BY DEF Resolve, Closable, history, TInv, TypeOK
<1>2. PICK c : Become(h, c) /\ c.pc = "resume?" /\ c.next = "idle" /\ c.task = t
  <2>1. [Free EXCEPT !.pc = "resume?", !.task = t].pc = "resume?"
        /\ [Free EXCEPT !.pc = "resume?", !.task = t].next = "idle"
        /\ [Free EXCEPT !.pc = "resume?", !.task = t].task = t
    BY DEF Free
  <2> QED  BY <2>1 DEF Resolve
<1>3. Walked' = Walked
  BY <1>1 DEF Walked
<1>4. ASSUME NEW u \in Tasks
      PROVE  (Made(u) + Cardinality(Callers(u)) + OneIf(Unresolved(u)) <= runs + OneIf(~Walked))'
  <2>1. Cardinality(Callers(u)) \in Nat /\ Cardinality(Callers(u)') \in Nat
    BY <1>2, <1>3, CountTypes, CallerJoins
  <2>2. Made(u) \in Nat /\ Made(u)' = Made(u) /\ runs' = runs /\ runs \in Nat
    BY <1>1, CountTypes DEF Made, WaitsFor, Step0
  <2>3. /\ OneIf(Unresolved(u)) \in {0, 1} /\ OneIf(Unresolved(u)') \in {0, 1}
        /\ OneIf(~Walked) \in {0, 1} /\ OneIf(~Walked') = OneIf(~Walked)
    BY <1>3 DEF OneIf
  <2>4. CASE u = t
    <3>1. OneIf(Unresolved(u)) = 1 /\ OneIf(Unresolved(u)') = 0
      BY <1>1, <2>4 DEF OneIf, Unresolved, HumanTasks, Resolution
    <3>2. Cardinality(Callers(u)') <= Cardinality(Callers(u)) + 1
      BY <1>2, <1>3, CallerJoins
    <3>3. Made(u)' + Cardinality(Callers(u)') + OneIf(Unresolved(u)') <= runs' + OneIf(~Walked')
      <4>1. Made(u) + Cardinality(Callers(u)) + OneIf(Unresolved(u)) <= runs + OneIf(~Walked)
        BY DEF CountInv
      <4> QED  BY <2>1, <2>2, <2>3, <3>1, <3>2, <4>1
    <3> QED  BY <3>3 DEF OneIf
  <2>5. CASE u # t
    <3>1. OneIf(Unresolved(u)') = OneIf(Unresolved(u))
      BY <1>1, <2>5 DEF OneIf, Unresolved
    <3>2. Cardinality(Callers(u)') <= Cardinality(Callers(u))
      <4>1. ~MayCall(c, u)'
        BY <1>2, <2>5 DEF MayCall
      <4>2. Callers(u)' \subseteq Callers(u)
        BY <1>2, <1>3, <4>1, CallersKept
      <4> QED  BY <4>2, CountTypes, FS_Subset
    <3>3. Made(u)' + Cardinality(Callers(u)') + OneIf(Unresolved(u)') <= runs' + OneIf(~Walked')
      <4>1. Made(u) + Cardinality(Callers(u)) + OneIf(Unresolved(u)) <= runs + OneIf(~Walked)
        BY DEF CountInv
      <4> QED  BY <2>1, <2>2, <2>3, <3>1, <3>2, <4>1
    <3> QED  BY <3>3 DEF OneIf
  <2> QED  BY <2>4, <2>5
<1> QED  BY <1>1, <1>4 DEF CountInv

LEMMA StepCounts ==
  ASSUME TInv, SoleInv, RepeatedInv, CountInv, NEW h \in Handlers, Step(h)
  PROVE  CountInv'
<1> DEFINE s == handler[h]
           f == [s.flow EXCEPT !.step = "running"]
           v == row.version + 1
<1>1. /\ s \in Calls /\ s.pc = "step" /\ row \in Rows /\ UNCHANGED <<task, runs, calls>>
      /\ walk \in [StepNumbers -> Nodes \cup {None}] /\ runs \in Nat
  BY HandlerTypes DEF Step, At, TInv, TypeOK
<1>2. CASE UNCHANGED walk /\ UNCHANGED row
           /\ (Become(h, FailWorkflow(s)) \/ Become(h, Go(s, "release")))
  BY <1>1, <1>2, CalmTypes, CalmIsCalmer, RowSteady, CalmCounts DEF history
<1>3. ASSUME walk' = [walk EXCEPT ![s.flow.steps] = s.flow.current], StepLeft(s.flow),
             row'.flow = row.flow \/ row'.flow.step = "running",
             NEW c, Become(h, c), Calm(c)
      PROVE  CountInv'
  <2>1. Walked'
    <3>1. s.flow.steps \in StepNumbers /\ s.flow.current \in Nodes
      BY <1>1, <1>3, FlowAssumption DEF FlowAssumption, Calls, Flows, StepLeft, StepNumbers
    <3>2. walk'[s.flow.steps] # None
      BY <1>1, <1>3, <3>1, NoneAssumption DEF NoneAssumption
    <3> QED  BY <3>1, <3>2 DEF Walked
  <2>2. ASSUME NEW t \in Tasks
        PROVE  (Made(t) + Cardinality(Callers(t)) + OneIf(Unresolved(t)) <= runs + OneIf(~Walked))'
    <3>1. Made(t) \in Nat /\ Made(t)' \in {Made(t), 0} /\ Cardinality(Callers(t)) \in Nat
      BY <1>1, <1>3, CountTypes DEF Made, WaitsFor, Step0
    <3>2. /\ OneIf(Unresolved(t)) \in {0, 1} /\ OneIf(Unresolved(t)') = OneIf(Unresolved(t))
          /\ OneIf(~Walked') = 0
      BY <1>1, <2>1 DEF OneIf, Unresolved
    <3>3. /\ Cardinality(Callers(t)') \in Nat
          /\ Cardinality(Callers(t)') + OneIf(~Walked) <= Cardinality(Callers(t))
      <4>1. ~MayCall(c, t)'
        BY <1>3 DEF Calm, MayCall
      <4>2. CASE Walked
        <5>1. Callers(t)' \subseteq Callers(t)
          BY <1>3, <2>1, <4>1, CallersKept
        <5>2. Cardinality(Callers(t)') \in Nat /\ Cardinality(Callers(t)') <= Cardinality(Callers(t))
          BY <5>1, CountTypes, FS_Subset, FS_CardinalityType
        <5> QED  BY <3>1, <4>2, <5>2 DEF OneIf
      <4>3. CASE ~Walked
        <5>1. MayCall(s, t)
          BY <1>1, <4>3 DEF MayCall
        <5>2. /\ Cardinality(Callers(t)') \in Nat
              /\ Cardinality(Callers(t)') + 1 <= Cardinality(Callers(t))
          BY <1>3, <4>1, <4>3, <5>1, CallerLeaves
        <5> QED  BY <4>3, <5>2 DEF OneIf
      <4> QED  BY <4>2, <4>3
    <3>4. OneIf(~Walked) \in {0, 1}
      BY DEF OneIf
    <3>5. Made(t) + Cardinality(Callers(t)) + OneIf(Unresolved(t)) <= runs + OneIf(~Walked)
      BY DEF CountInv
    <3>6. Made(t)' + Cardinality(Callers(t)') + OneIf(Unresolved(t)') <= runs' + OneIf(~Walked')
      BY <1>1, <3>1, <3>2, <3>3, <3>4, <3>5
    <3> QED  BY <3>6 DEF OneIf
  <2> QED  BY <1>1, <2>2 DEF CountInv
<1>4. f.step = "running" /\ Calm(Go(s, "perform")) /\ Go(s, "perform") \in Calls
  <2>1. "perform" \in Places
    BY DEF Places
  <2> QED  BY <1>1, <2>1, CalmTypes, GoTypes DEF Calls, Flows
<1>5. CASE /\ StepLeft(s.flow) /\ walk' = [walk EXCEPT ![s.flow.steps] = s.flow.current]
           /\ Become(h, Go(s, "perform")) /\ UNCHANGED row
  BY <1>3, <1>4, <1>5
<1>6. CASE /\ StepLeft(s.flow) /\ walk' = [walk EXCEPT ![s.flow.steps] = s.flow.current]
           /\ row' = [row EXCEPT !.flow = f, !.version = v]
           /\ Become(h, [Go(s, "perform") EXCEPT !.flow = f, !.version = v])
  <2> DEFINE g == Go(s, "perform")
  <2> HIDE DEF f, v, g
  <2>1. Calm([g EXCEPT !.flow = f, !.version = v])
    BY <1>4 DEF Calm, Calls, g
  <2>2. row'.flow = f
    BY <1>1, <1>6 DEF Rows
  <2> QED  BY <1>3, <1>4, <1>6, <2>1, <2>2 DEF g
<1> QED  BY <1>2, <1>5, <1>6 DEF Step, WriteFlow

LEMMA ExecuteCalms ==
  ASSUME TInv, NEW h \in Handlers, Execute(h)
  PROVE  \E c : Become(h, c) /\ Calm(c)
<1> DEFINE s == handler[h]
           ok == [s EXCEPT !.outcome = "success", !.seen = FirstRow]
           bad == [s EXCEPT !.outcome = "fail"]
           g == Go(ok, "wake")
           e == Go(s, "next")
<1>1. s \in Calls /\ ok \in Calls /\ bad \in Calls
  BY HandlerTypes, FreeTypes DEF Calls, Outcomes
<1>2. "wake" \in Places /\ "next" \in Places /\ "failed" \in Status
  BY DEF Places, Status, Terminal
<1> HIDE DEF ok, bad
<1>3. g \in Calls /\ g.pc = "wake" /\ e \in Calls /\ e.pc = "next" /\ e.next = "idle"
  BY <1>1, <1>2, GoTypes
<1>4. Calm(Throw(s)) /\ Calm(Settle(bad, "failed", "into"))
  BY <1>1, <1>2, CalmTypes
<1>5. PICK n \in {"into", "next"} :
        \/ Become(h, [g EXCEPT !.next = n]) \/ Become(h, Throw(s))
        \/ Become(h, Settle(bad, "failed", "into")) \/ Become(h, [e EXCEPT !.outcome = "fail"])
  BY DEF Execute, ok, bad, Finished
<1> HIDE DEF g, e
<1>6. Calm([g EXCEPT !.next = n]) /\ Calm([e EXCEPT !.outcome = "fail"])
  BY <1>3 DEF Calm, Calls
<1> QED  BY <1>4, <1>5, <1>6

LEMMA ExecuteCounts ==
  ASSUME TInv, SoleInv, RepeatedInv, CountInv, NEW h \in Handlers, Execute(h)
  PROVE  CountInv'
<1> DEFINE s == handler[h]
<1>1. s.pc = "execute" /\ s \in Calls /\ Inside(s) /\ RowInv
  <2>1. s.pc = "execute"
    BY DEF Execute, At
  <2> QED  BY <2>1, HolderKnows DEF Moving, RepeatedInv
<1>2. /\ s.flow = row.flow /\ row.flow.step \in {"running", "waiting"}
      /\ s.task = None => row.flow.step = "running" /\ calls[Step0] = <<>>
      /\ s.task # None => row.flow.step = "waiting" /\ s.task = row.flow.task
      /\ s.seen.intent = Node0
  BY <1>1 DEF Inside, Performing, Answering, Unasked, ReplaySafe
<1>3. PICK c : Become(h, c) /\ Calm(c)
  BY ExecuteCalms
<1>4. /\ Step0 \in StepNumbers /\ Node0 \in Nodes /\ Walked /\ runs \in Nat
      /\ calls \in [StepNumbers -> Seq(Nodes)]
  <2>1. Visited /\ Node0 \in Nodes
    BY <1>1, <1>2 DEF RowInv, TInv, TypeOK, Rows, Flows, Node0
  <2> QED  BY <2>1, NoneAssumption DEF NoneAssumption, Visited, Walked, TInv, TypeOK
<1>5. /\ calls' = [calls EXCEPT ![Step0] = Append(@, Node0)]
      /\ UNCHANGED <<row, task, runs, walk>> /\ Walked' = Walked
  <2>1. calls' = [calls EXCEPT ![s.flow.steps] = Append(@, s.seen.intent)]
    BY DEF Execute
  <2> QED  BY <1>2, <2>1 DEF Execute, Step0, Walked
<1>6. /\ Len(calls'[Step0]) = Len(calls[Step0]) + 1 /\ Len(calls[Step0]) \in Nat
      /\ \A k \in StepNumbers : k # Step0 => calls'[k] = calls[k]
      /\ calls[Step0] = <<>> => Len(calls[Step0]) = 0
  BY <1>4, <1>5
<1>7. ASSUME NEW t \in Tasks
      PROVE  /\ (Made(t) + Cardinality(Callers(t)) + OneIf(Unresolved(t)) <= runs + OneIf(~Walked))'
             /\ s.task = t => Len(calls[Step0]) + 1 <= runs
  <2>1. /\ ~MayCall(c, t)' /\ Cardinality(Callers(t)) \in Nat
        /\ Made(t) \in Nat /\ OneIf(Unresolved(t)) \in {0, 1} /\ OneIf(~Walked) = 0
    BY <1>3, <1>4, CountTypes DEF Calm, MayCall, OneIf
  <2>2. UNCHANGED <<OneIf(Unresolved(t)), OneIf(~Walked)>>
    BY <1>5 DEF OneIf, Unresolved
  <2>3. Made(t) + Cardinality(Callers(t)) + OneIf(Unresolved(t)) <= runs
    <3>1. Made(t) + Cardinality(Callers(t)) + OneIf(Unresolved(t)) <= runs + OneIf(~Walked)
      BY DEF CountInv
    <3> QED  BY <1>4, <2>1, <3>1
  <2>4. CASE s.task = t
    <3>1. WaitsFor(t) /\ WaitsFor(t)'
      BY <1>2, <1>5, <2>4, NoneAssumption DEF NoneAssumption, WaitsFor
    <3>2. Made(t) = Len(calls[Step0]) /\ Made(t)' = Made(t) + 1
      BY <1>5, <1>6, <3>1 DEF Made, Step0
    <3>3. MayCall(s, t)
      BY <1>1, <2>4 DEF MayCall
    <3>4. /\ Cardinality(Callers(t)') \in Nat
          /\ Cardinality(Callers(t)') + 1 <= Cardinality(Callers(t))
      BY <1>3, <1>5, <2>1, <3>3, CallerLeaves
    <3>5. Made(t)' + Cardinality(Callers(t)') + OneIf(Unresolved(t)') <= runs' + OneIf(~Walked')
      BY <1>4, <1>5, <2>1, <2>2, <2>3, <3>2, <3>4
    <3>6. Len(calls[Step0]) + 1 <= runs
      BY <1>4, <1>6, <2>1, <2>3, <3>2, <3>4
    <3> QED  BY <3>5, <3>6 DEF OneIf
  <2>5. CASE s.task # t
    <3>1. ~WaitsFor(t) /\ Made(t)' = 0 /\ Made(t) = 0
      BY <1>2, <1>5, <2>5 DEF WaitsFor, Made
    <3>2. Cardinality(Callers(t)') \in Nat /\ Cardinality(Callers(t)') <= Cardinality(Callers(t))
      <4>1. Callers(t)' \subseteq Callers(t)
        BY <1>3, <1>5, <2>1, CallersKept
      <4> QED  BY <4>1, CountTypes, FS_Subset, FS_CardinalityType
    <3>3. Made(t)' + Cardinality(Callers(t)') + OneIf(Unresolved(t)') <= runs' + OneIf(~Walked')
      BY <1>4, <1>5, <2>1, <2>2, <2>3, <3>1, <3>2
    <3> QED  BY <2>5, <3>3 DEF OneIf
  <2> QED  BY <2>4, <2>5
<1>8. ASSUME NEW k \in StepNumbers, Len(calls'[k]) > 1 PROVE Len(calls'[k]) <= runs'
  <2>1. CASE k # Step0
    BY <1>5, <1>6, <1>8, <2>1 DEF CountInv
  <2>2. CASE k = Step0
    <3>1. s.task # None /\ s.task \in Tasks
      BY <1>1, <1>2, <1>6, <1>8, <2>2 DEF Calls
    <3> QED  BY <1>4, <1>5, <1>6, <1>7, <2>2, <3>1
  <2> QED  BY <2>1, <2>2
<1> QED  BY <1>7, <1>8 DEF CountInv

LEMMA FailingCounts ==
  ASSUME TInv, CountInv, NEW p \in Processes, NEW x, Failing(p, x)
  PROVE  CountInv'
<1>1. Calm(x)
  BY FreeTypes, DownTypes DEF Failing, Calm
<1>2. Steady
  BY DEF Failing, Steady, Unresolved, WaitsFor, Step0
<1>3. ASSUME NEW t \in Tasks, NEW h \in Handlers, MayCall(handler[h], t)'
      PROVE  MayCall(handler[h], t)
  <2>1. handler'[h] = x \/ handler'[h] = handler[h]
    BY DEF Failing
  <2>2. handler'[h] # x
    BY <1>1, <1>3 DEF Calm, MayCall
  <2> QED  BY <1>2, <1>3, <2>1, <2>2 DEF MayCall, Steady, Walked
<1>4. \A t \in Tasks : Callers(t)' \subseteq Callers(t)
  BY <1>3 DEF Callers
<1> QED  BY <1>2, <1>4, SteadyCounts

LEMMA CountStep == TInv /\ SoleInv /\ RepeatedInv /\ CountInv /\ [Next]_vars => CountInv'
<1> SUFFICES ASSUME TInv, SoleInv, RepeatedInv, CountInv, [Next]_vars
             PROVE  CountInv'
  OBVIOUS
<1>1. CASE UNCHANGED vars
  BY <1>1 DEF vars, CountInv, Made, WaitsFor, Callers, MayCall, Walked, Unresolved, OneIf, Step0
<1>2. ASSUME NEW h \in Handlers,
             \/ Run(h) \/ Cancel(h) \/ ReportUsage(h) \/ SkillChanged(h)
             \/ \E t \in Tasks, r \in Resolution : Resolve(h, t, r)
             \/ Proceed(h)
      PROVE  CountInv'
  <2>1. CASE Run(h)
    BY <1>2, <2>1, RunCounts
  <2>2. CASE \E t \in Tasks, r \in Resolution : Resolve(h, t, r)
    BY <1>2, <2>2, ResolveCounts
  <2>3. CASE \/ Cancel(h) \/ ReportUsage(h) \/ SkillChanged(h) \/ Release(h) \/ PerformTaskOrGate(h)
             \/ PerformCommand(h) \/ SettleUnresumable(h) \/ Wake(h) \/ ResumeInto(h)
             \/ ExitWaiting(h)
    BY <1>2, <2>3, CalmStepsCount
  <2>4. CASE \/ Enqueue(h) \/ BeginRun(h) \/ Reconcile(h) \/ BeginResume(h) \/ ResumeBound(h)
             \/ ReadApproved(h) \/ SettleGuard(h) \/ Check(h) \/ Reload(h)
    BY <1>2, <2>4, CallersCount
  <2>5. CASE Load(h) \/ Store(h)
    BY <1>2, <2>5, RowWritesCount
  <2>6. CASE Pause(h) \/ PerformStopOrEnd(h) \/ TakeRoute(h)
    BY <1>2, <2>6, FlowWritesCount
  <2>7. CASE PerformReview(h) \/ Classify(h)
    BY <1>2, <2>7, AsksCount
  <2>8. CASE Step(h) \/ Execute(h)
    BY <1>2, <2>8, StepCounts, ExecuteCounts
  <2> QED  BY <1>2, <2>1, <2>2, <2>3, <2>4, <2>5, <2>6, <2>7, <2>8 DEF Proceed
<1>3. ASSUME NEW p \in Processes, Crash(p) \/ Restart(p), UNCHANGED deployment
      PROVE  CountInv'
  BY <1>3, ProcessFails, FailingCounts
<1> QED  BY <1>1, <1>2, <1>3 DEF Next

LEMMA CountInit == Init => CountInv
<1> SUFFICES ASSUME Init PROVE CountInv
  OBVIOUS
<1>1. ~Walked /\ runs = 0 /\ \A k \in StepNumbers : Len(calls[k]) = 0
  BY DEF Init, Walked
<1>2. ASSUME NEW t \in Tasks
      PROVE  Made(t) + Cardinality(Callers(t)) + OneIf(Unresolved(t)) <= runs + OneIf(~Walked)
  <2>1. Made(t) = 0 /\ OneIf(Unresolved(t)) \in {0, 1} /\ OneIf(~Walked) = 1
    BY <1>1, FreeTypes DEF Init, Made, WaitsFor, OneIf
  <2>2. Callers(t) = {}
    BY FreeTypes, NoneAssumption DEF Init, Callers, MayCall, NoneAssumption
  <2>3. Cardinality(Callers(t)) = 0
    BY <2>2, FS_EmptySet
  <2> QED  BY <1>1, <2>1, <2>3
<1> QED  BY <1>1, <1>2 DEF CountInv

-------------------------------------------------------------------------------
(* The ways of running the service that the theorems below are about: a flow *)
(* is started once, and no request rewrites its row behind SQL; or it is     *)
(* started as often as one likes, in memory, or by requests that do not      *)
(* overlap.                                                                  *)
Once ==
  /\ MaxRuns <= 1
  /\ Backend = "memory" \/ Faults \cap {"cancel", "usage"} = {}

Served == Once \/ Repeatable

ServedInv ==
  /\ Served /\ TInv /\ SoleInv
  /\ OneRun => OnceInv
  /\ Repeatable => RepeatedInv /\ CountInv

LEMMA ServedStep == ServedInv /\ [Next]_vars => ServedInv'
<1> SUFFICES ASSUME ServedInv, [Next]_vars
             PROVE  ServedInv'
  OBVIOUS
<1>1. TInv' /\ SoleInv'
  BY TypesStep, SoleStep DEF ServedInv
<1>2. Served' /\ Repeatable' = Repeatable
  BY RunsGrow DEF ServedInv, Served, Once, Repeatable, InMemory, InTurn, Overlap, MaxRuns, Backend,
     Faults, ProcessOf
<1>3. OneRun' => OnceInv'
  BY OnceKept DEF ServedInv
<1>4. Repeatable => RepeatedInv' /\ CountInv'
  BY <1>1, RepeatedStep, CountStep DEF ServedInv
<1> QED  BY <1>1, <1>2, <1>3, <1>4 DEF ServedInv

LEMMA ServedInit == Init /\ Served => ServedInv
<1>1. Init => SoleInv
  BY FreeTypes DEF Init, SoleInv, Active, Inactive
<1> QED  BY <1>1, TypesInit, OnceInit, RepeatedInit, CountInit DEF ServedInv

LEMMA OnceOrRepeated ==
  ASSUME ServedInv
  PROVE  OnceInv \/ (RepeatedInv /\ CountInv)
<1>1. Once => OneRun
  <2>1. runs \in 0..MaxRuns /\ MaxRuns \in Nat
    BY ServerAssumption DEF ServedInv, TInv, TypeOK, ServerAssumption, MaxRuns
  <2> QED  BY <2>1 DEF Once, OneRun
<1> QED  BY <1>1 DEF ServedInv, Served

LEMMA ServedHolds == Spec /\ Served => []ServedInv
BY ServedInit, ServedStep, PTL DEF Spec

(* In these cases, whatever is run again, resolved or cancelled meanwhile,   *)
(* and whichever process dies: an execution that waits for approval says     *)
(* which task it waits for (runner.ts, the order of entering the wait).      *)
THEOREM WaitingIsDecidableWhenServed == Spec /\ Served => []WaitingIsDecidable
<1>1. OnceInv => WaitingIsDecidable
  BY NoneAssumption DEF OnceInv, FlowInv, AskedBy, Quiet, WaitingIsDecidable, NoneAssumption
<1>2. RepeatedInv => WaitingIsDecidable
  BY NoneAssumption DEF RepeatedInv, RowInv, PutTo, AskedBy, Quiet, WaitingIsDecidable,
     NoneAssumption
<1> QED  BY <1>1, <1>2, OnceOrRepeated, ServedHolds, PTL

(* However often an approval is delivered, whatever is run again and         *)
(* whichever process dies: the command of a step is not executed more often  *)
(* than the flow was run, so once in a flow that is run once; and only a     *)
(* command that people are asked about is executed again, by a run that      *)
(* finds its step waiting (admitInterruptedStep(), reconcileWaiting()).      *)
THEOREM OneCallPerStepWhenServed == Spec /\ Served => []OneCallPerStep
<1>1. ServedInv => OneCallPerStep
  <2> SUFFICES ASSUME ServedInv, NEW k \in StepNumbers, Len(calls[k]) > 1
               PROVE  Len(calls[k]) <= runs /\ walk[k] # None /\ Verdict[walk[k]] # "auto_approve"
    BY DEF OneCallPerStep
  <2>1. Len(calls[k]) \in Nat
    BY DEF ServedInv, TInv, TypeOK
  <2>2. ~OnceInv
    BY <2>1 DEF OnceInv, FlowInv
  <2>3. RepeatedInv /\ CountInv
    BY <2>2, OnceOrRepeated
  <2> QED  BY <2>3 DEF RepeatedInv, RowInv, CountInv
<1> QED  BY <1>1, ServedHolds, PTL

-------------------------------------------------------------------------------
(* The promise: what a call knows when it visits, asks or executes.          *)
Informed(s) ==
  /\ s.pc = "step" =>
       /\ s.flow = row.flow /\ row.flow.step # "waiting"
       /\ row.flow.step = "running" => walk[Step0] = Node0
       /\ row.flow.step # "running" => Clean(Step0) /\ Promise!Follows(Step0, Node0)
  /\ s.pc = "classify" \/ (s.pc = "perform" /\ Type[s.flow.current] = "review") =>
       /\ s.flow = row.flow /\ walk[Step0] = Node0 /\ Step0 \in StepNumbers
       /\ Unasked /\ Type[Node0] \in {"review", "command"}
  /\ s.pc = "execute" =>
       /\ s.flow = row.flow /\ walk[Step0] = Node0 /\ Step0 \in StepNumbers
       /\ s.seen.intent = Node0 /\ Type[Node0] = "command"
       /\ Verdict[Node0] = "auto_approve" \/ Promise!Answered(Step0, "approved")

LEMMA ServedInformed ==
  ASSUME ServedInv, NEW h \in Handlers
  PROVE  Informed(handler[h])
<1> DEFINE s == handler[h]
<1>1. TInv /\ SoleInv /\ row.flow \in Flows
  BY DEF ServedInv, TInv, TypeOK, Rows
<1> USE <1>1
<1>2. CASE OnceInv
  <2> SUFFICES ASSUME s.pc \in {"step", "perform", "classify", "execute"} PROVE Informed(s)
    BY DEF Informed
  <2>1. Driving(s)
    BY DEF Driving, Resting, Aside, Moving
  <2>2. Stage(s) /\ FlowInv
    BY <1>2, <2>1, DriverKnows DEF OnceInv
  <2>3. CASE s.pc = "step"
    BY <2>2, <2>3 DEF Informed, Stage, FlowInv
  <2>4. CASE s.pc \in {"perform", "classify"}
    BY <2>2, <2>4 DEF Informed, Stage, Performing, FlowInv, Visited, Node0
  <2>5. CASE s.pc = "execute"
    BY <2>2, <2>5 DEF Informed, Stage, Performing, Answering, FlowInv, Visited, AskedBy,
       Promise!Answered
  <2> QED  BY <2>3, <2>4, <2>5
<1>3. CASE RepeatedInv
  <2> SUFFICES ASSUME s.pc \in {"step", "perform", "classify", "execute"} PROVE Informed(s)
    BY DEF Informed
  <2>1. Inside(s) /\ RowInv
    BY <1>3, HolderKnows DEF Moving, RepeatedInv
  <2>2. CASE s.pc = "step"
    BY <2>1, <2>2 DEF Informed, Inside, RowInv, Visited, Flows
  <2>3. CASE s.pc \in {"perform", "classify"}
    BY <2>1, <2>3 DEF Informed, Inside, Performing, RowInv, Visited, Node0, ReplaySafe
  <2>4. CASE s.pc = "execute"
    BY <2>1, <2>4 DEF Informed, Inside, Performing, Answering, RowInv, Visited, PutTo, AskedBy,
       Promise!Answered
  <2> QED  BY <2>2, <2>3, <2>4
<1> QED  BY <1>2, <1>3, OnceOrRepeated

LEMMA PromisedStep ==
  ServedInv /\ [Next]_vars => [Promise!Next]_Promise!vars
<1> SUFFICES ASSUME ServedInv, [Next]_vars
             PROVE  Promise!Next \/ UNCHANGED <<walk, task, calls>>
  BY DEF Promise!vars
<1>0. /\ row.flow \in Flows /\ Node0 \in Nodes /\ Step0 \in 0..MaxSteps
      /\ walk \in [StepNumbers -> Nodes \cup {None}] /\ Promise!StepNumbers = StepNumbers
      /\ \A h \in Handlers : Informed(handler[h])
  BY ServedInformed DEF ServedInv, TInv, TypeOK, Rows, Flows, Node0, Step0, StepNumbers,
     Promise!StepNumbers
<1>1. ASSUME NEW h \in Handlers, Step(h)
      PROVE  Promise!Next \/ UNCHANGED <<walk, task, calls>>
  <2>1. /\ handler[h].flow = row.flow
        /\ row.flow.step = "running" => walk[Step0] = Node0
        /\ row.flow.step # "running" => Clean(Step0) /\ Promise!Follows(Step0, Node0)
    BY <1>0, <1>1 DEF Informed, Step, At
  <2>2. UNCHANGED <<task, calls>>
    BY <1>1 DEF Step
  <2>3. CASE UNCHANGED walk
    BY <2>2, <2>3
  <2>4. CASE StepLeft(handler[h].flow) /\ walk' = [walk EXCEPT ![Step0] = Node0]
    <3>1. Step0 \in StepNumbers
      BY <1>0, <2>1, <2>4, FlowAssumption DEF FlowAssumption, Step0, StepNumbers, StepLeft
    <3>2. CASE row.flow.step = "running"
      BY <1>0, <2>1, <2>2, <2>4, <3>1, <3>2
    <3>3. CASE row.flow.step # "running"
      <4>1. walk[Step0] = None
        BY <2>1, <3>1, <3>3 DEF Clean, StepNumbers
      <4>2. Promise!Visit(Step0, Node0)
        BY <2>1, <2>2, <2>4, <3>3, <4>1 DEF Promise!Visit
      <4> QED  BY <1>0, <3>1, <4>2 DEF Promise!Next
    <3> QED  BY <3>2, <3>3
  <2> QED  BY <1>1, <2>1, <2>3, <2>4 DEF Step, Step0, Node0
<1>2. ASSUME NEW h \in Handlers, OpenTask(h), UNCHANGED <<walk, calls>>,
             handler[h].flow = row.flow, walk[Step0] = Node0, Step0 \in StepNumbers, Unasked,
             Type[Node0] \in {"review", "command"}
      PROVE  Promise!Next
  <2>1. PICK t \in Tasks :
          /\ task[t].state = "absent"
          /\ task' = [task EXCEPT ![t] = [state |-> "open", node |-> Node0, step |-> Step0]]
    BY <1>2 DEF OpenTask, Step0, Node0
  <2>2. Promise!Ask(t, Step0)
    BY <1>0, <1>2, <2>1, NoneAssumption DEF Promise!Ask, Unasked, NoneAssumption
  <2> QED  BY <1>0, <1>2, <2>2 DEF Promise!Next
<1>3. ASSUME NEW h \in Handlers, PerformReview(h) \/ Classify(h)
      PROVE  Promise!Next \/ UNCHANGED <<walk, task, calls>>
  <2>1. /\ handler[h].flow = row.flow /\ walk[Step0] = Node0 /\ Step0 \in StepNumbers
        /\ Unasked /\ Type[Node0] \in {"review", "command"}
    BY <1>0, <1>3 DEF Informed, PerformReview, Performs, Classify, At
  <2>2. UNCHANGED <<walk, calls>> /\ (OpenTask(h) \/ UNCHANGED task)
    BY <1>3 DEF PerformReview, Classify, history
  <2> QED  BY <1>2, <2>1, <2>2
<1>4. ASSUME NEW h \in Handlers, Execute(h)
      PROVE  Promise!Next
  <2>1. /\ handler[h].flow = row.flow /\ walk[Step0] = Node0 /\ Step0 \in StepNumbers
        /\ handler[h].seen.intent = Node0 /\ Type[Node0] = "command"
        /\ Verdict[Node0] = "auto_approve" \/ Promise!Answered(Step0, "approved")
    BY <1>0, <1>4 DEF Informed, Execute, At
  <2>2. calls' = [calls EXCEPT ![Step0] = Append(@, Node0)] /\ UNCHANGED <<walk, task>>
    BY <1>4, <2>1 DEF Execute, Step0
  <2>3. Promise!Call(Step0)
    BY <1>0, <2>1, <2>2, NoneAssumption DEF Promise!Call, NoneAssumption
  <2> QED  BY <1>0, <2>1, <2>3 DEF Promise!Next
<1>5. ASSUME NEW h \in Handlers, NEW t \in Tasks, NEW r \in Resolution, Resolve(h, t, r)
      PROVE  Promise!Next
  <2>1. Promise!Answer(t)
    BY <1>5 DEF Resolve, Closable, Promise!Answer, Resolution, history
  <2> QED  BY <2>1 DEF Promise!Next
<1>6. ASSUME NEW h \in Handlers, Proceed(h), ~Step(h), ~PerformReview(h), ~Classify(h), ~Execute(h)
      PROVE  UNCHANGED <<walk, task, calls>>
  BY <1>6 DEF Proceed, SettleGuard, Check, Load, Store, Enqueue, Release, BeginRun, Reconcile,
     PerformTaskOrGate, PerformCommand, Pause, PerformStopOrEnd, TakeRoute, Reload, BeginResume,
     ResumeBound, SettleUnresumable, ReadApproved, Wake, ResumeInto, ExitWaiting, history
<1>7. ASSUME NEW h \in Handlers, Run(h) \/ Cancel(h) \/ ReportUsage(h) \/ SkillChanged(h)
      PROVE  UNCHANGED <<walk, task, calls>>
  BY <1>7 DEF Run, Cancel, ReportUsage, SkillChanged, history
<1>8. ASSUME NEW p \in Processes, Crash(p) \/ Restart(p)
      PROVE  UNCHANGED <<walk, task, calls>>
  BY <1>8 DEF Crash, Restart, history
<1>9. CASE UNCHANGED vars
  BY <1>9 DEF vars
<1> QED  BY <1>1, <1>3, <1>4, <1>5, <1>6, <1>7, <1>8, <1>9 DEF Next

(* The promise of FlowPromise is kept in these cases: one walk along the     *)
(* routes, people asked once per step, a command executed only when the      *)
(* policy or the people of that very step allowed it (runner.ts, single      *)
(* writer, binding of resolutions, what is not replayed).                    *)
THEOREM KeepsFlowPromiseWhenServed == Spec /\ Served => KeepsFlowPromise
<1>1. Init => Promise!Init
  BY DEF Init, Promise!Init, Promise!StepNumbers, StepNumbers
<1> QED  BY <1>1, ServedHolds, PromisedStep, PTL DEF Spec, KeepsFlowPromise, Promise!Spec

===============================================================================
