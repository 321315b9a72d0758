# A TLA+ model of copilot-server-agent

This directory holds a formal model of the server in `server/src`: TLA+ modules
translated from the code, TLC configurations that check them on small instances,
and TLAPS proofs for every size of instance. The model is about *control*: which
request may do what next, which database statement comes before which, what
happens when two of them interleave or the process dies in between. Texts,
prompts, HTTP details and wording are left out.

Contents: [the system](#1-the-system) · [inventory](#2-inventory) ·
[modules](#3-modules-and-how-they-follow-the-code) · [runs](#4-runs-what-each-shows) ·
[bounds and fairness](#5-bounds-and-fairness) · [proofs](#6-proofs) ·
[disagreements and exceptions](#7-where-the-code-does-other-than-it-says) ·
[not modelled](#8-what-is-not-modelled-and-why) · [plan](#9-plan) ·
[how to run](#10-running-the-checks)

## 1. The system

A Node.js server puts a service around the GitHub Copilot SDK. A user (or several
users of a shared session) sends prompts; each prompt becomes an *execution*, a
durable row that an agent turn drives. An execution may propose a *business
command*; a policy denies it, lets it through, or asks people, and only a command
that was allowed reaches a server-side executor. A *Skill Flow* is an execution
with a program: nodes (`@task`, `@gate`, `@review`, `@command`, `@stop`, `@end`)
and routes written in a `SKILL.md`, which a runner follows and which may wait
hours for people and survive restarts.

Everything durable is in SQLite or PostgreSQL. Everything else (locks, chains of
promises, SDK handles, timers) lives in one process and is gone when it dies.
The process is single-threaded, but it awaits every database statement, and
between two statements anything else may run. That is where the difficulty of
this code lies, and it is the granularity of the model: **one action per
statement, everything may interleave between two actions**.

## 2. Inventory

| Component | State it keeps | Operations | Talks to |
|---|---|---|---|
| Execution lifecycle (`execution/`) | `agent_execution` row: status, intent, hash, data version, workflow state and its version, usage | `create start transition complete fail cancel addUsage proposeCommand executeApprovedCommand reapprove pauseForInput onHumanTaskResolved recoverInterrupted` | human tasks (opens them, is called back), commands, event log |
| Human tasks and approval (`human-tasks/`, `approval/`) | `human_task` and `human_task_decision` rows; a promise chain per task | `approve reject submitInput delegate cancel sweepExpired` | executions, flow runner (callback `onResolved`), identity |
| Commands (`commands/`) | registries only | `classify execute` (hash and data version verified before the executor) | executors of the deployment |
| Skill Flow runner (`workflow/`) | `workflow_state` (current node, step status, waiting task, steps) with a version for compare-and-swap; a chain per execution | `run runDetached resumeFromTask`, one step function per node type | executions, human tasks, agent turns |
| Shared session queue (`collaboration/`) | `agent_message` with its sequence; executions in `created` are the queue; a chain per session | `submitMessage drain runDetached recoverPending` | executions, turn slots, event stream |
| Event stream (`collaboration/session-event-service.ts`) | `session_event` rows and the counter of the session, listeners | `append publish subscribeWithReplay` | SSE clients, every component that tells something |
| Turn slots (`services/concurrency.ts`, `turn-runner.ts`) | active count, waiters; session locks; the execution a session works on | `withExecutionSlot withSessionLock` | session runtime |
| Session runtime (`services/session-service.ts`) | client, attached SDK handles, attach locks, active turns | `getClient createSession resumeSession getOrResumeSession disconnectSession deleteSessionPermanently stop` | SDK, registry |
| Session access (`services/session-access.ts`, `participant-service.ts`, `session-registry.ts`) | `agent_session`, `session_participant` rows | `resolve assertCan… add remove leave` | every route |
| Tool policy and capability (`services/tool-policy.ts`, `workflow/capability.ts`) | capability per session | permission callback, `set/clearAgentCapability` | SDK, flow runner |
| Flow language (`skills/`, `workflow/definition-provider.ts`, `workflow/registry.ts`) | registries; the definition in memory of a flow that runs | parse, validate, analyze, `prepare`, `reload`, lint | flow runner |
| Identity (`identity/`) | role table | `resolveRoles` | approval |
| Process (`index.ts`, `lifecycle.ts`) | `starting / ready / draining` | recovery before `listen`, drain on SIGTERM | all of the above |

How they interact when a command is approved, which is the longest chain: an
HTTP request votes → `decideLocked()` closes the task with a conditional update →
the one whose update hit calls `onResolved` → `onHumanTaskResolved()` reads the
execution again, verifies hash and version, calls the executor → moves the
execution `waiting_for_approval → resuming → running → completed` (or hands it to
the flow runner, which goes on to the next node). Sweeper, cancellations, a
second proposal, usage reports of a turn still running and a crash can fall
between any two of these.

**What is hard**, and what each component must get right:

* *Executions*: `update()` is a select and an upsert of the whole row, `transition()`
  checks the state machine in yet another statement before. One approval must lead
  to one execution of the command; an execution that waits must
  have something to wait for.
* *Voting*: votes are read, judged, inserted, read again and evaluated in separate
  statements, on one process under a lock and between replicas without one. The
  votes must add up to one outcome that the policy supports, and be noticed.
* *Flow runner*: the wait is entered by three writes and left by four; two `/run`,
  resolutions and crashes work on the same state; reviews and commands must not be
  skipped or performed twice, and a flow must end.
* *Queue*: it is spread over two tables and a chain of promises. Order of the
  transcript, one turn per message, retries, lost wake-ups, restarts.
* *Event stream*: append commits, then broadcasts; a replay reads while events
  arrive; a client comes back with a cursor. It must get the timeline once, in order.
* *Slots, handles, capabilities*: a turn waits for a handle, a slot and a lock, in
  that order, and everything may change while it waits. One turn per session, on an
  open handle, judged by the node it runs for, and nobody waits for ever.
* *Membership*: the answer of an access check is used statements later.
* *Flow language*: a file is checked when it is loaded and walked days later, after
  edits and redeployments. What was accepted must not get stuck, and must be what
  its author wrote.

`PROJECT.json` lists these as hazards, each at the line where it bites, with the
properties that would notice it going wrong, or a note where none does.

## 3. Modules and how they follow the code

| Module | Models | Role |
|---|---|---|
| `ExecutionStatus` | `ALLOWED_TRANSITIONS` and the check of `transition()` | shared by `ExecutionLifecycle`, `WorkflowRunner`, `SessionQueue` |
| `TaskPromise` | what approval promises | abstract specification |
| `ExecutionLifecycle` | one execution, its tasks, the requests on both | implements `TaskPromise` |
| `ApprovalVoting` | the votes on one task | detailed view of the step `Decide` of the former |
| `FlowPromise` | what a Skill Flow promises its author | abstract specification |
| `WorkflowRunner` | one Skill Flow execution | implements `FlowPromise` |
| `SessionQueue` | the queue of one shared session | |
| `SessionRuntime` | handles, locks, slots, capabilities, client, shutdown of one process | |
| `SessionStream` | participants, access checks, the event timeline and its followers | |
| `FlowDocument` | parser and validator of a `SKILL.md` | used by the next |
| `FlowProvider` | loading, analysing, preparing, reloading, linting and walking a flow | |
| `…Proofs`, `NumberLemmas` | theorems about the modules of that name | TLAPS |
| `MC…` | the values TLC uses | |

`PROJECT.json` maps every definition to the lines it translates. In each module a
definition that nothing uses stands before the one it is a mutant of: a plausible
bug (a dropped guard, a missing re-read, a swapped order) that the named property
is shown to detect.

### ExecutionLifecycle

`row` is the `agent_execution` row, `task` the human tasks, `due` those whose
`expires_at` has passed, `data` the version the commands depend on, `calls` a
history of the executor calls made on the strength of each task. `handler[h]`
holds the local variables of one asynchronous call: where it is (`pc`), what it
writes (`to`), where it goes on afterwards (`next`), and the row it read (`seen`).

`transition()` is three actions, `Check` (the legality test), `Load` and `Store`
(the select and the upsert of `update()`); `complete`, `fail` and `cancel` have
`SettleGuard` in front. `Store` writes back the *whole* row as it was at `Load`,
as the SQL does. `Propose … CreateApprovalTask` is `proposeCommand()`, `Close` is
the conditional update every resolution goes through, `ReadApproved`, `Execute`
and `Advance` are `executeApprovedCommand()` and `runCommand()`, with the
re-approval when hash or version differ. `CrashRestart` is a crash followed by
`recoverInterrupted()`, which runs before `listen`. `DataChanges` is external: a
deployment may supply `resolveResourceVersion`.

### ApprovalVoting

One approval task, several people, one or two replicas. `decideLocked()` is one
action per statement: `ReadTask`, `ReadDecisions` (with the duplicate test and
`assertEligible`), `InsertVote` (the unique constraint decides again),
`EvaluateVotes` (after the re-read), `CloseDecided`, `Resolved` (the callback,
still under the lock). `lock[p]` is the chain of promises of `withTaskLock()` on
process `p`; what the callback does to the execution is in ExecutionLifecycle.
`Cancel`, `Delegate` and `Sweep` do not take the lock, as in the code. The four
strategies are `RequiredApprovals` and `Evaluate`. `taskRoles` may be fewer than
the policy's roles, because a flow's `@command role:` narrows the task, while
`decide()` evaluates with the command's registered policy.

### WorkflowRunner

The row has `flow` (`workflow_state`) and `version`; `chain[p]` is
`withExecutionLock()` of process `p`. A handler is `POST /run` with the advance it
starts, a resolution with the advance it resumes, a cancel, or a usage report.
`BeginRun`, `Reconcile`, `Step`, `Perform…`, `Pause`, `TakeRoute` follow `run()`
and `loop()`; `BeginResume`, `ResumeBound`, `SettleUnresumable`, `ResumeInto`,
`Wake` and `Reload` follow `resumeFromTask()`; `ExitWaiting` is `failWorkflow()`
through `exitWaitingIfNeeded()`. Every write of the flow is a compare-and-swap
(`WriteFlow`), every other write an upsert that leaves the version alone
(`Upserted`). `deployment` chooses the repository, the processes, how often `/run`
is asked for, which faults happen, and whether a request may begin while another one
is worked on (`overlap`): `"sql"` reads and writes in two statements, `"memory"` in
one. A process dies with every call in it (`Crash`) and is `"down"` until it comes back
(`Restart`, which is `recoverInterrupted()`); the other one goes on meanwhile. `walk` and `calls` are histories. The flow itself is a constant;
`MCWorkflowRunner` has one with every node type, a loop through a review, a missing
route, and commands of every verdict.

### SessionQueue

`message` and `execution` are the rows, `submission[i]` one `POST /messages`
statement by statement (`StoreMessage`, which is one transaction, `CreateExecution`,
`Attach`, `Answer`), `passes` the chained `drainLoop()`s, `worker["drain"]` the one
in progress. `Returned` and `Thrown` say what follows a call of the execution
service in `executeQueued()`, `failQueued()` and `run()`: which exceptions are
caught, and that `fail()` in `run()`'s catch is not. The other workers are
`POST /run`, cancels, proposals, usage reports and decided approvals on the same
executions. A proposal is taken in any status: it starts an execution that was only
created (`begin`, with no turn behind it), writes the intent, and gets its `Verdict`.
The intent and a report are updates that set no status: `Load` and `Store` write back
the one that was read. `adrift` is a history of the executions that became active
that way. `CrashRestart` includes `recoverPending()`.

### SessionRuntime

One process and its SDK sessions. `at[r]` is the await a request stands in; **what
runs between two awaits is one action**, because nothing here is a database
statement of its own. `attached` is the map of handles, `open` the handles that
really are open, `using[r]` the one a request has looked up. `tail` and `behind`
are the promise chains of `withSessionLock` and `withAttachLock` (the last caller of
each chain, and whom each caller was chained to); `active` and `waiters` are the
slots of `concurrency.ts`; `ctx` is the execution a session works on, `cap` the
capability stored for it. `client`, `starting`, `startups` and `gen` are
`getClient()` with its generations, `stop` the shutdown.

A turn goes `look` (is it attached?), `attach…` (chained, then the registry, the
client, the SDK), `slot`/`queued`/`woken`, `lock`, `sending`, `running`,
`aborting`, `ending`, as `agent-execution.ts`, `turn-runner.ts` and
`session-service.ts` nest them. Disconnects and deletions take the session lock;
`POST /resume` and creations attach without one, as in the code. A stream whose
client leaves aborts the turn; an abort that is not answered in time leaves the
agent working (`LateIdle`). `StopBegins … Exit` is `stop()`, which closes the
handles, forgets the maps and locks, and ends with the process.

### SessionStream

A request is an access check (`record` read, `participant` row read: two
statements, the second of which may see another world) followed by what it does:
`Add`, `SetStatus`, `Post`, `Delete`, `Create`. What it tells is appended one event
after the other: `TakeSequence` increments the counter of the session inside the
transaction, `Commit` ends it, `Tell` broadcasts. `lock` is the transaction: on
SQLite the queue of `db/sqlite.ts` lets no other statement in, on Postgres the
row of the session is locked and other rows are not, so commits and broadcasts may
come in different orders (`overtaken` remembers that).

A connection is the SSE route: `CheckView`, `subscribeWithReplay()` (the listener is
registered first, then a page of at most `Limit` events is read, then what arrived
meanwhile is handed over, without what the page already had), live events, and a
break at any moment. What it is given is worked out event by event (`GiveAll`, a
recursive function over the events of a page or buffer). Connections are numbered
in the order in which they are made. The client keeps what it `received` and comes back with the
last sequence as cursor.

### FlowDocument and FlowProvider

A document is a sequence of headings, attributes, routes and text. FlowDocument
says what the parser takes from it and every issue the parser and the validator
report, with the line they report it at and whether it blocks; `ReviewPolicy` is how
the runner narrows a registered policy by a `@review`'s attributes.

FlowProvider has a process (`env`: registry and configuration), the file, one call
of the provider at a time (`load`) and one execution (`exec`). `Begin` parses and
validates, `Visit`/`EndForward`/`EndBackward` are the analyzer's two searches one
node at a time, `Prepare`, `Reload` and `Lint` end the call; `Step`, `Pause`,
`Decide`, `Resume`, `Gate`, `Finish`, `NoNode`, `TooManySteps` walk the definition.
Between two calls the file may be edited (`Edit`) and the server redeployed with
another registry (`Redeploy`). Persistence of the walk is WorkflowRunner's matter:
here a step of it is taken whole.

### Abstract specifications

`TaskPromise`: a task is opened once and closed once, and the executor is called
for it at most once, after it was closed as approved. `FlowPromise`: one walk from
the start node along the declared routes; a review is left only the way its people
decided; people are asked once per step; a command runs only when the policy or
the people of *that* step allowed it. `KeepsPromise` and `KeepsFlowPromise` say
that the detailed modules implement them (the variables have the same names or are
projections, see the `INSTANCE`).

## 4. Runs: what each shows

| Run | Instance | Shows |
|---|---|---|
| `lifecycle_safety` | 2 requests, 2 tasks, crashes, failing executors, one change of data | `OneCallPerApproval`, `KeepsPromise` |
| `lifecycle_requests` | one request at a time, 2 tasks, a command of each verdict, input pauses, expiry, fairness | `WaitingSettles` |
| `voting` | 3 people, 2 requests, each strategy, one process or two, one crash, fairness | `ApprovedIsEarned`, `VotesConverge`, `RejectionWins`, `InOrder`, `TaskCloses` |
| `workflow` | 2 calls at a time, 4 deployments: two `/run` in memory without faults; the same with cancel, usage, executor errors, edited skills; one `/run` over SQL on two processes with crashes, executor errors, edited skills; two `/run` over SQL that do not overlap, on two processes with crashes, cancel, executor errors; fairness | `WaitingIsDecidable`, `OneCallPerStep`, `KeepsFlowPromise`, `FlowEnds`, `ResolutionIsDelivered` |
| `queue` | 2 submissions, 2 other requests, one restart | `AnsweredFirst`, `RetryReuses`, `OneTurn`, `RunningIsDriven`, `NoLostWakeup` |
| `runtime` | 10 workloads of 3 requests on one or two sessions, one slot, a shutdown in one of them, fairness | `OneTurn`, `TurnsOnOpenHandle`, `ContextIsTurn`, `TurnGetsItsOwn`, `OneHandle`, `SlotsAreShared`, `CreatedStaysOnRecord`, `ClientOfThisLife`, `EveryRequestEnds` |
| `stream` | 14 mixes of 3 requests and a client with 2 connections, SQLite and Postgres, fairness | `OnceInOrder`, `NothingMissed`, `NoListenerLeft`, `OwnerStaysOwner`, `TimelineTellsStatus`, `EveryCallEnds` |
| `flow` | 852 documents with their registries, edits and redeployments | `NeverStuck`, `CanFinish`, `SearchIsReachability`, `RunsWhatWasPrepared`, `ReviewIsNarrower`, `NothingIgnored`, `LintAgreesWithLoad` |
| `lifecycle_substitution`, `lifecycle_executor_error`, `workflow_usage`, `queue_restart` | | counterexamples, section 7 |

Every module has a type invariant. It is proved (section 6) and therefore not
part of a run.

The properties, in words. Where the code breaks one in a case, the property
excludes that case and section 7 names it.

*Executions*

* **OneCallPerApproval** – however decisions, sweeps, cancellations, proposals and
  crashes overlap, one approval calls the executor at most once, and only a task
  closed as approved does. **KeepsPromise** – the refinement of TaskPromise.
* **WaitingSettles** – an execution does not wait for approval for ever. It follows
  that it has an open task, or a request that is about to write its row
  (`WaitingHasALead`, proved and not run): from a state without either nobody would
  be obliged to do anything. This is checked with requests served one after the
  other: with overlapping requests the whole-row upsert of `update()` loses writes
  and a stale `waiting_for_approval` may be written back after its task was closed.

*Voting*

* **ApprovedIsEarned** – an approval has as many different voters as the policy
  asks for, each holding one of its roles, the initiator not among them; under
  SEQUENTIAL one for every role. **InOrder** – under SEQUENTIAL nobody votes before
  every earlier role has approved, even when votes go to different replicas.
* **VotesConverge** – when all decisions in progress have been answered, an open
  task has no votes that settle it. The comment at
  `human-task-service.ts:95` and `docs/architecture.md` expect a window across
  replicas here; the read after the insertion (`:292`) closes it, and only a crash
  leaves votes unevaluated.
* **RejectionWins** – on one process a rejection on record means the task is not
  approved. Between replicas it does not hold: an approval evaluated before the
  rejection was inserted may close the task after.
* **TaskCloses** – whatever votes are missing or lost, the sweep closes the task.

*Flows that run*

* **WaitingIsDecidable** – a flow that waits for approval names the task its step
  waits for. **OneCallPerStep** – a step executes its command at most as often as
  the flow was run, so once in a flow run once; and a command executed again is one
  that people are asked about. (After a second `/run` a *resolved* approval can be
  acted upon twice, once by the resolution and once by `reconcileWaiting()`; the
  executor then gets the same idempotency key.) A command that the policy approves is
  not executed again by whatever is run after a crash: `admitInterruptedStep()` ends
  the flow, and `workflow` has the crash and the second run in one deployment.
  **KeepsFlowPromise** – the refinement of FlowPromise. All three speak of a flow that is
  run once; run again in memory; or run again over SQL by requests that do not
  overlap. What two overlapping `/run` do over SQL is an exception (section 7).
* **FlowEnds**, **ResolutionIsDelivered** – without faults a running flow ends, and
  a resolved task moves it.

*Queue*

* **AnsweredFirst** – a message answered before another was sent is not left
  waiting while the queue works on the later one. Messages that overlap may be
  worked on against the order of the transcript.
* **RetryReuses** – a retry of an answered message creates no second execution.
* **OneTurn**, **NoLostWakeup** – the queue gives an execution one turn; while the
  process lives, a queued item has a pass in progress or to come.
* **RunningIsDriven** – what says it is running has somebody who will settle it, or
  is adrift since the last restart: a proposal started it, or a late upsert put the
  status back (section 7). There is no third way, and a restart leaves none.

*Runtime* (until a shutdown forgets the locks)

* **OneTurn** – one turn, disconnect or deletion at a time works on a session.
  **TurnsOnOpenHandle** – its agent works on an open handle: no disconnect or
  deletion closes it under the turn, and a turn that looked it up before one does
  not start. **ContextIsTurn** – the execution that hooks and the permission
  handler see is the one whose turn holds the session, from before it is sent until
  after it ended. **TurnGetsItsOwn** – the agent of a `@task` turn is granted
  nothing beyond its own node's tools and the hard limit.
* **OneHandle** – a session is attached once, however first uses, disconnects and
  deletions race. **SlotsAreShared** – no more turns than slots, and none waits
  while one is to spare. **CreatedStaysOnRecord** – a failing repeated creation
  rolls back nothing that was there before. **ClientOfThisLife** – a client that was
  being started when the process was told to stop is not installed after it.
* **EveryRequestEnds** – no interleaving leaves a request waiting for another.

*Stream*

* **OnceInOrder** – a connection is given every stored event once, in order.
  **NothingMissed** – a client that comes back has the whole timeline.
  **NoListenerLeft** – a connection that is over has no listener.
* **OwnerStaysOwner** – whatever requests about participants overlap, and whatever
  they have checked, the owner resolves to `owner` and their row says so, or is not
  there yet while the creation of the session is still at work.
* **TimelineTellsStatus** – once nothing about a person is on its way, the last event
  about them says what their row says. **EveryCallEnds** – every request and replay
  is answered.

*Flow language*

* **NeverStuck** – an accepted flow never stops for want of a node or of a route,
  except after a gate that threw and at an inherited name (section 7); gates are
  taken to give outcomes they declared (section 8).
  **CanFinish** – from wherever it stands, some walk leads to an end.
  **SearchIsReachability** – the analyzer's searches find the least closed sets
  (stated as the intersection of all closed ones, not as another search).
* **RunsWhatWasPrepared** – a resumed execution goes on with the document it was
  prepared with or not at all. **ReviewIsNarrower** – a review asks no role beyond
  the registered policy and no fewer votes, also after a redeployment.
* **WrittenHolds** (proved and not run) – the review and tool attributes of an accepted
  file are in force as they are written. **NothingIgnored** – every attribute and every route a node of
  an accepted file writes is in force, and of the routes under `## @flow` the one that
  names the start. (The others there are dropped in silence, section 7.)
  **LintAgreesWithLoad** – of one file, under one registry, `flow:lint` passes what
  the server accepts, and nothing else.

## 5. Bounds and fairness

*Tasks, requests, people, keys.* Two requests that overlap are what the races of
this code need: one is between two of its statements, the other runs through. In
SessionRuntime and SessionStream there are three, because a third is what waits
behind two (a queue for a slot, a chain of a lock, an event between a removal and
a broadcast). Two tasks allow a re-approval or a second proposal next to an open
task; three people with overlapping roles include the initiator, one who holds both
roles and one who holds only the later one. Three tasks and six steps let the flow
go through a review twice and reach its command with the loop's earlier task still
around. Two messages are enough for every order of store, create and drain; an
execution that no message made is in `queue_restart` only, because the queue never
takes it and `POST /run` treats it as any other.

*Workloads.* SessionRuntime and SessionStream look at a named list of mixes
(`MCSessionRuntime`, `MCSessionStream`), each chosen for a race: two turns and a
request for the slot, a turn against a disconnect and a `/resume`, a deletion
against turns and against a claim, two creations of one id, a shutdown amid
turns; a person invited, expelled and leaving at once, the owner's row attacked from
three sides, a stranger with a participant's id, a follower who is removed, a
session deleted and created again under a follower.

*Documents.* The 852 cases of `MCFlowProvider` are all graphs over three or four
nodes of the shapes listed there, every deviation of one line from a good file
(dropped, doubled, replaced), and every combination of review attributes against
four policies; most of them with an edit or a redeployment that may come between
loading and resuming.

*Named bounds.* `MaxData` (changes of the data a command depends on), `MaxSteps`
(the step limit, 100 in the code; 6 in `workflow`, 4 in `flow`, enough to meet it),
`maxRuns` of a deployment, `MaxRequests`, `MaxCrashes`, `Limit` (slots: 1; events a
replay reads: 2 here, 500 in the code, so that timelines of three events meet it).
ExecutionLifecycle and WorkflowRunner do not bound crashes at all: also after a second
`/run` either process may die as often as it likes. The ids in
`Tasks` bound how many tasks are ever opened: an action that needs a fresh one is
not taken when none is left. In `workflow` three ids suffice for every path of six
steps, since at most every second step of a path opens a task.

*Deadlock* is not checked, because all these systems may stop: a task is closed,
an execution is settled, the bounded requests are used up.

*Fairness*, where a run checks liveness:

* A call that has begun goes on (weak fairness of `Proceed` or `Progress` for each
  handler or request): awaited promises settle, agent turns and executors have
  timeouts. Nobody is obliged to send a request, to vote, or to call `/run`.
* A startup of the SDK client succeeds or fails (weak fairness, SessionRuntime).
* The database answers: while requests can go on, some request does, and so for
  connections (SessionStream; weaker than fairness to each).
* Time passes: the expiry of an open task comes (weak fairness of `BecomeDue`).
  Every registered policy sets `timeoutSeconds`.
* The sweeper has a timer of its own and is not kept out by requests, however many
  come (strong fairness of `Sweep`, and of `Expires` in WorkflowRunner: the
  model's request slots are few, the server's are not).

Symmetry sets are used in safety runs only.

## 6. Proofs

Each `…Proofs` module proves its theorems for every value of the constants, from
the assumptions the modelled module declares about them (named `…Assumption`; TLC
evaluates each in a run). An assumption says what values are what, that `None` is
none of them, and that a set is finite where people, keys or submissions are
counted. In every module the type invariant is a theorem too.

**ExecutionLifecycleProofs** (`TypeCorrect`, `OneCall`, `PromiseKept`, `LeadHolds`).
`OneCallPerApproval` says nothing of the request that is on its way to the executor.
The invariant adds who *holds* an approval, that is, the handlers that stand at
`approved` or `execute` with that task: there is at most one, and while there is one
the task is approved and nothing was called for it yet. `Close` creates the only
holder, because the conditional update hits once; `Execute` ends it by a call, or
ends it without one and moves on to a re-approval; no other step creates one
(`NoNewHolder`). From the same invariant every step is `Open`, `Close`, `Call` or a
stutter of `TaskPromise`.

`LeadHolds` states `WaitingHasALead` under `OneRequest`: requests are served one after
the other, none is lost or fails, and either the data does not change or every command
needs approval. Each part is needed. Two requests that overlap, or a crash between
closing the task and acting on it, leave a wait without a lead (section 7), and so
does a command that is denied or approved by policy when the data has changed. The
invariant (`LeadInv`) says of the one request how it fits the row (`Fits`): nobody else
writes, so the row is the one it read; and when the row waits without an open task,
the request is on its way to end the wait or to open another (`Leads`).

**ApprovalVotingProofs** (`ApprovedIsEarned`, `VotesConverge`, `InOrder`,
`RejectionWins`). The invariant relates votes to requests (`VoteInv`, `RequestInv`):
what a request has read is a part of what is stored, so an outcome that held when it
was evaluated is still earned when the task is closed (`OutcomeInv`); who approved
under a role stays approved, so a turn judged earlier is still the voter's at the
insertion (`InOrder`); votes that settle an open task have a request that will
count them (`CountInv`). Counting *people* instead of votes goes through an injection
from votes to voters. `RejectionWins` is for one process, where the lock orders
everything (`LockInv`, `RejectInv`).

**WorkflowRunnerProofs** (`WaitingIsDecidableWhenServed`, `OneCallPerStepWhenServed`,
`KeepsFlowPromiseWhenServed`), all under `Served`, which has three cases: started
once; in memory; and requests that do not overlap. The first has an invariant of its
own, the other two share one. The number of handlers is assumed finite.

*Started once* (`Once`), on any number of processes that may die, and either the
memory repository is used or no cancel and no usage report rewrites the row next to
the runner. `OnceInv` has three parts. `ClaimInv`: a task is claimed
by one call at most, after it was resolved. `FlowInv`: what the history says of the
step at hand (a step that waits was asked about; an approval that is unspent has
called nothing). `DriverInv`: one call at a time drives the flow, and its place
(`Stage`) says what it knows of the row, so that its compare-and-swap cannot
surprise it; other calls resolve tasks or change a status outside the wait. A crash
drops the driver and every stage is one the invariant holds without.

*Started as often as one likes* (`Repeatable`): in memory (`InMemory`), one process
that stays up, next to any of the other requests; or anywhere and with any fault, by
requests that do not overlap (`InTurn`). There may be many drivers, one after the
other, and a call may find the flow anywhere. `RepeatedInv` goes by the lock: whoever
stands outside it can only change the status, and never to `waiting_for_approval`
(`Outside`); whoever holds it has read the row as it is, since nobody else writes the
flow (`Inside`); and the row says of the step at hand what the history says
(`RowInv`). Requests that do not overlap need no lock for that: there is one call at
most (`SoleInv`), and one that dies leaves a row which `RowInv` describes.

How often a command is executed is a count (`CountInv`). A `/run` that finds a task
already resolved and the callback of that resolution may both act on it, one after the
other (`reconcileWaiting()`). The calls that can still reach the command of a step are
the runs that have not got to a step of their own and the one call that brings the
resolution (`MayCall`): what is executed, plus those calls, plus one while the task is
unresolved, is never more than the runs. `PutTo` and `RowInv` show that a command
executed again is one people are asked about, never one that the policy approves by
itself.

`Served` is where the properties hold: over SQL two overlapping `/run` break all three
(section 7), and one usage report stored late breaks `WaitingIsDecidable` (run
`workflow_usage`). The refinement maps entering a step to `Visit`, creating a task to
`Ask`, resolving to `Answer`, executing to `Call`; it needs only what both invariants
say of the call at work (`Informed`).

**SessionQueueProofs** (all five safety properties). `NoLostWakeup` counts: queued
items are at most the passes, plus the submissions and requests that will still
start one, plus the one about to be taken (`WakeInv`). `AnsweredFirst` and
`RetryReuses` rest on what a submission has written at each of its steps
(`SubmissionInv`, `RetryInv`); `OneTurn` and `RunningIsDriven` on who drives which
execution (`TurnInv`, `DrivenInv`), across a restart. A late upsert cannot put an
execution back into the queue, because whoever writes a row back has read it after it
was started (`WorkerInv`, `ReadBack`).

**SessionRuntimeProofs** (`OneTurn`, `OneHandle`, `ContextIsTurn`,
`TurnsOnOpenHandle`, `TurnGetsItsOwn`, `SlotsAreShared`, `CreatedStaysOnRecord`, and
`LocksExclude`, `AttachedIsOpen`, `ClientOfThisLife`). A chain of promises is a
lock only because of an order that neither the code nor the model keeps. The
invariant says there is one, for the session chain and the attach chain alike
(`ChainInv`): the tail of a chain has all the others ahead of it (`TailIsLast`), each has
ahead of it what its predecessor has, and its predecessor (`ChainedInOrder`), of two
in a chain one is ahead of the other (`Ordered`), and who was let in has nobody ahead
who is still chained (`LetInIsFirst`). Each step that joins or leaves a chain names the
next order. All of it holds until a shutdown forgets the maps; from it, two callers
never hold one lock of one session (`LocksExclude`). `OneHandle` puts both locks
together (`HandleInv`): who holds the attach lock and is about to open one has found
no handle; a handle that is being closed is still found until `FinishDetach`; and
only the holder of the session lock closes. The slots are accounted for by `SlotInv`: the turns that hold one and
those that were woken for one are together at most the limit unless one barged in,
and no fewer while anyone waits; it needs that there are finitely many requests. A
record stays because of `RecordInv`: who is past its registration finds the
record there, unless the session is deleted or another creation, that found nothing,
is at its rollback or past it.

**SessionStreamProofs** (`OnceInOrder`, `NothingMissed`, `OwnerStaysOwner`,
`OwnTenantSees`, `NoListenerLeft`, `TimelineTellsStatus`). What a connection is given is
followed event by event, by induction over a set of numbers (`NumberLemmas`).
`OnceInOrder`: what was given is in order and none of it lies beyond the cursor
`delivered` (`GivenInv`), and every event that is still to be told lies behind all
those told already, unless it was overtaken (`SequenceInv`). `NothingMissed`: whatever
has been told to a connection is behind its cursor, in its page or in its buffer
(`FollowInv`); the subscription comes before the read, so an event that is in neither
was not committed when the page was read. A request about participants that has passed its check is not about the owner
(`NotAboutOwner`), because the record it was checked against names the owner and
never changes that; so only the creation and the deletion of the session write the
owner's row, whatever happens between check and use (`OwnerIsListed` adds that the
row is missing only while a creation is still at work). The timeline and the rows are
written one after the other; in between, `RowIsTold` says, the one request that
changed the row has the event in hand that says what the row says, and its commit
makes that event the last.

**FlowProviderProofs** (`NeverStuck`, `CanFinish`, `RunsWhatWasPrepared`,
`ReviewIsNarrower`, `WrittenHolds`, `SearchIsReachability`, `NothingIgnored`,
`LintAgreesWithLoad`). The invariant has the searches in it
(`SearchInv`): forwards (`Forward`), the nodes seen can be reached, and their edges lead
to nodes seen or still to do, so when nothing is left to do they are all that can be;
backwards (`Backward`), every node seen or to do has a walk to an end, and whoever has
such a walk is seen in the end. What can be reached is the intersection of the sets
that are closed under the edges, so this takes no induction. When the analyzer reports
nothing, every node that can be reached can therefore finish. `Verdict` puts that
together with what the parser and the validator report into one fact about the file,
of which no search is a part: `Judged` says that an answer to the provider and an
answer to the linter are both this fact, hence agree, whenever they were given.
The invariant then follows the accepted definition into the execution, where the
comparison of documents on reload keeps it the one that was checked. `NothingIgnored`
goes through the blocks of an accepted file line by line: what the parser would have
left out it reports, and a report of that kind blocks; of the `## @flow` block it says
that no line is outside a zone the parser knows, and that the start is the one
written (`FlowIsItsStart`). Finding the first line of a
block needs that a set of numbers has a smallest member (`NumberLemmas`). The cases are
assumed to be documents of the shape a file has (`CasesAreTyped`): numbered lines, and
headings whose names have a lower-case form, which is a name too (`NamesStayNames`).

Only model-checked:

* Nothing of safety: every safety property that a passing run checks is a theorem,
  under the hypothesis named with it above; section 7 says what goes wrong outside.
* All liveness: fairness and ENABLED are outside what TLAPS can prove here, as are the
  library's induction theorems, which take the predicate as an operator. Where a proof
  needs an induction it goes over a set of numbers (`NumberLemmas!Induction`), which
  reaches recursive functions on numbers, but neither folds nor recursive operators.
  No module of this project declares a RECURSIVE operator.

## 7. Where the code does other than it says

Four runs end with a counterexample; each is a behaviour of the code that
contradicts a sentence of the repository (`PROJECT.json` quotes them).

1. `lifecycle_substitution`: a second proposal while the first task is open
   replaces intent *and* hash in the row; approving the first task executes the
   second command. (README: "approve 10,000, execute 100,000" is prevented.)
2. `lifecycle_executor_error`: an approved command whose executor fails leaves the
   execution in `waiting_for_approval` for ever; `failed` is no legal transition
   from there.
3. `workflow_usage`: a usage report of the turn, a whole-row upsert that nobody
   awaits, can undo the status written when the flow entered its wait, and leave
   the combination the comment of the runner calls undecidable.
4. `queue_restart`: the only drain pass after a restart can be ended by an
   exception of `fail()`; what was queued behind stays queued until the next
   message.

The other properties hold with *exceptions*, found while modelling. Each is written
into its property, and named here.

*Runtime*

* Two `@task` turns of one session: the second stores its capability while the first
  waits, and clears it when it ends. The first may then work without one, with
  whatever the session's policy grants (`capability.ts:16`: a task node "never"
  reaches `mcp` and `shell`). An agent that outlives a failed abort loses its
  capability too. `TurnGetsItsOwn` leaves out turns in `lost`.
* `POST /resume` and creations attach outside the attach lock, next to a turn that
  attaches inside it: two handles for one session. After `stop()` has cleared the
  lock maps a turn may attach once more. `OneHandle`.
* A turn that arrives between a release and the start of the turn it woke takes the
  slot, and the woken one goes on as well: more turns than the limit
  (`concurrency.ts`). `SlotsAreShared` leaves out `barged`.
* A stream that is closed aborts the turn that runs in the session, which may be
  another request's; its own turn, if it was still waiting, runs all the same.
* `getClient()` that begins after `stop()` starts a fresh client.
* Two creations of one id at once both find nothing on record; the one that fails
  rolls back the other's record (`session-service.ts:545` says it must not). When
  the registrar fails the row goes, handle and disk remain. `CreatedStaysOnRecord`.

*Stream*

* A replay reads 500 events and no more (`session-event-service.ts:123`): what lies
  between the last of them and the first live event is never sent, although
  `routes/session-collaboration.ts` promises to make up for all that was missed. On
  Postgres a broadcast may overtake an earlier commit's, and the listener drops
  what is below its cursor. A session deleted and created anew counts from 1 again,
  below the cursor of who followed. `NothingMissed`.
* A replay that fails leaves its listener; so does a connection that breaks during
  the access check, with its heartbeat. `NoListenerLeft`.
* Two requests about one person may be told in the other order than they took
  effect, and an append that fails leaves a status changed and untold.
  `TimelineTellsStatus`.
* The open stream of a removed participant goes on; a request of theirs that is past
  its check goes through (`participant-service.ts:116`).

*Flow language*

* A gate that throws gives `fail` even if it was registered without it
  (`runtime.ts:214`), and then no route need exist. `NeverStuck`.
* A route other than `start` under `## @flow` is kept by the parser and read by nobody
  (`flow-parser.ts:282-294`); the validator reports it only when it is written twice
  (`flow-validator.ts:430`). `NothingIgnored` says nothing of them.
* An inherited name (`constructor`) as a target counts as a node: the analyzer ends
  in a TypeError (`flow-analyzer.ts:79`), and a flow without nodes that starts there
  is accepted and fails when it runs. `NeverStuck`.

*Executions, flows, queue, voting*

* A task resolved while the process was going down is not acted upon after the
  restart; `reconcileWaiting()` is there, but `POST /run` calls `start()` first,
  which rejects a waiting execution (`test/workflow.test.ts:1115` expects it to
  converge on recovery).
* Over SQL a second `POST /run` that overlaps the first call takes the flow back:
  `start()` reads the row, and its upsert of the whole row, outside the lock of the runner, may be stored when the
  first call has moved on (`execution-service.ts:275`); the version is left out of the
  upsert and does not notice (`sql-repository.ts:84`). The flow then stands at an
  earlier step, even after it completed, and a command that the policy approves is
  executed again, with its idempotency key as the only thing that can stop it. TLC
  finds that in `MCWorkflowRunner` with two overlapping runs over SQL as the
  deployment. Named by `Served`; in the run `workflow` a second `/run` over SQL comes
  when no other request is being worked on.
* `POST /commands` starts an execution that was only created, with no turn behind it
  (`routes/executions.ts:271`); when the command is denied, fails, or throws, the
  execution says `running` until somebody runs or cancels it, or the process restarts.
  The update that writes the intent (`execution-service.ts:463`) and a usage report
  (`:342`) are upserts of the whole row and may put an earlier `running` back over a
  status that has been reached since. `RunningIsDriven` calls these adrift.
* A command whose task is approved after its execution was cancelled is still
  executed; with overlapping requests the whole-row upsert can undo a terminal
  status.
* `execution.completed` is appended for an execution that waits
  (`session-coordinator.ts:187`). `POST /run` may add a turn of its own to an
  execution of the queue.
* One callback of a resolution that throws ends the whole sweep
  (`human-task-service.ts:383`).
* Two deliveries of one `clientMessageId` at once create two executions.
* The counts of `ALL` are of votes, not of distinct roles; a person who holds two
  roles votes with the first only, so a SEQUENTIAL policy may need another person; a
  delegate without a role of the policy sees the task but cannot vote. `ANY` with a
  `requiredCount` of 0 would count as settled before any vote, which is why
  `VotesConverge` asks for one.

## 8. What is not modelled, and why

* *Storage, HTTP, web client, providers, MCP, configuration, workspaces*: I/O,
  tables and a user interface without protocol state of their own. The modules use
  the guarantees of the database (atomic statements, unique constraints,
  transactions) as given; what a client may send at any time is what they take as
  requests.
* *Database errors other than a crash*, except a failing append and a failing replay
  in SessionStream: a failing statement is like a crash of one request. In
  SessionQueue that request's retry would be answered without waking the queue;
  the hazard is listed.
* *Texts*: prompts, redaction, hashing (a command is its own hash), hooks, usage
  figures, wording of issues; characters, code fences and prose of a `SKILL.md`.
* *Inside one kind of permission*: the paths, URLs and command lines the tool policy
  looks at.
* *Several processes for one session runtime*: each process has its own; SessionQueue
  and SessionRuntime are of one process, as the deployment notes ask for.
* *The principal of a single-tenant installation without a record*: it passes every
  access check.
* *A gate that returns an outcome it did not declare*: a gate is the deployment's
  code, taken at its word.
* *Not reachable today*: `pauseForInput()` (modelled all the same) and
  `cancelPending()` have no caller; the wiring supplies no `resolveResourceVersion`.

## 9. Plan

Done: all the modules and proofs above. What would come next, in order:

1. An abstract specification of the stream (a subscriber is a prefix of the
   timeline) that SessionStream implements outside the exceptions.
2. The queue next to the runtime: a drain pass whose turn waits for a slot.

## 10. Running the checks

```
tlc -config lifecycle_safety.cfg MCExecutionLifecycle.tla   # also _requests, _substitution, _executor_error
tlc -config voting.cfg MCApprovalVoting.tla
tlc -config workflow.cfg MCWorkflowRunner.tla               # also workflow_usage
tlc -config queue.cfg MCSessionQueue.tla                    # also queue_restart
tlc -config runtime.cfg MCSessionRuntime.tla
tlc -config stream.cfg MCSessionStream.tla
tlc -config flow.cfg MCFlowProvider.tla
tlapm ExecutionLifecycleProofs.tla      # and every other ...Proofs.tla, NumberLemmas.tla
```

Every run takes between seconds and about four minutes on a small machine; the
proofs take minutes each, WorkflowRunnerProofs the longest.
