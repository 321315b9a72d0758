---------------------------- MODULE SessionRuntime ----------------------------
(***************************************************************************)
(* The SDK sessions of one process and the requests that use them           *)
(* (server/src/services/session-service.ts): agent turns, which need an     *)
(* attached handle, one of Limit slots and the lock of their session        *)
(* (agent/agent-execution.ts, services/turn-runner.ts, concurrency.ts);     *)
(* disconnects and deletions, which take the same lock; creations and POST   *)
(* /resume, which attach without one; what only asks the runtime; the        *)
(* capability of the @task node a turn runs for (workflow/capability.ts);    *)
(* and the shutdown of the process.                                          *)
(*                                                                          *)
(* A request is one asynchronous call; "at" is the await it has reached.    *)
(* What runs between two awaits is one action.  A request is known by the   *)
(* execution it runs for: a flow is at one node at a time, so the pair of   *)
(* execution and node that owns a capability is the request too.            *)
(***************************************************************************)
EXTENDS Naturals, Sequences, FiniteSets

CONSTANTS
  Requests, Sessions,
  Workloads,     \* the sets of requests that are looked at, see Workload
  Limit,         \* config.maxConcurrentExecutions
  AgentTools,    \* config.workflowAgentTools
  SessionKinds,  \* kinds of permission the session's own policy can grant
  None

Kinds == {"read", "write", "shell", "mcp", "url"}

(* "task": a turn of a @task node; "queue": of the queue of a shared session;*)
(* "stream", "plain": of POST /chat, with and without server-sent events.    *)
TurnKinds == {"task", "queue", "stream", "plain"}

(* "release" is the disconnect after a turn whose execution waits; it, the   *)
(* queue and the flow are detached from any HTTP request.                    *)
Detached == {"task", "queue", "release"}

Workload ==
  [kind : [Requests -> TurnKinds \cup {"release", "disconnect", "delete", "resume",
                                       "create", "probe"}],
   session : [Requests -> Sessions],
   tools : [Requests -> SUBSET Kinds],  \* "tools:" of the node, all if absent
   exists : BOOLEAN,                    \* the sessions were created before
   stops : BOOLEAN,                     \* the process is told to stop
   claims : BOOLEAN]                    \* single tenant: legacy claim allowed

WorkloadAssumption == Workloads \subseteq Workload
LimitAssumption == Limit \in Nat \ {0}
ToolAssumption == AgentTools \subseteq Kinds /\ SessionKinds \subseteq Kinds
NoneAssumption == None \notin Requests /\ None \notin Nat

ASSUME WorkloadAssumption
ASSUME LimitAssumption
ASSUME ToolAssumption
ASSUME NoneAssumption

VARIABLES
  work,      \* the workload
  at,        \* the await each request is in
  using,     \* the handle each request holds, a number per session, or None
  attached,  \* sessions: the handle that is found under a session id
  made,      \* how many handles of a session have been opened
  open,      \* the handles that are open, as <<session, number>>
  tail,      \* sessionLocks and attachLocks: the last request in each chain
  behind,    \* per lock, the request whose promise a request was chained to
  active,    \* concurrency.ts: turns that hold a slot
  waiters,   \* concurrency.ts: turns that wait for one
  barged,    \* history: a turn took a slot another had just been woken for
  ctx,       \* executionContext: the execution that runs in a session
  cap,       \* capability.ts: the execution whose capability a session has
  lost,      \* history: task turns whose capability another one replaced
  working,   \* turns whose agent works
  disk,      \* sessions the runtime still has on disk
  row,       \* sessions the registry still has
  found,     \* creations that found their session on record
  created,   \* history: creations that were answered with success
  client,    \* the running client, by the generation it was started in
  starting,  \* the startup in progress that getClient() joins
  startups,  \* generations of the startups that have not ended
  since,     \* the generation in which a request asked for the client
  gen,       \* lifecycleGeneration
  stop       \* how far the shutdown is

lockVars == <<tail, behind>>
slotVars == <<active, waiters, barged>>
capVars == <<cap, lost>>
handleVars == <<using, attached, made, open>>
createVars == <<found, created>>
diskVars == <<disk, row, createVars>>
clientVars == <<client, starting, startups, since, gen>>

vars == <<work, at, lockVars, slotVars, capVars, ctx, working, handleVars,
          diskVars, clientVars, stop>>

-------------------------------------------------------------------------------
(* Here and below, a definition that nothing uses is a mutant of the one     *)
(* after it: a plausible bug that the properties are shown to detect.        *)

Kind(r) == work.kind[r]
Session(r) == work.session[r]
IsTurn(r) == Kind(r) \in TurnKinds
Handle(r) == <<Session(r), using[r]>>

Go(r, step) == at' = [at EXCEPT ![r] = step]

-------------------------------------------------------------------------------
(* withSessionLock and withAttachLock: every caller chains its work to the   *)
(* promise of the last caller, and the last one to end drops the chain.  A   *)
(* request uses either lock once, so where it is says whether its promise    *)
(* has settled.                                                              *)

Attaching == {"attach", "reowned", "client", "starting", "open", "opening"}
OverEarly == {"ending", "release", "clear", "done"}

Over == {"release", "clear", "done"}

Settled(lock, r) ==
  IF lock = "session" THEN at[r] \in Over ELSE at[r] \notin Attaching

InChain == {"lock", "sending", "running", "aborting", "ending", "detach",
            "detaching", "deleting", "unregister"}

(* A request that deletes waits for the client while it holds the lock.      *)
Chained(r) ==
  at[r] \in InChain \/ (Kind(r) = "delete" /\ at[r] \in {"client", "starting"})

Join(lock, r) ==
  /\ tail' = [tail EXCEPT ![lock][Session(r)] = r]
  /\ behind' = [behind EXCEPT ![lock][r] = tail[lock][Session(r)]]

MayEnterFreely(lock, r) == TRUE

MayEnter(lock, r) ==
  behind[lock][r] # None => Settled(lock, behind[lock][r])

LeaveAlways(lock, r) ==
  /\ tail' = [tail EXCEPT ![lock][Session(r)] = None]
  /\ UNCHANGED behind

Leave(lock, r) ==
  /\ tail' = IF tail[lock][Session(r)] = r
               THEN [tail EXCEPT ![lock][Session(r)] = None] ELSE tail
  /\ UNCHANGED behind

-------------------------------------------------------------------------------
(* assertOwner: without a row a single tenant claims the session, anybody    *)
(* else is refused.                                                          *)

Owned(s) == row[s] \/ work.claims

Claim(s) == row' = [row EXCEPT ![s] = TRUE]

-------------------------------------------------------------------------------
(* What the session's permission handler answers at this moment: the kinds   *)
(* it would grant.  Without a capability the session's own policy decides;   *)
(* a capability of another execution than the one that runs denies all.      *)

NeverMore == {"read", "write", "url"}

Tools(r) == AgentTools \cap NeverMore \cap work.tools[r]

Granted(s) ==
  IF cap[s] = None THEN SessionKinds
  ELSE IF ctx[s] # cap[s] THEN {}
  ELSE SessionKinds \cap Tools(cap[s])

-------------------------------------------------------------------------------
(* A turn gets its handle: resumeExecutionSession, getOrResumeSession.       *)

(* The task turn stores its capability first, DefaultFlowNodeRuntime.runTask.*)
StartTurn(r) ==
  /\ at[r] = "new" /\ IsTurn(r)
  /\ Kind(r) \in Detached \/ stop = "no"
  /\ Go(r, "look")
  /\ IF Kind(r) = "task"
       THEN /\ cap' = [cap EXCEPT ![Session(r)] = r]
            /\ lost' = lost \cup ({cap[Session(r)]} \ {None, r})
       ELSE UNCHANGED capVars
  /\ UNCHANGED <<lockVars, slotVars, ctx, working, handleVars, diskVars,
                 clientVars, stop>>

LookUp(r) ==
  /\ at[r] = "look"
  /\ IF attached[Session(r)] # None
       THEN /\ using' = [using EXCEPT ![r] = attached[Session(r)]]
            /\ Go(r, "owned")
            /\ UNCHANGED lockVars
       ELSE Go(r, "attach") /\ Join("attach", r) /\ UNCHANGED using
  /\ UNCHANGED <<slotVars, capVars, ctx, working, attached, made, open,
                 diskVars, clientVars, stop>>

AttachAnyway(r) ==
  /\ at[r] = "attach" /\ MayEnter("attach", r)
  /\ Go(r, "client")
  /\ UNCHANGED <<lockVars, slotVars, capVars, ctx, working, handleVars,
                 diskVars, clientVars, stop>>

Attach(r) ==
  /\ at[r] = "attach" /\ MayEnter("attach", r)
  /\ IF attached[Session(r)] # None
       THEN Go(r, "reowned") /\ using' = [using EXCEPT ![r] = attached[Session(r)]]
       ELSE Go(r, "client") /\ UNCHANGED using
  /\ UNCHANGED <<lockVars, slotVars, capVars, ctx, working, attached, made,
                 open, diskVars, clientVars, stop>>

(* Where a request goes when it has its handle, and when it fails before it  *)
(* has a slot.                                                               *)
WithHandle(r) == IF IsTurn(r) THEN "slot" ELSE "done"
Failed(r) == IF Kind(r) = "task" THEN "clear" ELSE "done"

LeaveAttach(r) ==
  IF at[r] = "owned" \/ Kind(r) = "resume" THEN UNCHANGED lockVars ELSE Leave("attach", r)

(* assertOwner of a handle that was found, and before a handle is opened.    *)
CheckOwner(r) ==
  /\ at[r] \in {"owned", "reowned", "open"}
  /\ IF Owned(Session(r))
       THEN /\ Claim(Session(r))
            /\ IF at[r] = "open" THEN Go(r, "opening") /\ UNCHANGED lockVars
               ELSE Go(r, WithHandle(r)) /\ LeaveAttach(r)
       ELSE Go(r, Failed(r)) /\ LeaveAttach(r) /\ UNCHANGED row
  /\ UNCHANGED <<slotVars, capVars, ctx, working, handleVars, disk,
                 createVars, clientVars, stop>>

(* client.resumeSession(): it fails for a session that is gone, and with a   *)
(* client that was stopped meanwhile.                                        *)
OpenHandle(r) ==
  /\ at[r] = "opening"
  /\ LeaveAttach(r)
  /\ IF disk[Session(r)] /\ since[r] = gen
       THEN LET h == made[Session(r)] + 1 IN
            /\ made' = [made EXCEPT ![Session(r)] = h]
            /\ open' = open \cup {<<Session(r), h>>}
            /\ attached' = [attached EXCEPT ![Session(r)] = h]
            /\ using' = [using EXCEPT ![r] = h]
            /\ Go(r, WithHandle(r))
       ELSE Go(r, Failed(r)) /\ UNCHANGED handleVars
  /\ UNCHANGED <<slotVars, capVars, ctx, working, diskVars, clientVars, stop>>

(* POST /resume: resumeSession() without the attach lock.                    *)
StartResume(r) ==
  /\ at[r] = "new" /\ Kind(r) = "resume" /\ stop = "no"
  /\ IF attached[Session(r)] # None
       THEN Go(r, "owned") /\ using' = [using EXCEPT ![r] = attached[Session(r)]]
       ELSE Go(r, "client") /\ UNCHANGED using
  /\ UNCHANGED <<lockVars, slotVars, capVars, ctx, working, attached, made,
                 open, diskVars, clientVars, stop>>

-------------------------------------------------------------------------------
(* getClient(): the callers share one startup; a startup that ends in        *)
(* another generation than it began in stops its client and fails.           *)

WithClient(r) ==
  CASE Kind(r) = "delete" -> "deleting"
    [] Kind(r) = "create" -> "existing"
    [] Kind(r) = "probe"  -> "done"
    [] OTHER              -> "open"

NeedClient(r) ==
  /\ at[r] = "client"
  /\ since' = [since EXCEPT ![r] = gen]
  /\ IF client # None
       THEN Go(r, WithClient(r)) /\ UNCHANGED <<starting, startups>>
       ELSE /\ Go(r, "starting")
            /\ starting' = gen
            /\ startups' = startups \cup {gen}
  /\ UNCHANGED <<lockVars, slotVars, capVars, ctx, working, handleVars,
                 diskVars, client, gen, stop>>

(* The callers of startup g go on to a step that depends on what they do.    *)
WakeCallers(g, step(_)) ==
  at' = [r \in Requests |->
           IF at[r] = "starting" /\ since[r] = g THEN step(r) ELSE at[r]]

WithoutClient(r) == IF IsTurn(r) THEN Failed(r) ELSE "done"

(* The chains that the callers hold are dropped when the last one leaves.    *)
CallersLeave(g) ==
  /\ tail' = [lock \in {"session", "attach"} |-> [s \in Sessions |->
                IF tail[lock][s] # None /\ at[tail[lock][s]] = "starting"
                     /\ since[tail[lock][s]] = g
                  THEN None ELSE tail[lock][s]]]
  /\ UNCHANGED behind

StaysAnyway(g) == TRUE
StaysCurrent(g) == g = gen

ClientStarts(g) ==
  /\ g \in startups
  /\ startups' = startups \ {g}
  /\ starting' = IF starting = g THEN None ELSE starting
  /\ IF StaysCurrent(g)
       THEN client' = g /\ WakeCallers(g, WithClient) /\ UNCHANGED lockVars
       ELSE WakeCallers(g, WithoutClient) /\ CallersLeave(g) /\ UNCHANGED client
  /\ UNCHANGED <<slotVars, capVars, ctx, working, handleVars, diskVars, since,
                 gen, stop>>

ClientFails(g) ==
  /\ g \in startups
  /\ startups' = startups \ {g}
  /\ starting' = IF starting = g THEN None ELSE starting
  /\ WakeCallers(g, WithoutClient)
  /\ CallersLeave(g)
  /\ UNCHANGED <<slotVars, capVars, ctx, working, handleVars, diskVars, client,
                 since, gen, stop>>

-------------------------------------------------------------------------------
(* A turn runs: withExecutionSlot, withSessionLock, runTurn.                 *)

(* A turn that finds a slot takes it, also when another one was woken for it *)
(* and has not run yet.                                                      *)
SlotIsFree == active < Limit

TakeSlot(r) ==
  /\ at[r] = "slot"
  /\ IF SlotIsFree
       THEN /\ active' = active + 1
            /\ barged' = (barged \/ \E q \in Requests : at[q] = "woken")
            /\ Go(r, "lock") /\ Join("session", r)
            /\ UNCHANGED waiters
       ELSE /\ waiters' = Append(waiters, r)
            /\ Go(r, "queued")
            /\ UNCHANGED <<active, barged, lockVars>>
  /\ UNCHANGED <<capVars, ctx, working, handleVars, diskVars, clientVars, stop>>

WakeUp(r) ==
  /\ at[r] = "woken"
  /\ active' = active + 1
  /\ Go(r, "lock") /\ Join("session", r)
  /\ UNCHANGED <<waiters, barged, capVars, ctx, working, handleVars, diskVars,
                 clientVars, stop>>

BeginTurn(r) ==
  /\ at[r] = "lock" /\ IsTurn(r) /\ MayEnter("session", r)
  /\ ctx' = [ctx EXCEPT ![Session(r)] = r]
  /\ Go(r, "sending")
  /\ UNCHANGED <<lockVars, slotVars, capVars, working, handleVars, diskVars,
                 clientVars, stop>>

(* session.sendAndWait(): a handle that was closed refuses.                  *)
Send(r) ==
  /\ at[r] = "sending"
  /\ IF Handle(r) \in open
       THEN Go(r, "running") /\ working' = working \cup {r}
       ELSE Go(r, "ending") /\ UNCHANGED working
  /\ UNCHANGED <<lockVars, slotVars, capVars, ctx, handleVars, diskVars,
                 clientVars, stop>>

(* The agent is idle, by itself or because the turn was aborted, or its      *)
(* session was disconnected under it.                                        *)
AgentIdle(r) ==
  /\ at[r] \in {"running", "aborting"}
  /\ working' = working \ {r}
  /\ Go(r, "ending")
  /\ UNCHANGED <<lockVars, slotVars, capVars, ctx, handleVars, diskVars,
                 clientVars, stop>>

(* The watchdog: the turn is aborted and idleness awaited for a while.       *)
TimeOut(r) ==
  /\ at[r] = "running"
  /\ Go(r, "aborting")
  /\ UNCHANGED <<lockVars, slotVars, capVars, ctx, working, handleVars,
                 diskVars, clientVars, stop>>

(* The abort fails or idleness is not seen in time: the turn ends while its  *)
(* agent may go on.                                                          *)
AbortFails(r) ==
  /\ at[r] = "aborting"
  /\ Go(r, "ending")
  /\ UNCHANGED <<lockVars, slotVars, capVars, ctx, working, handleVars,
                 diskVars, clientVars, stop>>

LateIdle(r) ==
  /\ r \in working /\ at[r] \notin {"running", "aborting"}
  /\ working' = working \ {r}
  /\ UNCHANGED <<at, lockVars, slotVars, capVars, ctx, handleVars, diskVars,
                 clientVars, stop>>

(* The client of a streamed turn leaves, in whatever step the turn is:       *)
(* abortTurn() stops the agents that work on the handle found under the      *)
(* session's id, whoever sent them.  A turn that is not sent yet goes on.    *)
ClientLeaves(r) ==
  /\ Kind(r) = "stream"
  /\ at[r] \in {"slot", "queued", "woken", "lock", "sending", "running", "aborting"}
  /\ LET hit == {q \in working : Handle(q) = <<Session(r), attached[Session(r)]>>} IN
     /\ hit # {}
     /\ working' = working \ hit
     /\ at' = [q \in Requests |->
                 IF q \in hit /\ at[q] \in {"running", "aborting"}
                   THEN "ending" ELSE at[q]]
  /\ UNCHANGED <<lockVars, slotVars, capVars, ctx, handleVars, diskVars,
                 clientVars, stop>>

EndTurn(r) ==
  /\ at[r] = "ending"
  /\ ctx' = IF ctx[Session(r)] = r THEN [ctx EXCEPT ![Session(r)] = None] ELSE ctx
  /\ Leave("session", r)
  /\ Go(r, "release")
  /\ UNCHANGED <<slotVars, capVars, working, handleVars, diskVars, clientVars, stop>>

(* The slot is given back and the first waiter woken: it takes its slot in a *)
(* later step.                                                               *)
ReleaseUnseen(r) ==
  /\ at[r] = "release"
  /\ active' = active - 1
  /\ Go(r, Failed(r))
  /\ UNCHANGED <<waiters, barged, lockVars, capVars, ctx, working, handleVars,
                 diskVars, clientVars, stop>>

ReleaseSlot(r) ==
  /\ at[r] = "release"
  /\ active' = active - 1
  /\ IF waiters = <<>>
       THEN Go(r, Failed(r)) /\ UNCHANGED waiters
       ELSE /\ waiters' = Tail(waiters)
            /\ at' = [at EXCEPT ![r] = Failed(r), ![Head(waiters)] = "woken"]
  /\ UNCHANGED <<barged, lockVars, capVars, ctx, working, handleVars, diskVars,
                 clientVars, stop>>

(* The finally of runTask: only the capability it stored itself.             *)
ClearsAny(r) == TRUE

ClearsOwn(r) == cap[Session(r)] = r

ClearCapability(r) ==
  /\ at[r] = "clear"
  /\ cap' = IF ClearsOwn(r) THEN [cap EXCEPT ![Session(r)] = None] ELSE cap
  /\ Go(r, "done")
  /\ UNCHANGED <<lost, lockVars, slotVars, ctx, working, handleVars, diskVars,
                 clientVars, stop>>

-------------------------------------------------------------------------------
(* disconnectSession, disconnectIdleSession, deleteSessionPermanently.       *)

Detaches == {"release", "disconnect", "delete"}

StartDetach(r) ==
  /\ at[r] = "new" /\ Kind(r) \in Detaches
  /\ Kind(r) \in Detached \/ stop = "no"
  /\ Go(r, "lock") /\ Join("session", r)
  /\ UNCHANGED <<slotVars, capVars, ctx, working, handleVars, diskVars,
                 clientVars, stop>>

(* Inside the lock: the owner again, except after a turn that waits.         *)
EnterDetach(r) ==
  /\ at[r] = "lock" /\ Kind(r) \in Detaches /\ MayEnter("session", r)
  /\ IF Kind(r) = "release" \/ Owned(Session(r))
       THEN /\ Go(r, "detach")
            /\ IF Kind(r) = "release" THEN UNCHANGED row ELSE Claim(Session(r))
            /\ UNCHANGED lockVars
       ELSE Go(r, "done") /\ Leave("session", r) /\ UNCHANGED row
  /\ UNCHANGED <<slotVars, capVars, ctx, working, handleVars, disk,
                 createVars, clientVars, stop>>

DetachRelocks(r) ==
  /\ at[r] = "detach"
  /\ Go(r, "lock") /\ Join("session", r)
  /\ UNCHANGED <<slotVars, capVars, ctx, working, handleVars, diskVars,
                 clientVars, stop>>

Detach(r) ==
  /\ at[r] = "detach"
  /\ IF attached[Session(r)] # None
       THEN /\ using' = [using EXCEPT ![r] = attached[Session(r)]]
            /\ open' = open \ {<<Session(r), attached[Session(r)]>>}
            /\ Go(r, "detaching") /\ UNCHANGED lockVars
       ELSE /\ UNCHANGED <<using, open>>
            /\ IF Kind(r) = "delete" THEN Go(r, "client") /\ UNCHANGED lockVars
               ELSE Go(r, "done") /\ Leave("session", r)
  /\ UNCHANGED <<slotVars, capVars, ctx, working, attached, made, diskVars,
                 clientVars, stop>>

(* The finally of the disconnect: whether or not it threw, the id is free.   *)
ForgetsEntry(r) == attached' = [attached EXCEPT ![Session(r)] = None]

FinishDetach(r) ==
  /\ at[r] = "detaching"
  /\ ForgetsEntry(r)
  /\ IF Kind(r) = "delete" THEN Go(r, "client") /\ UNCHANGED lockVars
     ELSE Go(r, "done") /\ Leave("session", r)
  /\ UNCHANGED <<slotVars, capVars, ctx, working, using, made, open, diskVars,
                 clientVars, stop>>

DeleteFiles(r) ==
  /\ at[r] = "deleting"
  /\ disk' = [disk EXCEPT ![Session(r)] = FALSE]
  /\ IF disk[Session(r)] THEN Go(r, "unregister") /\ UNCHANGED lockVars
     ELSE Go(r, "done") /\ Leave("session", r)
  /\ UNCHANGED <<slotVars, capVars, ctx, working, handleVars, row,
                 createVars, clientVars, stop>>

Unregister(r) ==
  /\ at[r] = "unregister"
  /\ row' = [row EXCEPT ![Session(r)] = FALSE]
  /\ Go(r, "done") /\ Leave("session", r)
  /\ UNCHANGED <<slotVars, capVars, ctx, working, handleVars, disk,
                 createVars, clientVars, stop>>

-------------------------------------------------------------------------------
(* createSession: the record first, then the session in the runtime, then    *)
(* its owner as a participant; what fails after the record was written       *)
(* removes it again, if this request was the one that made it.               *)

StartCreate(r) ==
  /\ at[r] = "new" /\ Kind(r) \in {"create", "probe"} /\ stop = "no"
  /\ Go(r, "client")
  /\ UNCHANGED <<lockVars, slotVars, capVars, ctx, working, handleVars,
                 diskVars, clientVars, stop>>

LookForRow(r) ==
  /\ at[r] = "existing"
  /\ found' = IF row[Session(r)] THEN found \cup {r} ELSE found
  /\ Go(r, "register")
  /\ UNCHANGED <<lockVars, slotVars, capVars, ctx, working, handleVars,
                 disk, row, created, clientVars, stop>>

Register(r) ==
  /\ at[r] = "register"
  /\ Claim(Session(r))
  /\ Go(r, "creating")
  /\ UNCHANGED <<lockVars, slotVars, capVars, ctx, working, handleVars, disk,
                 createVars, clientVars, stop>>

CreateHandle(r) ==
  /\ at[r] = "creating" /\ since[r] = gen
  /\ LET h == made[Session(r)] + 1 IN
     /\ made' = [made EXCEPT ![Session(r)] = h]
     /\ open' = open \cup {<<Session(r), h>>}
     /\ attached' = [attached EXCEPT ![Session(r)] = h]
  /\ disk' = [disk EXCEPT ![Session(r)] = TRUE]
  /\ Go(r, "registrar")
  /\ UNCHANGED <<lockVars, slotVars, capVars, ctx, working, using, row,
                 createVars, clientVars, stop>>

RegisterOwner(r) ==
  /\ at[r] = "registrar"
  /\ created' = created \cup {r}
  /\ Go(r, "done")
  /\ UNCHANGED <<lockVars, slotVars, capVars, ctx, working, handleVars,
                 disk, row, found, clientVars, stop>>

RollsBackAlways(r) == TRUE

RollsBack(r) == r \notin found

CreateFails(r) ==
  /\ at[r] \in {"creating", "registrar"}
  /\ Go(r, IF RollsBack(r) THEN "undo" ELSE "done")
  /\ UNCHANGED <<lockVars, slotVars, capVars, ctx, working, handleVars,
                 diskVars, clientVars, stop>>

UndoCreate(r) ==
  /\ at[r] = "undo"
  /\ row' = [row EXCEPT ![Session(r)] = FALSE]
  /\ Go(r, "done")
  /\ UNCHANGED <<lockVars, slotVars, capVars, ctx, working, handleVars, disk,
                 createVars, clientVars, stop>>

-------------------------------------------------------------------------------
(* The shutdown: server.close() waits for the HTTP requests, stop() closes   *)
(* the handles and then forgets handles and locks; detached turns go on      *)
(* until the process exits.                                                  *)

StopBegins ==
  /\ stop = "no" /\ work.stops
  /\ \A r \in Requests : Kind(r) \in Detached \/ at[r] \in {"new", "done"}
  /\ stop' = "closing"
  /\ gen' = gen + 1
  /\ starting' = None
  /\ client' = None
  /\ UNCHANGED <<at, lockVars, slotVars, capVars, ctx, working, handleVars,
                 diskVars, startups, since>>

StopHandle(s) ==
  /\ stop = "closing"
  /\ <<s, attached[s]>> \in open
  /\ open' = open \ {<<s, attached[s]>>}
  /\ UNCHANGED <<at, lockVars, slotVars, capVars, ctx, working, using, attached,
                 made, diskVars, clientVars, stop>>

StopForgets ==
  /\ stop = "closing"
  /\ \A s \in Sessions : <<s, attached[s]>> \notin open
  /\ stop' = "forgotten"
  /\ attached' = [s \in Sessions |-> None]
  /\ tail' = [lock \in {"session", "attach"} |-> [s \in Sessions |-> None]]
  /\ UNCHANGED <<at, behind, slotVars, capVars, ctx, working, using,
                 made, open, diskVars, clientVars>>

Exit ==
  /\ stop = "forgotten"
  /\ stop' = "exited"
  /\ UNCHANGED <<at, lockVars, slotVars, capVars, ctx, working, handleVars,
                 diskVars, clientVars>>

-------------------------------------------------------------------------------
Init ==
  /\ work \in Workloads
  /\ at = [r \in Requests |-> "new"]
  /\ using = [r \in Requests |-> None]
  /\ attached = [s \in Sessions |-> None]
  /\ made = [s \in Sessions |-> 0]
  /\ open = {}
  /\ tail = [lock \in {"session", "attach"} |-> [s \in Sessions |-> None]]
  /\ behind = [lock \in {"session", "attach"} |-> [r \in Requests |-> None]]
  /\ active = 0
  /\ waiters = <<>>
  /\ barged = FALSE
  /\ ctx = [s \in Sessions |-> None]
  /\ cap = [s \in Sessions |-> None]
  /\ lost = {}
  /\ working = {}
  /\ disk = [s \in Sessions |-> work.exists]
  /\ row = [s \in Sessions |-> work.exists]
  /\ found = {}
  /\ created = {}
  /\ client = None
  /\ starting = None
  /\ startups = {}
  /\ since = [r \in Requests |-> 0]
  /\ gen = 0
  /\ stop = "no"

(* What the scheduler owes a request; the agent owes nothing, but its turn   *)
(* is timed and so is the abort.                                             *)
Progress(r) ==
  \/ LookUp(r) \/ Attach(r) \/ CheckOwner(r) \/ OpenHandle(r) \/ NeedClient(r)
  \/ TakeSlot(r) \/ WakeUp(r) \/ BeginTurn(r) \/ Send(r) \/ TimeOut(r)
  \/ AbortFails(r) \/ EndTurn(r) \/ ReleaseSlot(r) \/ ClearCapability(r)
  \/ EnterDetach(r) \/ Detach(r) \/ FinishDetach(r) \/ DeleteFiles(r)
  \/ Unregister(r) \/ LookForRow(r) \/ Register(r) \/ CreateHandle(r)
  \/ RegisterOwner(r) \/ CreateFails(r) \/ UndoCreate(r)

(* While the process lives; the workload is what it is.                      *)
Alive == stop # "exited" /\ UNCHANGED work

Next ==
  /\ Alive
  /\ \/ \E r \in Requests :
          \/ StartTurn(r) \/ StartResume(r) \/ StartDetach(r) \/ StartCreate(r)
          \/ Progress(r)
          \/ AgentIdle(r) \/ LateIdle(r) \/ ClientLeaves(r)
     \/ \E g \in startups : ClientStarts(g) \/ ClientFails(g)
     \/ StopBegins
     \/ \E s \in Sessions : StopHandle(s)
     \/ StopForgets
     \/ Exit

Spec == Init /\ [][Next]_vars

FairSpec ==
  /\ Spec
  /\ \A r \in Requests : WF_vars(Alive /\ Progress(r))
  /\ \A g \in 0..1 : WF_vars(Alive /\ (ClientStarts(g) \/ ClientFails(g)))

-------------------------------------------------------------------------------
(* Properties.                                                               *)

Steps == {"new", "look", "slot", "queued", "woken"} \cup Attaching \cup InChain
           \cup {"owned", "existing", "register", "creating", "registrar", "undo"}
           \cup Over

Locks == {"session", "attach"}

(* Every request is at an await of its path, a slot is never given back that *)
(* was not taken, and no request waits for a slot twice.                     *)
TypeOK ==
  /\ work \in Workloads
  /\ at \in [Requests -> Steps]
  /\ using \in [Requests -> Nat \cup {None}]
  /\ attached \in [Sessions -> Nat \cup {None}]
  /\ made \in [Sessions -> Nat]
  /\ open \subseteq {<<s, h>> : s \in Sessions, h \in 1..Cardinality(Requests)}
  /\ tail \in [Locks -> [Sessions -> Requests \cup {None}]]
  /\ behind \in [Locks -> [Requests -> Requests \cup {None}]]
  /\ active \in Nat
  /\ \A i, j \in DOMAIN waiters :
       /\ waiters[i] \in Requests /\ at[waiters[i]] = "queued"
       /\ waiters[i] = waiters[j] => i = j
  /\ barged \in BOOLEAN
  /\ ctx \in [Sessions -> Requests \cup {None}]
  /\ cap \in [Sessions -> Requests \cup {None}]
  /\ lost \subseteq Requests
  /\ working \subseteq Requests
  /\ disk \in [Sessions -> BOOLEAN] /\ row \in [Sessions -> BOOLEAN]
  /\ found \subseteq Requests /\ created \subseteq Requests
  /\ client \in {None, 0, 1} /\ starting \in {None, 0, 1}
  /\ startups \subseteq {0, 1} /\ gen \in {0, 1} /\ since \in [Requests -> {0, 1}]
  /\ stop \in {"no", "closing", "forgotten", "exited"}

(* What a request does while it holds the lock of its session.               *)
Inside(r) == Chained(r) /\ at[r] # "lock"

(* One turn, disconnect or deletion at a time in a session, whatever the     *)
(* order in which they asked and whichever failed: the chain of promises of  *)
(* withSessionLock, until stop() forgets it.                                 *)
OneTurn ==
  stop = "no" =>
    \A q, r \in Requests :
      Inside(q) /\ Inside(r) /\ Session(q) = Session(r) => q = r

(* The agent of a turn that is awaited works on a handle that is open: the   *)
(* disconnects of a release, of a client and of a deletion all wait for it,  *)
(* and a turn that looked its handle up before one of them does not start.   *)
TurnsOnOpenHandle ==
  stop = "no" =>
    \A r \in Requests : at[r] \in {"running", "aborting"} => Handle(r) \in open

(* What hooks and the permission handler take for the running execution is   *)
(* the one whose turn holds the session, from before it is sent until after  *)
(* it has ended, also when it failed or was aborted.                         *)
ContextIsTurn ==
  stop = "no" =>
    \A r \in Requests :
      at[r] \in {"sending", "running", "aborting", "ending"} => ctx[Session(r)] = r

(* The agent of a @task turn is granted nothing but what its own node and    *)
(* the hard limit allow, whatever other turns of the session store and       *)
(* clear.  The exception is a node whose capability was replaced by another  *)
(* @task turn of the session while its own turn waited: see the README.      *)
TurnGetsItsOwn ==
  stop = "no" =>
    \A r \in Requests \ lost :
      Kind(r) = "task" /\ at[r] \in {"running", "aborting"}
        => Granted(Session(r)) \subseteq Tools(r) \ {"shell", "mcp"}

(* A session is attached once, however many first uses, disconnects and      *)
(* deletions of it race.  The exceptions are a POST /resume or a creation     *)
(* next to them, which take no lock, and a turn that attaches after stop()   *)
(* has forgotten the locks: see the README.                                  *)
OneHandle ==
  stop \in {"no", "closing"} =>
    \A s \in Sessions :
      (\A r \in Requests : Kind(r) \in {"resume", "create"} => Session(r) # s)
        => Cardinality({h \in open : h[1] = s}) <= 1

(* What is found under a session's id is a handle that can be used, unless   *)
(* the request that closes it is about to forget it or the process stops.    *)
AttachedIsOpen ==
  stop = "no" =>
    \A s \in Sessions :
      attached[s] # None =>
        \/ <<s, attached[s]>> \in open
        \/ \E r \in Requests : at[r] = "detaching" /\ Session(r) = s

(* No more turns hold a slot than the limit says, except when a turn arrived *)
(* between a release and the turn that it woke: see the README.              *)
AtMostLimit == active > Limit => barged

(* A turn waits for a slot only while the others are all taken or promised:  *)
(* none gets lost, however turns end.                                        *)
NoIdleSlot ==
  waiters # <<>> =>
    active + Cardinality({r \in Requests : at[r] = "woken"}) >= Limit

(* The turns share the slots: not more of them than there are, and none      *)
(* waits while one is to spare.                                              *)
SlotsAreShared == AtMostLimit /\ NoIdleSlot

(* A client that was being started when the process was told to stop is not  *)
(* installed afterwards, whenever its start is answered and whoever waits    *)
(* for it: what is installed belongs to the present generation.              *)
ClientOfThisLife == client # None => client = gen

(* The record of a session whose creation was answered with success stays    *)
(* until the session is deleted: a creation that is repeated with the same   *)
(* id and fails rolls back nothing that was there before.  The exception is  *)
(* one that began before the first one was on record: see the README.        *)
CreatedStaysOnRecord ==
  \A r \in created :
    \/ row[Session(r)]
    \/ \E q \in Requests \ {r} : Session(q) = Session(r) /\
         (Kind(q) = "delete" \/ (Kind(q) = "create" /\ q \notin found))

(* Every request ends, with or without success, or the process does: no      *)
(* interleaving of turns, disconnects, deletions and attachments leaves one  *)
(* waiting for another for ever.                                             *)
EveryRequestEnds ==
  \A r \in Requests : at[r] # "new" ~> at[r] = "done" \/ stop = "exited"
===============================================================================
