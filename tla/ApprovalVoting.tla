---------------------------- MODULE ApprovalVoting ----------------------------
(***************************************************************************)
(* How the votes on one approval task add up to a resolution                *)
(* (server/src/human-tasks/human-task-service.ts, server/src/approval).     *)
(*                                                                          *)
(* Requests run on one or more processes that share the database.  Each     *)
(* process serializes the decisions on the task with a chain of promises    *)
(* (withTaskLock); between processes only the database's constraints help:  *)
(* one vote per approver, and close() only where the status is "open".      *)
(* What a resolution does to the execution is in ExecutionLifecycle.        *)
(***************************************************************************)
EXTENDS Naturals, Sequences, FiniteSets

CONSTANTS
  Approvers,    \* the people who send requests
  Initiator,    \* the one who started the execution
  Holds,        \* the business roles a person's identity resolves to
  Policies,     \* registered policies: strategy, roles in order, requiredCount
  Delegates,    \* the people a task may be delegated to
  Requests,     \* requests that can be in progress at the same time
  Processes,    \* replicas of the server
  Placements,   \* how the requests may be spread over them
  MaxCrashes,   \* bound: how often a process may die
  None

Roles == UNION {{p.roles[n] : n \in 1..Len(p.roles)} : p \in Policies}

ASSUME PolicyAssumption ==
  \A p \in Policies :
    /\ p.strategy \in {"ANY", "ALL", "N_OF_M", "SEQUENTIAL"}
    /\ p.roles \in Seq(Roles) /\ p.roles # <<>>
    /\ p.required \in Nat \cup {None}
ASSUME PeopleAssumption ==
  /\ Holds \in [Approvers -> SUBSET Roles]
  /\ Delegates \subseteq Approvers
  /\ None \notin Approvers \cup Roles
  /\ IsFiniteSet(Approvers)
ASSUME ProcessAssumption ==
  Placements \subseteq [Requests -> Processes] /\ MaxCrashes \in Nat

VARIABLES
  policy,     \* the policy registered for the task's command
  taskRoles,  \* the task's eligible_roles: those of the policy, or fewer of them
  task,       \* status, and whom the task is delegated to
  due,        \* expires_at has passed
  votes,      \* the human_task_decision rows, in the order of their insertion
  replica,    \* the process each request is sent to
  lock,       \* per process, the decisions chained on the task; the head runs
  request,    \* what each request is doing
  crashes

vars == <<policy, taskRoles, task, due, votes, replica, lock, request, crashes>>

-------------------------------------------------------------------------------
(* approval-policy.ts.  Here and below, a definition that nothing uses is a  *)
(* mutant of the one after it: a plausible bug that the properties are shown *)
(* to detect.                                                                *)

Distinct(s) == {s[n] : n \in 1..Len(s)}
AtLeastOne(n) == IF n < 1 THEN 1 ELSE n

RequiredApprovals ==
  LET count(default) ==
        IF policy.required = None THEN default ELSE policy.required IN
  CASE policy.strategy = "ANY" -> count(1)
    [] policy.strategy = "N_OF_M" -> AtLeastOne(count(1))
    [] OTHER -> AtLeastOne(count(Len(policy.roles)))

Approvals(vs) == {n \in 1..Len(vs) : vs[n].decision = "approve"}
Done(vs) == {vs[n].role : n \in Approvals(vs)}

Enough(vs) ==
  IF policy.strategy = "SEQUENTIAL" THEN Distinct(policy.roles) \subseteq Done(vs)
  ELSE Cardinality(Approvals(vs)) >= RequiredApprovals

Rejected(vs) == \E v \in Distinct(vs) : v.decision = "reject"

Evaluate(vs) ==
  IF Rejected(vs) THEN "rejected" ELSE IF Enough(vs) THEN "approved" ELSE "pending"

(* The first role of the policy's order that is in rs, if any is.            *)
FirstRole(rs) ==
  LET at == {n \in 1..Len(policy.roles) : policy.roles[n] \in rs} IN
  IF at = {} THEN None
  ELSE policy.roles[CHOOSE n \in at : \A m \in at : n <= m]

(* assertEligible(): the role a person votes with is the first one held, and *)
(* in a sequence it must be that role's turn.                                *)
VotingRole(a) == FirstRole(Holds[a])

AnyTurn(role, vs) == TRUE
InTurn(role, vs) ==
  policy.strategy = "SEQUENTIAL" =>
    FirstRole(Roles \ Done(vs)) \in {role, None}

Eligible(a, vs) ==
  VotingRole(a) # None /\ a # Initiator /\ InTurn(VotingRole(a), vs)

IsAssignee(a) == task.delegate = a \/ Holds[a] \cap taskRoles # {}

-------------------------------------------------------------------------------

Resolutions == {"approved", "rejected", "cancelled", "expired"}

Idle == [pc |-> "idle", who |-> None, decision |-> "approve", to |-> "cancelled",
         seen |-> 0]

Votes == [who : Approvers, role : Roles, decision : {"approve", "reject"}]

Init ==
  /\ policy \in Policies
  /\ taskRoles \in SUBSET Distinct(policy.roles) \ {{}}
  /\ task = [status |-> "open", delegate |-> None]
  /\ due = FALSE
  /\ votes = <<>>
  /\ replica \in Placements
  /\ lock = [p \in Processes |-> <<>>]
  /\ request = [r \in Requests |-> Idle]
  /\ crashes = 0

At(r, pc) == request[r].pc = pc
Become(r, s) == request' = [request EXCEPT ![r] = s]

Same == UNCHANGED <<policy, taskRoles, replica, crashes>>

(* The promise of the decision settles and the next one in the chain begins. *)
Leave(r) ==
  /\ Become(r, Idle)
  /\ lock' = [lock EXCEPT ![replica[r]] = Tail(@)]

(* A decision that holds the lock, and one that does not wait for it.        *)
RunsAtOnce(r) == \E n \in 1..Len(lock[replica[r]]) : lock[replica[r]][n] = r
HoldsLock(r) == lock[replica[r]] # <<>> /\ Head(lock[replica[r]]) = r

-------------------------------------------------------------------------------
(* decideLocked(). *)

Decide(r, a) ==
  /\ At(r, "idle")
  /\ \E d \in {"approve", "reject"} :
       Become(r, [Idle EXCEPT !.pc = "task", !.who = a, !.decision = d])
  /\ lock' = [lock EXCEPT ![replica[r]] = Append(@, r)]
  /\ Same /\ UNCHANGED <<task, due, votes>>

Actionable(a) == task.status = "open" /\ ~due /\ IsAssignee(a)

ReadTask(r) ==
  /\ At(r, "task") /\ HoldsLock(r)
  /\ \/ /\ Actionable(request[r].who)
        /\ Become(r, [request[r] EXCEPT !.pc = "decisions"])
        /\ UNCHANGED lock
     \/ ~Actionable(request[r].who) /\ Leave(r)
  /\ Same /\ UNCHANGED <<task, due, votes>>

Voted(a, vs) == \E v \in Distinct(vs) : v.who = a

ReadDecisions(r) ==
  /\ At(r, "decisions")
  /\ LET may == ~Voted(request[r].who, votes) /\ Eligible(request[r].who, votes) IN
     \/ may /\ Become(r, [request[r] EXCEPT !.pc = "insert", !.seen = Len(votes)])
        /\ UNCHANGED lock
     \/ ~may /\ Leave(r)
  /\ Same /\ UNCHANGED <<task, due, votes>>

(* unique(task_id, approver_id).                                             *)
NoConstraint(a) == FALSE
Duplicate(a) == Voted(a, votes)

InsertVote(r) ==
  /\ At(r, "insert")
  /\ LET s == request[r] IN
     \/ /\ ~Duplicate(s.who)
        /\ votes' = Append(votes, [who |-> s.who, role |-> VotingRole(s.who),
                                   decision |-> s.decision])
        /\ Become(r, [s EXCEPT !.pc = "evaluate"])
        /\ UNCHANGED lock
     \/ Duplicate(s.who) /\ Leave(r) /\ UNCHANGED votes
  /\ Same /\ UNCHANGED <<task, due>>

(* The decisions are read again after the insertion.                         *)
ReadBefore(r) ==
  Append(SubSeq(votes, 1, request[r].seen), votes[Len(votes)])
ReadAgain(r) == votes

EvaluateVotes(r) ==
  /\ At(r, "evaluate")
  /\ LET outcome == Evaluate(ReadAgain(r)) IN
     \/ /\ outcome # "pending"
        /\ Become(r, [request[r] EXCEPT !.pc = "close", !.to = outcome, !.seen = 0])
        /\ UNCHANGED lock
     \/ outcome = "pending" /\ Leave(r)
  /\ Same /\ UNCHANGED <<task, due, votes>>

(* close(): update ... where status = 'open'.  The lock is held until the    *)
(* callback of the one that closed the task has returned.                    *)
CloseTask(to) == task' = IF task.status = "open" THEN [task EXCEPT !.status = to]
                                                ELSE task

CloseDecided(r) ==
  /\ At(r, "close")
  /\ CloseTask(request[r].to)
  /\ IF task.status = "open"
     THEN Become(r, [request[r] EXCEPT !.pc = "resolved"]) /\ UNCHANGED lock
     ELSE Leave(r)
  /\ Same /\ UNCHANGED <<due, votes>>

Resolved(r) ==
  /\ At(r, "resolved")
  /\ Leave(r)
  /\ Same /\ UNCHANGED <<task, due, votes>>

-------------------------------------------------------------------------------
(* cancel(), delegate() and sweepExpired() do not take the lock. *)

Cancel(r, a) ==
  /\ At(r, "idle")
  /\ task.status = "open" /\ IsAssignee(a)
  /\ Become(r, [Idle EXCEPT !.pc = "closeUnlocked", !.to = "cancelled"])
  /\ Same /\ UNCHANGED <<task, due, votes, lock>>

Sweep(r) ==
  /\ At(r, "idle")
  /\ task.status = "open" /\ due
  /\ Become(r, [Idle EXCEPT !.pc = "closeUnlocked", !.to = "expired"])
  /\ Same /\ UNCHANGED <<task, due, votes, lock>>

CloseUnlocked(r) ==
  /\ At(r, "closeUnlocked")
  /\ CloseTask(request[r].to)
  /\ Become(r, Idle)
  /\ Same /\ UNCHANGED <<due, votes, lock>>

Delegate(r, a) ==
  /\ At(r, "idle")
  /\ Actionable(a)
  /\ \E b \in Delegates : Become(r, [Idle EXCEPT !.pc = "delegate", !.who = b])
  /\ Same /\ UNCHANGED <<task, due, votes, lock>>

StoreDelegate(r) ==
  /\ At(r, "delegate")
  /\ task' = [task EXCEPT !.delegate = request[r].who]
  /\ Become(r, Idle)
  /\ Same /\ UNCHANGED <<due, votes, lock>>

(* Time: expires_at passes.                                                  *)
NeverDue == FALSE /\ UNCHANGED vars
BecomeDue ==
  /\ ~due /\ task.status = "open"
  /\ due' = TRUE
  /\ Same /\ UNCHANGED <<task, votes, lock, request>>

(* A process dies with its requests and its chain.                           *)
Crash(p) ==
  /\ crashes < MaxCrashes
  /\ crashes' = crashes + 1
  /\ request' = [r \in Requests |-> IF replica[r] = p THEN Idle ELSE request[r]]
  /\ lock' = [lock EXCEPT ![p] = <<>>]
  /\ UNCHANGED <<policy, taskRoles, task, due, votes, replica>>

Proceed(r) ==
  \/ ReadTask(r) \/ ReadDecisions(r) \/ InsertVote(r) \/ EvaluateVotes(r)
  \/ CloseDecided(r) \/ Resolved(r) \/ CloseUnlocked(r) \/ StoreDelegate(r)

Next ==
  \/ \E r \in Requests :
       \/ Proceed(r) \/ Sweep(r)
       \/ \E a \in Approvers : Decide(r, a) \/ Cancel(r, a) \/ Delegate(r, a)
  \/ BecomeDue
  \/ \E p \in Processes : Crash(p)

Spec == Init /\ [][Next]_vars

(* Requests settle; time passes; the sweeper has a timer of its own, so it   *)
(* gets its turn however many requests keep coming.  Nobody must vote.       *)
Fairness ==
  /\ \A r \in Requests : WF_vars(Proceed(r)) /\ SF_vars(Sweep(r))
  /\ WF_vars(BecomeDue)

FairSpec == Spec /\ Fairness

-------------------------------------------------------------------------------
(* Properties. *)

TypeOK ==
  /\ policy \in Policies
  /\ taskRoles \subseteq Roles
  /\ task \in [status : {"open"} \cup Resolutions, delegate : Approvers \cup {None}]
  /\ due \in BOOLEAN
  /\ votes \in Seq(Votes)
  /\ replica \in [Requests -> Processes]
  /\ lock \in [Processes -> Seq(Requests)]
  /\ request \in [Requests ->
       [pc : {"idle", "task", "decisions", "insert", "evaluate", "close", "resolved",
              "closeUnlocked", "delegate"},
        who : Approvers \cup {None}, decision : {"approve", "reject"},
        to : Resolutions, seen : 0..Cardinality(Approvers)]]
  /\ crashes \in 0..MaxCrashes

(* An approval was given by as many different people as the policy asks for, *)
(* none of them the initiator, each holding a role of the policy; under      *)
(* SEQUENTIAL one for every role (approval-policy.ts, README.md:405).        *)
ApprovedIsEarned ==
  task.status = "approved" =>
    LET people == {votes[n].who : n \in Approvals(votes)} IN
    /\ Initiator \notin people
    /\ \A n \in Approvals(votes) : votes[n].role \in Holds[votes[n].who]
    /\ IF policy.strategy = "SEQUENTIAL"
       THEN \A n \in 1..Len(policy.roles) : policy.roles[n] \in Done(votes)
       ELSE Cardinality(people) >= RequiredApprovals

(* Once every decision in progress has been answered, the votes on an open   *)
(* task do not settle it: the last of two voters sees the other's vote even   *)
(* when their processes differ.  Only a crash can break this                 *)
(* (human-task-service.ts:292; :95 and architecture.md:415 expect less).     *)
VotesConverge ==
  crashes = 0 /\ task.status = "open" /\ votes # <<>> /\ (\A r \in Requests : At(r, "idle")) =>
    Evaluate(votes) = "pending"

(* On one process a rejection on record means that the task is not approved: *)
(* the lock keeps a second decision out from the reading of the votes to the *)
(* closing (approval-policy.ts:83, fail-closed).                             *)
RejectionWins ==
  /\ \A r, q \in Requests : replica[r] = replica[q]
  /\ Rejected(votes)
  => task.status # "approved"

(* Under SEQUENTIAL nobody approves before every earlier role has, whichever *)
(* processes the votes are sent to (approval-service.ts:53).                 *)
InOrder ==
  policy.strategy = "SEQUENTIAL" =>
    \A n \in 1..Len(votes) : \A i \in 1..Len(policy.roles) :
      votes[n].role \notin {policy.roles[k] : k \in 1..i} =>
        \E m \in 1..(n - 1) :
          votes[m].role = policy.roles[i] /\ votes[m].decision = "approve"

(* Whatever votes are missing or were lost with a process, the task is       *)
(* closed in the end: the expiry sweep is the fallback of                    *)
(* human-task-service.ts:96.                                                 *)
TaskCloses == <>(task.status # "open")
===============================================================================
