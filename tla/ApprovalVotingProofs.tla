-------------------------- MODULE ApprovalVotingProofs --------------------------
(***************************************************************************)
(* Theorems about ApprovalVoting, for any policies, people, requests and    *)
(* processes, with crashes.                                                 *)
(***************************************************************************)
EXTENDS ApprovalVoting, NumberLemmas

-------------------------------------------------------------------------------
(* The policy, and the roles people vote with.                               *)

LEMMA PolicyType ==
  ASSUME policy \in Policies
  PROVE  /\ policy.roles \in Seq(Roles) /\ policy.roles # <<>>
         /\ Len(policy.roles) \in Nat /\ RequiredApprovals \in Int
         /\ \A n \in 1..Len(policy.roles) : policy.roles[n] \in Roles
<1>1. policy.roles \in Seq(Roles) /\ policy.roles # <<>> /\ Len(policy.roles) \in Nat
  BY PolicyAssumption DEF PolicyAssumption
<1>2. policy.required = None \/ policy.required \in Nat
  BY PolicyAssumption DEF PolicyAssumption
<1>3. RequiredApprovals \in Int
  BY <1>1, <1>2 DEF RequiredApprovals, AtLeastOne
<1> QED  BY <1>1, <1>3

(* The place of the first role of the policy's order that is in a set.       *)
LEMMA FirstRoleIsFirst ==
  ASSUME policy \in Policies, NEW rs
  PROVE  \/ /\ FirstRole(rs) = None
            /\ \A n \in 1..Len(policy.roles) : policy.roles[n] \notin rs
         \/ /\ FirstRole(rs) # None
            /\ \E n \in 1..Len(policy.roles) :
                 /\ policy.roles[n] = FirstRole(rs) /\ policy.roles[n] \in rs
                 /\ \A m \in 1..(n - 1) : policy.roles[m] \notin rs
<1> DEFINE at == {n \in 1..Len(policy.roles) : policy.roles[n] \in rs}
<1>1. CASE at = {}
  BY <1>1 DEF FirstRole
<1>2. CASE at # {}
  <2>1. at \in SUBSET Nat
    OBVIOUS
  <2>2. PICK n \in at : \A m \in at : n <= m
    BY <1>2, <2>1, Smallest
  <2> DEFINE first == CHOOSE x \in at : \A m \in at : x <= m
  <2>3. first \in at /\ \A m \in at : first <= m
    BY <2>2
  <2>4. FirstRole(rs) = policy.roles[first]
    BY <1>2 DEF FirstRole
  <2> HIDE DEF first
  <2>5. policy.roles[first] # None
    BY <2>3, PolicyType, PeopleAssumption DEF PeopleAssumption
  <2>6. \A m \in 1..(first - 1) : policy.roles[m] \notin rs
    <3> SUFFICES ASSUME NEW m \in 1..(first - 1), policy.roles[m] \in rs PROVE FALSE
      OBVIOUS
    <3>1. first \in 1..Len(policy.roles) /\ Len(policy.roles) \in Nat
      BY <2>3, PolicyType
    <3>2. m \in at
      BY <3>1
    <3> QED  BY <2>3, <3>1, <3>2
  <2> QED  BY <2>3, <2>4, <2>5, <2>6
<1> QED  BY <1>1, <1>2

LEMMA VotingRoleIsHeld ==
  ASSUME policy \in Policies, NEW a \in Approvers, VotingRole(a) # None
  PROVE  VotingRole(a) \in Holds[a] /\ VotingRole(a) \in Roles
BY FirstRoleIsFirst, PolicyType DEF VotingRole

-------------------------------------------------------------------------------
(* What a vote adds to the votes.                                            *)

VoteInv ==
  /\ \A n, m \in 1..Len(votes) : votes[n].who = votes[m].who => n = m
  /\ \A n \in 1..Len(votes) : /\ votes[n].who # Initiator
                              /\ votes[n].role = VotingRole(votes[n].who)

(* Every role before the one a person votes with has approved.               *)
TheirTurn(a) ==
  \A i \in 1..Len(policy.roles) :
    VotingRole(a) \notin {policy.roles[k] : k \in 1..i} => policy.roles[i] \in Done(votes)

(* A request that may vote; an approval that is about to close the task.     *)
RequestInv ==
  \A r \in Requests :
    /\ At(r, "task") \/ At(r, "decisions") => request[r].who \in Approvers
    /\ At(r, "insert") =>
         /\ request[r].who \in Approvers \ {Initiator} /\ VotingRole(request[r].who) # None
         /\ policy.strategy = "SEQUENTIAL" => TheirTurn(request[r].who)
    /\ At(r, "close") /\ request[r].to = "approved" => Enough(votes)
    /\ At(r, "closeUnlocked") => request[r].to \in {"cancelled", "expired"}
    /\ At(r, "delegate") => request[r].who \in Approvers

OutcomeInv == task.status = "approved" => Enough(votes)

(* Somebody is about to count the votes that settle the task.                *)
CountInv ==
  crashes = 0 /\ task.status = "open" /\ votes # <<>> /\ Evaluate(votes) # "pending" =>
    \E r \in Requests : At(r, "evaluate") \/ At(r, "close")

(* The chain of a process holds its decisions in progress, each once; all    *)
(* but the first are still to read the task.                                 *)
Deciding == {"task", "decisions", "insert", "evaluate", "close", "resolved"}

Once(s) == \A n, m \in 1..Len(s) : s[n] = s[m] => n = m

LockInv ==
  /\ \A p \in Processes :
       /\ Once(lock[p])
       /\ \A x \in Distinct(lock[p]) : replica[x] = p /\ request[x].pc \in Deciding
  /\ \A r \in Requests :
       /\ request[r].pc \in Deciding => r \in Distinct(lock[replica[r]])
       /\ request[r].pc \in Deciding \ {"task"} => HoldsLock(r)

Inv == TypeOK /\ VoteInv /\ RequestInv /\ OutcomeInv /\ CountInv /\ InOrder /\ LockInv

LEMMA InTurnIsTheirTurn ==
  ASSUME policy \in Policies, NEW a \in Approvers, Eligible(a, votes),
         policy.strategy = "SEQUENTIAL"
  PROVE  TheirTurn(a)
<1> DEFINE left == Roles \ Done(votes)
<1>1. FirstRole(left) \in {VotingRole(a), None}
  BY DEF Eligible, InTurn
<1>2. ASSUME NEW i \in 1..Len(policy.roles),
             VotingRole(a) \notin {policy.roles[k] : k \in 1..i},
             policy.roles[i] \notin Done(votes)
      PROVE  FALSE
  <2>1. policy.roles[i] \in left
    BY <1>2, PolicyType
  <2>2. PICK n \in 1..Len(policy.roles) :
          policy.roles[n] = FirstRole(left) /\ \A m \in 1..(n - 1) : policy.roles[m] \notin left
    BY <2>1, FirstRoleIsFirst
  <2>3. FirstRole(left) # None
    BY <2>1, FirstRoleIsFirst
  <2>4. n <= i
    BY <2>1, <2>2, PolicyType
  <2> QED  BY <1>1, <1>2, <2>2, <2>3, <2>4, PolicyType
<1> QED  BY <1>2 DEF TheirTurn

(* Votes only add up.                                                        *)
LEMMA OneVoteMore ==
  ASSUME Inv, NEW v \in Votes, NEW vs, vs = Append(votes, v)
  PROVE  /\ vs \in Seq(Votes) /\ Len(vs) = Len(votes) + 1 /\ Len(votes) \in Nat
         /\ \A n \in 1..Len(votes) : vs[n] = votes[n]
         /\ vs[Len(vs)] = v
         /\ Approvals(votes) \subseteq Approvals(vs) /\ Done(votes) \subseteq Done(vs)
         /\ Enough(votes) => Enough(vs)
<1>1. /\ vs \in Seq(Votes) /\ Len(vs) = Len(votes) + 1 /\ Len(votes) \in Nat
      /\ \A n \in 1..Len(votes) : vs[n] = votes[n]
      /\ vs[Len(vs)] = v
  BY DEF Inv, TypeOK
<1>2. Approvals(votes) \subseteq Approvals(vs)
  BY <1>1 DEF Approvals
<1>3. Done(votes) \subseteq Done(vs)
  BY <1>1, <1>2 DEF Done, Approvals
<1>4. /\ IsFiniteSet(Approvals(vs)) /\ Cardinality(Approvals(vs)) \in Nat
      /\ Cardinality(Approvals(votes)) <= Cardinality(Approvals(vs))
      /\ Cardinality(Approvals(votes)) \in Nat
  <2>1. IsFiniteSet(1..Len(vs))
    BY <1>1, FS_Interval
  <2>2. IsFiniteSet(Approvals(vs))
    BY <2>1, FS_Subset DEF Approvals
  <2> QED  BY <1>2, <2>2, FS_Subset, FS_CardinalityType
<1>5. Enough(votes) => Enough(vs)
  BY <1>3, <1>4, PolicyType DEF Enough, Inv, TypeOK
<1> QED  BY <1>1, <1>2, <1>3, <1>5

(* One vote per approver, so there are no more votes than approvers.         *)
LEMMA VotesAreFew ==
  ASSUME NEW vs \in Seq(Votes),
         \A n, m \in 1..Len(vs) : vs[n].who = vs[m].who => n = m
  PROVE  Len(vs) <= Cardinality(Approvers) /\ Cardinality(Approvers) \in Nat
<1> DEFINE f == [n \in 1..Len(vs) |-> vs[n].who]
<1>1. f \in [1..Len(vs) -> Approvers]
  <2>1. \A n \in 1..Len(vs) : vs[n] \in Votes
    OBVIOUS
  <2> QED  BY <2>1 DEF Votes
<1>2. f \in Injection(1..Len(vs), Approvers)
  BY <1>1 DEF Injection, IsInjective
<1>3. IsFiniteSet(Approvers)
  BY PeopleAssumption DEF PeopleAssumption
<1>4. Cardinality(1..Len(vs)) <= Cardinality(Approvers)
  <2> HIDE DEF f
  <2> QED  BY <1>2, <1>3, FS_Injection
<1>5. Cardinality(1..Len(vs)) = Len(vs)
  BY FS_Interval
<1> QED  BY <1>3, <1>4, <1>5, FS_CardinalityType

-------------------------------------------------------------------------------
(* The lock.                                                                 *)

LEMMA JoinsTheChain ==
  ASSUME NEW S, NEW s \in Seq(S), NEW x \in S, x \notin Distinct(s), Once(s)
  PROVE  /\ Append(s, x) \in Seq(S) /\ Once(Append(s, x))
         /\ Distinct(Append(s, x)) = Distinct(s) \cup {x}
         /\ s # <<>> => Append(s, x) # <<>> /\ Head(Append(s, x)) = Head(s)
<1> DEFINE t == Append(s, x)
<1>1. /\ t \in Seq(S) /\ Len(t) = Len(s) + 1 /\ Len(s) \in Nat /\ t[Len(s) + 1] = x
      /\ \A n \in 1..Len(s) : t[n] = s[n]
  OBVIOUS
<1>2. s # <<>> => t # <<>> /\ Head(t) = Head(s)
  BY <1>1
<1> HIDE DEF t
<1>3. \A n \in 1..Len(s) : t[n] # x
  BY <1>1 DEF Distinct
<1>4. Once(t)
  <2> SUFFICES ASSUME NEW n \in 1..Len(t), NEW m \in 1..Len(t), t[n] = t[m] PROVE n = m
    BY DEF Once
  <2>1. /\ n = Len(s) + 1 \/ n \in 1..Len(s)
        /\ m = Len(s) + 1 \/ m \in 1..Len(s)
    BY <1>1
  <2>2. CASE n \in 1..Len(s) /\ m \in 1..Len(s)
    BY <1>1, <2>2 DEF Once
  <2> QED  BY <1>1, <1>3, <2>1, <2>2
<1>5. Distinct(t) = Distinct(s) \cup {x}
  <2>1. Distinct(t) \subseteq Distinct(s) \cup {x}
    BY <1>1 DEF Distinct
  <2>2. \A n \in 1..Len(s) : n \in 1..Len(t)
    BY <1>1
  <2>3. Len(s) + 1 \in 1..Len(t)
    BY <1>1
  <2> QED  BY <1>1, <2>1, <2>2, <2>3 DEF Distinct
<1> QED  BY <1>1, <1>2, <1>4, <1>5 DEF t

LEMMA LeavesTheChain ==
  ASSUME NEW S, NEW s \in Seq(S), s # <<>>, Once(s)
  PROVE  /\ Tail(s) \in Seq(S) /\ Once(Tail(s))
         /\ Distinct(Tail(s)) = Distinct(s) \ {Head(s)}
<1> DEFINE t == Tail(s)
<1>1. /\ t \in Seq(S) /\ Len(t) = Len(s) - 1 /\ Len(s) \in Nat \ {0} /\ Head(s) = s[1]
      /\ \A n \in 1..Len(t) : t[n] = s[n + 1]
  OBVIOUS
<1> HIDE DEF t
<1>2. \A n \in 1..Len(t) : n + 1 \in 1..Len(s) /\ n + 1 # 1
  BY <1>1
<1>3. Once(t)
  <2> SUFFICES ASSUME NEW n \in 1..Len(t), NEW m \in 1..Len(t), t[n] = t[m] PROVE n = m
    BY DEF Once
  <2>1. n + 1 = m + 1
    BY <1>1, <1>2 DEF Once
  <2> QED  BY <2>1
<1>4. Distinct(t) = Distinct(s) \ {Head(s)}
  <2>1. 1 \in 1..Len(s)
    BY <1>1
  <2>2. ASSUME NEW x \in Distinct(t) PROVE x \in Distinct(s) \ {Head(s)}
    <3>1. PICK n \in 1..Len(t) : t[n] = x
      BY DEF Distinct
    <3>2. s[n + 1] = x /\ s[n + 1] # s[1]
      BY <1>1, <1>2, <2>1, <3>1 DEF Once
    <3> QED  BY <1>1, <1>2, <3>2 DEF Distinct
  <2>3. ASSUME NEW x \in Distinct(s) \ {Head(s)} PROVE x \in Distinct(t)
    <3>1. PICK n \in 1..Len(s) : s[n] = x
      BY DEF Distinct
    <3>2. n # 1
      BY <1>1, <3>1
    <3>3. n - 1 \in 1..Len(t) /\ (n - 1) + 1 = n
      BY <1>1, <3>2
    <3>4. t[n - 1] = x
      BY <1>1, <3>1, <3>3
    <3> QED  BY <3>3, <3>4 DEF Distinct
  <2> QED  BY <2>2, <2>3
<1> QED  BY <1>1, <1>3, <1>4 DEF t

(* What a step of a request does to the lock.                                *)
LockMove(r, s) ==
  \/ request[r].pc \notin Deciding /\ s.pc \notin Deciding /\ UNCHANGED lock
  \/ HoldsLock(r) /\ request[r].pc \in Deciding /\ s.pc \in Deciding /\ UNCHANGED lock
  \/ /\ request[r].pc \notin Deciding /\ s.pc = "task"
     /\ lock' = [lock EXCEPT ![replica[r]] = Append(@, r)]
  \/ /\ HoldsLock(r) /\ request[r].pc \in Deciding /\ s.pc \notin Deciding
     /\ lock' = [lock EXCEPT ![replica[r]] = Tail(@)]

LEMMA LockStep ==
  ASSUME Inv, NEW r \in Requests, NEW s, request' = [request EXCEPT ![r] = s], UNCHANGED replica,
         LockMove(r, s)
  PROVE  LockInv' /\ lock' \in [Processes -> Seq(Requests)]
<1>1. /\ lock \in [Processes -> Seq(Requests)] /\ replica \in [Requests -> Processes]
      /\ \A q \in Requests : request'[q] = IF q = r THEN s ELSE request[q]
      /\ \A p \in Processes : Distinct(lock[p]) \subseteq Requests
  BY DEF Inv, TypeOK, Distinct
<1>2. LockInv /\ replica' = replica
  BY DEF Inv
<1>3. CASE request[r].pc \notin Deciding /\ s.pc \notin Deciding /\ UNCHANGED lock
  BY <1>1, <1>2, <1>3 DEF LockInv, HoldsLock, Deciding
<1>4. CASE HoldsLock(r) /\ request[r].pc \in Deciding /\ s.pc \in Deciding /\ UNCHANGED lock
  BY <1>1, <1>2, <1>4 DEF LockInv, HoldsLock
<1>5. CASE /\ request[r].pc \notin Deciding /\ s.pc = "task"
           /\ lock' = [lock EXCEPT ![replica[r]] = Append(@, r)]
  <2>1. /\ lock' \in [Processes -> Seq(Requests)]
        /\ lock'[replica[r]] = Append(lock[replica[r]], r)
        /\ \A p \in Processes : p # replica[r] => lock'[p] = lock[p]
    BY <1>1, <1>5
  <2>2. r \notin Distinct(lock[replica[r]]) /\ Once(lock[replica[r]])
    BY <1>1, <1>2, <1>5 DEF LockInv
  <2>3. /\ Once(lock'[replica[r]])
        /\ Distinct(lock'[replica[r]]) = Distinct(lock[replica[r]]) \cup {r}
        /\ lock[replica[r]] # <<>> =>
             lock'[replica[r]] # <<>> /\ Head(lock'[replica[r]]) = Head(lock[replica[r]])
    <3>1. lock[replica[r]] \in Seq(Requests)
      BY <1>1
    <3>2. \A c \in Seq(Requests) : r \notin Distinct(c) /\ Once(c) =>
            /\ Once(Append(c, r)) /\ Distinct(Append(c, r)) = Distinct(c) \cup {r}
            /\ c # <<>> => Append(c, r) # <<>> /\ Head(Append(c, r)) = Head(c)
      BY JoinsTheChain
    <3> QED  BY <2>1, <2>2, <3>1, <3>2
  <2>4. ASSUME NEW p \in Processes
        PROVE  /\ Once(lock'[p])
               /\ \A x \in Distinct(lock'[p]) : replica[x] = p /\ request'[x].pc \in Deciding
    BY <1>1, <1>2, <1>5, <2>1, <2>2, <2>3 DEF LockInv, Deciding
  <2>5. ASSUME NEW q \in Requests
        PROVE  /\ request'[q].pc \in Deciding => q \in Distinct(lock'[replica[q]])
               /\ request'[q].pc \in Deciding \ {"task"} =>
                    lock'[replica[q]] # <<>> /\ Head(lock'[replica[q]]) = q
    BY <1>1, <1>2, <1>5, <2>1, <2>3 DEF LockInv, HoldsLock
  <2> QED  BY <1>2, <2>1, <2>4, <2>5 DEF LockInv, HoldsLock, Distinct, Once
<1>6. CASE /\ HoldsLock(r) /\ request[r].pc \in Deciding /\ s.pc \notin Deciding
           /\ lock' = [lock EXCEPT ![replica[r]] = Tail(@)]
  <2>1. /\ lock[replica[r]] # <<>> /\ Head(lock[replica[r]]) = r
        /\ Once(lock[replica[r]])
    BY <1>1, <1>2, <1>6 DEF HoldsLock, LockInv
  <2>2. /\ lock' \in [Processes -> Seq(Requests)]
        /\ lock'[replica[r]] = Tail(lock[replica[r]])
        /\ \A p \in Processes : p # replica[r] => lock'[p] = lock[p]
    BY <1>1, <1>6, <2>1, LeavesTheChain
  <2>3. /\ Once(lock'[replica[r]])
        /\ Distinct(lock'[replica[r]]) = Distinct(lock[replica[r]]) \ {r}
    BY <1>1, <2>1, <2>2, LeavesTheChain
  <2>4. ASSUME NEW p \in Processes
        PROVE  /\ Once(lock'[p])
               /\ \A x \in Distinct(lock'[p]) : replica[x] = p /\ request'[x].pc \in Deciding
    <3>1. CASE p # replica[r]
      BY <1>1, <1>2, <2>2, <3>1 DEF LockInv
    <3>2. CASE p = replica[r]
      <4>1. \A x \in Distinct(lock'[p]) : x \in Distinct(lock[p]) /\ x # r
        BY <2>3, <3>2
      <4>2. \A x \in Distinct(lock[p]) :
              x \in Requests /\ replica[x] = p /\ request[x].pc \in Deciding
        BY <1>1, <1>2 DEF LockInv
      <4> QED  BY <1>1, <2>3, <3>2, <4>1, <4>2
    <3> QED  BY <3>1, <3>2
  <2>5. ASSUME NEW q \in Requests
        PROVE  /\ request'[q].pc \in Deciding => q \in Distinct(lock'[replica[q]])
               /\ request'[q].pc \in Deciding \ {"task"} =>
                    lock'[replica[q]] # <<>> /\ Head(lock'[replica[q]]) = q
    BY <1>1, <1>2, <1>6, <2>1, <2>2, <2>3 DEF LockInv, HoldsLock
  <2> QED  BY <1>2, <2>2, <2>4, <2>5 DEF LockInv, HoldsLock, Distinct, Once
<1> QED  BY <1>3, <1>4, <1>5, <1>6 DEF LockMove

-------------------------------------------------------------------------------
(* Steps that leave the votes alone.                                         *)

RequestType ==
  [pc : {"idle", "task", "decisions", "insert", "evaluate", "close", "resolved",
         "closeUnlocked", "delegate"},
   who : Approvers \cup {None}, decision : {"approve", "reject"},
   to : Resolutions, seen : 0..Cardinality(Approvers)]

TaskType == [status : {"open"} \cup Resolutions, delegate : Approvers \cup {None}]

(* What holds of a request that is in state s.                               *)
RequestOK(s) ==
  /\ s \in RequestType
  /\ s.pc \in {"task", "decisions", "delegate"} => s.who \in Approvers
  /\ s.pc = "insert" =>
       /\ s.who \in Approvers \ {Initiator} /\ VotingRole(s.who) # None
       /\ policy.strategy = "SEQUENTIAL" => TheirTurn(s.who)
  /\ s.pc = "close" /\ s.to = "approved" => Enough(votes)
  /\ s.pc = "closeUnlocked" => s.to \in {"cancelled", "expired"}

LEMMA RequestsAreOK == Inv => \A r \in Requests : RequestOK(request[r])
BY DEF Inv, TypeOK, RequestInv, RequestOK, RequestType, At

Quiet == UNCHANGED <<policy, taskRoles, replica, votes>>

LEMMA QuietKeeps ==
  ASSUME Quiet
  PROVE  /\ Enough(votes)' <=> Enough(votes)
         /\ Rejected(votes)' <=> Rejected(votes)
         /\ Evaluate(votes)' = Evaluate(votes)
         /\ InOrder' <=> InOrder
         /\ VoteInv' <=> VoteInv
<1>1. Enough(votes)' <=> Enough(votes)
  BY DEF Quiet, Enough, Done, Approvals, RequiredApprovals
<1>2. Rejected(votes)' <=> Rejected(votes)
  BY DEF Quiet, Rejected
<1>3. Evaluate(votes)' = Evaluate(votes)
  BY <1>1, <1>2 DEF Evaluate
<1>4. \A a : VotingRole(a)' = VotingRole(a)
  BY DEF Quiet, VotingRole, FirstRole
<1>6. InOrder' <=> InOrder
  BY DEF Quiet, InOrder
<1>7. VoteInv' <=> VoteInv
  BY <1>4 DEF Quiet, VoteInv
<1> QED  BY <1>1, <1>2, <1>3, <1>6, <1>7

LEMMA RequestsPrimed ==
  ASSUME Quiet, \A q \in Requests : RequestOK(request'[q])
  PROVE  RequestInv'
<1> SUFFICES ASSUME NEW q \in Requests
             PROVE  /\ request'[q].pc \in {"task", "decisions", "delegate"} =>
                         request'[q].who \in Approvers
                    /\ request'[q].pc = "insert" =>
                         /\ request'[q].who \in Approvers \ {Initiator}
                         /\ VotingRole(request[q].who)' # None
                         /\ policy'.strategy = "SEQUENTIAL" => TheirTurn(request[q].who)'
                    /\ request'[q].pc = "close" /\ request'[q].to = "approved" => Enough(votes)'
                    /\ request'[q].pc = "closeUnlocked" => request'[q].to \in {"cancelled", "expired"}
  BY DEF RequestInv, At
<1>1. RequestOK(request'[q])
  OBVIOUS
<1>2. request'[q].pc = "insert" =>
         /\ VotingRole(request[q].who)' # None
         /\ policy'.strategy = "SEQUENTIAL" => TheirTurn(request[q].who)'
  <2>1. VotingRole(request[q].who)' = VotingRole(request'[q].who)
    BY DEF Quiet, VotingRole, FirstRole
  <2>2. TheirTurn(request[q].who)' <=> TheirTurn(request'[q].who)
    BY <2>1 DEF Quiet, TheirTurn, Done, Approvals
  <2> QED  BY <1>1, <2>1, <2>2 DEF RequestOK, Quiet
<1> QED  BY <1>1, <1>2, QuietKeeps DEF RequestOK, Quiet

LEMMA QuietStep ==
  ASSUME Inv, Quiet, UNCHANGED crashes, due' \in BOOLEAN,
         NEW r \in Requests, NEW s, request' = [request EXCEPT ![r] = s], RequestOK(s),
         LockMove(r, s), task' \in TaskType,
         task'.status = "approved" => Enough(votes),
         task'.status = "open" =>
           /\ task.status = "open"
           /\ At(r, "evaluate") \/ At(r, "close") =>
                s.pc = "close" \/ Evaluate(votes) = "pending"
  PROVE  Inv'
<1>1. /\ LockInv' /\ lock' \in [Processes -> Seq(Requests)]
  BY LockStep DEF Quiet
<1>2. \A q \in Requests : request'[q] = IF q = r THEN s ELSE request[q]
  BY DEF Inv, TypeOK
<1>3. \A q \in Requests : RequestOK(request'[q])
  BY <1>2, RequestsAreOK
<1>4. TypeOK'
  <2>1. request' \in [Requests -> RequestType]
    BY RequestsAreOK DEF Inv, TypeOK, RequestOK, RequestType
  <2> QED  BY <1>1, <2>1 DEF Inv, TypeOK, Quiet, RequestType, TaskType
<1>5. RequestInv'
  BY <1>3, RequestsPrimed
<1>6. OutcomeInv' /\ VoteInv' /\ InOrder'
  BY QuietKeeps DEF Inv, OutcomeInv
<1>7. CountInv'
  <2> SUFFICES ASSUME crashes' = 0, task'.status = "open", votes' # <<>>,
                      Evaluate(votes)' # "pending"
               PROVE  \E q \in Requests : request'[q].pc \in {"evaluate", "close"}
    BY DEF CountInv, At
  <2>1. PICK q \in Requests : At(q, "evaluate") \/ At(q, "close")
    BY QuietKeeps DEF Inv, CountInv, Quiet
  <2>2. CASE q # r
    BY <1>2, <2>1, <2>2 DEF At
  <2>3. CASE q = r
    BY <1>2, <2>1, <2>3, QuietKeeps DEF At
  <2> QED  BY <2>2, <2>3
<1> QED  BY <1>1, <1>4, <1>5, <1>6, <1>7 DEF Inv

-------------------------------------------------------------------------------
(* One lemma per action.                                                     *)

LEMMA StartFacts ==
  ASSUME Inv, NEW r \in Requests
  PROVE  /\ RequestOK(request[r]) /\ request[r] \in RequestType /\ task \in TaskType
         /\ due \in BOOLEAN /\ None \notin Approvers
         /\ 0 \in 0..Cardinality(Approvers) /\ Len(votes) \in 0..Cardinality(Approvers)
         /\ Idle \in RequestType
         /\ request[r].pc \in Deciding \ {"task"} => HoldsLock(r)
         /\ task.status = "approved" => Enough(votes)
<1>1. Len(votes) \in 0..Cardinality(Approvers) /\ 0 \in 0..Cardinality(Approvers)
  <2>1. votes \in Seq(Votes) /\ Len(votes) \in Nat
    BY DEF Inv, TypeOK
  <2>2. Len(votes) <= Cardinality(Approvers) /\ Cardinality(Approvers) \in Nat
    BY <2>1, VotesAreFew DEF Inv, VoteInv
  <2> QED  BY <2>1, <2>2
<1>2. Idle \in RequestType
  BY <1>1 DEF Idle, RequestType, Resolutions
<1> QED  BY <1>1, <1>2, RequestsAreOK, PeopleAssumption
         DEF Inv, TypeOK, RequestOK, TaskType, LockInv, OutcomeInv, PeopleAssumption

LEMMA DecideStep ==
  ASSUME Inv, NEW r \in Requests, NEW a \in Approvers, Decide(r, a)
  PROVE  Inv'
<1>1. PICK d \in {"approve", "reject"} :
        request' = [request EXCEPT ![r] = [Idle EXCEPT !.pc = "task", !.who = a, !.decision = d]]
  BY DEF Decide, Become
<1> DEFINE s == [Idle EXCEPT !.pc = "task", !.who = a, !.decision = d]
<1>2. s.pc = "task" /\ s.who = a /\ s \in RequestType
  BY StartFacts DEF Idle, RequestType
<1>3. RequestOK(s)
  BY <1>2 DEF RequestOK
<1>4. LockMove(r, s)
  BY <1>2 DEF Decide, LockMove, At, Deciding
<1>5. ~(At(r, "evaluate") \/ At(r, "close"))
  BY DEF Decide, At
<1> QED  BY <1>1, <1>3, <1>4, <1>5, StartFacts, QuietStep DEF Decide, Same, Quiet

LEMMA ReadTaskStep ==
  ASSUME Inv, NEW r \in Requests, ReadTask(r)
  PROVE  Inv'
<1>1. ~(At(r, "evaluate") \/ At(r, "close")) /\ Quiet /\ UNCHANGED <<task, due, crashes>>
      /\ request[r].pc \in Deciding /\ HoldsLock(r)
  BY DEF ReadTask, At, Same, Quiet, Deciding
<1>2. CASE Become(r, [request[r] EXCEPT !.pc = "decisions"]) /\ UNCHANGED lock
  <2> DEFINE s == [request[r] EXCEPT !.pc = "decisions"]
  <2>1. s \in RequestType /\ s.pc = "decisions" /\ s.who = request[r].who
    BY StartFacts DEF RequestType
  <2>2. RequestOK(s)
    BY <2>1, StartFacts DEF RequestOK, ReadTask, At
  <2>3. LockMove(r, s)
    BY <1>1, <1>2, <2>1 DEF LockMove, Deciding
  <2> QED  BY <1>1, <1>2, <2>2, <2>3, StartFacts, QuietStep DEF Become
<1>3. CASE Leave(r)
  <2>1. RequestOK(Idle)
    BY StartFacts DEF RequestOK, Idle
  <2>2. LockMove(r, Idle)
    BY <1>1, <1>3 DEF LockMove, Leave, Idle, Deciding
  <2> QED  BY <1>1, <1>3, <2>1, <2>2, StartFacts, QuietStep DEF Become, Leave
<1> QED  BY <1>2, <1>3 DEF ReadTask

LEMMA ReadDecisionsStep ==
  ASSUME Inv, NEW r \in Requests, ReadDecisions(r)
  PROVE  Inv'
<1>1. ~(At(r, "evaluate") \/ At(r, "close")) /\ Quiet /\ UNCHANGED <<task, due, crashes>>
      /\ request[r].pc = "decisions" /\ request[r].pc \in Deciding /\ HoldsLock(r)
  BY StartFacts DEF ReadDecisions, At, Same, Quiet, Deciding
<1>2. CASE /\ Eligible(request[r].who, votes)
           /\ Become(r, [request[r] EXCEPT !.pc = "insert", !.seen = Len(votes)])
           /\ UNCHANGED lock
  <2> DEFINE s == [request[r] EXCEPT !.pc = "insert", !.seen = Len(votes)]
  <2>1. s \in RequestType /\ s.pc = "insert" /\ s.who = request[r].who
    BY StartFacts DEF RequestType
  <2>2. s.who \in Approvers \ {Initiator} /\ VotingRole(s.who) # None
    BY <1>1, <1>2, <2>1, StartFacts DEF RequestOK, Eligible
  <2>3. policy.strategy = "SEQUENTIAL" => TheirTurn(s.who)
    <3>1. request[r].who \in Approvers /\ policy \in Policies
      BY <2>1, <2>2 DEF Inv, TypeOK
    <3> QED  BY <1>2, <2>1, <3>1, InTurnIsTheirTurn
  <2>4. RequestOK(s)
    BY <2>1, <2>2, <2>3 DEF RequestOK
  <2>5. LockMove(r, s)
    BY <1>1, <1>2, <2>1 DEF LockMove, Deciding
  <2> QED  BY <1>1, <1>2, <2>4, <2>5, StartFacts, QuietStep DEF Become
<1>3. CASE Leave(r)
  <2>1. RequestOK(Idle)
    BY StartFacts DEF RequestOK, Idle
  <2>2. LockMove(r, Idle)
    BY <1>1, <1>3 DEF LockMove, Leave, Idle, Deciding
  <2> QED  BY <1>1, <1>3, <2>1, <2>2, StartFacts, QuietStep DEF Become, Leave
<1> QED  BY <1>2, <1>3 DEF ReadDecisions

LEMMA EvaluateStep ==
  ASSUME Inv, NEW r \in Requests, EvaluateVotes(r)
  PROVE  Inv'
<1>1. Quiet /\ UNCHANGED <<task, due, crashes>> /\ request[r].pc \in Deciding /\ HoldsLock(r)
  BY StartFacts DEF EvaluateVotes, At, Same, Quiet, Deciding
<1>2. CASE /\ Evaluate(votes) # "pending"
           /\ Become(r, [request[r] EXCEPT !.pc = "close", !.to = Evaluate(votes), !.seen = 0])
           /\ UNCHANGED lock
  <2> DEFINE s == [request[r] EXCEPT !.pc = "close", !.to = Evaluate(votes), !.seen = 0]
  <2>1. Evaluate(votes) \in {"approved", "rejected"}
        /\ (Evaluate(votes) = "approved" => Enough(votes))
    BY <1>2 DEF Evaluate
  <2>2. s \in RequestType /\ s.pc = "close" /\ s.to = Evaluate(votes)
    BY <2>1, StartFacts DEF RequestType, Resolutions
  <2>3. RequestOK(s)
    BY <2>1, <2>2 DEF RequestOK
  <2>4. LockMove(r, s)
    BY <1>1, <1>2, <2>2 DEF LockMove, Deciding
  <2> QED  BY <1>1, <1>2, <2>2, <2>3, <2>4, StartFacts, QuietStep DEF Become
<1>3. CASE Evaluate(votes) = "pending" /\ Leave(r)
  <2>1. RequestOK(Idle)
    BY StartFacts DEF RequestOK, Idle
  <2>2. LockMove(r, Idle)
    BY <1>1, <1>3 DEF LockMove, Leave, Idle, Deciding
  <2> QED  BY <1>1, <1>3, <2>1, <2>2, StartFacts, QuietStep DEF Become, Leave
<1> QED  BY <1>2, <1>3 DEF EvaluateVotes, ReadAgain

LEMMA CloseTaskFacts ==
  ASSUME Inv, NEW to \in Resolutions, CloseTask(to)
  PROVE  /\ task' \in TaskType /\ task'.status # "open"
         /\ task'.status = IF task.status = "open" THEN to ELSE task.status
         /\ task.status # "open" => task' = task
BY DEF Inv, TypeOK, TaskType, CloseTask, Resolutions

LEMMA CloseDecidedStep ==
  ASSUME Inv, NEW r \in Requests, CloseDecided(r)
  PROVE  Inv'
<1>1. Quiet /\ UNCHANGED <<due, crashes>> /\ request[r].pc \in Deciding /\ HoldsLock(r)
      /\ request[r].to \in Resolutions /\ request[r].pc = "close" /\ CloseTask(request[r].to)
  BY StartFacts DEF CloseDecided, At, Same, Quiet, Deciding, RequestType
<1>2. /\ task' \in TaskType /\ task'.status # "open"
      /\ task'.status = "approved" => Enough(votes)
  BY <1>1, CloseTaskFacts, StartFacts DEF RequestOK
<1>3. CASE Become(r, [request[r] EXCEPT !.pc = "resolved"]) /\ UNCHANGED lock
  <2> DEFINE s == [request[r] EXCEPT !.pc = "resolved"]
  <2>1. s \in RequestType /\ s.pc = "resolved"
    BY StartFacts DEF RequestType
  <2>2. RequestOK(s)
    BY <2>1 DEF RequestOK
  <2>3. LockMove(r, s)
    BY <1>1, <1>3, <2>1 DEF LockMove, Deciding
  <2> QED  BY <1>1, <1>2, <1>3, <2>2, <2>3, StartFacts, QuietStep DEF Become
<1>4. CASE Leave(r)
  <2>1. RequestOK(Idle)
    BY StartFacts DEF RequestOK, Idle
  <2>2. LockMove(r, Idle)
    BY <1>1, <1>4 DEF LockMove, Leave, Idle, Deciding
  <2> QED  BY <1>1, <1>2, <1>4, <2>1, <2>2, StartFacts, QuietStep DEF Become, Leave
<1> QED  BY <1>3, <1>4 DEF CloseDecided

LEMMA ResolvedStep ==
  ASSUME Inv, NEW r \in Requests, Resolved(r)
  PROVE  Inv'
<1>1. Quiet /\ UNCHANGED <<task, due, crashes>> /\ request[r].pc \in Deciding /\ HoldsLock(r)
      /\ ~(At(r, "evaluate") \/ At(r, "close")) /\ Leave(r)
  BY StartFacts DEF Resolved, At, Same, Quiet, Deciding
<1>2. RequestOK(Idle)
  BY StartFacts DEF RequestOK, Idle
<1>3. LockMove(r, Idle)
  BY <1>1 DEF LockMove, Leave, Idle, Deciding
<1> QED  BY <1>1, <1>2, <1>3, StartFacts, QuietStep DEF Become, Leave

(* Requests that do not take the lock: their first step, and their second.   *)
LEMMA UnlockedStep ==
  ASSUME Inv, NEW r \in Requests, NEW to \in {"cancelled", "expired"}, NEW b,
         Same, UNCHANGED <<due, votes, lock>>,
         \/ /\ At(r, "idle") /\ UNCHANGED task
            /\ \/ Become(r, [Idle EXCEPT !.pc = "closeUnlocked", !.to = to])
               \/ b \in Approvers /\ Become(r, [Idle EXCEPT !.pc = "delegate", !.who = b])
         \/ At(r, "closeUnlocked") /\ CloseTask(request[r].to) /\ Become(r, Idle)
         \/ /\ At(r, "delegate") /\ Become(r, Idle)
            /\ task' = [task EXCEPT !.delegate = request[r].who]
  PROVE  Inv'
<1>1. /\ Quiet /\ UNCHANGED <<due, crashes>> /\ request[r].pc \notin Deciding
      /\ ~(At(r, "evaluate") \/ At(r, "close"))
  BY DEF Same, Quiet, Deciding, At
<1>2. PICK s : /\ Become(r, s) /\ s.pc \notin Deciding /\ s \in RequestType
               /\ s.pc \in {"idle", "closeUnlocked", "delegate"}
               /\ s.pc = "delegate" => s.who \in Approvers
               /\ s.pc = "closeUnlocked" => s.to \in {"cancelled", "expired"}
  <2>1. /\ Idle.pc = "idle" /\ Idle \in RequestType /\ to \in Resolutions
        /\ [Idle EXCEPT !.pc = "closeUnlocked", !.to = to] \in RequestType
        /\ [Idle EXCEPT !.pc = "closeUnlocked", !.to = to].pc = "closeUnlocked"
        /\ [Idle EXCEPT !.pc = "closeUnlocked", !.to = to].to = to
        /\ b \in Approvers => [Idle EXCEPT !.pc = "delegate", !.who = b] \in RequestType
        /\ [Idle EXCEPT !.pc = "delegate", !.who = b].pc = "delegate"
        /\ [Idle EXCEPT !.pc = "delegate", !.who = b].who = b
    BY StartFacts DEF Idle, RequestType, Resolutions
  <2>2. CASE Become(r, Idle)
    BY <2>1, <2>2 DEF Deciding
  <2>3. CASE Become(r, [Idle EXCEPT !.pc = "closeUnlocked", !.to = to])
    BY <2>1, <2>3 DEF Deciding
  <2>4. CASE b \in Approvers /\ Become(r, [Idle EXCEPT !.pc = "delegate", !.who = b])
    BY <2>1, <2>4 DEF Deciding
  <2> QED  BY <2>2, <2>3, <2>4
<1>3. /\ task' \in TaskType
      /\ task'.status = "approved" => Enough(votes)
      /\ task'.status = "open" => task.status = "open"
  <2>1. CASE UNCHANGED task
    BY <2>1, StartFacts
  <2>2. CASE At(r, "closeUnlocked") /\ CloseTask(request[r].to)
    <3>1. request[r].to \in {"cancelled", "expired"} /\ request[r].to \in Resolutions
      BY <2>2, StartFacts DEF RequestOK, At, Resolutions
    <3> QED  BY <2>2, <3>1, CloseTaskFacts, StartFacts
  <2>3. CASE At(r, "delegate") /\ task' = [task EXCEPT !.delegate = request[r].who]
    BY <2>3, StartFacts DEF TaskType, RequestOK, At
  <2> QED  BY <2>1, <2>2, <2>3
<1>4. RequestOK(s)
  BY <1>2 DEF RequestOK
<1>5. LockMove(r, s)
  BY <1>1, <1>2 DEF LockMove
<1> QED  BY <1>1, <1>2, <1>3, <1>4, <1>5, StartFacts, QuietStep DEF Become

LEMMA DueStep ==
  ASSUME Inv, BecomeDue
  PROVE  Inv'
<1>1. Quiet /\ UNCHANGED <<task, lock, request, crashes>> /\ due' \in BOOLEAN
  BY DEF BecomeDue, Same, Quiet
<1>2. TypeOK' /\ LockInv'
  BY <1>1 DEF Inv, TypeOK, LockInv, HoldsLock, Quiet
<1>3. RequestInv'
  BY <1>1, RequestsAreOK, RequestsPrimed
<1>4. OutcomeInv' /\ CountInv' /\ VoteInv' /\ InOrder'
  BY <1>1, QuietKeeps DEF Inv, OutcomeInv, CountInv, Quiet, At
<1> QED  BY <1>2, <1>3, <1>4 DEF Inv

LEMMA CrashStep ==
  ASSUME Inv, NEW p \in Processes, Crash(p)
  PROVE  Inv'
<1>1. /\ Quiet /\ UNCHANGED <<task, due>> /\ crashes' \in 0..MaxCrashes /\ crashes' # 0
      /\ \A r \in Requests : request'[r] = IF replica[r] = p THEN Idle ELSE request[r]
      /\ lock' \in [Processes -> Seq(Requests)] /\ lock'[p] = <<>>
      /\ \A q \in Processes : q # p => lock'[q] = lock[q]
  BY ProcessAssumption DEF Inv, TypeOK, Crash, Quiet, ProcessAssumption
<1>2. \A r \in Requests : RequestOK(request'[r])
  <2>1. RequestOK(Idle) \/ Requests = {}
    BY StartFacts DEF RequestOK, Idle
  <2> QED  BY <1>1, <2>1, RequestsAreOK
<1>3. TypeOK'
  <2>1. request' \in [Requests -> RequestType]
    <3>1. \A r \in Requests : request'[r] \in RequestType
      BY <1>2 DEF RequestOK
    <3>2. request' = [r \in Requests |-> request'[r]]
      BY DEF Crash
    <3> QED  BY <3>1, <3>2
  <2> QED  BY <1>1, <2>1 DEF Inv, TypeOK, Quiet, RequestType
<1>4. RequestInv'
  BY <1>1, <1>2, RequestsPrimed
<1>5. OutcomeInv' /\ CountInv' /\ VoteInv' /\ InOrder'
  BY <1>1, QuietKeeps DEF Inv, OutcomeInv, CountInv
<1>6. LockInv'
  <2>1. LockInv /\ replica' = replica /\ replica \in [Requests -> Processes]
        /\ \A q \in Processes : Distinct(lock[q]) \subseteq Requests
    <3>1. LockInv /\ replica' = replica /\ replica \in [Requests -> Processes]
      BY <1>1 DEF Inv, Quiet, TypeOK
    <3>2. \A q \in Processes : lock[q] \in Seq(Requests)
      BY DEF Inv, TypeOK
    <3> QED  BY <3>1, <3>2 DEF Distinct
  <2>2. Distinct(lock'[p]) = {} /\ Once(lock'[p])
    BY <1>1 DEF Distinct, Once
  <2>3. ASSUME NEW q \in Processes
        PROVE  /\ Once(lock'[q])
               /\ \A x \in Distinct(lock'[q]) : replica[x] = q /\ request'[x].pc \in Deciding
    <3>1. CASE q = p
      BY <2>2, <3>1
    <3>2. CASE q # p
      <4>1. lock'[q] = lock[q] /\ Once(lock[q])
        BY <1>1, <2>1, <3>2 DEF LockInv
      <4>2. \A x \in Distinct(lock[q]) :
              x \in Requests /\ replica[x] = q /\ request[x].pc \in Deciding
        BY <2>1 DEF LockInv
      <4> QED  BY <1>1, <3>2, <4>1, <4>2
    <3> QED  BY <3>1, <3>2
  <2>4. ASSUME NEW r \in Requests
        PROVE  /\ request'[r].pc \in Deciding => r \in Distinct(lock'[replica[r]])
               /\ request'[r].pc \in Deciding \ {"task"} =>
                    lock'[replica[r]] # <<>> /\ Head(lock'[replica[r]]) = r
    BY <1>1, <2>1 DEF LockInv, HoldsLock, Idle, Deciding
  <2> QED  BY <2>1, <2>3, <2>4 DEF LockInv, HoldsLock, Distinct, Once
<1> QED  BY <1>3, <1>4, <1>5, <1>6 DEF Inv

LEMMA InsertStep ==
  ASSUME Inv, NEW r \in Requests, InsertVote(r)
  PROVE  Inv'
<1>1. /\ UNCHANGED <<policy, taskRoles, replica, crashes, task, due>>
      /\ request[r].pc = "insert" /\ request[r].pc \in Deciding /\ HoldsLock(r)
      /\ ~(At(r, "evaluate") \/ At(r, "close"))
  BY StartFacts DEF InsertVote, At, Same, Deciding
<1>2. CASE Leave(r) /\ UNCHANGED votes
  <2>1. RequestOK(Idle)
    BY StartFacts DEF RequestOK, Idle
  <2>2. LockMove(r, Idle)
    BY <1>1, <1>2 DEF LockMove, Leave, Idle, Deciding
  <2> QED  BY <1>1, <1>2, <2>1, <2>2, StartFacts, QuietStep DEF Become, Leave, Quiet
<1> DEFINE who == request[r].who
           v == [who |-> who, role |-> VotingRole(who), decision |-> request[r].decision]
           s == [request[r] EXCEPT !.pc = "evaluate"]
<1>3. CASE ~Duplicate(who) /\ votes' = Append(votes, v) /\ Become(r, s) /\ UNCHANGED lock
  <2>1. /\ who \in Approvers \ {Initiator} /\ VotingRole(who) # None
        /\ policy.strategy = "SEQUENTIAL" => TheirTurn(who)
        /\ policy \in Policies
    BY <1>1, StartFacts DEF RequestOK, Inv, TypeOK
  <2>2. v \in Votes
    BY <2>1, StartFacts, VotingRoleIsHeld DEF Votes, RequestType
  <2>3. v.who = who /\ v.role = VotingRole(who)
    OBVIOUS
  <2>4. s \in RequestType /\ s.pc = "evaluate" /\ RequestOK(s)
    BY StartFacts DEF RequestType, RequestOK
  <2>5. LockInv' /\ lock' \in [Processes -> Seq(Requests)]
    <3>1. LockMove(r, s)
      BY <1>1, <1>3, <2>4 DEF LockMove, Deciding
    <3> QED  BY <1>1, <1>3, <3>1, LockStep DEF Become
  <2> HIDE DEF v, who
  <2>6. /\ votes' \in Seq(Votes) /\ Len(votes') = Len(votes) + 1 /\ Len(votes) \in Nat
        /\ \A n \in 1..Len(votes) : votes'[n] = votes[n]
        /\ votes'[Len(votes')] = v
        /\ Approvals(votes) \subseteq Approvals(votes') /\ Done(votes) \subseteq Done(votes')
        /\ Enough(votes) => Enough(votes')
    BY <1>3, <2>2, OneVoteMore, ZenonT(60)
  <2>7. \A a : VotingRole(a)' = VotingRole(a)
    BY <1>1 DEF VotingRole, FirstRole
  <2>8. \A q \in Requests : request'[q] = IF q = r THEN s ELSE request[q]
    BY <1>3 DEF Become, Inv, TypeOK
  <2>9. TypeOK'
    <3>1. request' \in [Requests -> RequestType]
      BY <1>3, <2>4 DEF Become, Inv, TypeOK, RequestType
    <3> QED  BY <1>1, <2>5, <2>6, <3>1 DEF Inv, TypeOK, RequestType
  <2>10. VoteInv'
    <3>1. \A n \in 1..Len(votes) : votes[n].who # who
      BY <1>3 DEF Duplicate, Voted, Distinct
    <3>2. VoteInv
      BY DEF Inv
    <3>3. \A n \in 1..Len(votes') : n \in 1..Len(votes) \/ n = Len(votes')
      BY <2>6
    <3>4. \A n \in 1..Len(votes') : votes'[n].who # Initiator
      BY <2>1, <2>3, <2>6, <3>2, <3>3 DEF VoteInv
    <3>5. \A n \in 1..Len(votes') : votes'[n].role = VotingRole(votes'[n].who)
      BY <2>1, <2>3, <2>6, <3>2, <3>3 DEF VoteInv
    <3>6. \A n, m \in 1..Len(votes') : votes'[n].who = votes'[m].who => n = m
      BY <2>3, <2>6, <3>1, <3>2, <3>3 DEF VoteInv
    <3>7. \A n \in 1..Len(votes') : votes'[n].role = VotingRole(votes[n].who)'
      BY <1>1, <3>5 DEF VotingRole, FirstRole
    <3> QED  BY <3>4, <3>6, <3>7 DEF VoteInv
  <2>11. OutcomeInv'
    BY <1>1, <2>6 DEF Inv, OutcomeInv, Enough, RequiredApprovals, Done, Approvals
  <2>12. CountInv'
    BY <2>4, <2>8 DEF CountInv, At
  <2>13. InOrder'
    <3> SUFFICES ASSUME policy.strategy = "SEQUENTIAL", NEW n \in 1..Len(votes'),
                        NEW i \in 1..Len(policy.roles),
                        votes'[n].role \notin {policy.roles[k] : k \in 1..i}
                 PROVE  \E m \in 1..(n - 1) :
                          votes'[m].role = policy.roles[i] /\ votes'[m].decision = "approve"
      BY <1>1 DEF InOrder
    <3>1. CASE n \in 1..Len(votes)
      <4>1. PICK m \in 1..(n - 1) :
              votes[m].role = policy.roles[i] /\ votes[m].decision = "approve"
        BY <2>6, <3>1 DEF Inv, InOrder
      <4>2. m \in 1..Len(votes)
        BY <2>6, <3>1
      <4> QED  BY <2>6, <4>1, <4>2
    <3>2. CASE n = Len(votes) + 1
      <4>1. policy.roles[i] \in Done(votes)
        BY <2>1, <2>3, <2>6, <3>2 DEF TheirTurn
      <4>2. PICK m \in 1..Len(votes) :
              votes[m].role = policy.roles[i] /\ votes[m].decision = "approve"
        BY <4>1 DEF Done, Approvals
      <4>3. m \in 1..(n - 1)
        BY <2>6, <3>2
      <4> QED  BY <2>6, <4>2, <4>3
    <3> QED  BY <2>6, <3>1, <3>2
  <2>14. RequestInv'
    <3> SUFFICES ASSUME NEW q \in Requests
                 PROVE  /\ request'[q].pc \in {"task", "decisions", "delegate"} =>
                             request'[q].who \in Approvers
                        /\ request'[q].pc = "insert" =>
                             /\ request'[q].who \in Approvers \ {Initiator}
                             /\ VotingRole(request[q].who)' # None
                             /\ policy'.strategy = "SEQUENTIAL" => TheirTurn(request[q].who)'
                        /\ request'[q].pc = "close" /\ request'[q].to = "approved" =>
                             Enough(votes)'
                        /\ request'[q].pc = "closeUnlocked" =>
                             request'[q].to \in {"cancelled", "expired"}
      BY DEF RequestInv, At
    <3>1. RequestOK(request'[q])
      BY <2>4, <2>8, RequestsAreOK
    <3>2. VotingRole(request[q].who)' = VotingRole(request'[q].who)
      BY <1>1 DEF VotingRole, FirstRole
    <3>3. TheirTurn(request'[q].who) => TheirTurn(request[q].who)'
      <4>1. Done(votes)' = Done(votes')
        BY DEF Done, Approvals
      <4> QED  BY <1>1, <2>6, <3>2, <4>1 DEF TheirTurn
    <3>4. Enough(votes) => Enough(votes)'
      BY <1>1, <2>6 DEF Enough, RequiredApprovals, Done, Approvals
    <3> QED  BY <1>1, <3>1, <3>2, <3>3, <3>4 DEF RequestOK
  <2> QED  BY <2>5, <2>9, <2>10, <2>11, <2>12, <2>13, <2>14 DEF Inv
<1> QED  BY <1>2, <1>3 DEF InsertVote

-------------------------------------------------------------------------------
(* The invariant.                                                            *)

LEMMA InitInv == Init => Inv
<1> SUFFICES ASSUME Init PROVE Inv
  OBVIOUS
<1>1. Len(votes) = 0 /\ votes \in Seq(Votes) /\ task.status = "open"
      /\ \A r \in Requests : request[r] = Idle
  BY DEF Init
<1>2. 0 \in 0..Cardinality(Approvers)
  BY PeopleAssumption, FS_CardinalityType DEF PeopleAssumption
<1>3. TypeOK
  <2>1. taskRoles \subseteq Roles
    BY PolicyType DEF Init, Distinct
  <2>2. lock \in [Processes -> Seq(Requests)]
    BY DEF Init
  <2>3. request \in [Requests -> RequestType]
    BY <1>2 DEF Init, Idle, RequestType, Resolutions
  <2>4. replica \in [Requests -> Processes] /\ crashes \in 0..MaxCrashes
    BY ProcessAssumption DEF Init, ProcessAssumption
  <2> QED  BY <1>1, <2>1, <2>2, <2>3, <2>4 DEF Init, TypeOK, RequestType
<1>4. VoteInv /\ RequestInv /\ OutcomeInv /\ InOrder
  BY <1>1 DEF VoteInv, RequestInv, OutcomeInv, InOrder, At, Idle
<1>5. CountInv
  BY DEF Init, CountInv
<1>6. LockInv
  <2>1. \A p \in Processes : lock[p] = <<>>
    BY DEF Init
  <2>2. \A p \in Processes : Distinct(lock[p]) = {} /\ Once(lock[p])
    BY <2>1 DEF Distinct, Once
  <2> QED  BY <1>1, <2>2 DEF LockInv, Deciding, Idle
<1> QED  BY <1>3, <1>4, <1>5, <1>6 DEF Inv

LEMMA NextInv == Inv /\ [Next]_vars => Inv'
<1> SUFFICES ASSUME Inv, [Next]_vars PROVE Inv'
  OBVIOUS
<1>1. ASSUME NEW r \in Requests, Proceed(r) PROVE Inv'
  <2>1. CASE CloseUnlocked(r)
    <3>1. /\ Same /\ UNCHANGED <<due, votes, lock>>
          /\ At(r, "closeUnlocked") /\ CloseTask(request[r].to) /\ Become(r, Idle)
      BY <2>1 DEF CloseUnlocked
    <3> QED  BY <3>1, UnlockedStep
  <2>2. CASE StoreDelegate(r)
    <3>1. /\ Same /\ UNCHANGED <<due, votes, lock>>
          /\ At(r, "delegate") /\ Become(r, Idle)
          /\ task' = [task EXCEPT !.delegate = request[r].who]
      BY <2>2 DEF StoreDelegate
    <3> QED  BY <3>1, UnlockedStep
  <2> QED  BY <1>1, <2>1, <2>2, ReadTaskStep, ReadDecisionsStep, InsertStep, EvaluateStep,
              CloseDecidedStep, ResolvedStep DEF Proceed
<1>2. ASSUME NEW r \in Requests,
             Sweep(r) \/ \E a \in Approvers : Cancel(r, a) \/ Delegate(r, a)
      PROVE  Inv'
  <2>1. PICK to \in {"cancelled", "expired"}, b \in Approvers \cup {None} :
          /\ Same /\ UNCHANGED <<due, votes, lock>> /\ At(r, "idle") /\ UNCHANGED task
          /\ \/ Become(r, [Idle EXCEPT !.pc = "closeUnlocked", !.to = to])
             \/ b \in Approvers /\ Become(r, [Idle EXCEPT !.pc = "delegate", !.who = b])
    <3>1. CASE Sweep(r)
      BY <3>1 DEF Sweep
    <3>2. CASE \E a \in Approvers : Cancel(r, a)
      BY <3>2 DEF Cancel
    <3>3. CASE \E a \in Approvers : Delegate(r, a)
      BY <3>3, PeopleAssumption DEF Delegate, PeopleAssumption
    <3> QED  BY <1>2, <3>1, <3>2, <3>3
  <2> QED  BY <2>1, UnlockedStep
<1>3. CASE UNCHANGED vars
  <2>1. Quiet /\ UNCHANGED <<task, due, lock, request, crashes>>
    BY <1>3 DEF vars, Quiet
  <2>2. TypeOK' /\ LockInv'
    BY <2>1 DEF Inv, TypeOK, LockInv, HoldsLock, Quiet
  <2>3. RequestInv'
    BY <2>1, RequestsAreOK, RequestsPrimed
  <2>4. OutcomeInv' /\ CountInv' /\ VoteInv' /\ InOrder'
    BY <2>1, QuietKeeps DEF Inv, OutcomeInv, CountInv, Quiet, At
  <2> QED  BY <2>2, <2>3, <2>4 DEF Inv
<1> QED  BY <1>1, <1>2, <1>3, DecideStep, DueStep, CrashStep DEF Next

LEMMA InvHolds == Spec => []Inv
<1> QED  BY InitInv, NextInv, PTL DEF Spec

(* The state has its type.                                                   *)
THEOREM TypesHold == Spec => []TypeOK
<1>1. Inv => TypeOK
  BY DEF Inv
<1> QED  BY <1>1, InvHolds, PTL

(* An approved task has the votes its policy asks for, each of a different   *)
(* person who holds the role and is not the initiator.                       *)
THEOREM ApprovedIsEarnedHolds == Spec => []ApprovedIsEarned
<1>1. Inv => ApprovedIsEarned
  <2> SUFFICES ASSUME Inv, task.status = "approved" PROVE ApprovedIsEarned
    BY DEF ApprovedIsEarned
  <2> DEFINE people == {votes[n].who : n \in Approvals(votes)}
             f == [n \in Approvals(votes) |-> votes[n].who]
  <2>1. Enough(votes) /\ VoteInv /\ policy \in Policies
    BY DEF Inv, OutcomeInv, TypeOK
  <2>2. \A n \in 1..Len(votes) : votes[n] \in Votes
    BY DEF Inv, TypeOK
  <2>3. \A n \in Approvals(votes) : n \in 1..Len(votes)
    BY DEF Approvals
  <2>4. \A n \in Approvals(votes) :
          votes[n].who \in Approvers \ {Initiator} /\ votes[n].role \in Holds[votes[n].who]
    <3> SUFFICES ASSUME NEW n \in Approvals(votes)
                 PROVE  votes[n].who \in Approvers \ {Initiator}
                        /\ votes[n].role \in Holds[votes[n].who]
      OBVIOUS
    <3>1. /\ votes[n].who \in Approvers \ {Initiator} /\ votes[n].role \in Roles
          /\ votes[n].role = VotingRole(votes[n].who)
      BY <2>1, <2>2, <2>3 DEF VoteInv, Votes
    <3>2. VotingRole(votes[n].who) # None
      BY <3>1, PeopleAssumption DEF PeopleAssumption
    <3> QED  BY <2>1, <3>1, <3>2, VotingRoleIsHeld
  <2>5. Initiator \notin people
    BY <2>4
  <2>6. Cardinality(people) = Cardinality(Approvals(votes))
    <3>1. IsFiniteSet(Approvals(votes))
      <4>1. Len(votes) \in Nat
        BY DEF Inv, TypeOK
      <4>2. IsFiniteSet(1..Len(votes))
        BY <4>1, FS_Interval
      <4> QED  BY <4>2, FS_Subset DEF Approvals
    <3>2. f \in Bijection(Approvals(votes), people)
      BY <2>1, <2>3 DEF VoteInv, Bijection, Injection, Surjection, IsInjective
    <3> HIDE DEF f
    <3>3. ExistsBijection(Approvals(votes), people)
      BY <3>2 DEF ExistsBijection
    <3> HIDE DEF people
    <3> QED  BY <3>1, <3>3, FS_Bijection
  <2>7. policy.strategy = "SEQUENTIAL" =>
          \A n \in 1..Len(policy.roles) : policy.roles[n] \in Done(votes)
    BY <2>1 DEF Enough, Distinct
  <2>8. policy.strategy # "SEQUENTIAL" => Cardinality(people) >= RequiredApprovals
    BY <2>1, <2>6 DEF Enough
  <2> QED  BY <2>4, <2>5, <2>7, <2>8 DEF ApprovedIsEarned
<1> QED  BY <1>1, InvHolds, PTL

(* Votes that settle a task do not stay uncounted while nobody is deciding.  *)
THEOREM VotesConvergeHolds == Spec => []VotesConverge
<1>1. Inv => VotesConverge
  BY DEF Inv, CountInv, VotesConverge, At
<1> QED  BY <1>1, InvHolds, PTL

(* In a sequence nobody votes before every earlier role has approved.        *)
THEOREM InOrderHolds == Spec => []InOrder
<1>1. Inv => InOrder
  BY DEF Inv
<1> QED  BY <1>1, InvHolds, PTL

-------------------------------------------------------------------------------
(* On one process.                                                           *)

OneProcess == \A r, q \in Requests : replica[r] = replica[q]

RejectInv ==
  OneProcess =>
    /\ \A r \in Requests : At(r, "close") /\ request[r].to = "approved" => ~Rejected(votes)
    /\ task.status = "approved" =>
         /\ ~Rejected(votes)
         /\ \A r \in Requests : ~At(r, "decisions") /\ ~At(r, "insert")

LEMMA OneAtATime ==
  ASSUME Inv, OneProcess, NEW r \in Requests, NEW q \in Requests,
         request[r].pc \in Deciding \ {"task"}, request[q].pc \in Deciding \ {"task"}
  PROVE  r = q
BY DEF Inv, LockInv, HoldsLock, OneProcess

LEMMA RejectStep == Inv /\ RejectInv /\ [Next]_vars => RejectInv'
<1> SUFFICES ASSUME Inv, RejectInv, [Next]_vars PROVE RejectInv'
  OBVIOUS
<1>0. UNCHANGED replica
  <2>1. \A r \in Requests : Proceed(r) => UNCHANGED replica
    BY DEF Proceed, ReadTask, ReadDecisions, InsertVote, EvaluateVotes, CloseDecided, Resolved,
           CloseUnlocked, StoreDelegate, Same
  <2>2. \A r \in Requests, a \in Approvers :
          Decide(r, a) \/ Cancel(r, a) \/ Delegate(r, a) => UNCHANGED replica
    BY DEF Decide, Cancel, Delegate, Same
  <2>3. \A r \in Requests : Sweep(r) => UNCHANGED replica
    BY DEF Sweep, Same
  <2>4. (\E p \in Processes : Crash(p)) \/ BecomeDue => UNCHANGED replica
    BY DEF BecomeDue, Crash, Same
  <2>5. UNCHANGED vars => UNCHANGED replica
    BY DEF vars
  <2>6. CASE \E r \in Requests : \/ Proceed(r) \/ Sweep(r)
                                 \/ \E a \in Approvers :
                                      Decide(r, a) \/ Cancel(r, a) \/ Delegate(r, a)
    BY <2>1, <2>2, <2>3, <2>6
  <2> QED  BY <2>4, <2>5, <2>6 DEF Next
<1> SUFFICES ASSUME OneProcess PROVE RejectInv'
  BY <1>0 DEF RejectInv, OneProcess
<1>1. /\ \A r \in Requests : At(r, "close") /\ request[r].to = "approved" => ~Rejected(votes)
      /\ task.status = "approved" =>
           /\ ~Rejected(votes)
           /\ \A r \in Requests : ~At(r, "decisions") /\ ~At(r, "insert")
  BY DEF RejectInv
<1>2. \A r \in Requests : request[r] \in RequestType
  BY StartFacts
<1>3. request \in [Requests -> RequestType] /\ task \in TaskType
  BY DEF Inv, TypeOK, RequestType, TaskType
<1>4. ASSUME NEW r \in Requests, NEW s, Become(r, s), UNCHANGED votes,
             s.pc = "close" /\ s.to = "approved" => ~Rejected(votes),
             s.pc \in {"decisions", "insert"} => task.status # "approved",
             \/ UNCHANGED task
             \/ task'.status = task.status
             \/ task'.status # "approved"
             \/ At(r, "close") /\ request[r].to = "approved" /\ s.pc \in {"idle", "resolved"}
      PROVE  RejectInv'
  <2>1. \A q \in Requests : request'[q] = IF q = r THEN s ELSE request[q]
    BY <1>3, <1>4 DEF Become
  <2>2. \A q \in Requests :
          request'[q].pc = "close" /\ request'[q].to = "approved" => ~Rejected(votes)
    BY <1>1, <1>4, <2>1 DEF At
  <2>3. Rejected(votes)' <=> Rejected(votes)
    BY <1>4 DEF Rejected
  <2>4. ASSUME task'.status = "approved"
        PROVE  /\ ~Rejected(votes)
               /\ \A q \in Requests : request'[q].pc \notin {"decisions", "insert"}
    <3>1. CASE task.status = "approved"
      BY <1>1, <1>4, <2>1, <3>1 DEF At
    <3>2. CASE task.status # "approved"
      <4>1. At(r, "close") /\ request[r].to = "approved" /\ s.pc \in {"idle", "resolved"}
        BY <1>4, <2>4, <3>2
      <4>2. ~Rejected(votes)
        BY <1>1, <4>1
      <4>3. \A q \in Requests : request[q].pc \in {"decisions", "insert"} => q = r
        BY <4>1, OneAtATime DEF At, Deciding
      <4> QED  BY <2>1, <4>1, <4>2, <4>3
    <3> QED  BY <3>1, <3>2
  <2> QED  BY <2>2, <2>3, <2>4 DEF RejectInv, At
<1>5. ASSUME NEW r \in Requests, Proceed(r) PROVE RejectInv'
  <2>1. CASE Leave(r) /\ UNCHANGED <<votes, task>>
    BY <1>4, <2>1 DEF Leave, Idle
  <2>2. CASE ReadTask(r)
    <3>1. CASE Become(r, [request[r] EXCEPT !.pc = "decisions"]) /\ Actionable(request[r].who)
      <4>1. [request[r] EXCEPT !.pc = "decisions"].pc = "decisions"
        BY <1>2 DEF RequestType
      <4> QED  BY <1>4, <2>2, <3>1, <4>1 DEF ReadTask, Actionable
    <3> QED  BY <2>1, <2>2, <3>1 DEF ReadTask
  <2>3. CASE ReadDecisions(r)
    <3> DEFINE s == [request[r] EXCEPT !.pc = "insert", !.seen = Len(votes)]
    <3>1. CASE Become(r, s)
      <4>1. s.pc = "insert" /\ task.status # "approved"
        BY <1>1, <1>2, <2>3 DEF RequestType, ReadDecisions
      <4> QED  BY <1>4, <2>3, <3>1, <4>1 DEF ReadDecisions
    <3> QED  BY <2>1, <2>3, <3>1 DEF ReadDecisions
  <2>4. CASE InsertVote(r)
    <3>1. CASE Become(r, [request[r] EXCEPT !.pc = "evaluate"]) /\ UNCHANGED task
      <4>1. [request[r] EXCEPT !.pc = "evaluate"].pc = "evaluate"
        BY <1>2 DEF RequestType
      <4>2. \A q \in Requests : request'[q].pc \in {"close", "decisions", "insert"} =>
                                  q # r /\ request[q].pc \in {"close", "decisions", "insert"}
        BY <1>3, <3>1, <4>1 DEF Become
      <4>3. request[r].pc = "insert" /\ task'.status # "approved"
        BY <1>1, <2>4, <3>1 DEF InsertVote, At
      <4>4. \A q \in Requests : request'[q].pc # "close"
        BY <4>2, <4>3, OneAtATime DEF Deciding
      <4> QED  BY <4>3, <4>4 DEF RejectInv, At
    <3> QED  BY <2>1, <2>4, <3>1 DEF InsertVote, Same
  <2>5. CASE EvaluateVotes(r)
    <3> DEFINE s == [request[r] EXCEPT !.pc = "close", !.to = Evaluate(votes), !.seen = 0]
    <3>1. CASE Become(r, s)
      <4>1. s.pc = "close" /\ s.to = Evaluate(votes)
        BY <1>2 DEF RequestType
      <4>2. Evaluate(votes) = "approved" => ~Rejected(votes)
        BY DEF Evaluate
      <4> QED  BY <1>4, <2>5, <3>1, <4>1, <4>2 DEF EvaluateVotes
    <3> QED  BY <2>1, <2>5, <3>1 DEF EvaluateVotes, ReadAgain
  <2>6. CASE CloseDecided(r)
    <3>1. request[r].to \in Resolutions /\ At(r, "close") /\ UNCHANGED votes
      BY <1>2, <2>6 DEF CloseDecided, RequestType
    <3>2. task'.status = IF task.status = "open" THEN request[r].to ELSE task.status
      BY <2>6, <3>1, CloseTaskFacts DEF CloseDecided
    <3>3. CASE Become(r, [request[r] EXCEPT !.pc = "resolved"])
      <4>1. [request[r] EXCEPT !.pc = "resolved"].pc = "resolved"
        BY <1>2 DEF RequestType
      <4> QED  BY <1>4, <3>1, <3>2, <3>3, <4>1
    <3>4. CASE Become(r, Idle)
      BY <1>4, <3>1, <3>2, <3>4 DEF Idle
    <3> QED  BY <2>6, <3>3, <3>4 DEF CloseDecided, Leave
  <2>7. CASE Resolved(r)
    BY <2>1, <2>7 DEF Resolved
  <2>8. CASE CloseUnlocked(r)
    <3>1. request[r].to \in {"cancelled", "expired"} /\ request[r].to \in Resolutions
      BY <2>8, StartFacts DEF RequestOK, CloseUnlocked, At, Resolutions
    <3>2. task'.status = IF task.status = "open" THEN request[r].to ELSE task.status
      BY <2>8, <3>1, CloseTaskFacts DEF CloseUnlocked
    <3> QED  BY <1>4, <2>8, <3>1, <3>2 DEF CloseUnlocked, Idle
  <2>9. CASE StoreDelegate(r)
    <3>1. task'.status = task.status
      BY <1>3, <2>9 DEF StoreDelegate, TaskType
    <3> QED  BY <1>4, <2>9, <3>1 DEF StoreDelegate, Idle
  <2> QED  BY <1>5, <2>2, <2>3, <2>4, <2>5, <2>6, <2>7, <2>8, <2>9 DEF Proceed
<1>6. ASSUME NEW r \in Requests,
             Sweep(r) \/ \E a \in Approvers : Decide(r, a) \/ Cancel(r, a) \/ Delegate(r, a)
      PROVE  RejectInv'
  <2>1. CASE Sweep(r)
    <3>1. [Idle EXCEPT !.pc = "closeUnlocked", !.to = "expired"].pc = "closeUnlocked"
      BY DEF Idle
    <3> QED  BY <1>4, <2>1, <3>1 DEF Sweep, Same
  <2>2. ASSUME NEW a \in Approvers, Decide(r, a) PROVE RejectInv'
    <3>1. PICK d \in {"approve", "reject"} :
            Become(r, [Idle EXCEPT !.pc = "task", !.who = a, !.decision = d])
      BY <2>2 DEF Decide
    <3>2. [Idle EXCEPT !.pc = "task", !.who = a, !.decision = d].pc = "task"
      BY DEF Idle
    <3> QED  BY <1>4, <2>2, <3>1, <3>2 DEF Decide
  <2>3. ASSUME NEW a \in Approvers, Cancel(r, a) PROVE RejectInv'
    <3>1. [Idle EXCEPT !.pc = "closeUnlocked", !.to = "cancelled"].pc = "closeUnlocked"
      BY DEF Idle
    <3> QED  BY <1>4, <2>3, <3>1 DEF Cancel
  <2>4. ASSUME NEW a \in Approvers, Delegate(r, a) PROVE RejectInv'
    <3>1. PICK b \in Delegates : Become(r, [Idle EXCEPT !.pc = "delegate", !.who = b])
      BY <2>4 DEF Delegate
    <3>2. [Idle EXCEPT !.pc = "delegate", !.who = b].pc = "delegate"
      BY DEF Idle
    <3> QED  BY <1>4, <2>4, <3>1, <3>2 DEF Delegate
  <2> QED  BY <1>6, <2>1, <2>2, <2>3, <2>4
<1>7. CASE (\E p \in Processes : Crash(p)) \/ UNCHANGED vars \/ BecomeDue
  <2>1. /\ UNCHANGED <<votes, task>>
        /\ \A q \in Requests : request'[q] = request[q] \/ request'[q] = Idle
    BY <1>7 DEF Crash, vars, BecomeDue, Same
  <2>2. Rejected(votes)' <=> Rejected(votes)
    BY <2>1 DEF Rejected
  <2> QED  BY <1>1, <2>1, <2>2 DEF RejectInv, At, Idle
<1> QED  BY <1>5, <1>6, <1>7 DEF Next

(* On one process no task with a rejection on record is approved.            *)
THEOREM RejectionWinsHolds == Spec => []RejectionWins
<1>1. Init => RejectInv
  <2> SUFFICES ASSUME Init PROVE RejectInv
    OBVIOUS
  <2>1. task.status = "open" /\ \A r \in Requests : request[r].pc = "idle"
    BY DEF Init, Idle
  <2> QED  BY <2>1 DEF RejectInv, At
<1>2. RejectInv => RejectionWins
  BY DEF RejectInv, RejectionWins, OneProcess
<1> QED  BY <1>1, <1>2, RejectStep, InvHolds, PTL DEF Spec
===============================================================================
