--------------------------- MODULE SessionQueueProofs ---------------------------
(***************************************************************************)
(* Theorems about SessionQueue, for any number of submissions, other        *)
(* requests and crashes.                                                    *)
(***************************************************************************)
EXTENDS SessionQueue, FiniteSetTheorems, TLAPS

-------------------------------------------------------------------------------
(* What holds of submissions and their executions.                           *)

StatusOf(i) == execution[i].status
KeyOf(i) == submission[i].key

SubmissionInv ==
  /\ \A e \in Jobs : execution[e].seq = 0
  /\ \A k \in Keys : message[k].exec # None => message[k].seq # 0
  /\ \A i \in Submissions :
       /\ submission[i].pc # "idle" => KeyOf(i) \in Keys
       /\ submission[i].pc \in {"idle", "message", "create"} => StatusOf(i) = "absent"
       /\ submission[i].pc \in {"create", "attach", "wake"} => message[KeyOf(i)].seq # 0
       /\ submission[i].pc \in {"wake", "answered"} => message[KeyOf(i)].exec # None
       /\ StatusOf(i) # "absent" <=> execution[i].seq # 0
       /\ submission[i].before \subseteq Answered

(* A retry of what was answered gets no further than the message.            *)
RetryInv ==
  \A j \in Submissions : \A i \in submission[j].before :
    KeyOf(i) = KeyOf(j) =>
      submission[j].pc \notin {"create", "attach", "wake"} /\ StatusOf(j) = "absent"

(* Nobody works on an execution that does not exist, and what writes a row   *)
(* back has read it after it was started.                                    *)
Working == DOMAIN Target \cup Updates \cup {"turn", "verdict"}
Started == Updates \cup {"turn", "verdict"}

ReadBack(s) == s.call \in Updates /\ s.step = "write" => s.seen \in Status \ {"created"}

WorkerInv ==
  \A w \in Workers :
    /\ worker[w].call \in Working => worker[w].exec \in Executions
    /\ worker[w].exec \in Executions => StatusOf(worker[w].exec) # "absent"
    /\ worker[w].call \in {"query", "leave"} => w = "drain"
    /\ worker[w].call \in Started => StatusOf(worker[w].exec) # "created"
    /\ ReadBack(worker[w])

(* An execution that may be given its turn has had none.                     *)
TurnInv ==
  /\ \A e \in Executions : StatusOf(e) \in {"absent", "created"} => turns[e] = 0
  /\ worker["drain"].call = "start" => turns[worker["drain"].exec] = 0
  /\ OneTurn

(* Who drives an execution that is running, and one that is resuming.        *)
Drives(w, e, calls) == worker[w].exec = e /\ worker[w].call \in calls
DrivenInv ==
  \A e \in Executions \ adrift :
    /\ StatusOf(e) = "running" =>
         \E w \in Workers : Drives(w, e, {"turn", "complete", "fail", "finish"})
    /\ StatusOf(e) = "resuming" => \E w \in Workers : Drives(w, e, {"rerun"})

Inv == TypeOK /\ SubmissionInv /\ RetryInv /\ WorkerInv /\ TurnInv /\ DrivenInv /\ AnsweredFirst

LEMMA DrainWorks == "drain" \in Workers /\ Workers = {"drain"} \cup Requests
BY DEF Workers

LEMMA InitHolds == Init => Inv
<1> SUFFICES ASSUME Init PROVE Inv
  OBVIOUS
<1> USE SubmissionAssumption, BoundsAssumption DEF SubmissionAssumption, BoundsAssumption, Init
<1>1. TypeOK
  BY DEF TypeOK, Idle, WorkerStates, Calls, Status, Executions
<1>2. SubmissionInv /\ WorkerInv
  BY DEF SubmissionInv, WorkerInv, ReadBack, Working, Started, Updates, StatusOf, KeyOf, Idle, Target,
         Executions
<1>3. TurnInv /\ DrivenInv
  BY DrainWorks DEF TurnInv, OneTurn, DrivenInv, StatusOf, Idle
<1>4. RetryInv /\ AnsweredFirst
  BY DrainWorks DEF RetryInv, AnsweredFirst, Idle
<1> QED  BY <1>1, <1>2, <1>3, <1>4 DEF Inv

-------------------------------------------------------------------------------
(* The steps of a submission.                                                *)

LEMMA ReceiveKeeps ==
  ASSUME Inv, NEW i \in Submissions, Receive(i)
  PROVE  Inv'
<1> USE SubmissionAssumption DEF SubmissionAssumption
<1>1. PICK k \in Keys :
        submission' = [submission EXCEPT ![i] = [pc |-> "message", key |-> k, before |-> Answered]]
  BY DEF Receive
<1>2. submission[i].pc = "idle" /\ StatusOf(i) = "absent" /\ i \notin Answered
  BY DEF Receive, Inv, SubmissionInv, Answered
<1>3. Answered' = Answered
  BY <1>1, <1>2 DEF Answered, Inv, TypeOK
<1>4. TypeOK'
  BY <1>1 DEF Receive, Inv, TypeOK, Answered
<1>5. SubmissionInv'
  BY <1>1, <1>2, <1>3 DEF Receive, Inv, TypeOK, SubmissionInv, StatusOf, KeyOf
<1>6. (WorkerInv /\ TurnInv /\ DrivenInv)'
  BY DEF Receive, Inv, WorkerInv, TurnInv, OneTurn, DrivenInv, Drives, StatusOf
<1>7. RetryInv'
  <2>1. \A j \in Submissions : submission[j].before \subseteq Submissions \ {i}
    BY <1>2 DEF Inv, SubmissionInv, Answered
  <2> QED  BY <1>1, <1>2, <2>1 DEF Receive, Inv, TypeOK, RetryInv, StatusOf, KeyOf, Answered
<1>8. AnsweredFirst'
  <2>1. worker["drain"].exec # i
    BY <1>2, DrainWorks DEF Inv, WorkerInv, Executions
  <2> QED  BY <1>1, <2>1 DEF Receive, Inv, TypeOK, AnsweredFirst
<1> QED  BY <1>4, <1>5, <1>6, <1>7, <1>8 DEF Inv

LEMMA StoreMessageKeeps ==
  ASSUME Inv, NEW i \in Submissions, StoreMessage(i)
  PROVE  Inv'
<1> USE SubmissionAssumption DEF SubmissionAssumption
<1> DEFINE k == KeyOf(i)
<1>1. /\ submission[i].pc = "message" /\ k \in Keys
      /\ UNCHANGED <<execution, passes, worker, turns, adrift, sent, crashes>>
  BY DEF StoreMessage, Inv, SubmissionInv
<1>2. PICK pc \in {"create", "answered"} :
        /\ Goto(i, pc)
        /\ pc = "create" => message'[k].seq # 0 /\ message[k].exec = None
        /\ pc = "answered" => message'[k].exec # None
        /\ message' \in [Keys -> [seq : Nat, exec : Submissions \cup {None}]]
        /\ \A l \in Keys : message'[l].exec = message[l].exec
        /\ \A l \in Keys : message[l].seq # 0 => message'[l].seq # 0
  <2>1. Cardinality({l \in Keys : message[l].seq # 0}) \in Nat
    BY FS_Subset, FS_CardinalityType
  <2>2. CASE message[k].seq = 0 /\ Goto(i, "create")
             /\ message' = [message EXCEPT ![k].seq = Cardinality({l \in Keys : message[l].seq # 0}) + 1]
    <3>1. message[k].exec = None
      BY <1>1, <2>2 DEF Inv, SubmissionInv
    <3> QED  BY <1>1, <2>1, <2>2, <3>1 DEF Inv, TypeOK
  <2>3. CASE message[k].seq # 0 /\ message[k].exec = None /\ Goto(i, "create") /\ UNCHANGED message
    BY <1>1, <2>3 DEF Inv, TypeOK
  <2>4. CASE message[k].exec # None /\ Goto(i, "answered") /\ UNCHANGED message
    BY <1>1, <2>4 DEF Inv, TypeOK
  <2> QED  BY <2>2, <2>3, <2>4 DEF StoreMessage, KeyOf
<1>3. submission' = [submission EXCEPT ![i].pc = pc] /\ Answered \subseteq Answered'
  BY <1>1, <1>2 DEF Goto, Answered, Inv, TypeOK
<1>4. TypeOK'
  BY <1>1, <1>2, <1>3 DEF Inv, TypeOK
<1>5. SubmissionInv'
  BY <1>1, <1>2, <1>3 DEF Inv, TypeOK, SubmissionInv, StatusOf, KeyOf
<1>6. (WorkerInv /\ TurnInv /\ DrivenInv)'
  BY <1>1 DEF Inv, WorkerInv, TurnInv, OneTurn, DrivenInv, Drives, StatusOf
<1>7. RetryInv'
  <2>1. ASSUME NEW j \in submission[i].before, KeyOf(j) = KeyOf(i)
        PROVE  message[k].exec # None
    BY <2>1 DEF Inv, SubmissionInv, Answered
  <2> QED  BY <1>1, <1>2, <1>3, <2>1 DEF Inv, TypeOK, RetryInv, SubmissionInv, StatusOf, KeyOf, Answered
<1>8. AnsweredFirst'
  BY <1>1, <1>3 DEF Inv, TypeOK, AnsweredFirst
<1> QED  BY <1>4, <1>5, <1>6, <1>7, <1>8 DEF Inv

LEMMA CreateExecutionKeeps ==
  ASSUME Inv, NEW i \in Submissions, CreateExecution(i)
  PROVE  Inv'
<1> USE SubmissionAssumption DEF SubmissionAssumption
<1> DEFINE seq == message[KeyOf(i)].seq
<1>1. /\ submission[i].pc = "create" /\ StatusOf(i) = "absent" /\ seq # 0 /\ seq \in Nat
      /\ KeyOf(i) \in Keys /\ i \in Executions /\ i \notin Jobs
      /\ UNCHANGED <<message, passes, worker, turns, adrift, sent, crashes>>
  BY DEF CreateExecution, Inv, TypeOK, SubmissionInv, Executions
<1>2. /\ execution' = [execution EXCEPT ![i] = [status |-> "created", seq |-> seq]]
      /\ submission' = [submission EXCEPT ![i].pc = "attach"]
  BY DEF CreateExecution, Goto, KeyOf
<1>3. Answered' = Answered /\ i \notin Answered
  BY <1>1, <1>2 DEF Answered, Inv, TypeOK
<1>4. TypeOK'
  BY <1>1, <1>2 DEF Inv, TypeOK, Status
<1>5. SubmissionInv'
  BY <1>1, <1>2, <1>3 DEF Inv, TypeOK, SubmissionInv, StatusOf, KeyOf, Executions
<1>6. \A w \in Workers : worker[w].exec # i
  BY <1>1 DEF Inv, WorkerInv
<1>7. WorkerInv'
  BY <1>1, <1>2, <1>6 DEF Inv, TypeOK, WorkerInv, StatusOf
<1>8. TurnInv'
  BY <1>1, <1>2, <1>6, DrainWorks DEF Inv, TypeOK, TurnInv, OneTurn, StatusOf
<1>9. DrivenInv'
  BY <1>1, <1>2, <1>6 DEF Inv, TypeOK, DrivenInv, Drives, StatusOf
<1>10. RetryInv'
  BY <1>1, <1>2, <1>3 DEF Inv, TypeOK, SubmissionInv, RetryInv, StatusOf, KeyOf, Executions
<1>11. AnsweredFirst'
  <2>1. \A j \in Submissions : i \notin submission[j].before
    BY <1>3 DEF Inv, SubmissionInv
  <2> QED  BY <1>1, <1>2, <1>6, <2>1, DrainWorks DEF Inv, TypeOK, SubmissionInv, Answered,
                                                     AnsweredFirst, Executions
<1> QED  BY <1>4, <1>5, <1>7, <1>8, <1>9, <1>10, <1>11 DEF Inv

LEMMA AttachKeeps ==
  ASSUME Inv, NEW i \in Submissions, Attach(i)
  PROVE  Inv'
<1> USE SubmissionAssumption DEF SubmissionAssumption
<1>1. /\ submission[i].pc = "attach" /\ KeyOf(i) \in Keys
      /\ UNCHANGED <<execution, passes, worker, turns, adrift, sent, crashes>>
  BY DEF Attach, Inv, SubmissionInv
<1>2. /\ message' = [message EXCEPT ![KeyOf(i)].exec = i]
      /\ submission' = [submission EXCEPT ![i].pc = "wake"]
  BY DEF Attach, AttachExecution, Goto, KeyOf
<1>3. Answered' = Answered /\ i # None
  BY <1>1, <1>2 DEF Answered, Inv, TypeOK, Executions
<1>4. TypeOK'
  <2>1. message' \in [Keys -> [seq : Nat, exec : Submissions \cup {None}]]
    BY <1>1, <1>2 DEF Inv, TypeOK
  <2>2. submission' \in [Submissions ->
         [pc : {"idle", "message", "create", "attach", "wake", "answered", "lost"},
          key : Keys \cup {None}, before : SUBSET Submissions]]
    BY <1>1, <1>2 DEF Inv, TypeOK
  <2> QED  BY <1>1, <2>1, <2>2 DEF Inv, TypeOK
<1>5. SubmissionInv'
  BY <1>1, <1>2, <1>3 DEF Inv, TypeOK, SubmissionInv, StatusOf, KeyOf
<1>6. (WorkerInv /\ TurnInv /\ DrivenInv)'
  BY <1>1 DEF Inv, WorkerInv, TurnInv, OneTurn, DrivenInv, Drives, StatusOf
<1>7. RetryInv' /\ AnsweredFirst'
  BY <1>1, <1>2, <1>3 DEF Inv, TypeOK, SubmissionInv, RetryInv, AnsweredFirst, StatusOf, KeyOf, Answered
<1> QED  BY <1>4, <1>5, <1>6, <1>7 DEF Inv

LEMMA AnswerKeeps ==
  ASSUME Inv, NEW i \in Submissions, Answer(i)
  PROVE  Inv'
<1>1. /\ submission[i].pc = "wake" /\ passes' = passes + 1
      /\ submission' = [submission EXCEPT ![i].pc = "answered"]
      /\ UNCHANGED <<message, execution, worker, turns, adrift, sent, crashes>>
  BY DEF Answer, Wake, Goto
<1>2. Answered \subseteq Answered'
  BY <1>1 DEF Answered, Inv, TypeOK
<1>3. TypeOK'
  <2>1. passes' \in Nat
    BY <1>1 DEF Inv, TypeOK
  <2> QED  BY <1>1, <2>1 DEF Inv, TypeOK
<1>4. SubmissionInv'
  BY <1>1, <1>2 DEF Inv, TypeOK, SubmissionInv, StatusOf, KeyOf
<1>5. (WorkerInv /\ TurnInv /\ DrivenInv)'
  BY <1>1 DEF Inv, WorkerInv, TurnInv, OneTurn, DrivenInv, Drives, StatusOf
<1>6. RetryInv' /\ AnsweredFirst'
  BY <1>1 DEF Inv, TypeOK, SubmissionInv, RetryInv, AnsweredFirst, StatusOf, KeyOf, Answered
<1> QED  BY <1>3, <1>4, <1>5, <1>6 DEF Inv

-------------------------------------------------------------------------------
(* The steps of the workers.                                                 *)

(* Taking a pass off the chain or putting one back, a step of the drain pass *)
(* between two executions.                                                   *)
LEMMA PassKeeps ==
  ASSUME Inv, BeginPass \/ Query \/ EndPass
  PROVE  Inv'
<1> USE SubmissionAssumption, DrainWorks DEF SubmissionAssumption
<1>1. PICK s \in WorkerStates :
        /\ Become("drain", s)
        /\ s.call \in {"query", "leave", "idle", "start"}
        /\ s.call = "start" => s.exec \in NextQueued
        /\ s.call # "start" => s.exec = None
        /\ worker["drain"].call \in {"idle", "query", "leave"}
        /\ passes' \in Nat
        /\ UNCHANGED <<message, execution, submission, turns, adrift, sent, crashes>>
  <2>1. /\ NextQuery(None) \in WorkerStates /\ Idle \in WorkerStates
        /\ [Idle EXCEPT !.call = "leave"] \in WorkerStates
        /\ \A e \in Executions : Doing("start", e) \in WorkerStates
    BY DEF NextQuery, Idle, WorkerStates, Calls, Doing, Target
  <2>2. NextQueued \subseteq Executions
    BY DEF NextQueued, Queued
  <2>3. CASE BeginPass
    <3>1. passes' \in Nat
      BY <2>3 DEF BeginPass, Inv, TypeOK
    <3> QED  BY <2>1, <2>3, <3>1 DEF BeginPass, NextQuery, Idle
  <2>4. CASE Query
    BY <2>1, <2>2, <2>4 DEF Query, Doing, Idle, Inv, TypeOK
  <2>5. CASE EndPass
    BY <2>1, <2>5 DEF EndPass, Idle, Inv, TypeOK
  <2> QED  BY <2>3, <2>4, <2>5
<1>2. worker' = [worker EXCEPT !["drain"] = s]
  BY <1>1 DEF Become
<1>3. TypeOK'
  BY <1>1, <1>2 DEF Inv, TypeOK
<1>4. (SubmissionInv /\ RetryInv)'
  BY <1>1 DEF Inv, SubmissionInv, RetryInv, StatusOf, KeyOf, Answered
<1>5. s.call = "start" =>
        /\ s.exec \in Executions /\ StatusOf(s.exec) = "created"
        /\ \A f \in Executions : StatusOf(f) = "created" /\ execution[f].seq # 0
                               => execution[s.exec].seq <= execution[f].seq
  BY <1>1 DEF NextQueued, Queued, StatusOf
<1>6. (WorkerInv /\ TurnInv)'
  <2>1. s.call \notin Started /\ ReadBack(s) /\ (s.call \in Working => s.call = "start")
        /\ None \notin Executions
    BY <1>1 DEF Started, Updates, ReadBack, Working, Target
  <2>2. WorkerInv'
    BY <1>1, <1>2, <1>5, <2>1 DEF Inv, TypeOK, WorkerInv, ReadBack, StatusOf
  <2> QED  BY <1>1, <1>2, <1>5, <2>2 DEF Inv, TypeOK, TurnInv, OneTurn, StatusOf
<1>7. DrivenInv'
  BY <1>1, <1>2 DEF Inv, TypeOK, DrivenInv, Drives, StatusOf
<1>8. AnsweredFirst'
  <2>1. CASE s.call # "start"
    BY <1>1, <1>2, <2>1 DEF Inv, TypeOK, AnsweredFirst, Executions
  <2>2. CASE s.call = "start"
    <3>1. ASSUME s.exec \in Submissions, NEW i \in submission[s.exec].before,
                 execution[i].seq < execution[s.exec].seq
          PROVE  execution[i].status # "created"
      <4>1. i \in Submissions /\ i \in Executions
        BY <3>1 DEF Inv, SubmissionInv, Answered, Executions
      <4>2. execution[i].seq \in Nat /\ execution[s.exec].seq \in Nat
        BY <1>5, <2>2, <4>1 DEF Inv, TypeOK
      <4>3. execution[i].status = "created" => execution[i].seq # 0
        BY <4>1 DEF Inv, SubmissionInv, StatusOf
      <4> QED  BY <1>5, <2>2, <3>1, <4>1, <4>2, <4>3 DEF StatusOf
    <3> QED  BY <1>1, <1>2, <3>1 DEF Inv, TypeOK, AnsweredFirst
  <2> QED  BY <2>1, <2>2
<1> QED  BY <1>3, <1>4, <1>6, <1>7, <1>8 DEF Inv

(* What a call is followed by goes on with the same execution, or the worker *)
(* becomes idle.                                                             *)
GoesOn(w, s, t) ==
  /\ t \in WorkerStates
  /\ t.exec \in {s.exec, None}
  /\ t.call # "start"
  /\ t.call = "query" => w = "drain"
  /\ t.call # "leave"
  /\ t.call \in Working => t.exec = s.exec
  /\ t.call \in Updates => t.step = "check"

LEMMA CallsGoOn ==
  ASSUME NEW w \in Workers, NEW s \in WorkerStates, s.exec \in Executions, s.call \in Working
  PROVE  /\ GoesOn(w, s, Returned(w, s)) /\ GoesOn(w, s, Thrown(w, s)) /\ GoesOn(w, s, Idle)
         /\ \A call \in {"complete", "fail", "propose", "resume", "finish"} :
              GoesOn(w, s, Doing(call, s.exec))
         /\ Thrown(w, s).call \notin Started
<1> USE DEF Working
<1>1. \A call \in {"turn", "failQueued", "rerun", "finish", "complete", "fail", "intent", "verdict",
                   "propose", "resume"} :
        Doing(call, s.exec) \in WorkerStates /\ Doing(call, s.exec).call = call
        /\ Doing(call, s.exec).exec = s.exec
        /\ (call \in Updates => Doing(call, s.exec).step = "check")
  BY DEF Doing, WorkerStates, Calls, Target, Updates
<1>2. Idle \in WorkerStates /\ Idle.call = "idle" /\ Idle.exec = None
  BY DEF Idle, WorkerStates, Calls
<1>3. NextQuery(s.exec) = [Idle EXCEPT !.call = "query"] /\ NextQuery(s.exec) \in WorkerStates
      /\ NextQuery(s.exec).call = "query" /\ NextQuery(s.exec).exec = None
  BY DEF NextQuery, Idle, WorkerStates, Calls
<1> HIDE DEF Idle, NextQuery, Doing
<1>4. \A call \in {"turn", "failQueued", "rerun", "finish", "complete", "fail", "intent", "verdict",
                   "propose", "resume"} :
        GoesOn(w, s, Doing(call, s.exec))
  BY <1>1 DEF GoesOn
<1>5. GoesOn(w, s, Idle)
  BY <1>2 DEF GoesOn, Target, Updates
<1>6. w = "drain" => GoesOn(w, s, NextQuery(s.exec))
  BY <1>3 DEF GoesOn, Target, Updates
<1>7. GoesOn(w, s, Returned(w, s))
  BY <1>4, <1>5, <1>6 DEF Returned
<1>8. GoesOn(w, s, Thrown(w, s))
  BY <1>4, <1>5, <1>7 DEF Thrown
<1>9. Thrown(w, s).call \notin Started
  <2>1. Returned(w, s).call \in {"idle", "query"} \/ s.call # "failQueued"
    BY <1>2, <1>3 DEF Returned
  <2> QED  BY <1>1, <1>2, <2>1 DEF Thrown, Started, Updates
<1> QED  BY <1>4, <1>5, <1>7, <1>8, <1>9

(* A call that only reads: whoever drives an execution goes on driving it.   *)
LEMMA ReadKeeps ==
  ASSUME Inv, NEW w \in Workers, worker[w].call \in Working,
         NEW t \in WorkerStates, Become(w, t),
         GoesOn(w, worker[w], t) \/ (t.call = worker[w].call /\ t.exec = worker[w].exec),
         t.call \in Started => StatusOf(worker[w].exec) # "created", ReadBack(t),
         StatusOf(worker[w].exec) = "running" /\ worker[w].call \in {"turn", "complete", "fail", "finish"}
           => t.call \in {"turn", "complete", "fail", "finish"},
         StatusOf(worker[w].exec) = "resuming" /\ worker[w].call = "rerun" => t.call = "rerun",
         UNCHANGED <<message, execution, submission, passes, turns, adrift, sent, crashes>>
  PROVE  Inv'
<1> USE SubmissionAssumption, DrainWorks DEF SubmissionAssumption
<1> DEFINE s == worker[w]
<1>1. worker' = [worker EXCEPT ![w] = t] /\ worker \in [Workers -> WorkerStates]
  BY DEF Become, Inv, TypeOK
<1>2. /\ s.exec \in Executions /\ t.exec \in {s.exec, None}
      /\ t.call = "start" => s.call = "start" /\ t.exec = s.exec
      /\ t.call \in {"query", "leave"} => w = "drain"
      /\ t.call \in Working => t.exec = s.exec
  BY DEF GoesOn, Inv, WorkerInv, Target, Working
<1>3. TypeOK'
  BY <1>1 DEF Inv, TypeOK
<1>4. (SubmissionInv /\ RetryInv)'
  BY DEF Inv, SubmissionInv, RetryInv, StatusOf, KeyOf, Answered
<1>5. WorkerInv'
  BY <1>1, <1>2 DEF Inv, WorkerInv, StatusOf, Executions, Working, Started
<1>6. TurnInv'
  BY <1>1, <1>2 DEF Inv, TurnInv, OneTurn, StatusOf
<1>7. DrivenInv'
  <2> SUFFICES ASSUME NEW e \in Executions \ adrift
               PROVE  /\ StatusOf(e) = "running" => \E v \in Workers :
                           Drives(v, e, {"turn", "complete", "fail", "finish"})'
                      /\ StatusOf(e) = "resuming" => \E v \in Workers : Drives(v, e, {"rerun"})'
    BY DEF DrivenInv, StatusOf
  <2>1. ASSUME NEW calls, NEW v \in Workers, Drives(v, e, calls),
               v = w => t.call \in calls /\ t.exec = e
        PROVE  Drives(v, e, calls)'
    BY <1>1, <2>1 DEF Drives
  <2>2. ASSUME StatusOf(e) = "running"
        PROVE  \E v \in Workers : Drives(v, e, {"turn", "complete", "fail", "finish"})'
    <3>1. PICK v \in Workers : Drives(v, e, {"turn", "complete", "fail", "finish"})
      BY <2>2 DEF Inv, DrivenInv
    <3>2. v = w => t.call \in {"turn", "complete", "fail", "finish"} /\ t.exec = e
      BY <1>2, <2>2, <3>1 DEF Drives, Target, Working
    <3> QED  BY <2>1, <3>1, <3>2
  <2>3. ASSUME StatusOf(e) = "resuming"
        PROVE  \E v \in Workers : Drives(v, e, {"rerun"})'
    <3>1. PICK v \in Workers : Drives(v, e, {"rerun"})
      BY <2>3 DEF Inv, DrivenInv
    <3>2. v = w => t.call \in {"rerun"} /\ t.exec = e
      BY <1>2, <2>3, <3>1 DEF Drives, Target, Working
    <3> QED  BY <2>1, <3>1, <3>2
  <2> QED  BY <2>2, <2>3
<1>8. AnsweredFirst'
  BY <1>1, <1>2 DEF Inv, AnsweredFirst, Executions
<1> QED  BY <1>3, <1>4, <1>5, <1>6, <1>7, <1>8 DEF Inv

LEMMA WorkingType ==
  ASSUME Inv, NEW w \in Workers, worker[w].call \in Working
  PROVE  /\ worker[w] \in WorkerStates /\ worker[w].exec \in Executions
         /\ StatusOf(worker[w].exec) \in Status
         /\ \A step \in {"check", "write"} : [worker[w] EXCEPT !.step = step] \in WorkerStates
BY DEF Inv, TypeOK, WorkerInv, StatusOf, WorkerStates

LEMMA TurnEndsKeeps ==
  ASSUME Inv, NEW w \in Workers, TurnEnds(w)
  PROVE  Inv'
<1>1. PICK call \in {"complete", "fail"} : Become(w, Doing(call, worker[w].exec))
  BY DEF TurnEnds
<1>2. worker[w].call = "turn"
  BY DEF TurnEnds
<1>3. GoesOn(w, worker[w], Doing(call, worker[w].exec))
  BY <1>2, CallsGoOn, WorkingType DEF Working
<1>4. Doing(call, worker[w].exec).call = call
  BY DEF Doing
<1> QED  BY <1>1, <1>2, <1>3, <1>4, ReadKeeps DEF TurnEnds, GoesOn, Working, Started, ReadBack, Updates

LEMMA GuardKeeps ==
  ASSUME Inv, NEW w \in Workers, Guard(w)
  PROVE  Inv'
<1> DEFINE s == worker[w]
<1>1. s.call \in DOMAIN Target /\ s.call \in Working /\ s \in WorkerStates /\ s.exec \in Executions
  BY WorkingType DEF Guard, In, Working
<1>2. CASE StatusSeen(w) \in Terminal \/ (Target[s.call] = "completed" /\ StatusSeen(w) \in Waiting)
  <2>1. Become(w, Returned(w, s)) /\ StatusOf(s.exec) \notin {"running", "resuming", "created"}
    BY <1>2 DEF Guard, StatusSeen, StatusOf, Terminal, Waiting
  <2>2. GoesOn(w, s, Returned(w, s))
    BY <1>1, CallsGoOn
  <2> QED  BY <1>1, <2>1, <2>2, ReadKeeps DEF Guard, GoesOn, ReadBack
<1>3. CASE ~(StatusSeen(w) \in Terminal \/ (Target[s.call] = "completed" /\ StatusSeen(w) \in Waiting))
  <2> DEFINE t == [s EXCEPT !.step = "check"]
  <2>1. Become(w, t)
    BY <1>3 DEF Guard
  <2>2. t.call = s.call /\ t.exec = s.exec /\ t \in WorkerStates
    BY <1>1 DEF WorkerStates
  <2>3. s.call \notin Started
    BY <1>1 DEF Target, Started, Updates
  <2> QED  BY <1>1, <2>1, <2>2, <2>3, ReadKeeps DEF Guard, ReadBack, Started
<1> QED  BY <1>2, <1>3

LEMMA CheckKeeps ==
  ASSUME Inv, NEW w \in Workers, Check(w)
  PROVE  Inv'
<1> DEFINE s == worker[w]
<1>1. s.call \in DOMAIN Target /\ s.call \in Working /\ s \in WorkerStates /\ s.exec \in Executions
  BY WorkingType DEF Check, In, Working
<1>2. CASE Legal(StatusSeen(w), Target[s.call])
  <2> DEFINE t == [s EXCEPT !.step = "write"]
  <2>1. Become(w, t)
    BY <1>2 DEF Check
  <2>2. t.call = s.call /\ t.exec = s.exec /\ t \in WorkerStates
    BY <1>1 DEF WorkerStates
  <2>3. s.call \notin Started
    BY <1>1 DEF Target, Started, Updates
  <2> QED  BY <1>1, <2>1, <2>2, <2>3, ReadKeeps DEF Check, ReadBack, Started
<1>3. CASE ~Legal(StatusSeen(w), Target[s.call])
  <2>1. Become(w, Thrown(w, s))
    BY <1>3 DEF Check
  <2>2. GoesOn(w, s, Thrown(w, s)) /\ Thrown(w, s).call \notin Started
    BY <1>1, CallsGoOn
  <2>3. StatusOf(s.exec) = "running" => s.call \notin {"fail", "finish", "complete"}
    BY <1>3 DEF Legal, AllowedTransitions, Target, StatusSeen, StatusOf, Status
  <2>4. StatusOf(s.exec) = "resuming" => s.call # "rerun"
    BY <1>3 DEF Legal, AllowedTransitions, Target, StatusSeen, StatusOf, Status
  <2> QED  BY <1>1, <2>1, <2>2, <2>3, <2>4, ReadKeeps DEF Check, GoesOn, Target, ReadBack, Started
<1> QED  BY <1>2, <1>3

LEMMA LoadKeeps ==
  ASSUME Inv, NEW w \in Workers, Load(w)
  PROVE  Inv'
<1> DEFINE s == worker[w]
           t == [s EXCEPT !.step = "write", !.seen = StatusSeen(w)]
<1>1. s.call \in Updates /\ s.call \in Started /\ s.call \in Working /\ Become(w, t)
  BY DEF Load, Started, Working
<1>2. /\ s \in WorkerStates /\ s.exec \in Executions
      /\ StatusSeen(w) \in Status \ {"created"} /\ StatusSeen(w) = StatusOf(s.exec)
  BY <1>1, WorkingType DEF Inv, WorkerInv, StatusSeen, StatusOf
<1>3. t.call = s.call /\ t.exec = s.exec /\ t \in WorkerStates /\ t.seen = StatusSeen(w)
  BY <1>2 DEF WorkerStates
<1>4. s.call \notin {"turn", "complete", "fail", "finish", "rerun"}
  BY <1>1 DEF Updates
<1> HIDE DEF t
<1> QED  BY <1>1, <1>2, <1>3, <1>4, ReadKeeps DEF Load, ReadBack

LEMMA VerdictKeeps ==
  ASSUME Inv, NEW w \in Workers, Verdict(w)
  PROVE  Inv'
<1> DEFINE s == worker[w]
<1>1. s.call = "verdict" /\ s.call \in Working /\ s \in WorkerStates /\ s.exec \in Executions
  BY WorkingType DEF Verdict, Working
<1>2. PICK t : /\ Become(w, t)
               /\ \/ t = Idle
                  \/ \E call \in {"propose", "resume", "finish"} : t = Doing(call, s.exec)
  BY DEF Verdict
<1>3. GoesOn(w, s, t)
  BY <1>1, <1>2, CallsGoOn
<1>4. t.call \in {"idle", "propose", "resume", "finish"}
  BY <1>2 DEF Idle, Doing
<1> QED  BY <1>1, <1>2, <1>3, <1>4, ReadKeeps DEF Verdict, GoesOn, ReadBack, Started, Updates

(* A status is written: by a call that goes on to drive the execution, or    *)
(* one that leaves it adrift, or over the same status.                       *)
LEMMA PutKeeps ==
  ASSUME Inv, NEW w \in Workers, worker[w].call \in Working,
         NEW t, GoesOn(w, worker[w], t),
         NEW to \in Status \ {"created"},
         NEW counted \in BOOLEAN, counted => w = "drain" /\ worker[w].call = "start",
         execution' = [execution EXCEPT ![worker[w].exec].status = to],
         worker' = [worker EXCEPT ![w] = t],
         turns' = IF counted THEN [turns EXCEPT ![worker[w].exec] = @ + 1] ELSE turns,
         adrift' \in {adrift, adrift \cup {worker[w].exec}, adrift \ {worker[w].exec}},
         to = "running" => \/ worker[w].exec \in adrift' \/ t.call \in {"turn", "finish"}
                           \/ adrift' = adrift /\ to = StatusOf(worker[w].exec)
                                /\ worker[w].call \notin {"turn", "complete", "fail", "finish"},
         to = "resuming" => \/ worker[w].exec \in adrift' \/ t.call = "rerun"
                            \/ adrift' = adrift /\ to = StatusOf(worker[w].exec)
                                 /\ worker[w].call # "rerun",
         t.call \in {"turn", "finish", "rerun"} => t.exec = worker[w].exec,
         UNCHANGED <<message, submission, passes, sent, crashes>>
  PROVE  Inv'
<1> USE SubmissionAssumption, DrainWorks DEF SubmissionAssumption
<1> DEFINE s == worker[w]
<1>1. /\ s \in WorkerStates /\ s.exec \in Executions /\ StatusOf(s.exec) # "absent"
      /\ to # "created" /\ to # "absent"
  BY WorkingType DEF Inv, WorkerInv, Status, Waiting, Terminal
<1>2. /\ t \in WorkerStates /\ t.exec \in {s.exec, None} /\ t.call # "start"
      /\ t.call \in {"query", "leave"} => w = "drain"
      /\ t.call \in Working => t.exec = s.exec
      /\ ReadBack(t)
  BY DEF GoesOn, ReadBack
<1>3. TypeOK'
  <2>1. turns' \in [Executions -> Nat] /\ adrift' \subseteq Executions
    BY <1>1 DEF Inv, TypeOK
  <2> QED  BY <1>1, <1>2, <2>1 DEF Inv, TypeOK
<1>4. (SubmissionInv /\ RetryInv)'
  BY <1>1 DEF Inv, TypeOK, SubmissionInv, RetryInv, StatusOf, KeyOf, Answered, Executions
<1>5. WorkerInv'
  <2>1. \A v \in Workers : worker'[v] = IF v = w THEN t ELSE worker[v]
    BY DEF Inv, TypeOK
  <2>2. \A e \in Executions : execution'[e].status = IF e = s.exec THEN to ELSE StatusOf(e)
    BY DEF Inv, TypeOK, StatusOf
  <2> SUFFICES ASSUME NEW v \in Workers
               PROVE  /\ worker'[v].call \in Working => worker'[v].exec \in Executions
                      /\ worker'[v].exec \in Executions => execution'[worker'[v].exec].status # "absent"
                      /\ worker'[v].call \in {"query", "leave"} => v = "drain"
                      /\ worker'[v].call \in Started => execution'[worker'[v].exec].status # "created"
                      /\ ReadBack(worker'[v])
    BY DEF WorkerInv, ReadBack, Working, Started, StatusOf
  <2>3. Started \subseteq Working /\ None \notin Executions
    BY DEF Started, Working
  <2>4. CASE v = w
    BY <1>1, <1>2, <2>1, <2>2, <2>3, <2>4
  <2>5. CASE v # w
    BY <1>1, <2>1, <2>2, <2>3, <2>5 DEF Inv, WorkerInv
  <2> QED  BY <2>4, <2>5
<1>6. TurnInv'
  <2>1. counted => turns[s.exec] = 0
    BY DEF Inv, TurnInv
  <2>2. \A e \in Executions : turns'[e] = IF counted /\ e = s.exec THEN 1 ELSE turns[e]
    BY <1>1, <2>1 DEF Inv, TypeOK
  <2>3. OneTurn'
    BY <2>2 DEF Inv, TurnInv, OneTurn
  <2>4. \A e \in Executions : StatusOf(e)' \in {"absent", "created"} =>
          e # s.exec /\ StatusOf(e) \in {"absent", "created"}
    BY <1>1 DEF Inv, TypeOK, StatusOf
  <2>5. worker'["drain"].call = "start" => w # "drain" /\ worker'["drain"] = worker["drain"]
    BY <1>2 DEF Inv, TypeOK
  <2>6. worker["drain"].call = "start" => worker["drain"].exec \in Executions
    BY DEF Inv, WorkerInv, Target, Working
  <2> QED  BY <2>2, <2>3, <2>4, <2>5, <2>6 DEF Inv, TurnInv
<1>7. DrivenInv'
  <2> SUFFICES ASSUME NEW e \in Executions, e \notin adrift'
               PROVE  /\ StatusOf(e)' = "running" => \E v \in Workers :
                           Drives(v, e, {"turn", "complete", "fail", "finish"})'
                      /\ StatusOf(e)' = "resuming" => \E v \in Workers : Drives(v, e, {"rerun"})'
    BY DEF DrivenInv
  <2>1. \A v \in Workers : v # w => worker'[v] = worker[v]
    BY DEF Inv, TypeOK
  <2>2. CASE e = s.exec
    <3>1. StatusOf(e)' = to /\ worker'[w] = t
      BY <1>1, <2>2 DEF Inv, TypeOK, StatusOf
    <3>2. ASSUME to = "running"
          PROVE  \E v \in Workers : Drives(v, e, {"turn", "complete", "fail", "finish"})'
      <4>1. CASE t.call \in {"turn", "finish"}
        BY <2>2, <3>1, <4>1 DEF Drives
      <4>2. CASE /\ e \notin adrift /\ StatusOf(e) = "running"
                 /\ s.call \notin {"turn", "complete", "fail", "finish"}
        <5>1. PICK v \in Workers : Drives(v, e, {"turn", "complete", "fail", "finish"})
          BY <4>2 DEF Inv, DrivenInv
        <5> QED  BY <2>1, <4>2, <5>1 DEF Drives
      <4> QED  BY <2>2, <3>2, <4>1, <4>2
    <3>3. ASSUME to = "resuming"
          PROVE  \E v \in Workers : Drives(v, e, {"rerun"})'
      <4>1. CASE t.call = "rerun"
        BY <2>2, <3>1, <4>1 DEF Drives
      <4>2. CASE e \notin adrift /\ StatusOf(e) = "resuming" /\ s.call # "rerun"
        <5>1. PICK v \in Workers : Drives(v, e, {"rerun"})
          BY <4>2 DEF Inv, DrivenInv
        <5> QED  BY <2>1, <4>2, <5>1 DEF Drives
      <4> QED  BY <2>2, <3>3, <4>1, <4>2
    <3> QED  BY <3>1, <3>2, <3>3
  <2>3. CASE e # s.exec
    <3>1. StatusOf(e)' = StatusOf(e) /\ e \notin adrift
      BY <2>3 DEF Inv, TypeOK, StatusOf
    <3>2. \A v \in Workers : worker[v].exec = e => worker'[v] = worker[v]
      BY <2>1, <2>3
    <3> QED  BY <3>1, <3>2 DEF Inv, DrivenInv, Drives
  <2> QED  BY <2>2, <2>3
<1>8. AnsweredFirst'
  <2>1. \A e \in Executions : /\ execution'[e].seq = execution[e].seq
                              /\ execution'[e].status = "created" => execution[e].status = "created"
    BY <1>1 DEF Inv, TypeOK
  <2>2. worker'["drain"].exec \in {worker["drain"].exec, None}
    BY <1>2 DEF Inv, TypeOK
  <2>3. \A i \in Submissions : submission[i].before \subseteq Submissions
    BY DEF Inv, SubmissionInv, Answered
  <2> QED  BY <2>1, <2>2, <2>3 DEF Inv, AnsweredFirst, Executions
<1> QED  BY <1>3, <1>4, <1>5, <1>6, <1>7, <1>8 DEF Inv

LEMMA WriteKeeps ==
  ASSUME Inv, NEW w \in Workers, Write(w)
  PROVE  Inv'
<1> DEFINE s == worker[w]
           t == Returned(w, s)
           to == Target[s.call]
           counted == w = "drain" /\ s.call = "start"
<1>1. s.call \in DOMAIN Target /\ s.call \in Working /\ s \in WorkerStates /\ s.exec \in Executions
  BY WorkingType DEF Write, In, Working
<1>2. GoesOn(w, s, t)
  BY <1>1, CallsGoOn
<1>3. to \in Status \ {"created"}
  BY <1>1 DEF Target, Status, Waiting, Terminal
<1>4. /\ execution' = [execution EXCEPT ![s.exec].status = to]
      /\ worker' = [worker EXCEPT ![w] = t]
      /\ turns' = IF counted THEN [turns EXCEPT ![s.exec] = @ + 1] ELSE turns
      /\ UNCHANGED <<message, submission, passes, sent, crashes>>
  BY DEF Write, Become
<1>5. adrift' = IF s.call # "begin" THEN adrift \ {s.exec}
                ELSE IF StatusOf(s.exec) # "running" THEN adrift \cup {s.exec} ELSE adrift
  BY DEF Write, StatusSeen, StatusOf
<1>6. /\ to = "running" => s.call = "begin" \/ t.call \in {"turn", "finish"}
      /\ to = "resuming" => t.call = "rerun"
      /\ s.call = "begin" => to = "running"
      /\ t.call \in {"turn", "finish", "rerun"} => t.exec = s.exec
  BY <1>1, <1>2 DEF Target, Returned, Doing, GoesOn, Working
<1> HIDE DEF t, to, counted
<1>7. counted \in BOOLEAN /\ (counted => w = "drain" /\ s.call = "start")
  BY DEF counted
<1> QED  BY <1>1, <1>2, <1>3, <1>4, <1>5, <1>6, <1>7, PutKeeps

LEMMA StoreKeeps ==
  ASSUME Inv, NEW w \in Workers, Store(w)
  PROVE  Inv'
<1> DEFINE s == worker[w]
           t == Returned(w, s)
           to == s.seen
<1>1. /\ s.call \in Updates /\ s.call \in Working /\ s \in WorkerStates /\ s.exec \in Executions
      /\ to \in Status \ {"created"}
  BY WorkingType DEF Store, Working, Inv, WorkerInv, ReadBack
<1>2. GoesOn(w, s, t)
  BY <1>1, CallsGoOn
<1>3. /\ execution' = [execution EXCEPT ![s.exec].status = to]
      /\ worker' = [worker EXCEPT ![w] = t]
      /\ turns' = IF FALSE THEN [turns EXCEPT ![s.exec] = @ + 1] ELSE turns
      /\ UNCHANGED <<message, submission, passes, sent, crashes>>
  BY DEF Store, Become
<1>4. adrift' = IF to \notin Active THEN adrift \ {s.exec}
                ELSE IF to # StatusOf(s.exec) THEN adrift \cup {s.exec} ELSE adrift
  BY DEF Store, StatusSeen, StatusOf
<1>5. /\ s.call \notin {"turn", "complete", "fail", "finish", "rerun"}
      /\ t.call \notin {"turn", "finish", "rerun"}
  BY <1>1 DEF Updates, Returned, Doing, Idle
<1>6. to \in {"running", "resuming"} => s.exec \in adrift' \/ (adrift' = adrift /\ to = StatusOf(s.exec))
  BY <1>4 DEF Active
<1> HIDE DEF t, to
<1> QED  BY <1>1, <1>2, <1>3, <1>4, <1>5, <1>6, PutKeeps

(* A request takes an idle worker.                                           *)
LEMMA RequestKeeps ==
  ASSUME Inv, NEW e \in Executions, NEW call \in DOMAIN Target \cup Updates, Request(call, e),
         StatusOf(e) # "absent", call \in Updates => StatusOf(e) # "created"
  PROVE  Inv'
<1> USE SubmissionAssumption, DrainWorks DEF SubmissionAssumption
<1>1. PICK r \in Requests : worker[r].call = "idle" /\ Become(r, Doing(call, e))
  BY DEF Request
<1> DEFINE t == Doing(call, e)
<1>2. /\ worker' = [worker EXCEPT ![r] = t] /\ sent' = sent + 1 /\ sent < MaxRequests
      /\ r \in Workers /\ r # "drain"
      /\ UNCHANGED <<message, execution, submission, passes, turns, adrift, crashes>>
  BY <1>1 DEF Request, Become
<1>3. t \in WorkerStates /\ t.exec = e /\ t.call = call /\ (call \in Updates => t.step = "check")
  BY DEF Doing, WorkerStates, Calls, Executions, Updates
<1> HIDE DEF t
<1>4. TypeOK'
  <2>1. sent' \in 0 .. MaxRequests
    BY <1>2, BoundsAssumption DEF Inv, TypeOK, BoundsAssumption
  <2> QED  BY <1>2, <1>3, <2>1 DEF Inv, TypeOK
<1>5. (SubmissionInv /\ RetryInv)'
  BY <1>2 DEF Inv, SubmissionInv, RetryInv, StatusOf, KeyOf, Answered
<1>6. (WorkerInv /\ TurnInv)'
  <2>1. call \notin {"query", "leave"} /\ (call \in Started => call \in Updates)
    BY DEF Target, Updates, Started
  <2>2. WorkerInv'
    BY <1>2, <1>3, <2>1 DEF Inv, TypeOK, WorkerInv, ReadBack, StatusOf
  <2> QED  BY <1>2, <1>3, <2>2 DEF Inv, TypeOK, TurnInv, OneTurn, StatusOf
<1>7. DrivenInv'
  <2>1. \A v \in Workers, f \in Executions, calls \in SUBSET (DOMAIN Target \cup {"turn"}) :
          Drives(v, f, calls) => Drives(v, f, calls)'
    BY <1>1, <1>2, ZenonT(60) DEF Drives, Target, Inv, TypeOK
  <2> QED  BY <1>2, <2>1 DEF Inv, DrivenInv, StatusOf, Target
<1>8. AnsweredFirst'
  BY <1>2 DEF Inv, TypeOK, AnsweredFirst
<1> QED  BY <1>4, <1>5, <1>6, <1>7, <1>8 DEF Inv

LEMMA RequestedKeeps ==
  ASSUME Inv, NEW e \in Executions, Requested(e)
  PROVE  Inv'
<1>1. StatusOf(e) # "absent"
  <2>1. CASE Report(e)
    BY <2>1 DEF Report, Inv, WorkerInv
  <2> QED  BY <2>1 DEF Requested, Run, Cancel, Propose, Decided, StatusOf, Waiting
<1>2. \E call \in DOMAIN Target \cup Updates :
        Request(call, e) /\ (call \in Updates => StatusOf(e) # "created")
  <2>1. CASE Report(e)
    BY <2>1 DEF Report, Inv, WorkerInv, Started, Updates
  <2> QED  BY <2>1 DEF Requested, Run, Cancel, Propose, Decided, Target, Updates, StatusOf
<1> QED  BY <1>1, <1>2, RequestKeeps

LEMMA CrashKeeps ==
  ASSUME Inv, CrashRestart
  PROVE  Inv'
<1> USE SubmissionAssumption, DrainWorks DEF SubmissionAssumption
<1>1. /\ \A w \in Workers : worker'[w] = Idle
      /\ worker' = [w \in Workers |-> Idle]
      /\ Idle \in WorkerStates /\ Idle.exec = None /\ Idle.call = "idle"
  BY DEF CrashRestart, Idle, WorkerStates, Calls
<1>2. \A e \in Executions :
        /\ execution'[e] = [execution[e] EXCEPT !.status = InterruptActive(@)]
        /\ execution'[e].seq = execution[e].seq
        /\ execution'[e].status = InterruptActive(execution[e].status)
        /\ execution'[e].status \notin Active
        /\ execution'[e].status \in {"absent", "created"} <=> execution[e].status \in {"absent", "created"}
        /\ execution'[e].status = "created" <=> execution[e].status = "created"
  BY DEF CrashRestart, InterruptActive, Active, Inv, TypeOK
<1>3. \A i \in Submissions :
        /\ submission'[i].key = submission[i].key /\ submission'[i].before = submission[i].before
        /\ submission'[i].pc = IF submission[i].pc \in {"idle", "answered"} THEN submission[i].pc ELSE "lost"
  BY DEF CrashRestart, Inv, TypeOK
<1>4. Answered' = Answered
  BY <1>3 DEF Answered
<1>5. UNCHANGED <<message, turns, sent>> /\ crashes' = crashes + 1 /\ crashes < MaxCrashes
      /\ passes' \in Nat /\ adrift' = {}
  BY DEF CrashRestart
<1>6. TypeOK'
  <2>1. execution' \in [Executions -> [status : Status \cup {"absent"}, seq : Nat]]
    BY <1>2 DEF CrashRestart, Inv, TypeOK, InterruptActive, Status, Terminal
  <2>2. submission' \in [Submissions ->
         [pc : {"idle", "message", "create", "attach", "wake", "answered", "lost"},
          key : Keys \cup {None}, before : SUBSET Submissions]]
    <3>1. \A i \in Submissions : submission[i] \in
           [pc : {"idle", "message", "create", "attach", "wake", "answered", "lost"},
            key : Keys \cup {None}, before : SUBSET Submissions]
      BY DEF Inv, TypeOK
    <3>2. submission' = [i \in Submissions |->
            IF submission[i].pc \in {"idle", "answered"} THEN submission[i]
            ELSE [submission[i] EXCEPT !.pc = "lost"]]
      BY DEF CrashRestart
    <3> QED  BY <3>1, <3>2
  <2>3. crashes' \in 0 .. MaxCrashes
    <3>1. crashes \in 0 .. MaxCrashes /\ MaxCrashes \in Nat
      BY BoundsAssumption DEF Inv, TypeOK, BoundsAssumption
    <3> QED  BY <1>5, <3>1
  <2>4. adrift' \subseteq Executions
    BY <1>5
  <2> QED  BY <1>1, <1>5, <2>1, <2>2, <2>3, <2>4 DEF Inv, TypeOK
<1>7. (SubmissionInv /\ RetryInv)'
  <2>1. \A i \in Submissions : execution'[i].status = "absent" <=> execution[i].status = "absent"
    BY <1>2 DEF Executions
  <2>2. \A i \in Submissions :
          submission'[i].pc \in {"idle", "message", "create", "attach", "wake", "answered"} =>
            submission'[i].pc = submission[i].pc
    BY <1>3
  <2>3. \A i \in Submissions : submission[i].before \subseteq Submissions
    BY DEF Inv, SubmissionInv, Answered
  <2>4. SubmissionInv'
    <3>1. /\ \A e \in Jobs : execution'[e].seq = 0
          /\ \A k \in Keys : message'[k].exec # None => message'[k].seq # 0
      BY <1>2, <1>5 DEF Inv, SubmissionInv, Executions
    <3>2. ASSUME NEW i \in Submissions
          PROVE  /\ KeyOf(i)' = KeyOf(i) /\ submission'[i].before = submission[i].before
                 /\ StatusOf(i)' = "absent" <=> StatusOf(i) = "absent"
                 /\ execution'[i].seq = execution[i].seq
      BY <1>2, <1>3, <2>1 DEF StatusOf, KeyOf, Executions
    <3>3. ASSUME NEW i \in Submissions
          PROVE  submission'[i].pc \in {"message", "create", "attach", "wake", "answered", "idle"} =>
                   submission'[i].pc = submission[i].pc
      BY <2>2
    <3>4. ASSUME NEW i \in Submissions
          PROVE  submission'[i].pc # "idle" => submission[i].pc # "idle"
      BY <1>3
    <3> QED  BY <1>4, <1>5, <3>1, <3>2, <3>3, <3>4 DEF Inv, SubmissionInv
  <2>5. RetryInv'
    BY <1>3, <2>1, <2>2, <2>3 DEF Inv, RetryInv, StatusOf, KeyOf
  <2> QED  BY <2>4, <2>5
<1>8. (WorkerInv /\ TurnInv)'
  BY <1>1, <1>2, <1>5 DEF Inv, WorkerInv, ReadBack, Working, Started, Updates, TurnInv, OneTurn,
                          StatusOf, Target, Executions
<1>9. (DrivenInv /\ AnsweredFirst)'
  BY <1>1, <1>2 DEF DrivenInv, AnsweredFirst, StatusOf, Active, Executions
<1> QED  BY <1>6, <1>7, <1>8, <1>9 DEF Inv

LEMMA NextKeeps ==
  ASSUME Inv, [Next]_vars
  PROVE  Inv'
<1>1. ASSUME UNCHANGED vars
      PROVE  Inv'
  BY <1>1 DEF vars, Inv, TypeOK, SubmissionInv, RetryInv, WorkerInv, TurnInv, OneTurn, DrivenInv,
              Drives, AnsweredFirst, StatusOf, KeyOf, Answered
<1>2. ASSUME NEW i \in Submissions, Receive(i) \/ Submit(i)
      PROVE  Inv'
  BY <1>2, ReceiveKeeps, StoreMessageKeeps, CreateExecutionKeeps, AttachKeeps, AnswerKeeps DEF Submit
<1>3. ASSUME NEW w \in Workers, Proceed(w)
      PROVE  Inv'
  BY <1>3, TurnEndsKeeps, GuardKeeps, CheckKeeps, WriteKeeps, LoadKeeps, StoreKeeps, VerdictKeeps
     DEF Proceed
<1> QED  BY <1>1, <1>2, <1>3, PassKeeps, RequestedKeeps, CrashKeeps DEF Next

LEMMA InvHolds == Spec => []Inv
<1>1. Inv /\ [Next]_vars => Inv'
  BY NextKeeps
<1> QED  BY InitHolds, <1>1, PTL DEF Spec

(* The state is of its types.                                                *)
THEOREM TypesHold == Spec => []TypeOK
BY InvHolds, PTL DEF Inv

(* The queue works in the order of the transcript: what was answered before  *)
(* a message was sent does not wait behind it (nextQueued).                  *)
THEOREM AnsweredFirstHolds == Spec => []AnsweredFirst
BY InvHolds, PTL DEF Inv

(* A retry of an answered message finds the execution of the first attempt   *)
(* (submitMessage).                                                          *)
THEOREM RetryReusesHolds == Spec => []RetryReuses
<1>1. Inv => RetryReuses
  BY DEF Inv, RetryInv, RetryReuses, KeyOf, StatusOf
<1> QED  BY InvHolds, <1>1, PTL

(* The queue gives an execution one turn, restarts included (interruptActive *)
(* leaves nothing in "created" that has run).                                *)
THEOREM OneTurnHolds == Spec => []OneTurn
<1>1. Inv => OneTurn
  BY DEF Inv, TurnInv
<1> QED  BY InvHolds, <1>1, PTL

(* Whatever the interleaving of the drain pass with POST /run, a cancel,     *)
(* proposals, reports and decided approvals: what is running is driven by a  *)
(* call that will settle it, or adrift since the last restart.               *)
THEOREM RunningIsDrivenHolds == Spec => []RunningIsDriven
<1>1. Inv => RunningIsDriven
  BY DEF Inv, DrivenInv, Drives, StatusOf, RunningIsDriven, Active, Settling
<1> QED  BY InvHolds, <1>1, PTL

-------------------------------------------------------------------------------
(* No wake-up is lost: as long as the process lives, there are no more       *)
(* executions in the queue than passes to come and submissions that will     *)
(* still ask for one, and the one the present pass is about to take.         *)

Pending == {i \in Submissions : submission[i].pc \in {"attach", "wake"}}

AboutToTake ==
  \/ worker["drain"].call = "query"
  \/ worker["drain"].call \in {"start", "failQueued"} /\ worker["drain"].exec \in Queued

WakeInv ==
  crashes = 0 =>
    Cardinality(Queued) <= passes + Cardinality(Pending) + (IF AboutToTake THEN 1 ELSE 0)

LEMMA CountsAreFinite ==
  ASSUME Inv
  PROVE  /\ Queued \subseteq Submissions /\ Pending \subseteq Submissions
         /\ IsFiniteSet(Queued) /\ IsFiniteSet(Pending)
         /\ Cardinality(Queued) \in Nat /\ Cardinality(Pending) \in Nat /\ passes \in Nat
<1>1. Queued \subseteq Submissions /\ Pending \subseteq Submissions
  BY DEF Inv, SubmissionInv, Queued, Pending, Executions
<1>2. IsFiniteSet(Queued) /\ IsFiniteSet(Pending)
  BY <1>1, FS_Subset, SubmissionAssumption DEF SubmissionAssumption
<1> QED  BY <1>1, <1>2, FS_CardinalityType DEF Inv, TypeOK

(* The steps that put nothing into the queue and end no submission.          *)
LEMMA QuietWake ==
  ASSUME Inv, WakeInv, UNCHANGED <<passes, crashes>>, Pending' = Pending, Queued' \subseteq Queued,
         \/ AboutToTake' \/ ~AboutToTake
         \/ Queued = {} \/ \E e \in Queued : e \notin Queued'
  PROVE  WakeInv'
<1>1. IsFiniteSet(Queued') /\ Cardinality(Queued') <= Cardinality(Queued)
      /\ Cardinality(Queued') \in Nat
  BY CountsAreFinite, FS_Subset, FS_CardinalityType
<1>2. CASE AboutToTake' \/ ~AboutToTake
  BY <1>1, <1>2, CountsAreFinite DEF WakeInv
<1>3. CASE Queued = {}
  <2>1. Cardinality(Queued') = 0
    BY <1>3, FS_EmptySet
  <2> QED  BY <2>1, CountsAreFinite DEF WakeInv
<1>4. CASE \E e \in Queued : e \notin Queued'
  <2>1. PICK e \in Queued : e \notin Queued'
    BY <1>4
  <2>2. Queued' \subseteq Queued \ {e}
    BY <2>1
  <2>3. /\ IsFiniteSet(Queued \ {e}) /\ Cardinality(Queued \ {e}) = Cardinality(Queued) - 1
        /\ Cardinality(Queued \ {e}) \in Nat
    BY <2>1, CountsAreFinite, FS_RemoveElement, FS_CardinalityType
  <2>4. Cardinality(Queued') <= Cardinality(Queued \ {e})
    BY <2>2, <2>3, FS_Subset
  <2> QED  BY <1>1, <2>3, <2>4, CountsAreFinite DEF WakeInv
<1> QED  BY <1>2, <1>3, <1>4

LEMMA SubmitWakes ==
  ASSUME Inv, WakeInv, NEW i \in Submissions, Receive(i) \/ Submit(i)
  PROVE  WakeInv'
<1>1. CASE Receive(i) \/ StoreMessage(i)
  <2>1. UNCHANGED <<passes, crashes, execution, worker>> /\ Pending' = Pending
    <3>1. UNCHANGED <<passes, crashes, execution, worker>>
      BY <1>1 DEF Receive, StoreMessage
    <3>2. /\ submission[i].pc \in {"idle", "message"}
          /\ \A j \in Submissions : j # i => submission'[j] = submission[j]
          /\ submission'[i].pc \in {"message", "create", "answered"}
      BY <1>1 DEF Receive, StoreMessage, Goto, Inv, TypeOK
    <3> QED  BY <3>1, <3>2 DEF Pending
  <2>2. Queued' = Queued /\ (AboutToTake' <=> AboutToTake)
    BY <2>1 DEF Queued, AboutToTake
  <2> QED  BY <2>1, <2>2, QuietWake
<1>2. CASE CreateExecution(i)
  <2>1. UNCHANGED <<passes, crashes, worker>> /\ i \in Submissions \ Pending
        /\ Pending' = Pending \cup {i}
    BY <1>2 DEF CreateExecution, Goto, Pending, Inv, TypeOK
  <2>2. Queued' \subseteq Queued \cup {i} /\ Queued \subseteq Queued'
    BY <1>2 DEF CreateExecution, Queued, Inv, TypeOK, SubmissionInv, StatusOf, Executions
  <2>3. AboutToTake => AboutToTake'
    BY <2>1, <2>2 DEF AboutToTake
  <2>4. Cardinality(Pending') = Cardinality(Pending) + 1
    BY <2>1, CountsAreFinite, FS_AddElement
  <2>5. /\ IsFiniteSet(Queued \cup {i}) /\ Cardinality(Queued \cup {i}) <= Cardinality(Queued) + 1
        /\ Cardinality(Queued \cup {i}) \in Nat
    <3>1. /\ IsFiniteSet(Queued \cup {i})
          /\ Cardinality(Queued \cup {i})
               = IF i \in Queued THEN Cardinality(Queued) ELSE Cardinality(Queued) + 1
      BY CountsAreFinite, FS_AddElement
    <3> QED  BY <3>1, CountsAreFinite
  <2>6. Cardinality(Queued') <= Cardinality(Queued \cup {i}) /\ Cardinality(Queued') \in Nat
    BY <2>2, <2>5, FS_Subset, FS_CardinalityType
  <2> QED  BY <2>1, <2>3, <2>4, <2>5, <2>6, CountsAreFinite DEF WakeInv
<1>3. CASE Attach(i)
  <2>1. UNCHANGED <<passes, crashes, execution, worker>> /\ Pending' = Pending
    BY <1>3 DEF Attach, Goto, Pending, Inv, TypeOK
  <2>2. Queued' = Queued /\ (AboutToTake' <=> AboutToTake)
    BY <2>1 DEF Queued, AboutToTake
  <2> QED  BY <2>1, <2>2, QuietWake
<1>4. CASE Answer(i)
  <2>1. UNCHANGED <<crashes, execution, worker>> /\ passes' = passes + 1 /\ i \in Pending
        /\ Pending' = Pending \ {i}
    BY <1>4 DEF Answer, Goto, Wake, Pending, Inv, TypeOK
  <2>2. Queued' = Queued /\ (AboutToTake' <=> AboutToTake)
    BY <2>1 DEF Queued, AboutToTake
  <2>3. Cardinality(Pending') = Cardinality(Pending) - 1
    BY <2>1, CountsAreFinite, FS_RemoveElement
  <2> QED  BY <2>1, <2>2, <2>3, CountsAreFinite DEF WakeInv
<1> QED  BY <1>1, <1>2, <1>3, <1>4 DEF Submit

LEMMA PassWakes ==
  ASSUME Inv, WakeInv, BeginPass \/ Query \/ EndPass
  PROVE  WakeInv'
<1>0. UNCHANGED <<crashes, execution, submission>> /\ Queued' = Queued /\ Pending' = Pending
      /\ worker \in [Workers -> WorkerStates]
  BY DEF BeginPass, Query, EndPass, Queued, Pending, Inv, TypeOK
<1>1. CASE BeginPass
  <2>1. passes' = passes - 1 /\ passes > 0 /\ worker["drain"].call = "idle"
        /\ worker' = [worker EXCEPT !["drain"] = NextQuery(None)]
    BY <1>1 DEF BeginPass, Become
  <2>2. worker'["drain"].call = "query"
    BY <1>0, <2>1, DrainWorks DEF NextQuery, Idle
  <2>3. AboutToTake' /\ ~AboutToTake
    BY <2>1, <2>2 DEF AboutToTake
  <2> QED  BY <1>0, <2>1, <2>3, CountsAreFinite DEF WakeInv
<1>2. CASE Query
  <2>1. ASSUME NEW e \in NextQueued, Become("drain", Doing("start", e))
        PROVE  AboutToTake'
    <3>1. worker'["drain"].call = "start" /\ worker'["drain"].exec = e
      BY <1>0, <2>1, DrainWorks DEF Become, Doing
    <3> QED  BY <1>0, <2>1, <3>1 DEF AboutToTake, NextQueued
  <2> QED  BY <1>0, <1>2, <2>1, QuietWake DEF Query
<1>3. CASE EndPass
  <2>1. ~AboutToTake
    BY <1>3 DEF EndPass, AboutToTake
  <2> QED  BY <1>0, <1>3, <2>1, QuietWake DEF EndPass
<1> QED  BY <1>1, <1>2, <1>3

(* A call that only reads.                                                   *)
LEMMA ReadWakes ==
  ASSUME Inv, WakeInv, NEW w \in Workers,
         TurnEnds(w) \/ Guard(w) \/ Check(w) \/ Load(w) \/ Verdict(w)
  PROVE  WakeInv'
<1> DEFINE s == worker[w]
<1>0. UNCHANGED <<passes, crashes, execution, submission>> /\ Queued' = Queued /\ Pending' = Pending
      /\ worker \in [Workers -> WorkerStates]
  BY DEF TurnEnds, Guard, Check, Load, Verdict, Queued, Pending, Inv, TypeOK
<1>1. PICK t : worker' = [worker EXCEPT ![w] = t]
               /\ (s.exec \in Queued /\ s.call \in {"start", "failQueued"} =>
                     t.exec = s.exec /\ t.call \in {"start", "failQueued"})
               /\ s.call # "query"
  <2>1. CASE TurnEnds(w)
    BY <2>1 DEF TurnEnds, Become
  <2>2. ASSUME s.exec \in Queued
        PROVE  StatusSeen(w) = "created"
    BY <2>2 DEF Queued, StatusSeen
  <2>3. CASE Guard(w)
    <3>1. s.call # "query"
      BY <2>3 DEF Guard, In, Target
    <3>2. CASE s.exec \in Queued
      <4>1. Become(w, [s EXCEPT !.step = "check"])
        BY <2>2, <2>3, <3>2 DEF Guard, Terminal, Waiting
      <4> QED  BY <1>0, <3>1, <4>1 DEF Become, WorkerStates
    <3> QED  BY <2>3, <3>1, <3>2 DEF Guard, Become
  <2>4. CASE Check(w)
    <3>1. s.call # "query"
      BY <2>4 DEF Check, In, Target
    <3>2. CASE s.exec \in Queued /\ s.call \in {"start", "failQueued"}
      <4>1. Become(w, [s EXCEPT !.step = "write"])
        BY <2>2, <2>4, <3>2 DEF Check, Legal, AllowedTransitions, Target, Status
      <4> QED  BY <1>0, <3>1, <4>1 DEF Become, WorkerStates
    <3> QED  BY <2>4, <3>1, <3>2 DEF Check, Become
  <2>5. CASE Load(w) \/ Verdict(w)
    BY <2>5 DEF Load, Verdict, Become, Updates
  <2> QED  BY <2>1, <2>3, <2>4, <2>5
<1>2. AboutToTake => AboutToTake'
  BY <1>0, <1>1, DrainWorks DEF AboutToTake
<1> QED  BY <1>0, <1>2, QuietWake

LEMMA WriteWakes ==
  ASSUME Inv, WakeInv, NEW w \in Workers, Write(w) \/ Store(w)
  PROVE  WakeInv'
<1> DEFINE s == worker[w]
<1>1. PICK to \in Status \ {"created"} :
        /\ s.call \in Working /\ s.call \notin {"query"} /\ s.exec \in Executions
        /\ execution' = [execution EXCEPT ![s.exec].status = to]
        /\ worker' = [worker EXCEPT ![w] = Returned(w, s)]
        /\ UNCHANGED <<passes, crashes, submission>>
  <2>1. CASE Write(w)
    <3>1. s.call \in DOMAIN Target /\ s.call \in Working
      BY <2>1 DEF Write, In, Working
    <3>2. Target[s.call] \in Status \ {"created"} /\ s.call # "query"
      BY <3>1 DEF Target, Status, Waiting, Terminal
    <3> QED  BY <2>1, <3>1, <3>2, WorkingType DEF Write, Become
  <2>2. CASE Store(w)
    <3>1. s.call \in Updates /\ s.call \in Working /\ s.seen \in Status \ {"created"}
      BY <2>2 DEF Store, Working, Inv, WorkerInv, ReadBack
    <3> QED  BY <2>2, <3>1, WorkingType DEF Store, Become, Updates
  <2> QED  BY <2>1, <2>2
<1>2. to # "created"
  OBVIOUS
<1>3. Queued' = Queued \ {s.exec} /\ Pending' = Pending
  BY <1>1, <1>2 DEF Queued, Pending, Inv, TypeOK
<1>4. CASE s.exec \in Queued
  BY <1>1, <1>3, <1>4, QuietWake
<1>5. CASE s.exec \notin Queued
  <2>1. CASE w = "drain"
    <3>1. ~AboutToTake
      BY <1>1, <1>5, <2>1 DEF AboutToTake
    <3> QED  BY <1>1, <1>3, <3>1, QuietWake
  <2>2. CASE w # "drain"
    <3>1. worker'["drain"] = worker["drain"] /\ Queued' = Queued
      BY <1>1, <1>3, <1>5, <2>2, DrainWorks DEF Inv, TypeOK
    <3>2. AboutToTake => AboutToTake'
      BY <3>1 DEF AboutToTake
    <3> QED  BY <1>1, <1>3, <3>2, QuietWake
  <2> QED  BY <2>1, <2>2
<1> QED  BY <1>4, <1>5

LEMMA OtherWakes ==
  ASSUME Inv, WakeInv, CrashRestart \/ UNCHANGED vars \/ \E e \in Executions : Requested(e)
  PROVE  WakeInv'
<1>1. CASE CrashRestart
  BY <1>1 DEF CrashRestart, WakeInv, Inv, TypeOK
<1>2. CASE UNCHANGED vars
  <2>1. Queued' = Queued /\ Pending' = Pending /\ UNCHANGED <<passes, crashes, worker>>
    BY <1>2 DEF vars, Queued, Pending
  <2> QED  BY <2>1, QuietWake DEF AboutToTake
<1>3. CASE \E e \in Executions : Requested(e)
  <2>1. PICK r \in Requests : \E s : worker' = [worker EXCEPT ![r] = s]
    BY <1>3 DEF Requested, Run, Cancel, Propose, Report, Decided, Request, Become
  <2>2. UNCHANGED <<passes, crashes, execution, submission>>
    BY <1>3 DEF Requested, Run, Cancel, Propose, Report, Decided, Request
  <2>3. Queued' = Queued /\ Pending' = Pending
    BY <2>2 DEF Queued, Pending
  <2>4. worker'["drain"] = worker["drain"]
    BY <2>1, DrainWorks, SubmissionAssumption DEF SubmissionAssumption, Inv, TypeOK
  <2>5. AboutToTake => AboutToTake'
    BY <2>3, <2>4 DEF AboutToTake
  <2> QED  BY <2>2, <2>3, <2>5, QuietWake
<1> QED  BY <1>1, <1>2, <1>3

LEMMA InitWakes == Init => WakeInv
<1> SUFFICES ASSUME Init PROVE WakeInv
  OBVIOUS
<1>1. Inv
  BY InitHolds
<1>2. Queued = {}
  BY DEF Init, Queued
<1> QED  BY <1>1, <1>2, CountsAreFinite, FS_EmptySet DEF WakeInv

(* However passes overlap with submissions or end early, a queued execution  *)
(* has a pass to come, or a submission that will ask for one (drain chains   *)
(* one more pass at every call).                                             *)
THEOREM NoLostWakeupHolds == Spec => []NoLostWakeup
<1>1. Inv /\ WakeInv /\ [Next]_vars => WakeInv'
  BY SubmitWakes, PassWakes, ReadWakes, WriteWakes, OtherWakes DEF Next, Proceed
<1>2. Inv /\ WakeInv => NoLostWakeup
  <2> SUFFICES ASSUME Inv, WakeInv, Queued # {}, crashes = 0, passes = 0, ~AboutToTake,
                      Pending = {}
               PROVE  FALSE
    BY CountsAreFinite DEF NoLostWakeup, AboutToTake, Pending
  <2>1. Cardinality(Queued) # 0 /\ Cardinality(Pending) = 0
    BY CountsAreFinite, FS_EmptySet
  <2> QED  BY <2>1, CountsAreFinite DEF WakeInv
<1> QED  BY InvHolds, InitWakes, <1>1, <1>2, PTL DEF Spec
===============================================================================
