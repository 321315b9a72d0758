------------------------- MODULE SessionRuntimeProofs -------------------------
(***************************************************************************)
(* Theorems about SessionRuntime, for any number of requests and sessions:  *)
(* either chain of promises lets one request at a time into a session, so   *)
(* the context is that of the turn that runs, its handle stays open and is  *)
(* the only one, and its agent is granted what its own node allows.         *)
(***************************************************************************)
EXTENDS SessionRuntime, FiniteSetTheorems, TLAPS

USE NoneAssumption DEF NoneAssumption

-------------------------------------------------------------------------------
(* The types of what the proofs use.                                         *)

(* Whom a step of the path belongs to.                                       *)
OnPath(r, step) ==
  /\ step \in {"look", "attach", "reowned"} => IsTurn(r)
  /\ step \in {"owned", "open", "opening"} => IsTurn(r) \/ Kind(r) = "resume"
  /\ step \in {"client", "starting"} => Kind(r) \notin {"release", "disconnect"}
  /\ step \in {"existing", "register", "creating"} => Kind(r) = "create"

PathType ==
  /\ work \in Workload /\ at \in [Requests -> Steps]
  /\ \A r \in Requests : OnPath(r, at[r])

LockType ==
  /\ tail \in [Locks -> [Sessions -> Requests \cup {None}]]
  /\ behind \in [Locks -> [Requests -> Requests \cup {None}]]

(* Who waits for a slot is queued, and waits once.                           *)
WaitersType ==
  /\ waiters \in Seq(Requests)
  /\ \A i \in 1 .. Len(waiters) : at[waiters[i]] = "queued"
  /\ \A i, j \in 1 .. Len(waiters) : waiters[i] = waiters[j] => i = j

HandleType ==
  /\ using \in [Requests -> Nat \cup {None}]
  /\ attached \in [Sessions -> Nat \cup {None}]
  /\ made \in [Sessions -> Nat]
  /\ open \subseteq Sessions \X Nat

NodeType ==
  /\ ctx \in [Sessions -> Requests \cup {None}]
  /\ cap \in [Sessions -> Requests \cup {None}]
  /\ lost \subseteq Requests

Types == PathType /\ LockType /\ WaitersType /\ HandleType /\ NodeType

-------------------------------------------------------------------------------
(* The two locks of a session, withSessionLock and withAttachLock, are the    *)
(* same chain of promises.  Who is in the chain of a lock, who has left it    *)
(* or can join it no more, and where one waits to be let in.                  *)

In(lock, r) ==
  IF lock = "session" THEN Chained(r) ELSE IsTurn(r) /\ at[r] \in Attaching

Past(lock, r) ==
  IF lock = "session" THEN at[r] \in Over
  ELSE IsTurn(r) /\ at[r] \notin Attaching \cup {"new", "look"}

Entry(lock) == IF lock = "session" THEN "lock" ELSE "attach"

Holds(lock, r) == In(lock, r) /\ at[r] # Entry(lock)

(* The requests of a chain are in an order, though the code keeps none: some  *)
(* "ahead" says who was in the chain when a request joined it.  The last of   *)
(* the chain has all the others ahead of it; a request has ahead of it what   *)
(* the one it was chained to has, and that one; who is let in, or has left,   *)
(* has nobody ahead any more.                                                 *)

NobodyAhead(lock, ahead, r) == \A p \in ahead[r] : ~In(lock, p)

TailIsLast(lock, ahead) ==
  \A s \in Sessions :
    IF tail[lock][s] = None
      THEN \A r \in Requests : Session(r) = s => ~In(lock, r)
      ELSE LET t == tail[lock][s] IN
           /\ Session(t) = s /\ In(lock, t)
           /\ \A r \in Requests : Session(r) = s /\ In(lock, r) => r = t \/ r \in ahead[t]

ChainedInOrder(lock, ahead) ==
  \A r \in Requests : In(lock, r) =>
    LET b == behind[lock][r] IN
    IF b = None THEN NobodyAhead(lock, ahead, r)
    ELSE \A p \in ahead[r] : In(lock, p) => p = b \/ p \in ahead[b]

BehindJoined(lock) ==
  \A r \in Requests : In(lock, r) =>
    LET b == behind[lock][r] IN b # None => In(lock, b) \/ Past(lock, b)

LetInIsFirst(lock, ahead) ==
  \A r \in Requests : Holds(lock, r) \/ Past(lock, r) => NobodyAhead(lock, ahead, r)

AheadJoined(lock, ahead) ==
  \A r \in Requests :
    /\ \A p \in ahead[r] : In(lock, p) \/ Past(lock, p)
    /\ ~In(lock, r) /\ ~Past(lock, r) => ahead[r] = {}

Ordered(lock, ahead) ==
  \A q, r \in Requests :
    In(lock, q) /\ In(lock, r) /\ Session(q) = Session(r)
      => q = r \/ q \in ahead[r] \/ r \in ahead[q]

Chain(lock, ahead) ==
  /\ TailIsLast(lock, ahead) /\ ChainedInOrder(lock, ahead) /\ BehindJoined(lock)
  /\ LetInIsFirst(lock, ahead) /\ AheadJoined(lock, ahead) /\ Ordered(lock, ahead)

Aheads == [Requests -> SUBSET Requests]

ChainInv(lock) == \E ahead \in Aheads : Chain(lock, ahead)

(* An action does one of four things to the chain: nothing, a request joins, *)
(* one is let in, or some leave that were let in.                            *)

SameFor(lock, q) ==
  /\ In(lock, q)' <=> In(lock, q)
  /\ Holds(lock, q)' <=> Holds(lock, q)
  /\ Past(lock, q) => Past(lock, q)'

SameLock(lock) == UNCHANGED <<tail[lock], behind[lock]>>

Keeps(lock) == SameLock(lock) /\ \A q \in Requests : SameFor(lock, q)

Joins(lock, r) ==
  /\ ~In(lock, r) /\ ~Past(lock, r)
  /\ In(lock, r)' /\ ~Holds(lock, r)'
  /\ \A q \in Requests \ {r} : SameFor(lock, q)
  /\ tail'[lock] = [tail[lock] EXCEPT ![Session(r)] = r]
  /\ behind'[lock] = [behind[lock] EXCEPT ![r] = tail[lock][Session(r)]]

IsLetIn(lock, r) == Holds(lock, r) \/ (In(lock, r) /\ MayEnter(lock, r))

Enters(lock, r) ==
  /\ IsLetIn(lock, r) /\ Holds(lock, r)'
  /\ \A q \in Requests \ {r} : SameFor(lock, q)
  /\ SameLock(lock)

Leaves(lock, S) ==
  /\ \A r \in S : IsLetIn(lock, r) /\ Past(lock, r)'
  /\ \A q \in Requests \ S : SameFor(lock, q)
  /\ UNCHANGED behind[lock]
  /\ \A s \in Sessions :
       tail'[lock][s] = IF tail[lock][s] \in S THEN None ELSE tail[lock][s]

(* Who is past it is in the chain no more.                                   *)
LEMMA PastIsOut ==
  ASSUME NEW lock, NEW r \in Requests
  PROVE  /\ Past(lock, r) => ~In(lock, r)
         /\ Past(lock, r)' => ~In(lock, r)'
BY DEF Past, In, Over, Chained, InChain

(* What MayEnter waits for: the one it was chained to has left.              *)
LEMMA LetInHasNobodyAhead ==
  ASSUME Types, NEW lock \in Locks, NEW ahead \in Aheads, Chain(lock, ahead),
         NEW r \in Requests, IsLetIn(lock, r)
  PROVE  NobodyAhead(lock, ahead, r)
<1>1. CASE Holds(lock, r)
  BY <1>1 DEF Chain, LetInIsFirst
<1>2. CASE In(lock, r) /\ MayEnter(lock, r)
  <2> DEFINE b == behind[lock][r]
  <2>1. b \in Requests \cup {None}
    BY DEF Types, LockType
  <2>2. CASE b = None
    BY <1>2, <2>2 DEF Chain, ChainedInOrder
  <2>3. CASE b # None
    <3>1. b \in Requests /\ Settled(lock, b)
      BY <1>2, <2>1, <2>3 DEF MayEnter
    <3>2. In(lock, b) \/ Past(lock, b)
      BY <1>2, <2>3 DEF Chain, BehindJoined
    <3>3. Past(lock, b)
      BY <3>1, <3>2 DEF Settled, In, Past
    <3>4. ~In(lock, b) /\ NobodyAhead(lock, ahead, b)
      BY <3>1, <3>3, PastIsOut DEF Chain, LetInIsFirst
    <3>5. \A p \in ahead[r] : In(lock, p) => p = b \/ p \in ahead[b]
      BY <1>2, <2>3 DEF Chain, ChainedInOrder
    <3> QED
      BY <3>4, <3>5 DEF NobodyAhead
  <2> QED
    BY <2>2, <2>3
<1> QED
  BY <1>1, <1>2 DEF IsLetIn

-------------------------------------------------------------------------------
(* Each of the four keeps the chain in order.                                *)

LEMMA KeepsChain ==
  ASSUME Types, NEW lock \in Locks, ChainInv(lock), UNCHANGED work, Keeps(lock)
  PROVE  ChainInv(lock)'
<1> PICK ahead \in Aheads : Chain(lock, ahead)
  BY DEF ChainInv
<1> USE DEF Keeps, SameFor, SameLock, Types, PathType, LockType, Session, Workload, Aheads
<1>1. \A r \in Requests : NobodyAhead(lock, ahead, r)' <=> NobodyAhead(lock, ahead, r)
  BY DEF NobodyAhead
<1>2. TailIsLast(lock, ahead)'
  BY DEF Chain, TailIsLast
<1>3. ChainedInOrder(lock, ahead)'
  BY <1>1 DEF Chain, ChainedInOrder
<1>4. BehindJoined(lock)'
  BY DEF Chain, BehindJoined
<1>5. LetInIsFirst(lock, ahead)'
  BY <1>1, PastIsOut DEF Chain, LetInIsFirst, AheadJoined, NobodyAhead
<1>6. AheadJoined(lock, ahead)' /\ Ordered(lock, ahead)'
  BY DEF Chain, AheadJoined, Ordered
<1>7. Chain(lock, ahead)'
  BY <1>2, <1>3, <1>4, <1>5, <1>6 DEF Chain
<1> QED
  BY <1>7 DEF ChainInv

LEMMA EntersChain ==
  ASSUME Types, NEW lock \in Locks, ChainInv(lock), UNCHANGED work, NEW r \in Requests,
         Enters(lock, r)
  PROVE  ChainInv(lock)'
<1> PICK ahead \in Aheads : Chain(lock, ahead)
  BY DEF ChainInv
<1> USE DEF Enters, SameFor, SameLock, Types, PathType, LockType, Session, Workload, Aheads
<1>0. NobodyAhead(lock, ahead, r)
  BY LetInHasNobodyAhead
<1>1. In(lock, r) /\ In(lock, r)' /\ ~Past(lock, r) /\ ~Past(lock, r)'
  BY PastIsOut DEF IsLetIn, Holds
<1>2. \A q \in Requests : NobodyAhead(lock, ahead, q)' <=> NobodyAhead(lock, ahead, q)
  BY <1>1 DEF NobodyAhead
<1>3. TailIsLast(lock, ahead)'
  BY <1>1 DEF Chain, TailIsLast
<1>4. ChainedInOrder(lock, ahead)'
  BY <1>1, <1>2 DEF Chain, ChainedInOrder
<1>5. BehindJoined(lock)'
  BY <1>1 DEF Chain, BehindJoined
<1>6. LetInIsFirst(lock, ahead)'
  BY <1>0, <1>1, <1>2, PastIsOut DEF Chain, LetInIsFirst, AheadJoined, NobodyAhead
<1>7. AheadJoined(lock, ahead)' /\ Ordered(lock, ahead)'
  BY <1>1 DEF Chain, AheadJoined, Ordered
<1>8. Chain(lock, ahead)'
  BY <1>3, <1>4, <1>5, <1>6, <1>7 DEF Chain
<1> QED
  BY <1>8 DEF ChainInv

LEMMA JoinsChain ==
  ASSUME Types, NEW lock \in Locks, ChainInv(lock), UNCHANGED work, NEW r \in Requests,
         Joins(lock, r)
  PROVE  ChainInv(lock)'
<1> PICK before \in Aheads : Chain(lock, before)
  BY DEF ChainInv
<1> DEFINE s == Session(r)
           t == tail[lock][s]
           all == {q \in Requests : Session(q) = s /\ In(lock, q)}
<1>0. PICK ahead \in Aheads : ahead = [before EXCEPT ![r] = all]
  BY DEF Aheads
<1> USE DEF Joins, SameFor, Types, PathType, LockType, Session, Workload, Aheads
<1>1. /\ In(lock, r)' /\ ~Holds(lock, r)' /\ ~Past(lock, r)'
      /\ \A q \in Requests \ {r} : r \notin before[q]
  BY PastIsOut DEF Chain, AheadJoined
<1>2. \A q \in Requests \ {r} :
        /\ ahead[q] = before[q] /\ behind'[lock][q] = behind[lock][q]
        /\ NobodyAhead(lock, ahead, q)' <=> NobodyAhead(lock, before, q)
  BY <1>0, <1>1 DEF NobodyAhead
<1>3. ahead[r] = all /\ behind'[lock][r] = t
  BY <1>0
<1>4. TailIsLast(lock, ahead)'
  BY <1>1, <1>2, <1>3 DEF Chain, TailIsLast
<1>5. ChainedInOrder(lock, ahead)'
  <2>1. ASSUME NEW q \in Requests \ {r}, In(lock, q)'
        PROVE  LET b == behind'[lock][q] IN
               IF b = None THEN NobodyAhead(lock, ahead, q)'
               ELSE \A p \in ahead[q] : In(lock, p)' => p = b \/ p \in ahead[b]
    <3>1. CASE behind[lock][q] = None
      BY <2>1, <3>1, <1>2 DEF Chain, ChainedInOrder
    <3>2. CASE behind[lock][q] # None
      <4> DEFINE b == behind[lock][q]
      <4>1. \A p \in before[q] : In(lock, p) => p = b \/ p \in before[b]
        BY <2>1, <3>2 DEF Chain, ChainedInOrder
      <4>2. CASE b = r
        <5>1. before[r] = {}
          BY DEF Chain, AheadJoined
        <5> QED
          BY <4>1, <4>2, <5>1, <1>1, <1>2, <3>2
      <4>3. CASE b # r
        BY <4>1, <4>3, <1>1, <1>2, <3>2
      <4> QED
        BY <4>2, <4>3
    <3> QED
      BY <3>1, <3>2
  <2>2. t = None => NobodyAhead(lock, ahead, r)'
    BY <1>1, <1>3 DEF NobodyAhead, Chain, TailIsLast
  <2>3. t # None => \A p \in ahead[r] : In(lock, p)' => p = t \/ p \in ahead[t]
    BY <1>1, <1>2, <1>3 DEF Chain, TailIsLast
  <2> QED
    BY <2>1, <2>2, <2>3, <1>3 DEF ChainedInOrder
<1>6. BehindJoined(lock)'
  BY <1>1, <1>2, <1>3 DEF Chain, BehindJoined, TailIsLast
<1>7. LetInIsFirst(lock, ahead)'
  BY <1>1, <1>2, PastIsOut DEF Chain, LetInIsFirst, AheadJoined, NobodyAhead
<1>8. AheadJoined(lock, ahead)' /\ Ordered(lock, ahead)'
  BY <1>1, <1>2, <1>3 DEF Chain, AheadJoined, Ordered
<1>9. Chain(lock, ahead)'
  BY <1>4, <1>5, <1>6, <1>7, <1>8 DEF Chain
<1> QED
  BY <1>9 DEF ChainInv

LEMMA LeavesChain ==
  ASSUME Types, NEW lock \in Locks, ChainInv(lock), UNCHANGED work, NEW S \in SUBSET Requests,
         Leaves(lock, S)
  PROVE  ChainInv(lock)'
<1> PICK ahead \in Aheads : Chain(lock, ahead)
  BY DEF ChainInv
<1> USE DEF Leaves, SameFor, Types, PathType, LockType, Session, Workload, Aheads
<1>1. \A r \in S : /\ ~In(lock, r)' /\ ~Holds(lock, r)' /\ NobodyAhead(lock, ahead, r)
                   /\ In(lock, r)
  BY PastIsOut, LetInHasNobodyAhead DEF Holds, IsLetIn
<1>2. \A q \in Requests : NobodyAhead(lock, ahead, q) => NobodyAhead(lock, ahead, q)'
  BY <1>1 DEF NobodyAhead
<1>3. TailIsLast(lock, ahead)'
  <2>1. ASSUME NEW s \in Sessions, tail[lock][s] \in S
        PROVE  /\ tail'[lock][s] = None
               /\ \A r \in Requests : Session(r) = s => ~In(lock, r)'
    <3>1. \A r \in Requests : Session(r) = s /\ In(lock, r) =>
            r = tail[lock][s] \/ r \in ahead[tail[lock][s]]
      BY <2>1 DEF Chain, TailIsLast
    <3> QED
      BY <1>1, <2>1, <3>1 DEF NobodyAhead
  <2>2. ASSUME NEW s \in Sessions, tail[lock][s] \notin S
        PROVE  /\ tail'[lock][s] = tail[lock][s]
               /\ \A r \in Requests : In(lock, r)' => In(lock, r)
               /\ tail[lock][s] # None => In(lock, tail[lock][s])'
    <3>1. tail[lock][s] # None =>
            tail[lock][s] \in Requests \ S /\ In(lock, tail[lock][s])
      BY <2>2 DEF Chain, TailIsLast
    <3> QED
      BY <1>1, <2>2, <3>1
  <2> QED
    BY <2>1, <2>2 DEF Chain, TailIsLast
<1>4. ChainedInOrder(lock, ahead)'
  BY <1>1, <1>2 DEF Chain, ChainedInOrder
<1>5. BehindJoined(lock)'
  BY <1>1 DEF Chain, BehindJoined
<1>6. LetInIsFirst(lock, ahead)'
  <2>1. ASSUME NEW r \in Requests, Holds(lock, r)' \/ Past(lock, r)'
        PROVE  NobodyAhead(lock, ahead, r)
    <3>1. CASE r \in S
      BY <1>1, <3>1
    <3>2. CASE r \notin S
      BY <2>1, <3>2, PastIsOut DEF Chain, LetInIsFirst, AheadJoined, NobodyAhead
    <3> QED
      BY <3>1, <3>2
  <2> QED
    BY <2>1, <1>2 DEF LetInIsFirst
<1>7. AheadJoined(lock, ahead)' /\ Ordered(lock, ahead)'
  BY <1>1 DEF Chain, AheadJoined, Ordered
<1>8. Chain(lock, ahead)'
  BY <1>3, <1>4, <1>5, <1>6, <1>7 DEF Chain
<1> QED
  BY <1>8 DEF ChainInv

-------------------------------------------------------------------------------
(* The types are kept.                                                       *)

LEMMA PathsAreSteps ==
  ASSUME NEW r \in Requests
  PROVE  /\ {WithHandle(r), Failed(r), WithClient(r), WithoutClient(r)} \subseteq Steps
         /\ OnPath(r, WithHandle(r)) /\ OnPath(r, Failed(r)) /\ OnPath(r, WithoutClient(r))
         /\ at[r] \in {"client", "starting"} /\ Types => OnPath(r, WithClient(r))
<1>1. {WithHandle(r), Failed(r), WithClient(r), WithoutClient(r)} \subseteq Steps
  BY DEF WithHandle, Failed, WithClient, WithoutClient, Steps, Attaching, InChain, Over
<1>2. OnPath(r, WithHandle(r)) /\ OnPath(r, Failed(r)) /\ OnPath(r, WithoutClient(r))
  BY DEF WithHandle, Failed, WithoutClient, OnPath
<1>3. at[r] \in {"client", "starting"} /\ Types => OnPath(r, WithClient(r))
  BY DEF WithClient, OnPath, Types, PathType, Workload, Kind, IsTurn
<1> QED
  BY <1>1, <1>2, <1>3

(* One request moves, from where it is not queued.                           *)
LEMMA MoveType ==
  ASSUME Types, UNCHANGED <<work, waiters>>, NEW r \in Requests, NEW step \in Steps,
         Go(r, step), at[r] # "queued", OnPath(r, step)
  PROVE  PathType' /\ WaitersType'
<1>1. PathType'
  BY DEF Types, PathType, Go, OnPath, IsTurn, Kind
<1>2. \A i \in 1 .. Len(waiters) : waiters[i] \in Requests
  BY DEF Types, WaitersType
<1>3. WaitersType'
  BY <1>2 DEF Types, PathType, WaitersType, Go
<1> QED
  BY <1>1, <1>3

LEMMA LockSteps ==
  ASSUME Types, UNCHANGED work, NEW r \in Requests, NEW lock \in Locks,
         Join(lock, r) \/ Leave(lock, r) \/ UNCHANGED lockVars
  PROVE  LockType'
<1> USE DEF Types, PathType, LockType, Session, Workload
<1>1. CASE Join(lock, r)
  BY <1>1 DEF Join
<1>2. CASE Leave(lock, r)
  BY <1>2 DEF Leave
<1>3. CASE UNCHANGED lockVars
  BY <1>3 DEF lockVars
<1> QED
  BY <1>1, <1>2, <1>3


(* Each action but those of many requests at once.                           *)
OneMoves(r) ==
  \/ StartTurn(r) \/ StartResume(r) \/ StartDetach(r) \/ StartCreate(r)
  \/ LookUp(r) \/ Attach(r) \/ CheckOwner(r) \/ OpenHandle(r) \/ NeedClient(r)
  \/ WakeUp(r) \/ BeginTurn(r) \/ Send(r) \/ TimeOut(r) \/ AgentIdle(r)
  \/ AbortFails(r) \/ EndTurn(r) \/ ClearCapability(r)
  \/ EnterDetach(r) \/ Detach(r) \/ FinishDetach(r) \/ DeleteFiles(r)
  \/ Unregister(r) \/ LookForRow(r) \/ Register(r) \/ CreateHandle(r)
  \/ RegisterOwner(r) \/ CreateFails(r) \/ UndoCreate(r)

(* What a step does not say belongs to somebody belongs to all.              *)
LEMMA OnPathStays ==
  ASSUME UNCHANGED work, NEW q \in Requests, NEW step
  PROVE  OnPath(q, step)' <=> OnPath(q, step)
BY DEF OnPath, IsTurn, Kind

LEMMA OneMovesType ==
  ASSUME Types, UNCHANGED work, NEW r \in Requests, OneMoves(r)
  PROVE  Types'
<1> USE DEF Types, Locks, slotVars, capVars, handleVars, diskVars, createVars, clientVars, TurnKinds, Attaching
<1>1. PathType' /\ WaitersType'
  <2>0. OnPath(r, at[r])
    BY DEF PathType
  <2>1. CASE StartTurn(r)
    BY <2>0, <2>1, MoveType, PathsAreSteps DEF StartTurn, Steps, InChain, Over, OnPath
  <2>2. CASE StartResume(r)
    BY <2>0, <2>2, MoveType, PathsAreSteps DEF StartResume, Steps, InChain, Over, OnPath
  <2>3. CASE StartDetach(r)
    BY <2>0, <2>3, MoveType, PathsAreSteps DEF StartDetach, Detaches, Steps, InChain, Over, OnPath
  <2>4. CASE StartCreate(r)
    BY <2>0, <2>4, MoveType, PathsAreSteps DEF StartCreate, Kind, Steps, InChain, Over, OnPath
  <2>5. CASE LookUp(r)
    BY <2>0, <2>5, MoveType, PathsAreSteps DEF LookUp, PathType, Steps, InChain, Over, OnPath
  <2>6. CASE Attach(r)
    BY <2>0, <2>6, MoveType, PathsAreSteps DEF Attach, Steps, InChain, Over, OnPath, IsTurn
  <2>7. CASE CheckOwner(r)
    BY <2>0, <2>7, MoveType, PathsAreSteps DEF CheckOwner, Steps, InChain, Over, OnPath
  <2>8. CASE OpenHandle(r)
    BY <2>0, <2>8, MoveType, PathsAreSteps DEF OpenHandle, Steps, InChain, Over, OnPath
  <2>9. CASE NeedClient(r)
    BY <2>0, <2>9, MoveType, PathsAreSteps DEF NeedClient, Steps, InChain, Over, OnPath
  <2>10. CASE WakeUp(r)
    BY <2>0, <2>10, MoveType, PathsAreSteps DEF WakeUp, Steps, InChain, Over, OnPath
  <2>11. CASE BeginTurn(r)
    BY <2>0, <2>11, MoveType, PathsAreSteps DEF BeginTurn, Steps, InChain, Over, OnPath
  <2>12. CASE Send(r)
    BY <2>0, <2>12, MoveType, PathsAreSteps DEF Send, Steps, InChain, Over, OnPath
  <2>13. CASE TimeOut(r)
    BY <2>0, <2>13, MoveType, PathsAreSteps DEF TimeOut, Steps, InChain, Over, OnPath
  <2>14. CASE AgentIdle(r)
    BY <2>0, <2>14, MoveType, PathsAreSteps DEF AgentIdle, Steps, InChain, Over, OnPath
  <2>15. CASE AbortFails(r)
    BY <2>0, <2>15, MoveType, PathsAreSteps DEF AbortFails, Steps, InChain, Over, OnPath
  <2>16. CASE EndTurn(r)
    BY <2>0, <2>16, MoveType, PathsAreSteps DEF EndTurn, Steps, InChain, Over, OnPath
  <2>17. CASE ClearCapability(r)
    BY <2>0, <2>17, MoveType, PathsAreSteps DEF ClearCapability, Steps, InChain, Over, OnPath
  <2>18. CASE EnterDetach(r)
    BY <2>0, <2>18, MoveType, PathsAreSteps DEF EnterDetach, Detaches, Steps, InChain, Over, OnPath
  <2>19. CASE Detach(r)
    BY <2>0, <2>19, MoveType, PathsAreSteps DEF Detach, Steps, InChain, Over, OnPath
  <2>20. CASE FinishDetach(r)
    BY <2>0, <2>20, MoveType, PathsAreSteps DEF FinishDetach, Kind, Steps, InChain, Over, OnPath
  <2>21. CASE DeleteFiles(r)
    BY <2>0, <2>21, MoveType, PathsAreSteps DEF DeleteFiles, Steps, InChain, Over, OnPath
  <2>22. CASE Unregister(r)
    BY <2>0, <2>22, MoveType, PathsAreSteps DEF Unregister, Steps, InChain, Over, OnPath
  <2>23. CASE LookForRow(r)
    BY <2>0, <2>23, MoveType, PathsAreSteps DEF LookForRow, Steps, InChain, Over, OnPath
  <2>24. CASE Register(r)
    BY <2>0, <2>24, MoveType, PathsAreSteps DEF Register, Steps, InChain, Over, OnPath
  <2>25. CASE CreateHandle(r)
    BY <2>0, <2>25, MoveType, PathsAreSteps DEF CreateHandle, Steps, InChain, Over, OnPath
  <2>26. CASE RegisterOwner(r)
    BY <2>0, <2>26, MoveType, PathsAreSteps DEF RegisterOwner, Steps, InChain, Over, OnPath
  <2>27. CASE CreateFails(r)
    BY <2>0, <2>27, MoveType, PathsAreSteps DEF CreateFails, RollsBack, Steps, InChain, Over, OnPath
  <2>28. CASE UndoCreate(r)
    BY <2>0, <2>28, MoveType, PathsAreSteps DEF UndoCreate, Steps, InChain, Over, OnPath
  <2> QED
    BY <2>1, <2>2, <2>3, <2>4, <2>5, <2>6, <2>7, <2>8, <2>9, <2>10, <2>11, <2>12, <2>13, <2>14, <2>15, <2>16, <2>17, <2>18, <2>19, <2>20, <2>21, <2>22, <2>23, <2>24, <2>25, <2>26, <2>27, <2>28 DEF OneMoves
<1>2. LockType'
  BY LockSteps DEF OneMoves, LeaveAttach, StartTurn, StartResume, StartDetach, StartCreate, LookUp, Attach, CheckOwner, OpenHandle, NeedClient, WakeUp, BeginTurn, Send, TimeOut, AgentIdle, AbortFails, EndTurn, ClearCapability, EnterDetach, Detach, FinishDetach, DeleteFiles, Unregister, LookForRow, Register, CreateHandle, RegisterOwner, CreateFails, UndoCreate
<1>3. HandleType' /\ NodeType'
  BY DEF OneMoves, HandleType, NodeType, ForgetsEntry, ClearsOwn, Session, PathType, Workload, StartTurn, StartResume, StartDetach, StartCreate, LookUp, Attach, CheckOwner, OpenHandle, NeedClient, WakeUp, BeginTurn, Send, TimeOut, AgentIdle, AbortFails, EndTurn, ClearCapability, EnterDetach, Detach, FinishDetach, DeleteFiles, Unregister, LookForRow, Register, CreateHandle, RegisterOwner, CreateFails, UndoCreate
<1> QED
  BY <1>1, <1>2, <1>3

(* The queue of the slots: who finds none is appended, who is woken leaves.  *)
LEMMA TakeSlotType ==
  ASSUME Types, UNCHANGED work, NEW r \in Requests, TakeSlot(r)
  PROVE  Types'
<1> USE DEF Types, Locks
<1>1. LockType' /\ HandleType' /\ NodeType'
  BY LockSteps DEF TakeSlot, slotVars, capVars, handleVars, HandleType, NodeType
<1>2. CASE SlotIsFree
  BY <1>1, <1>2, MoveType DEF TakeSlot, Steps, InChain, OnPath
<1>3. CASE ~SlotIsFree
  <2>1. at[r] = "slot" /\ at' = [at EXCEPT ![r] = "queued"] /\ waiters' = Append(waiters, r)
    BY <1>3 DEF TakeSlot, Go
  <2>2. PathType'
    BY <2>1, OnPathStays DEF PathType, Steps, OnPath
  <2>3. /\ waiters' \in Seq(Requests) /\ Len(waiters') = Len(waiters) + 1
        /\ \A i \in 1 .. Len(waiters) : waiters'[i] = waiters[i] /\ waiters[i] \in Requests
        /\ waiters'[Len(waiters) + 1] = r
    BY <2>1 DEF WaitersType
  <2>4. \A i \in 1 .. Len(waiters) : at'[waiters[i]] = "queued" /\ waiters[i] # r
    BY <2>1, <2>3 DEF WaitersType, PathType
  <2>5. at'[r] = "queued"
    BY <2>1 DEF PathType
  <2>6. Len(waiters) \in Nat
    BY DEF WaitersType
  <2>7. WaitersType'
    BY <2>3, <2>4, <2>5, <2>6 DEF WaitersType
  <2> QED
    BY <1>1, <2>2, <2>7
<1> QED
  BY <1>2, <1>3

LEMMA ReleaseSlotType ==
  ASSUME Types, UNCHANGED work, NEW r \in Requests, ReleaseSlot(r)
  PROVE  Types'
<1> USE DEF Types, Locks
<1>1. LockType' /\ HandleType' /\ NodeType'
  BY DEF ReleaseSlot, lockVars, capVars, handleVars, HandleType, NodeType, LockType
<1>2. CASE waiters = <<>>
  BY <1>1, <1>2, MoveType, PathsAreSteps DEF ReleaseSlot
<1>3. CASE waiters # <<>>
  <2> DEFINE h == Head(waiters)
  <2>1. /\ at[r] = "release" /\ at' = [at EXCEPT ![r] = Failed(r), ![h] = "woken"]
        /\ waiters' = Tail(waiters)
    BY <1>3 DEF ReleaseSlot
  <2>2. h = waiters[1] /\ Len(waiters) \in Nat \ {0} /\ h \in Requests
    BY <1>3 DEF WaitersType
  <2>3. PathType'
    <3>1. \A q \in Requests : at'[q] \in {at[q], Failed(q), "woken"}
      BY <2>1, <2>2 DEF PathType
    <3>2. \A q \in Requests : OnPath(q, at'[q])
      BY <3>1, PathsAreSteps DEF PathType, OnPath
    <3>3. at' \in [Requests -> Steps]
      BY <2>1, <2>2, PathsAreSteps DEF PathType, Steps
    <3> QED
      BY <3>2, <3>3 DEF PathType, OnPath, IsTurn, Kind
  <2>4. /\ waiters' \in Seq(Requests) /\ Len(waiters') = Len(waiters) - 1
        /\ \A i \in 1 .. Len(waiters') : waiters'[i] = waiters[i + 1]
    BY <1>3, <2>1 DEF WaitersType
  <2>5. \A i \in 1 .. Len(waiters') : i + 1 \in 1 .. Len(waiters) /\ i + 1 # 1
    BY <2>2, <2>4
  <2>6. \A i \in 1 .. Len(waiters') :
          waiters[i + 1] \in Requests /\ at[waiters[i + 1]] = "queued" /\ waiters[i + 1] # h
    BY <2>2, <2>5 DEF WaitersType
  <2>7. \A i \in 1 .. Len(waiters') : at'[waiters'[i]] = "queued"
    BY <2>1, <2>4, <2>6 DEF PathType
  <2>8. \A i, j \in 1 .. Len(waiters') : waiters'[i] = waiters'[j] => i = j
    <3> SUFFICES ASSUME NEW i \in 1 .. Len(waiters'), NEW j \in 1 .. Len(waiters'),
                        waiters'[i] = waiters'[j]
                 PROVE  i = j
      OBVIOUS
    <3>0. waiters[i + 1] = waiters[j + 1] /\ i + 1 \in 1 .. Len(waiters) /\ j + 1 \in 1 .. Len(waiters)
      BY <2>4, <2>5
    <3>1. i + 1 = j + 1
      BY <3>0 DEF WaitersType
    <3> QED
      BY <3>1, <2>4, <2>2
  <2>9. WaitersType'
    BY <2>4, <2>7, <2>8 DEF WaitersType
  <2> QED
    BY <1>1, <2>3, <2>9
<1> QED
  BY <1>2, <1>3

(* Many requests move: the callers of a startup, the turns of a handle.      *)
LEMMA ManyMoveType ==
  ASSUME Types, UNCHANGED <<work, waiters>>,
         NEW F \in [Requests -> Steps], at' = F,
         \A q \in Requests :
           F[q] = at[q] \/ (at[q] # "queued" /\ OnPath(q, F[q]))
  PROVE  PathType' /\ WaitersType'
<1>1. PathType'
  BY DEF Types, PathType, OnPath, IsTurn, Kind
<1>2. \A i \in 1 .. Len(waiters) : waiters[i] \in Requests
  BY DEF Types, WaitersType
<1>3. WaitersType'
  BY <1>2 DEF Types, PathType, WaitersType
<1> QED
  BY <1>1, <1>3

LEMMA StartupType ==
  ASSUME Types, UNCHANGED work, NEW g \in startups, ClientStarts(g) \/ ClientFails(g)
  PROVE  Types'
<1> USE DEF Types, slotVars, capVars, handleVars, Locks
<1>1. HandleType' /\ NodeType'
  BY DEF ClientStarts, ClientFails, HandleType, NodeType
<1>2. LockType'
  BY DEF ClientStarts, ClientFails, CallersLeave, lockVars, LockType
<1>3. UNCHANGED waiters /\ (WakeCallers(g, WithClient) \/ WakeCallers(g, WithoutClient))
  BY DEF ClientStarts, ClientFails
<1>4. \A r \in Requests :
        /\ {WithClient(r), WithoutClient(r)} \subseteq Steps /\ OnPath(r, WithoutClient(r))
        /\ at[r] = "starting" => OnPath(r, WithClient(r))
  BY PathsAreSteps
<1>5. CASE WakeCallers(g, WithClient)
  <2> DEFINE F == [r \in Requests |-> IF at[r] = "starting" /\ since[r] = g THEN WithClient(r) ELSE at[r]]
  <2>1. at' = F /\ F \in [Requests -> Steps]
    BY <1>4, <1>5 DEF WakeCallers, PathType
  <2> QED
    BY <1>1, <1>2, <1>3, <1>4, <2>1, ManyMoveType
<1>6. CASE WakeCallers(g, WithoutClient)
  <2> DEFINE F == [r \in Requests |-> IF at[r] = "starting" /\ since[r] = g THEN WithoutClient(r) ELSE at[r]]
  <2>1. at' = F /\ F \in [Requests -> Steps]
    BY <1>4, <1>6 DEF WakeCallers, PathType
  <2> QED
    BY <1>1, <1>2, <1>3, <1>4, <2>1, ManyMoveType
<1> QED
  BY <1>3, <1>5, <1>6

LEMMA ClientLeavesType ==
  ASSUME Types, UNCHANGED work, NEW r \in Requests, ClientLeaves(r)
  PROVE  Types'
<1> USE DEF Types, slotVars, capVars, handleVars, lockVars
<1>1. LockType' /\ HandleType' /\ NodeType' /\ UNCHANGED waiters
  BY DEF ClientLeaves, LockType, HandleType, NodeType
<1> DEFINE hit == {q \in working : Handle(q) = <<Session(r), attached[Session(r)]>>}
           F == [q \in Requests |-> IF q \in hit /\ at[q] \in {"running", "aborting"}
                                      THEN "ending" ELSE at[q]]
<1>2. at' = F
  BY DEF ClientLeaves
<1>3. F \in [Requests -> Steps]
  BY DEF PathType, Steps, InChain
<1> HIDE DEF hit
<1>4. \A q \in Requests : F[q] = at[q] \/ (at[q] # "queued" /\ OnPath(q, F[q]))
  BY DEF OnPath
<1> QED
  BY <1>1, <1>2, <1>3, <1>4, ManyMoveType

LEMMA StopType ==
  ASSUME Types, UNCHANGED work,
         \/ StopBegins \/ (\E s \in Sessions : StopHandle(s)) \/ StopForgets \/ Exit
         \/ \E r \in Requests : LateIdle(r)
  PROVE  Types'
<1> USE DEF slotVars, capVars, handleVars, lockVars
<1>1. UNCHANGED <<at, waiters, using, made, ctx, cap, lost, behind>>
  BY DEF StopBegins, StopHandle, StopForgets, Exit, LateIdle
<1>2. \/ UNCHANGED <<attached, tail>>
      \/ /\ attached' = [s \in Sessions |-> None]
         /\ tail' = [lock \in {"session", "attach"} |-> [s \in Sessions |-> None]]
  BY DEF StopBegins, StopHandle, StopForgets, Exit, LateIdle
<1>3. PathType' /\ WaitersType' /\ NodeType'
  BY <1>1 DEF Types, PathType, WaitersType, NodeType, OnPath, IsTurn, Kind
<1>4. open' \subseteq open
  BY DEF StopBegins, StopHandle, StopForgets, Exit, LateIdle
<1>5. LockType' /\ HandleType'
  BY <1>1, <1>2, <1>4 DEF Types, LockType, HandleType, Locks
<1> QED
  BY <1>3, <1>5 DEF Types

THEOREM TypesHold == Spec => []Types
<1>1. Init => Types
  BY WorkloadAssumption DEF Init, Types, PathType, LockType, WaitersType, HandleType, NodeType,
     WorkloadAssumption, Steps, Locks, OnPath
<1>2. Types /\ [Next]_vars => Types'
  <2> SUFFICES ASSUME Types, [Next]_vars
               PROVE  Types'
    OBVIOUS
  <2>1. CASE UNCHANGED vars
    BY <2>1 DEF vars, Types, PathType, LockType, WaitersType, HandleType, NodeType, OnPath, IsTurn, Kind,
       slotVars, capVars, handleVars, lockVars
  <2>2. CASE Next
    <3>1. UNCHANGED work
      BY <2>2 DEF Next, Alive
    <3>2. ASSUME NEW r \in Requests,
                 \/ StartTurn(r) \/ StartResume(r) \/ StartDetach(r) \/ StartCreate(r)
                 \/ Progress(r) \/ AgentIdle(r) \/ LateIdle(r) \/ ClientLeaves(r)
          PROVE  Types'
      BY <3>1, <3>2, OneMovesType, TakeSlotType, ReleaseSlotType, ClientLeavesType, StopType
         DEF Progress, OneMoves
    <3>3. ASSUME NEW g \in startups, ClientStarts(g) \/ ClientFails(g)
          PROVE  Types'
      BY <3>1, <3>3, StartupType
    <3> QED
      BY <2>2, <3>1, <3>2, <3>3, StopType DEF Next
  <2> QED
    BY <2>1, <2>2
<1> QED
  BY <1>1, <1>2, PTL DEF Spec

-------------------------------------------------------------------------------
(* What each action does to the chain of a lock.                             *)

LEMMA OthersStay ==
  ASSUME Types, UNCHANGED work, NEW r \in Requests, NEW step, Go(r, step), NEW lock
  PROVE  at'[r] = step /\ \A q \in Requests \ {r} : SameFor(lock, q)
BY DEF Types, PathType, Go, SameFor, In, Holds, Past, Chained, IsTurn, Kind

(* What moves outside of the chain, or on inside of it.                      *)
LEMMA MovesOn ==
  ASSUME Types, NEW lock \in Locks, ChainInv(lock), UNCHANGED work, NEW r \in Requests, NEW step,
         Go(r, step), SameLock(lock), SameFor(lock, r)
  PROVE  ChainInv(lock)'
BY OthersStay, KeepsChain DEF Keeps

LEMMA JoinIsJoins ==
  ASSUME Types, NEW lock \in Locks, ChainInv(lock), UNCHANGED work, NEW r \in Requests,
         Go(r, Entry(lock)), Join(lock, r), ~In(lock, r), ~Past(lock, r),
         lock = "attach" => IsTurn(r)
  PROVE  ChainInv(lock)'
<1>1. at'[r] = Entry(lock) /\ \A q \in Requests \ {r} : SameFor(lock, q)
  BY OthersStay
<1>2. In(lock, r)' /\ ~Holds(lock, r)'
  BY <1>1 DEF Entry, In, Holds, Chained, InChain, Attaching, IsTurn, Kind, Locks
<1>3. Joins(lock, r)
  BY <1>1, <1>2 DEF Joins, Join, Types, LockType, PathType, Session, Workload
<1> QED
  BY <1>3, JoinsChain

LEMMA LeaveIsLeaves ==
  ASSUME Types, NEW lock \in Locks, ChainInv(lock), UNCHANGED work, NEW r \in Requests, NEW step,
         Go(r, step), Past(lock, r)', Leave(lock, r), IsLetIn(lock, r)
  PROVE  ChainInv(lock)'
<1>1. \A s \in Sessions :
        tail'[lock][s] = IF tail[lock][s] \in {r} THEN None ELSE tail[lock][s]
  <2>1. \A s \in Sessions : tail[lock][s] = r => Session(r) = s
    BY DEF ChainInv, Chain, TailIsLast
  <2> QED
    BY <2>1 DEF Leave, Types, LockType, PathType, Session, Workload
<1>2. Leaves(lock, {r})
  BY <1>1, OthersStay DEF Leaves, Leave
<1> QED
  BY <1>2, LeavesChain

(* Who joins or leaves the other lock takes none of this one's chain.        *)
LEMMA OtherLock ==
  ASSUME Types, NEW lock \in Locks, NEW other \in Locks \ {lock}, NEW r \in Requests,
         Join(other, r) \/ Leave(other, r) \/ UNCHANGED lockVars
  PROVE  SameLock(lock)
BY DEF Types, LockType, Join, Leave, SameLock, lockVars

(* The lock of the session.                                                  *)

LEMMA OutsideMoves ==
  ASSUME Types, ChainInv("session"), UNCHANGED work, NEW r \in Requests,
         \/ StartTurn(r) \/ StartResume(r) \/ StartCreate(r) \/ LookUp(r) \/ Attach(r)
         \/ CheckOwner(r) \/ OpenHandle(r) \/ LookForRow(r) \/ Register(r) \/ CreateHandle(r)
         \/ RegisterOwner(r) \/ CreateFails(r) \/ UndoCreate(r) \/ ClearCapability(r)
  PROVE  ChainInv("session")'
<1> USE DEF StartTurn, StartResume, StartCreate, LookUp, Attach, CheckOwner, OpenHandle, LookForRow,
            Register, CreateHandle, RegisterOwner, CreateFails, UndoCreate, ClearCapability
<1>0. "session" \in Locks /\ "attach" \in Locks \ {"session"}
  BY DEF Locks
<1>1. SameLock("session")
  BY <1>0, OtherLock DEF LeaveAttach
<1>2. OnPath(r, at[r])
  BY DEF Types, PathType
<1>3. \E step : Go(r, step) /\ step \notin InChain /\ (at[r] \in Over => step \in Over)
                /\ (step \in {"client", "starting"} => Kind(r) # "delete")
  BY <1>2 DEF WithHandle, Failed, InChain, Over, OnPath, IsTurn, TurnKinds
<1>4. ~Chained(r)
  BY DEF Chained, InChain
<1>5. SameFor("session", r)
  <2>1. PICK step : Go(r, step) /\ step \notin InChain /\ (at[r] \in Over => step \in Over)
                /\ (step \in {"client", "starting"} => Kind(r) # "delete")
    BY <1>3
  <2>2. at'[r] = step
    BY <2>1, OthersStay
  <2>3. ~Chained(r)'
    BY <2>1, <2>2 DEF Chained, Kind
  <2> QED
    BY <1>4, <2>1, <2>2, <2>3 DEF SameFor, Holds, In, Past
<1> QED
  BY <1>0, <1>1, <1>3, <1>5, MovesOn

LEMMA InsideMoves ==
  ASSUME Types, ChainInv("session"), UNCHANGED work, NEW r \in Requests,
         Send(r) \/ AgentIdle(r) \/ TimeOut(r) \/ AbortFails(r) \/ NeedClient(r)
  PROVE  ChainInv("session")'
<1> USE DEF Send, AgentIdle, TimeOut, AbortFails, NeedClient
<1>0. "session" \in Locks
  BY DEF Locks
<1>1. SameLock("session")
  BY DEF SameLock, lockVars
<1>2. CASE at[r] # "client"
  <2>1. \E step : Go(r, step) /\ step \in InChain \ {"lock"}
    BY <1>2 DEF InChain
  <2>2. SameFor("session", r)
    BY <1>2, <2>1, OthersStay DEF SameFor, In, Holds, Past, Entry, Chained, InChain, Over
  <2> QED
    BY <1>0, <1>1, <2>1, <2>2, MovesOn
<1>3. CASE at[r] = "client"
  <2>1. \E step : Go(r, step) /\ (step = "starting" \/ step = WithClient(r))
    BY <1>3
  <2>2. SameFor("session", r)
    BY <1>3, <2>1, OthersStay
       DEF WithClient, SameFor, In, Holds, Past, Entry, Chained, InChain, Over, Kind
  <2> QED
    BY <1>0, <1>1, <2>1, <2>2, MovesOn
<1> QED
  BY <1>2, <1>3

LEMMA JoiningMoves ==
  ASSUME Types, ChainInv("session"), UNCHANGED work, NEW r \in Requests,
         StartDetach(r) \/ WakeUp(r) \/ TakeSlot(r)
  PROVE  ChainInv("session")'
<1>0. "session" \in Locks /\ Entry("session") = "lock" /\ "session" # "attach"
  BY DEF Locks, Entry
<1>1. ~In("session", r) /\ ~Past("session", r)
  BY DEF StartDetach, WakeUp, TakeSlot, In, Past, Chained, InChain, Over
<1>2. CASE Go(r, "lock") /\ Join("session", r)
  BY <1>0, <1>1, <1>2, JoinIsJoins
<1>3. CASE at[r] = "slot" /\ Go(r, "queued") /\ UNCHANGED lockVars
  <2>1. SameFor("session", r)
    BY <1>1, <1>3, OthersStay DEF SameFor, In, Holds, Past, Chained, InChain
  <2> QED
    BY <1>0, <1>3, <2>1, MovesOn DEF SameLock, lockVars
<1> QED
  BY <1>2, <1>3 DEF StartDetach, WakeUp, TakeSlot

LEMMA LetInMoves ==
  ASSUME Types, ChainInv("session"), UNCHANGED work, NEW r \in Requests,
         BeginTurn(r) \/ EnterDetach(r)
  PROVE  ChainInv("session")'
<1>0. "session" \in Locks
  BY DEF Locks
<1>1. IsLetIn("session", r)
  BY DEF BeginTurn, EnterDetach, IsLetIn, In, Chained, InChain
<1>2. CASE UNCHANGED lockVars /\ (Go(r, "sending") \/ Go(r, "detach"))
  <2>1. Enters("session", r)
    BY <1>1, <1>2, OthersStay
       DEF Enters, SameLock, lockVars, Holds, In, Entry, Chained, InChain
  <2> QED
    BY <1>0, <2>1, EntersChain
<1>3. CASE Go(r, "done") /\ Leave("session", r)
  <2>1. Past("session", r)'
    BY <1>3, OthersStay DEF Past, Over
  <2> QED
    BY <1>0, <1>1, <1>3, <2>1, LeaveIsLeaves
<1> QED
  BY <1>2, <1>3 DEF BeginTurn, EnterDetach

LEMMA LeavingMoves ==
  ASSUME Types, ChainInv("session"), UNCHANGED work, NEW r \in Requests,
         EndTurn(r) \/ Detach(r) \/ FinishDetach(r) \/ DeleteFiles(r) \/ Unregister(r)
  PROVE  ChainInv("session")'
<1>0. "session" \in Locks
  BY DEF Locks
<1>1. Holds("session", r)
  BY DEF EndTurn, Detach, FinishDetach, DeleteFiles, Unregister, Holds, In, Entry, Chained, InChain
<1>2. CASE Leave("session", r) /\ (Go(r, "release") \/ Go(r, "done"))
  <2>1. Past("session", r)'
    BY <1>2, OthersStay DEF Past, Over
  <2> QED
    BY <1>0, <1>1, <1>2, <2>1, LeaveIsLeaves DEF IsLetIn
<1>3. CASE /\ UNCHANGED lockVars
           /\ \/ Go(r, "detaching") \/ Go(r, "unregister")
              \/ Kind(r) = "delete" /\ Go(r, "client")
  <2>1. In("session", r)' /\ Holds("session", r)'
    BY <1>3, OthersStay DEF In, Holds, Entry, Chained, InChain, Kind
  <2>2. SameFor("session", r)
    BY <1>1, <2>1, PastIsOut DEF SameFor, Holds
  <2> QED
    BY <1>0, <1>3, <2>2, MovesOn DEF SameLock, lockVars
<1> QED
  BY <1>2, <1>3 DEF EndTurn, Detach, FinishDetach, DeleteFiles, Unregister

(* The attach lock: LookUp joins it, Attach lets in, CheckOwner and          *)
(* OpenHandle leave; the other steps of a turn are before it, in it or past.  *)

LEMMA AttachSame ==
  ASSUME Types, UNCHANGED work, NEW r \in Requests, NEW step, Go(r, step),
         \/ ~IsTurn(r)
         \/ at[r] \notin Attaching \cup {"new", "look"} /\ step \notin Attaching \cup {"new", "look"}
         \/ at[r] \in Attaching \ {"attach"} /\ step \in Attaching \ {"attach"}
         \/ at[r] \in {"new", "look"} /\ step \notin Attaching
  PROVE  SameFor("attach", r)
<1>1. at'[r] = step /\ (IsTurn(r)' <=> IsTurn(r))
  BY OthersStay DEF IsTurn, Kind
<1> QED
  BY <1>1 DEF SameFor, In, Holds, Past, Entry, Attaching

LEMMA AttachKeeps ==
  ASSUME Types, ChainInv("attach"), UNCHANGED work, NEW r \in Requests,
         \/ StartTurn(r) \/ StartResume(r) \/ StartDetach(r) \/ StartCreate(r)
         \/ NeedClient(r) \/ WakeUp(r) \/ BeginTurn(r) \/ Send(r) \/ TimeOut(r) \/ AgentIdle(r)
         \/ AbortFails(r) \/ EndTurn(r) \/ ClearCapability(r) \/ TakeSlot(r)
         \/ EnterDetach(r) \/ Detach(r) \/ FinishDetach(r) \/ DeleteFiles(r)
         \/ Unregister(r) \/ LookForRow(r) \/ Register(r) \/ CreateHandle(r)
         \/ RegisterOwner(r) \/ CreateFails(r) \/ UndoCreate(r)
  PROVE  ChainInv("attach")'
<1>0. "attach" \in Locks /\ "session" \in Locks \ {"attach"}
  BY DEF Locks
<1>1. SameLock("attach")
  BY <1>0, OtherLock DEF StartTurn, StartResume, StartDetach, StartCreate, NeedClient, WakeUp,
     BeginTurn, Send, TimeOut, AgentIdle, AbortFails, EndTurn, ClearCapability, TakeSlot,
     EnterDetach, Detach, FinishDetach, DeleteFiles, Unregister, LookForRow, Register,
     CreateHandle, RegisterOwner, CreateFails, UndoCreate
<1>2. \E step : Go(r, step) /\ SameFor("attach", r)
  <2>1. CASE StartTurn(r)
    BY <2>1, AttachSame DEF StartTurn, Attaching
  <2>2. CASE StartResume(r) \/ StartDetach(r) \/ StartCreate(r)
    <3>1. ~IsTurn(r)
      BY <2>2 DEF StartResume, StartDetach, StartCreate, Detaches, IsTurn, TurnKinds
    <3> QED
      BY <2>2, <3>1, AttachSame DEF StartResume, StartDetach, StartCreate
  <2>3. CASE NeedClient(r)
    <3>1. IsTurn(r) => WithClient(r) = "open"
      BY DEF WithClient, IsTurn, TurnKinds
    <3>2. at[r] = "client" /\ (Go(r, "starting") \/ Go(r, WithClient(r)))
      BY <2>3 DEF NeedClient
    <3> QED
      BY <3>1, <3>2, AttachSame DEF Attaching
  <2>4. CASE \/ WakeUp(r) \/ BeginTurn(r) \/ Send(r) \/ TimeOut(r) \/ AgentIdle(r)
             \/ AbortFails(r) \/ EndTurn(r) \/ ClearCapability(r) \/ TakeSlot(r)
    <3>1. \E step : Go(r, step) /\ step \notin Attaching \cup {"new", "look"}
      BY <2>4 DEF WakeUp, BeginTurn, Send, TimeOut, AgentIdle, AbortFails, EndTurn,
         ClearCapability, TakeSlot, Attaching
    <3>2. at[r] \notin Attaching \cup {"new", "look"}
      BY <2>4 DEF WakeUp, BeginTurn, Send, TimeOut, AgentIdle, AbortFails, EndTurn,
         ClearCapability, TakeSlot, Attaching
    <3> QED
      BY <3>1, <3>2, AttachSame
  <2>5. CASE \/ EnterDetach(r) \/ Detach(r) \/ FinishDetach(r) \/ DeleteFiles(r)
             \/ Unregister(r) \/ LookForRow(r) \/ Register(r) \/ CreateHandle(r)
             \/ RegisterOwner(r) \/ CreateFails(r) \/ UndoCreate(r)
    <3>1. \E step : Go(r, step) /\ step \notin (Attaching \cup {"new", "look"}) \ {"client"}
                    /\ (step = "client" => Kind(r) = "delete")
      BY <2>5 DEF EnterDetach, Detach, FinishDetach, DeleteFiles, Unregister, LookForRow, Register,
         CreateHandle, RegisterOwner, CreateFails, UndoCreate, Attaching
    <3>2. at[r] \notin Attaching \cup {"new", "look"}
      BY <2>5 DEF EnterDetach, Detach, FinishDetach, DeleteFiles, Unregister, LookForRow, Register,
         CreateHandle, RegisterOwner, CreateFails, UndoCreate, Attaching
    <3>3. Kind(r) = "delete" => ~IsTurn(r)
      BY DEF IsTurn, TurnKinds
    <3> QED
      BY <3>1, <3>2, <3>3, AttachSame
  <2> QED
    BY <2>1, <2>2, <2>3, <2>4, <2>5
<1> QED
  BY <1>0, <1>1, <1>2, MovesOn

LEMMA AttachMoves ==
  ASSUME Types, ChainInv("attach"), UNCHANGED work, NEW r \in Requests,
         LookUp(r) \/ Attach(r) \/ CheckOwner(r) \/ OpenHandle(r)
  PROVE  ChainInv("attach")'
<1>0. "attach" \in Locks /\ Entry("attach") = "attach"
  BY DEF Locks, Entry
<1>1. OnPath(r, at[r])
  BY DEF Types, PathType
<1>2. CASE LookUp(r)
  <2>1. at[r] = "look" /\ IsTurn(r)
    BY <1>1, <1>2 DEF LookUp, OnPath
  <2>2. CASE Go(r, "owned") /\ UNCHANGED lockVars
    BY <1>0, <2>1, <2>2, AttachSame, MovesOn DEF Attaching, SameLock, lockVars
  <2>3. CASE Go(r, "attach") /\ Join("attach", r)
    <3>1. ~In("attach", r) /\ ~Past("attach", r)
      BY <2>1 DEF In, Past, Attaching
    <3> QED
      BY <1>0, <2>1, <2>3, <3>1, JoinIsJoins
  <2> QED
    BY <1>2, <2>2, <2>3 DEF LookUp
<1>3. CASE Attach(r)
  <2>1. at[r] = "attach" /\ IsTurn(r) /\ MayEnter("attach", r) /\ UNCHANGED lockVars
    BY <1>1, <1>3 DEF Attach, OnPath
  <2>2. IsLetIn("attach", r)
    BY <2>1 DEF IsLetIn, In, Attaching
  <2>3. Go(r, "reowned") \/ Go(r, "client")
    BY <1>3 DEF Attach
  <2>4. Holds("attach", r)' /\ \A q \in Requests \ {r} : SameFor("attach", q)
    BY <2>1, <2>3, OthersStay DEF Holds, In, Entry, Attaching, IsTurn, Kind
  <2>5. Enters("attach", r)
    BY <2>1, <2>2, <2>4 DEF Enters, SameLock, lockVars
  <2> QED
    BY <1>0, <2>5, EntersChain
<1>4. CASE CheckOwner(r) \/ OpenHandle(r)
  <2>1. \E step : Go(r, step) /\ (step = "opening" \/ step \notin Attaching \cup {"new", "look"})
    BY <1>4 DEF CheckOwner, OpenHandle, WithHandle, Failed, Attaching
  <2>2. PICK step : Go(r, step) /\ (step = "opening" \/ step \notin Attaching \cup {"new", "look"})
    BY <2>1
  <2>3. CASE UNCHANGED lockVars /\ (~IsTurn(r) \/ at[r] = "owned" \/ step = "opening")
    <3>1. at[r] = "owned" => step # "opening"
      BY <1>4, <2>2, OthersStay DEF CheckOwner, OpenHandle, WithHandle, Failed
    <3>2. at[r] = "owned" \/ at[r] \in Attaching \ {"attach"}
      BY <1>4 DEF CheckOwner, OpenHandle, Attaching
    <3>3. SameFor("attach", r)
      BY <2>2, <2>3, <3>1, <3>2, AttachSame DEF Attaching
    <3> QED
      BY <1>0, <2>2, <2>3, <3>3, MovesOn DEF SameLock, lockVars
  <2>4. CASE IsTurn(r) /\ at[r] # "owned" /\ step # "opening"
    <3>1. at'[r] = step
      BY <2>2, OthersStay
    <3>2. Leave("attach", r)
      BY <1>4, <2>4, <3>1, <2>2, OthersStay
         DEF CheckOwner, OpenHandle, LeaveAttach, IsTurn, TurnKinds
    <3>3. IsLetIn("attach", r)
      BY <1>4, <2>4 DEF CheckOwner, OpenHandle, IsLetIn, Holds, In, Entry, Attaching
    <3>4. Past("attach", r)'
      BY <2>2, <2>4, <3>1 DEF Past, IsTurn, Kind
    <3> QED
      BY <1>0, <2>2, <3>2, <3>3, <3>4, LeaveIsLeaves
  <2>5. CASE ~IsTurn(r) \/ at[r] = "owned" \/ step = "opening"
    <3>1. ~IsTurn(r) => Kind(r) = "resume"
      BY <1>1, <1>4 DEF CheckOwner, OpenHandle, OnPath
    <3>2. step = "opening" => at[r] = "open" /\ at'[r] = "opening"
      <4>1. \A way : Go(r, way) => at'[r] = way
        BY OthersStay
      <4>2. WithHandle(r) # "opening" /\ Failed(r) # "opening"
        BY DEF WithHandle, Failed
      <4>3. CASE CheckOwner(r)
        BY <2>2, <4>1, <4>2, <4>3 DEF CheckOwner
      <4>4. CASE OpenHandle(r)
        BY <2>2, <4>1, <4>2, <4>4 DEF OpenHandle
      <4> QED
        BY <1>4, <4>3, <4>4
    <3>3. UNCHANGED lockVars
      BY <1>4, <2>5, <3>1, <3>2, OthersStay
         DEF CheckOwner, OpenHandle, LeaveAttach, WithHandle, Failed
    <3> QED
      BY <2>3, <2>5, <3>3
  <2> QED
    BY <2>4, <2>5
<1> QED
  BY <1>2, <1>3, <1>4

(* The moves of many at once, for either lock.                               *)

(* The callers of a startup that fails leave: of those in a chain all were   *)
(* let in, as a deletion asks for the client inside of the session's lock,    *)
(* and a turn inside of the attach lock.                                     *)
LEMMA StartupMoves ==
  ASSUME Types, NEW lock \in Locks, ChainInv(lock), UNCHANGED work, NEW g \in startups,
         ClientStarts(g) \/ ClientFails(g)
  PROVE  ChainInv(lock)'
<1> DEFINE Calls(q) == at[q] = "starting" /\ since[q] = g
           S == {q \in Requests : Calls(q) /\ In(lock, q)}
<1> USE DEF Types, PathType, Kind, IsTurn
<1>1. CASE WakeCallers(g, WithClient) /\ UNCHANGED lockVars
  <2>1. \A q \in Requests : at'[q] = IF Calls(q) THEN WithClient(q) ELSE at[q]
    BY <1>1 DEF WakeCallers
  <2>2. \A q \in Requests : IsTurn(q) => WithClient(q) = "open"
    BY DEF WithClient, TurnKinds
  <2>3. \A q \in Requests : SameFor("session", q)
    BY <2>1 DEF WithClient, SameFor, Holds, In, Past, Entry, Chained, InChain, Over
  <2>4. \A q \in Requests : SameFor("attach", q)
    BY <2>1, <2>2 DEF SameFor, Holds, In, Past, Entry, Attaching
  <2>5. Keeps(lock)
    BY <1>1, <2>3, <2>4 DEF Keeps, SameLock, lockVars, Locks
  <2> QED
    BY <2>5, KeepsChain
<1>2. CASE WakeCallers(g, WithoutClient) /\ CallersLeave(g)
  <2>1. \A q \in Requests : at'[q] = IF Calls(q) THEN WithoutClient(q) ELSE at[q]
    BY <1>2 DEF WakeCallers
  <2>2. \A q \in S : Holds(lock, q)
    BY DEF Holds, Entry
  <2>3. \A q \in Requests : WithoutClient(q) \in {"done", "clear"}
    BY DEF WithoutClient, Failed
  <2>4. \A q \in S : Past(lock, q)'
    BY <2>1, <2>3 DEF In, Past, Over, Attaching
  <2>5. \A q \in Requests \ S : SameFor(lock, q)
    BY <2>1, <2>3 DEF SameFor, Holds, In, Past, Entry, Chained, InChain, Over, Attaching
  <2>6. \A s \in Sessions :
          tail'[lock][s] = IF tail[lock][s] \in S THEN None ELSE tail[lock][s]
    <3>1. \A s \in Sessions : tail[lock][s] # None =>
            tail[lock][s] \in Requests /\ In(lock, tail[lock][s])
      BY DEF ChainInv, Chain, TailIsLast, LockType
    <3>2. \A s \in Sessions : tail[lock][s] # None =>
            (tail[lock][s] \in S <=> Calls(tail[lock][s]))
      BY <3>1
    <3> QED
      BY <1>2, <3>1, <3>2 DEF CallersLeave, Locks
  <2>7. Leaves(lock, S)
    BY <1>2, <2>2, <2>4, <2>5, <2>6 DEF Leaves, IsLetIn, CallersLeave
  <2> QED
    BY <2>7, LeavesChain
<1> QED
  BY <1>1, <1>2 DEF ClientStarts, ClientFails

LEMMA SlotMoves ==
  ASSUME Types, NEW lock \in Locks, ChainInv(lock), UNCHANGED work, NEW r \in Requests,
         ReleaseSlot(r)
  PROVE  ChainInv(lock)'
<1>1. Failed(r) \in {"clear", "done"} /\ at[r] = "release"
  BY DEF ReleaseSlot, Failed
<1>2. PICK h \in Requests \cup {None} :
        /\ h # None => at[h] = "queued"
        /\ \A q \in Requests :
             at'[q] = IF q = h THEN "woken" ELSE IF q = r THEN Failed(r) ELSE at[q]
  <2>1. CASE waiters = <<>>
    <3>1. Go(r, Failed(r))
      BY <2>1 DEF ReleaseSlot
    <3>2. \A q \in Requests : at'[q] = IF q = r THEN Failed(r) ELSE at[q]
      BY <3>1 DEF Go, Types, PathType
    <3> QED
      BY <3>2
  <2>2. CASE waiters # <<>>
    <3>1. Head(waiters) \in Requests /\ at[Head(waiters)] = "queued"
      BY <2>2 DEF Types, WaitersType
    <3>2. at' = [at EXCEPT ![r] = Failed(r), ![Head(waiters)] = "woken"]
      BY <2>2 DEF ReleaseSlot
    <3>3. \A q \in Requests :
            at'[q] = IF q = Head(waiters) THEN "woken" ELSE IF q = r THEN Failed(r) ELSE at[q]
      BY <1>1, <3>1, <3>2 DEF Types, PathType
    <3>4. Head(waiters) # None
      BY <3>1
    <3> QED
      BY <3>1, <3>3, <3>4
  <2> QED
    BY <2>1, <2>2
<1>3. \A q \in Requests : SameFor("session", q)
  BY <1>1, <1>2 DEF SameFor, In, Holds, Past, Entry, Chained, InChain, Over, Kind
<1>4. \A q \in Requests : SameFor("attach", q)
  BY <1>1, <1>2 DEF SameFor, In, Holds, Past, Entry, Attaching, IsTurn, Kind
<1>5. Keeps(lock)
  BY <1>3, <1>4 DEF Keeps, SameLock, ReleaseSlot, lockVars, Locks
<1> QED
  BY <1>5, KeepsChain

(* What stops agents, or nobody, moves nobody into a lock or out of it.       *)
LEMMA AbortMoves ==
  ASSUME Types, NEW lock \in Locks, ChainInv(lock), UNCHANGED work,
         \/ \E r \in Requests : ClientLeaves(r) \/ LateIdle(r)
         \/ StopBegins \/ \E s \in Sessions : StopHandle(s)
  PROVE  ChainInv(lock)'
<1>1. \A q \in Requests :
        at'[q] = at[q] \/ (at[q] \in {"running", "aborting"} /\ at'[q] = "ending")
  BY DEF ClientLeaves, LateIdle, StopBegins, StopHandle
<1>2. \A q \in Requests : SameFor("session", q)
  BY <1>1 DEF SameFor, In, Chained, Holds, Past, Entry, InChain, Over, Kind
<1>3. \A q \in Requests : SameFor("attach", q)
  BY <1>1 DEF SameFor, In, Holds, Past, Entry, Attaching, IsTurn, Kind
<1>4. Keeps(lock)
  BY <1>2, <1>3 DEF Keeps, SameLock, ClientLeaves, LateIdle, StopBegins, StopHandle, lockVars, Locks
<1> QED
  BY <1>4, KeepsChain

(* Both chains are in order until stop() forgets them.                       *)
ChainHolds ==
  stop \in {"no", "closing"} => \A lock \in Locks : ChainInv(lock)

LEMMA StopSteps ==
  ASSUME Next
  PROVE  \/ stop' = stop
         \/ StopBegins /\ stop = "no" /\ stop' = "closing"
         \/ StopForgets /\ stop = "closing" /\ stop' = "forgotten"
         \/ Exit /\ stop = "forgotten" /\ stop' = "exited"
BY ZenonT(60) DEF Next, Alive, Progress, StopBegins, StopHandle, StopForgets, Exit, ClientStarts,
       ClientFails, ReleaseSlot, TakeSlot, LateIdle, ClientLeaves, StartTurn, StartResume,
       StartDetach, StartCreate, LookUp, Attach, CheckOwner, OpenHandle, NeedClient, WakeUp,
       BeginTurn, Send, TimeOut, AgentIdle, AbortFails, EndTurn, ClearCapability, EnterDetach,
       Detach, FinishDetach, DeleteFiles, Unregister, LookForRow, Register, CreateHandle,
       RegisterOwner, CreateFails, UndoCreate

LEMMA StopIsStop ==
  ASSUME Next, stop' = "no"
  PROVE  stop = "no"
BY StopSteps

LEMMA ChainNext ==
  ASSUME Types, ChainHolds, Next
  PROVE  ChainHolds'
<1>1. UNCHANGED work
  BY DEF Next, Alive
<1> SUFFICES ASSUME stop' \in {"no", "closing"}
             PROVE  \A lock \in Locks : ChainInv(lock)'
  BY DEF ChainHolds
<1>2. ChainInv("session") /\ ChainInv("attach") /\ \A lock \in Locks : ChainInv(lock)
  BY StopSteps DEF ChainHolds, Locks
<1>3. CASE StopBegins \/ (\E s \in Sessions : StopHandle(s))
           \/ \E r \in Requests : LateIdle(r) \/ ClientLeaves(r)
  BY <1>1, <1>2, <1>3, AbortMoves
<1>4. ~StopForgets /\ ~Exit
  BY DEF StopForgets, Exit
<1>5. ASSUME NEW g \in startups, ClientStarts(g) \/ ClientFails(g)
      PROVE  \A lock \in Locks : ChainInv(lock)'
  BY <1>1, <1>2, <1>5, StartupMoves
<1>6. ASSUME NEW r \in Requests, ReleaseSlot(r)
      PROVE  \A lock \in Locks : ChainInv(lock)'
  BY <1>1, <1>2, <1>6, SlotMoves
<1>7. ASSUME NEW r \in Requests, OneMoves(r) \/ TakeSlot(r)
      PROVE  \A lock \in Locks : ChainInv(lock)'
  <2>1. ChainInv("session")'
    BY <1>1, <1>2, <1>7, OutsideMoves, InsideMoves, JoiningMoves, LetInMoves, LeavingMoves
       DEF OneMoves
  <2>2. ChainInv("attach")'
    BY <1>1, <1>2, <1>7, AttachKeeps, AttachMoves DEF OneMoves
  <2> QED
    BY <2>1, <2>2 DEF Locks
<1> QED
  BY <1>3, <1>4, <1>5, <1>6, <1>7 DEF Next, Progress, OneMoves

THEOREM ChainIsInOrder == Spec => []ChainHolds
<1>1. Init => ChainHolds
  <2> SUFFICES ASSUME Init, NEW lock \in Locks
               PROVE  ChainInv(lock)
    BY DEF ChainHolds
  <2> DEFINE nobody == [r \in Requests |-> {}]
  <2>1. nobody \in Aheads
    BY DEF Aheads
  <2>2. \A r \in Requests : nobody[r] = {} /\ ~In(lock, r) /\ ~Past(lock, r)
    BY DEF Init, In, Past, Chained, InChain, Over, Attaching
  <2>3. \A s \in Sessions : tail[lock][s] = None
    BY DEF Init, Locks
  <2> HIDE DEF nobody
  <2>4. Chain(lock, nobody)
    BY <2>2, <2>3 DEF Chain, TailIsLast, ChainedInOrder, BehindJoined, LetInIsFirst, AheadJoined,
       Ordered, NobodyAhead, Holds
  <2> QED
    BY <2>1, <2>4 DEF ChainInv
<1>2. Types /\ ChainHolds /\ [Next]_vars => ChainHolds'
  <2>1. ASSUME Types, ChainHolds, UNCHANGED vars
        PROVE  ChainHolds'
    <3> SUFFICES ASSUME stop \in {"no", "closing"}, NEW lock \in Locks
                 PROVE  ChainInv(lock)'
      BY <2>1 DEF vars, ChainHolds
    <3>1. Keeps(lock) /\ UNCHANGED work
      BY <2>1 DEF vars, lockVars, Keeps, SameLock, SameFor, In, Holds, Past, Chained, IsTurn, Kind
    <3> QED
      BY <2>1, <3>1, KeepsChain DEF ChainHolds
  <2> QED
    BY <2>1, ChainNext
<1> QED
  BY <1>1, <1>2, TypesHold, PTL DEF Spec

(* One request at a time holds a lock of a session.                          *)
Exclusive ==
  stop \in {"no", "closing"} =>
    \A lock \in Locks : \A q, r \in Requests :
      Holds(lock, q) /\ Holds(lock, r) /\ Session(q) = Session(r) => q = r

THEOREM LocksExclude == Spec => []Exclusive
<1>1. ChainHolds => Exclusive
  <2> SUFFICES ASSUME NEW lock \in Locks, ChainInv(lock), NEW q \in Requests, NEW r \in Requests,
                      Holds(lock, q), Holds(lock, r), Session(q) = Session(r)
               PROVE  q = r
    BY DEF ChainHolds, Exclusive
  <2>1. PICK ahead \in Aheads : Chain(lock, ahead)
    BY DEF ChainInv
  <2>2. /\ In(lock, q) /\ In(lock, r)
        /\ NobodyAhead(lock, ahead, q) /\ NobodyAhead(lock, ahead, r)
    BY <2>1 DEF Chain, LetInIsFirst, Holds
  <2> QED
    BY <2>1, <2>2 DEF Chain, Ordered, NobodyAhead
<1> QED
  BY <1>1, ChainIsInOrder, PTL

(* One turn, disconnect or deletion at a time in a session: withSessionLock  *)
(* excludes, whatever the number of requests, their order and their failures.*)
THEOREM OneTurnHolds == Spec => []OneTurn
<1>1. Exclusive => OneTurn
  BY DEF Exclusive, OneTurn, Holds, Inside, In, Entry, Locks
<1> QED
  BY <1>1, LocksExclude, PTL

-------------------------------------------------------------------------------
(* What follows from one turn at a time.                                     *)

InTurn == {"sending", "running", "aborting", "ending"}

(* Who is in a turn was let in by BeginTurn, and moves on inside of it.      *)
LEMMA TurnSteps ==
  ASSUME Types, Next, NEW r \in Requests, at'[r] \in InTurn
  PROVE  \/ at[r] \in InTurn /\ (at'[r] = "running" => at[r] = "running" \/ Send(r))
                             /\ (at'[r] = "aborting" => at[r] \in {"running", "aborting"})
         \/ at[r] = "lock" /\ BeginTurn(r) /\ at'[r] = "sending"
<1>1. CASE StopBegins \/ (\E s \in Sessions : StopHandle(s)) \/ StopForgets \/ Exit
  BY <1>1 DEF StopBegins, StopHandle, StopForgets, Exit, InTurn
<1>2. ASSUME NEW g \in startups, ClientStarts(g) \/ ClientFails(g)
      PROVE  at'[r] = at[r]
  BY <1>2 DEF ClientStarts, ClientFails, WakeCallers, WithClient, WithoutClient, Failed, InTurn
<1>3. ASSUME NEW q \in Requests, ReleaseSlot(q) \/ TakeSlot(q)
      PROVE  at'[r] = at[r]
  BY <1>3 DEF Types, PathType, ReleaseSlot, TakeSlot, Go, Failed, InTurn
<1>4. ASSUME NEW q \in Requests, LateIdle(q) \/ ClientLeaves(q)
      PROVE  at[r] \in InTurn /\ at'[r] \in {at[r], "ending"}
  BY <1>4 DEF LateIdle, ClientLeaves, InTurn
<1>5. ASSUME NEW q \in Requests, OneMoves(q), q # r
      PROVE  at'[r] = at[r]
  BY <1>5 DEF Types, PathType, OneMoves, Go, StartTurn, StartResume,
       StartDetach, StartCreate, LookUp, Attach, CheckOwner, OpenHandle, NeedClient, WakeUp,
       BeginTurn, Send, TimeOut, AgentIdle, AbortFails, EndTurn, ClearCapability, EnterDetach,
       Detach, FinishDetach, DeleteFiles, Unregister, LookForRow, Register, CreateHandle,
       RegisterOwner, CreateFails, UndoCreate
<1>6. ASSUME OneMoves(r)
      PROVE  \/ Send(r) /\ at[r] = "sending" /\ at'[r] \in {"running", "ending"}
             \/ TimeOut(r) /\ at[r] = "running" /\ at'[r] = "aborting"
             \/ at[r] \in InTurn /\ at'[r] = "ending"
             \/ at[r] = "lock" /\ BeginTurn(r) /\ at'[r] = "sending"
  BY <1>6 DEF Types, PathType, OneMoves, Go, InTurn, WithHandle, Failed, WithClient, RollsBack,
       StartTurn, StartResume,
       StartDetach, StartCreate, LookUp, Attach, CheckOwner, OpenHandle, NeedClient, WakeUp,
       BeginTurn, Send, TimeOut, AgentIdle, AbortFails, EndTurn, ClearCapability, EnterDetach,
       Detach, FinishDetach, DeleteFiles, Unregister, LookForRow, Register, CreateHandle,
       RegisterOwner, CreateFails, UndoCreate
<1>7. \/ StopBegins \/ (\E s \in Sessions : StopHandle(s)) \/ StopForgets \/ Exit
      \/ \E g \in startups : ClientStarts(g) \/ ClientFails(g)
      \/ \E q \in Requests : \/ OneMoves(q) \/ ReleaseSlot(q) \/ TakeSlot(q)
                             \/ LateIdle(q) \/ ClientLeaves(q)
  BY DEF Next, Progress, OneMoves
<1> QED
  BY <1>1, <1>2, <1>3, <1>4, <1>5, <1>6, <1>7 DEF InTurn

(* Only a turn that is let in, and the end of one, change the context of a   *)
(* session.                                                                  *)
LEMMA ContextChanges ==
  ASSUME Types, Next
  PROVE  \/ UNCHANGED ctx
         \/ \E q \in Requests : BeginTurn(q) /\ at'[q] = "sending"
         \/ \E q \in Requests : EndTurn(q) /\ at'[q] = "release"
BY ZenonT(60) DEF Types, PathType, Next, Progress, Go, StopBegins, StopHandle, StopForgets, Exit, ClientStarts,
       ClientFails, ReleaseSlot, TakeSlot, LateIdle, ClientLeaves, StartTurn, StartResume,
       StartDetach, StartCreate, LookUp, Attach, CheckOwner, OpenHandle, NeedClient, WakeUp,
       BeginTurn, Send, TimeOut, AgentIdle, AbortFails, EndTurn, ClearCapability, EnterDetach,
       Detach, FinishDetach, DeleteFiles, Unregister, LookForRow, Register, CreateHandle,
       RegisterOwner, CreateFails, UndoCreate

LEMMA TurnIsInside ==
  ASSUME NEW r \in Requests, at[r] \in InTurn
  PROVE  Inside(r)
BY DEF InTurn, Inside, Chained, InChain

(* What hooks and the permission handler take for the running execution is   *)
(* the one whose turn holds the session.                                     *)
THEOREM ContextIsTurnHolds == Spec => []ContextIsTurn
<1>1. Init => ContextIsTurn
  BY DEF Init, ContextIsTurn
<1>2. ASSUME Types, OneTurn', ContextIsTurn, Next
      PROVE  ContextIsTurn'
  <2>1. UNCHANGED work
    BY <1>2 DEF Next, Alive
  <2> SUFFICES ASSUME stop' = "no", NEW r \in Requests, at'[r] \in InTurn
               PROVE  ctx'[Session(r)] = r
    BY <2>1 DEF ContextIsTurn, InTurn, Session
  <2>2. Session(r) \in Sessions /\ \A q \in Requests : Session(q)' = Session(q)
    BY <1>2, <2>1 DEF Types, PathType, Workload, Session
  <2>3. CASE at[r] \in InTurn
    <3>1. ctx[Session(r)] = r
      BY <1>2, <2>3, StopIsStop DEF ContextIsTurn, InTurn
    <3>2. ASSUME NEW q \in Requests, BeginTurn(q), at'[q] = "sending"
          PROVE  ctx'[Session(r)] = r
      <4>1. CASE Session(q) = Session(r)
        <5>1. Inside(q)' /\ Inside(r)'
          BY <3>2 DEF InTurn, Inside, Chained, InChain
        <5>2. q = r
          BY <1>2, <2>2, <4>1, <5>1 DEF OneTurn
        <5> QED
          BY <1>2, <2>2, <3>2, <5>2 DEF BeginTurn, Types, NodeType
      <4>2. CASE Session(q) # Session(r)
        BY <1>2, <2>2, <3>1, <3>2, <4>2 DEF BeginTurn, Types, NodeType
      <4> QED
        BY <4>1, <4>2
    <3>3. ASSUME NEW q \in Requests, EndTurn(q), at'[q] = "release"
          PROVE  ctx'[Session(r)] = r
      <4>1. q # r
        BY <3>3 DEF InTurn
      <4> QED
        BY <1>2, <2>2, <3>1, <3>3, <4>1 DEF EndTurn, Types, NodeType
    <3> QED
      BY <1>2, <3>1, <3>2, <3>3, ContextChanges
  <2>4. CASE at[r] = "lock" /\ BeginTurn(r)
    BY <1>2, <2>2, <2>4 DEF BeginTurn, Types, NodeType
  <2> QED
    BY <1>2, <2>3, <2>4, TurnSteps
<1>3. ContextIsTurn /\ UNCHANGED vars => ContextIsTurn'
  BY DEF ContextIsTurn, vars, Session
<1> QED
  BY <1>1, <1>2, <1>3, TypesHold, OneTurnHolds, PTL DEF Spec

(* Handles are closed by a disconnect or a deletion inside the lock, and by  *)
(* the shutdown; a request keeps the handle it has until it looks again.     *)
LEMMA HandleChanges ==
  ASSUME Types, Next, stop' = "no", NEW r \in Requests, at[r] \in InTurn
  PROVE  /\ using'[r] = using[r]
         /\ \/ open \subseteq open'
            \/ \E q \in Requests : /\ at[q] = "detach"
                                   /\ open \ {<<Session(q), attached[Session(q)]>>} \subseteq open'
<1>1. \A q \in Requests : Detach(q) =>
        /\ using'[r] = using[r]
        /\ \/ open \subseteq open'
           \/ at[q] = "detach" /\ open \ {<<Session(q), attached[Session(q)]>>} \subseteq open'
  BY DEF Types, HandleType, Detach, InTurn
<1>2. CASE ~ \E q \in Requests : Detach(q)
  BY <1>2, ZenonT(60) DEF Types, PathType, HandleType, InTurn, Next, Progress, Go, StopBegins, StopHandle,
       StopForgets, Exit, ClientStarts,
       ClientFails, ReleaseSlot, TakeSlot, LateIdle, ClientLeaves, StartTurn, StartResume,
       StartDetach, StartCreate, LookUp, Attach, CheckOwner, OpenHandle, NeedClient, WakeUp,
       BeginTurn, Send, TimeOut, AgentIdle, AbortFails, EndTurn, ClearCapability, EnterDetach,
       FinishDetach, DeleteFiles, Unregister, LookForRow, Register, CreateHandle,
       RegisterOwner, CreateFails, UndoCreate, ForgetsEntry, handleVars
<1> QED
  BY <1>1, <1>2

(* The agent of a turn that is awaited works on a handle that is open.       *)
THEOREM TurnsOnOpenHandleHolds == Spec => []TurnsOnOpenHandle
<1>1. Init => TurnsOnOpenHandle
  BY DEF Init, TurnsOnOpenHandle
<1>2. ASSUME Types, OneTurn, TurnsOnOpenHandle, Next
      PROVE  TurnsOnOpenHandle'
  <2>1. UNCHANGED work
    BY <1>2 DEF Next, Alive
  <2> SUFFICES ASSUME stop' = "no", NEW r \in Requests, at'[r] \in {"running", "aborting"}
               PROVE  <<Session(r), using'[r]>> \in open'
    BY <2>1 DEF TurnsOnOpenHandle, Handle, Session
  <2>2. CASE Send(r)
    BY <1>2, <2>2 DEF Types, PathType, Send, Handle, Go, handleVars
  <2>3. CASE at[r] \in {"running", "aborting"}
    <3>1. <<Session(r), using[r]>> \in open
      BY <1>2, <2>3, StopIsStop DEF TurnsOnOpenHandle, Handle
    <3>2. \A q \in Requests : at[q] = "detach" => Session(q) # Session(r)
      <4> SUFFICES ASSUME NEW q \in Requests, at[q] = "detach", Session(q) = Session(r)
                   PROVE  FALSE
        OBVIOUS
      <4>1. Inside(q) /\ Inside(r)
        BY <2>3 DEF Inside, Chained, InChain
      <4> QED
        BY <1>2, <2>3, <4>1, StopIsStop DEF OneTurn
    <3>3. using'[r] = using[r]
      BY <1>2, <2>3, HandleChanges DEF InTurn
    <3>4. <<Session(r), using[r]>> \in open'
      BY <1>2, <2>3, <3>1, <3>2, HandleChanges DEF InTurn
    <3> QED
      BY <3>3, <3>4
  <2> QED
    BY <1>2, <2>2, <2>3, TurnSteps DEF InTurn
<1>3. TurnsOnOpenHandle /\ UNCHANGED vars => TurnsOnOpenHandle'
  BY DEF TurnsOnOpenHandle, vars, handleVars, Handle, Session
<1> QED
  BY <1>1, <1>2, <1>3, TypesHold, OneTurnHolds, PTL DEF Spec

-------------------------------------------------------------------------------
(* The capability of a node is the one its task turn stored, from the start  *)
(* of the turn to its end, unless another @task turn replaced it.            *)

OwnCapability ==
  \A r \in Requests \ lost :
    Kind(r) = "task" /\ at[r] \notin {"new", "done"} => cap[Session(r)] = r

(* Only the start of a task turn and its end touch a capability, and only    *)
(* they and a shutdown leave their step alone.                               *)
LEMMA CapabilityChanges ==
  ASSUME Types, Next
  PROVE  \/ UNCHANGED <<cap, lost>>
         \/ \E q \in Requests : StartTurn(q) /\ Kind(q) = "task" /\ at'[q] = "look"
         \/ \E q \in Requests : ClearCapability(q) /\ at'[q] = "done"
<1>1. \A q \in Requests : StartTurn(q) =>
        UNCHANGED <<cap, lost>> \/ (Kind(q) = "task" /\ at'[q] = "look")
  BY DEF Types, PathType, StartTurn, Go, capVars
<1>2. \A q \in Requests : ClearCapability(q) => at'[q] = "done"
  BY DEF Types, PathType, ClearCapability, Go
<1>3. CASE ~ \E q \in Requests : StartTurn(q) \/ ClearCapability(q)
  BY <1>3, ZenonT(60) DEF Next, Progress, StopBegins, StopHandle, StopForgets, Exit, ClientStarts,
       ClientFails, ReleaseSlot, TakeSlot, LateIdle, ClientLeaves, StartResume,
       StartDetach, StartCreate, LookUp, Attach, CheckOwner, OpenHandle, NeedClient, WakeUp,
       BeginTurn, Send, TimeOut, AgentIdle, AbortFails, EndTurn, EnterDetach,
       Detach, FinishDetach, DeleteFiles, Unregister, LookForRow, Register, CreateHandle,
       RegisterOwner, CreateFails, UndoCreate, capVars
<1> QED
  BY <1>1, <1>2, <1>3

(* A task turn begins in StartTurn, and stays ended.                         *)
LEMMA TaskBegins ==
  ASSUME Types, Next, NEW r \in Requests, Kind(r) = "task", at[r] \in {"new", "done"},
         at'[r] \notin {"new", "done"}
  PROVE  StartTurn(r)
<1>1. ASSUME NEW q \in Requests, OneMoves(q) \/ TakeSlot(q), q # r
      PROVE  at'[r] = at[r]
  BY <1>1 DEF Types, PathType, OneMoves, TakeSlot, Go, StartTurn, StartResume,
       StartDetach, StartCreate, LookUp, Attach, CheckOwner, OpenHandle, NeedClient, WakeUp,
       BeginTurn, Send, TimeOut, AgentIdle, AbortFails, EndTurn, ClearCapability, EnterDetach,
       Detach, FinishDetach, DeleteFiles, Unregister, LookForRow, Register, CreateHandle,
       RegisterOwner, CreateFails, UndoCreate
<1>2. ASSUME OneMoves(r) \/ TakeSlot(r)
      PROVE  StartTurn(r)
  BY <1>2 DEF OneMoves, TakeSlot, StartResume, Detaches,
       StartDetach, StartCreate, LookUp, Attach, CheckOwner, OpenHandle, NeedClient, WakeUp,
       BeginTurn, Send, TimeOut, AgentIdle, AbortFails, EndTurn, ClearCapability, EnterDetach,
       Detach, FinishDetach, DeleteFiles, Unregister, LookForRow, Register, CreateHandle,
       RegisterOwner, CreateFails, UndoCreate
<1>3. ASSUME NEW q \in Requests, ReleaseSlot(q)
      PROVE  at'[r] = at[r]
  <2>1. waiters # <<>> => at[Head(waiters)] = "queued"
    BY DEF Types, WaitersType
  <2> QED
    BY <1>3, <2>1 DEF Types, PathType, ReleaseSlot, Go
<1>4. ASSUME NEW g \in startups, ClientStarts(g) \/ ClientFails(g)
      PROVE  at'[r] = at[r]
  BY <1>4 DEF ClientStarts, ClientFails, WakeCallers
<1>5. ASSUME \/ StopBegins \/ (\E s \in Sessions : StopHandle(s)) \/ StopForgets \/ Exit
             \/ \E q \in Requests : LateIdle(q) \/ ClientLeaves(q)
      PROVE  at'[r] = at[r]
  BY <1>5 DEF StopBegins, StopHandle, StopForgets, Exit, LateIdle, ClientLeaves
<1> QED
  BY <1>1, <1>2, <1>3, <1>4, <1>5 DEF Next, Progress, OneMoves

LEMMA OwnCapabilityNext ==
  ASSUME Types, OwnCapability, Next
  PROVE  OwnCapability'
<1>1. UNCHANGED work
  BY DEF Next, Alive
<1> SUFFICES ASSUME NEW r \in Requests \ lost', Kind(r) = "task", at'[r] \notin {"new", "done"}
             PROVE  cap'[Session(r)] = r
  BY <1>1 DEF OwnCapability, Kind, Session
<1>2. \A q \in Requests : Session(q) \in Sessions
  BY DEF Types, PathType, Workload, Session
<1>3. lost \subseteq lost'
  BY CapabilityChanges DEF StartTurn, ClearCapability
<1>4. CASE StartTurn(r)
  BY <1>2, <1>4 DEF StartTurn, Types, NodeType
<1>5. CASE ~StartTurn(r)
  <2>1. cap[Session(r)] = r
    BY <1>3, <1>5, TaskBegins DEF OwnCapability
  <2>2. ASSUME NEW q \in Requests, StartTurn(q), Kind(q) = "task"
        PROVE  cap'[Session(r)] = r
    <3>1. Session(q) = Session(r) => r \in lost'
      BY <1>5, <2>1, <2>2 DEF StartTurn
    <3> QED
      BY <1>2, <2>1, <2>2, <3>1 DEF StartTurn, Types, NodeType
  <2>3. ASSUME NEW q \in Requests, ClearCapability(q), at'[q] = "done"
        PROVE  cap'[Session(r)] = r
    BY <1>2, <2>1, <2>3 DEF ClearCapability, ClearsOwn, Types, NodeType
  <2> QED
    BY <2>1, <2>2, <2>3, CapabilityChanges
<1> QED
  BY <1>4, <1>5

(* The agent of a @task turn is granted only what its own node and the hard  *)
(* limit allow, as long as its capability was not replaced.                  *)
THEOREM TurnGetsItsOwnHolds == Spec => []TurnGetsItsOwn
<1>1. Init => OwnCapability
  BY DEF Init, OwnCapability
<1>2. UNCHANGED vars /\ OwnCapability => OwnCapability'
  BY DEF vars, capVars, OwnCapability, Kind, Session
<1>3. OwnCapability => TurnGetsItsOwn
  BY DEF OwnCapability, TurnGetsItsOwn, Granted, Tools, NeverMore
<1> QED
  BY <1>1, <1>2, <1>3, TypesHold, OwnCapabilityNext, PTL DEF Spec

-------------------------------------------------------------------------------
(* The table of handles, and the client.                                     *)

(* Who detaches goes on only by forgetting the handle.                       *)
LEMMA DetachingStays ==
  ASSUME Types, Next, NEW r \in Requests, at[r] = "detaching", ~FinishDetach(r)
  PROVE  at'[r] = "detaching"
<1>1. ASSUME NEW q \in Requests, OneMoves(q) \/ TakeSlot(q), q # r
      PROVE  at'[r] = at[r]
  BY <1>1 DEF Types, PathType, OneMoves, TakeSlot, Go, StartTurn, StartResume,
       StartDetach, StartCreate, LookUp, Attach, CheckOwner, OpenHandle, NeedClient, WakeUp,
       BeginTurn, Send, TimeOut, AgentIdle, AbortFails, EndTurn, ClearCapability, EnterDetach,
       Detach, FinishDetach, DeleteFiles, Unregister, LookForRow, Register, CreateHandle,
       RegisterOwner, CreateFails, UndoCreate
<1>2. ~OneMoves(r) /\ ~TakeSlot(r)
  BY DEF OneMoves, TakeSlot, StartTurn, StartResume,
       StartDetach, StartCreate, LookUp, Attach, CheckOwner, OpenHandle, NeedClient, WakeUp,
       BeginTurn, Send, TimeOut, AgentIdle, AbortFails, EndTurn, ClearCapability, EnterDetach,
       Detach, DeleteFiles, Unregister, LookForRow, Register, CreateHandle,
       RegisterOwner, CreateFails, UndoCreate
<1>3. ASSUME NEW q \in Requests, ReleaseSlot(q)
      PROVE  at'[r] = at[r]
  <2>1. waiters # <<>> => at[Head(waiters)] = "queued"
    BY DEF Types, WaitersType
  <2> QED
    BY <1>3, <2>1 DEF Types, PathType, ReleaseSlot, Go
<1>4. ASSUME NEW g \in startups, ClientStarts(g) \/ ClientFails(g)
      PROVE  at'[r] = at[r]
  BY <1>4 DEF ClientStarts, ClientFails, WakeCallers
<1>5. ASSUME \/ StopBegins \/ (\E s \in Sessions : StopHandle(s)) \/ StopForgets \/ Exit
             \/ \E q \in Requests : LateIdle(q) \/ ClientLeaves(q)
      PROVE  at'[r] = at[r]
  BY <1>5 DEF StopBegins, StopHandle, StopForgets, Exit, LateIdle, ClientLeaves
<1> QED
  BY <1>1, <1>2, <1>3, <1>4, <1>5 DEF Next, Progress, OneMoves

(* What is found under a session's id is a handle that can be used, unless   *)
(* the request that closes it is about to forget it.                         *)
THEOREM AttachedIsOpenHolds == Spec => []AttachedIsOpen
<1>1. Init => AttachedIsOpen
  BY DEF Init, AttachedIsOpen
<1>2. ASSUME Types, AttachedIsOpen, Next
      PROVE  AttachedIsOpen'
  <2>1. UNCHANGED work
    BY <1>2 DEF Next, Alive
  <2> SUFFICES ASSUME stop' = "no", NEW s \in Sessions, attached'[s] # None
               PROVE  \/ <<s, attached'[s]>> \in open'
                      \/ \E r \in Requests : at'[r] = "detaching" /\ Session(r) = s
    BY <2>1 DEF AttachedIsOpen, Session
  <2>2. \A q \in Requests : Session(q) \in Sessions
    BY <1>2 DEF Types, PathType, Workload, Session
  <2>3. stop = "no"
    BY <1>2, StopIsStop
  <2> USE DEF handleVars
  <2>4. ASSUME NEW q \in Requests, Detach(q)
        PROVE  \/ <<s, attached'[s]>> \in open'
               \/ \E r \in Requests : at'[r] = "detaching" /\ Session(r) = s
    <3>1. attached' = attached /\ (attached[Session(q)] # None => at'[q] = "detaching")
      BY <1>2, <2>4 DEF Detach, Go, Types, PathType
    <3>2. CASE Session(q) = s
      BY <2>2, <3>1, <3>2
    <3>3. CASE Session(q) # s
      <4>1. <<s, attached[s]>> \in open => <<s, attached[s]>> \in open'
        BY <2>4, <3>3 DEF Detach
      <4>2. \A r \in Requests : at[r] = "detaching" => at'[r] = "detaching"
        BY <1>2, <2>4 DEF Detach, Go, Types, PathType
      <4> QED
        BY <1>2, <2>3, <3>1, <4>1, <4>2 DEF AttachedIsOpen
    <3> QED
      BY <3>2, <3>3
  <2>5. ASSUME NEW q \in Requests, FinishDetach(q)
        PROVE  \/ <<s, attached'[s]>> \in open'
               \/ \E r \in Requests : at'[r] = "detaching" /\ Session(r) = s
    <3>1. open' = open /\ s # Session(q) /\ attached'[s] = attached[s]
      BY <1>2, <2>2, <2>5 DEF FinishDetach, ForgetsEntry, Types, HandleType
    <3>2. \A r \in Requests \ {q} : at'[r] = at[r]
      BY <1>2, <2>5 DEF FinishDetach, Go, Types, PathType
    <3> QED
      BY <1>2, <2>3, <3>1, <3>2 DEF AttachedIsOpen
  <2>6. CASE ~ \E q \in Requests : Detach(q) \/ FinishDetach(q)
    <3>1. /\ open \subseteq open'
          /\ attached'[s] = attached[s] \/ <<s, attached'[s]>> \in open'
      BY <1>2, <2>2, <2>6, ZenonT(60) DEF Types, HandleType, Next, Progress, StopBegins, StopHandle,
       StopForgets, Exit, ClientStarts,
       ClientFails, ReleaseSlot, TakeSlot, LateIdle, ClientLeaves, StartTurn, StartResume,
       StartDetach, StartCreate, LookUp, Attach, CheckOwner, OpenHandle, NeedClient, WakeUp,
       BeginTurn, Send, TimeOut, AgentIdle, AbortFails, EndTurn, ClearCapability, EnterDetach,
       DeleteFiles, Unregister, LookForRow, Register, CreateHandle,
       RegisterOwner, CreateFails, UndoCreate
    <3>2. \A r \in Requests : at[r] = "detaching" => at'[r] = "detaching"
      BY <1>2, <2>6, DetachingStays
    <3> QED
      BY <1>2, <2>3, <3>1, <3>2 DEF AttachedIsOpen
  <2> QED
    BY <2>4, <2>5, <2>6
<1>3. AttachedIsOpen /\ UNCHANGED vars => AttachedIsOpen'
  BY DEF AttachedIsOpen, vars, handleVars, Session
<1> QED
  BY <1>1, <1>2, <1>3, TypesHold, PTL DEF Spec

(* A client that was being started when the process was told to stop is not  *)
(* installed afterwards.                                                     *)
THEOREM ClientOfThisLifeHolds == Spec => []ClientOfThisLife
<1>1. Init => ClientOfThisLife
  BY DEF Init, ClientOfThisLife
<1>2. ClientOfThisLife /\ Next => ClientOfThisLife'
  <2>1. \A g \in startups : ClientStarts(g) =>
          gen' = gen /\ (client' = client \/ client' = gen)
    BY DEF ClientStarts, StaysCurrent
  <2>2. StopBegins => client' = None
    BY DEF StopBegins
  <2>3. CASE ~StopBegins /\ ~ \E g \in startups : ClientStarts(g)
    <3>1. Next => UNCHANGED <<client, gen>>
      BY <2>3, ZenonT(60) DEF Next, Progress, StopHandle,
       StopForgets, Exit,
       ClientFails, ReleaseSlot, TakeSlot, LateIdle, ClientLeaves, StartTurn, StartResume,
       StartDetach, StartCreate, LookUp, Attach, CheckOwner, OpenHandle, NeedClient, WakeUp,
       BeginTurn, Send, TimeOut, AgentIdle, AbortFails, EndTurn, ClearCapability, EnterDetach,
       Detach, FinishDetach, DeleteFiles, Unregister, LookForRow, Register, CreateHandle,
       RegisterOwner, CreateFails, UndoCreate, clientVars
    <3> QED
      BY <3>1 DEF ClientOfThisLife
  <2> QED
    BY <2>1, <2>2, <2>3 DEF ClientOfThisLife
<1>3. ClientOfThisLife /\ UNCHANGED vars => ClientOfThisLife'
  BY DEF ClientOfThisLife, vars, clientVars
<1> QED
  BY <1>1, <1>2, <1>3, PTL DEF Spec

-------------------------------------------------------------------------------
(* One handle of a session.  Whoever is about to open one holds the attach   *)
(* lock and found none; it finds none until it has opened it, because nobody *)
(* else can be that far, and because a handle that is being closed is still  *)
(* found until it is.                                                        *)

Opening == {"client", "starting", "open", "opening"}

(* The sessions that no request creates, or resumes without a lock.          *)
Plain(s) == \A r \in Requests : Kind(r) \in {"resume", "create"} => Session(r) # s

HandleOf(s) ==
  /\ \A e \in open : e[1] = s => e = <<s, attached[s]>>
  /\ \A r \in Requests :
       Session(r) = s /\ IsTurn(r) /\ at[r] \in Opening => attached[s] = None
  /\ \A r \in Requests :
       Session(r) = s /\ at[r] = "detaching" =>
         attached[s] # None /\ <<s, attached[s]>> \notin open

HandleInv ==
  stop \in {"no", "closing"} => \A s \in Sessions : Plain(s) => HandleOf(s)

(* How a turn comes to open a handle, and a request to close one.            *)
LEMMA OpeningSteps ==
  ASSUME Types, Next, NEW r \in Requests
  PROVE  /\ IsTurn(r) /\ at'[r] \in Opening =>
              at[r] \in Opening \/ attached[Session(r)] = None
         /\ at'[r] = "detaching" => at[r] = "detaching" \/ Detach(r)
<1> DEFINE Ways == /\ IsTurn(r) /\ at'[r] \in Opening =>
                        at[r] \in Opening \/ attached[Session(r)] = None
                   /\ at'[r] = "detaching" => at[r] = "detaching" \/ Detach(r)
<1>1. CASE StopBegins \/ (\E s \in Sessions : StopHandle(s)) \/ StopForgets \/ Exit
  BY <1>1 DEF StopBegins, StopHandle, StopForgets, Exit
<1>2. ASSUME NEW g \in startups, ClientStarts(g) \/ ClientFails(g)
      PROVE  at'[r] = at[r] \/ (at[r] = "starting" /\ at'[r] # "detaching")
  BY <1>2 DEF ClientStarts, ClientFails, WakeCallers, WithClient, WithoutClient, Failed
<1>3. ASSUME NEW q \in Requests, ReleaseSlot(q) \/ TakeSlot(q)
      PROVE  at'[r] = at[r] \/ at'[r] \notin Opening \cup {"detaching"}
  BY <1>3 DEF Types, PathType, ReleaseSlot, TakeSlot, Go, Failed, Opening
<1>4. ASSUME NEW q \in Requests, LateIdle(q) \/ ClientLeaves(q)
      PROVE  at'[r] \in {at[r], "ending"}
  BY <1>4 DEF LateIdle, ClientLeaves
<1>5. ASSUME NEW q \in Requests, OneMoves(q), q # r
      PROVE  at'[r] = at[r]
  BY <1>5 DEF Types, PathType, OneMoves, Go, StartTurn, StartResume,
       StartDetach, StartCreate, LookUp, Attach, CheckOwner, OpenHandle, NeedClient, WakeUp,
       BeginTurn, Send, TimeOut, AgentIdle, AbortFails, EndTurn, ClearCapability, EnterDetach,
       Detach, FinishDetach, DeleteFiles, Unregister, LookForRow, Register, CreateHandle,
       RegisterOwner, CreateFails, UndoCreate
<1>6. ASSUME OneMoves(r)
      PROVE  Ways
  <2>1. \A step : Go(r, step) => at'[r] = step
    BY DEF Types, PathType, Go
  <2>2. CASE Attach(r)
    BY <2>1, <2>2 DEF Attach, Opening
  <2>3. CASE StartResume(r) \/ StartCreate(r) \/ StartTurn(r) \/ StartDetach(r)
    BY <2>1, <2>3 DEF StartResume, StartCreate, StartTurn, StartDetach, IsTurn, TurnKinds, Opening
  <2>4. CASE LookUp(r) \/ WakeUp(r) \/ BeginTurn(r) \/ Send(r) \/ TimeOut(r) \/ AgentIdle(r)
             \/ AbortFails(r) \/ EndTurn(r)
    BY <2>1, <2>4 DEF LookUp, WakeUp, BeginTurn, Send, TimeOut, AgentIdle, AbortFails, EndTurn, Opening
  <2>5. CASE CheckOwner(r) \/ OpenHandle(r)
    BY <2>1, <2>5 DEF CheckOwner, OpenHandle, WithHandle, Failed, Opening
  <2>6. CASE NeedClient(r)
    BY <2>1, <2>6 DEF NeedClient, WithClient, Opening
  <2>7. CASE EnterDetach(r) \/ Detach(r) \/ FinishDetach(r) \/ DeleteFiles(r) \/ Unregister(r)
    BY <2>1, <2>7 DEF EnterDetach, Detach, FinishDetach, DeleteFiles, Unregister, IsTurn, TurnKinds,
       Opening
  <2>8. CASE LookForRow(r) \/ Register(r) \/ CreateHandle(r) \/ RegisterOwner(r) \/ CreateFails(r)
             \/ UndoCreate(r) \/ ClearCapability(r)
    BY <2>1, <2>8 DEF LookForRow, Register, CreateHandle, RegisterOwner, CreateFails, UndoCreate,
       ClearCapability, Opening
  <2> QED
    BY <1>6, <2>2, <2>3, <2>4, <2>5, <2>6, <2>7, <2>8 DEF OneMoves
<1>7. \/ StopBegins \/ (\E s \in Sessions : StopHandle(s)) \/ StopForgets \/ Exit
      \/ \E g \in startups : ClientStarts(g) \/ ClientFails(g)
      \/ \E q \in Requests : \/ OneMoves(q) \/ ReleaseSlot(q) \/ TakeSlot(q)
                             \/ LateIdle(q) \/ ClientLeaves(q)
  BY DEF Next, Progress, OneMoves
<1> QED
  BY <1>1, <1>2, <1>3, <1>4, <1>5, <1>6, <1>7 DEF Opening

(* What opens, closes and forgets handles.                                   *)
LEMMA HandleSteps ==
  ASSUME Next
  PROVE  \/ UNCHANGED <<open, attached>>
         \/ \E q \in Requests : \/ OpenHandle(q) \/ CreateHandle(q)
                                \/ Detach(q) \/ FinishDetach(q)
         \/ \E s \in Sessions : StopHandle(s)
         \/ StopForgets
<1> SUFFICES ASSUME ~ \E q \in Requests : \/ OpenHandle(q) \/ CreateHandle(q)
                                          \/ Detach(q) \/ FinishDetach(q),
                    ~ \E s \in Sessions : StopHandle(s), ~StopForgets
             PROVE  UNCHANGED <<open, attached>>
  OBVIOUS
<1> QED
  BY ZenonT(60) DEF Next, Progress, StopBegins,
       Exit, ClientStarts,
       ClientFails, ReleaseSlot, TakeSlot, LateIdle, ClientLeaves, StartTurn, StartResume,
       StartDetach, StartCreate, LookUp, Attach, CheckOwner, NeedClient, WakeUp,
       BeginTurn, Send, TimeOut, AgentIdle, AbortFails, EndTurn, ClearCapability, EnterDetach,
       DeleteFiles, Unregister, LookForRow, Register,
       RegisterOwner, CreateFails, UndoCreate, handleVars

(* A step that opens, closes and forgets none of the session's handles.       *)
LEMMA HandleStays ==
  ASSUME Types, Next, NEW s \in Sessions, HandleOf(s), attached'[s] = attached[s],
         \A e \in open' : e[1] = s => e \in open,
         \A q \in Requests : Detach(q) => Session(q) # s \/ attached[s] = None
  PROVE  HandleOf(s)'
<1>1. UNCHANGED work
  BY DEF Next, Alive
<1>2. \A e \in open' : e[1] = s => e = <<s, attached'[s]>>
  BY DEF HandleOf
<1>3. ASSUME NEW r \in Requests, Session(r) = s, IsTurn(r), at'[r] \in Opening
      PROVE  attached'[s] = None
  BY <1>3, OpeningSteps DEF HandleOf
<1>4. ASSUME NEW r \in Requests, Session(r) = s, at'[r] = "detaching"
      PROVE  attached'[s] # None /\ <<s, attached'[s]>> \notin open'
  <2>1. CASE at[r] = "detaching"
    BY <1>4, <2>1 DEF HandleOf
  <2>2. CASE Detach(r) /\ attached[s] = None
    <3>1. Go(r, "client") \/ Go(r, "done")
      BY <1>4, <2>2 DEF Detach
    <3> QED
      BY <1>4, <3>1 DEF Go, Types, PathType
  <2> QED
    BY <1>4, <2>1, <2>2, OpeningSteps
<1> QED
  BY <1>1, <1>2, <1>3, <1>4 DEF HandleOf, Session, IsTurn, Kind

LEMMA OpenHandleKeeps ==
  ASSUME Types, Next, Exclusive, stop \in {"no", "closing"}, NEW s \in Sessions, Plain(s),
         HandleOf(s), NEW q \in Requests, OpenHandle(q)
  PROVE  HandleOf(s)'
<1>1. UNCHANGED work
  BY DEF Next, Alive
<1>2. Session(q) \in Sessions /\ at[q] = "opening" /\ ~Detach(q)
  BY DEF Types, PathType, Workload, Session, OpenHandle, Detach
<1>3. CASE Session(q) # s \/ UNCHANGED handleVars
  <2>1. attached'[s] = attached[s] /\ \A e \in open' : e[1] = s => e \in open
    BY <1>2, <1>3 DEF OpenHandle, handleVars, Types, HandleType
  <2>2. ASSUME NEW p \in Requests, Detach(p)
        PROVE  FALSE
    <3>1. p # q /\ at[p] = "detach"
      BY <1>2, <2>2 DEF Detach
    <3>2. (\E step : Go(q, step)) /\ (Go(p, "detaching") \/ Go(p, "client") \/ Go(p, "done"))
      BY <2>2 DEF OpenHandle, Detach
    <3>3. at'[p] = at[p]
      BY <3>1, <3>2 DEF Go, Types, PathType
    <3> QED
      BY <3>1, <3>2, <3>3 DEF Go, Types, PathType
  <2> QED
    BY <2>1, <2>2, HandleStays
<1>4. CASE Session(q) = s /\ ~UNCHANGED handleVars
  <2> DEFINE h == made[s] + 1
  <2>1. /\ open' = open \cup {<<s, h>>} /\ attached' = [attached EXCEPT ![s] = h]
        /\ Go(q, WithHandle(q))
    BY <1>4 DEF OpenHandle
  <2>2. IsTurn(q)
    BY <1>2, <1>4 DEF Types, PathType, OnPath, Plain
  <2>3. attached[s] = None
    BY <1>2, <1>4, <2>2 DEF HandleOf, Opening
  <2>4. \A e \in open : e[1] # s
    BY <2>3 DEF HandleOf, Types, HandleType
  <2>5. h \in Nat
    BY DEF Types, HandleType
  <2>6. attached'[s] = h
    BY <2>1 DEF Types, HandleType
  <2>7. at'[q] = "slot" /\ \A r \in Requests \ {q} : at'[r] = at[r]
    BY <2>1, <2>2 DEF WithHandle, Go, Types, PathType
  <2>8. ASSUME NEW r \in Requests, Session(r) = s, IsTurn(r), at'[r] \in Opening
        PROVE  FALSE
    <3>1. r # q /\ at[r] \in Opening
      BY <2>7, <2>8 DEF Opening
    <3>2. Holds("attach", q) /\ Holds("attach", r)
      BY <1>2, <2>2, <2>8, <3>1 DEF Holds, In, Entry, Attaching, Opening
    <3> QED
      BY <1>4, <2>8, <3>1, <3>2 DEF Exclusive, Locks
  <2>9. ASSUME NEW r \in Requests, Session(r) = s, at'[r] = "detaching"
        PROVE  FALSE
    BY <2>3, <2>7, <2>9 DEF HandleOf
  <2>10. \A e \in open' : e[1] = s => e = <<s, attached'[s]>>
    BY <2>1, <2>4, <2>6
  <2> QED
    BY <1>1, <2>8, <2>9, <2>10 DEF HandleOf, Session, IsTurn, Kind
<1> QED
  BY <1>3, <1>4

LEMMA DetachKeeps ==
  ASSUME Types, Next, stop \in {"no", "closing"}, NEW s \in Sessions,
         HandleOf(s), NEW q \in Requests, Detach(q)
  PROVE  HandleOf(s)'
<1>1. UNCHANGED work
  BY DEF Next, Alive
<1>2. attached' = attached /\ at[q] = "detach" /\ open' \subseteq open
  BY DEF Detach
<1>3. \A r \in Requests \ {q} : at'[r] = at[r]
  BY DEF Detach, Go, Types, PathType
<1>4. CASE Session(q) # s \/ attached[s] = None
  <2>1. ASSUME NEW p \in Requests, Detach(p)
        PROVE  p = q
    <3>1. Go(p, "detaching") \/ Go(p, "client") \/ Go(p, "done")
      BY <2>1 DEF Detach
    <3>2. at'[p] # at[p]
      BY <2>1, <3>1 DEF Detach, Go, Types, PathType
    <3> QED
      BY <1>3, <3>2
  <2> QED
    BY <1>2, <1>4, <2>1, HandleStays
<1>5. CASE Session(q) = s /\ attached[s] # None
  <2>1. open' = open \ {<<s, attached[s]>>} /\ at'[q] = "detaching"
    BY <1>5 DEF Detach, Go, Types, PathType
  <2>2. \A r \in Requests : at'[r] \in Opening => at[r] \in Opening
    BY <1>3, <2>1 DEF Opening
  <2> QED
    BY <1>1, <1>2, <1>5, <2>1, <2>2 DEF HandleOf, Session, IsTurn, Kind
<1> QED
  BY <1>4, <1>5

(* Only one request at a time closes a handle, so none is found closed by     *)
(* another one when it is forgotten.                                         *)
LEMMA FinishDetachKeeps ==
  ASSUME Types, Next, Exclusive, stop \in {"no", "closing"}, NEW s \in Sessions,
         HandleOf(s), NEW q \in Requests, FinishDetach(q)
  PROVE  HandleOf(s)'
<1>1. UNCHANGED work
  BY DEF Next, Alive
<1>2. open' = open /\ at[q] = "detaching" /\ attached' = [attached EXCEPT ![Session(q)] = None]
  BY DEF FinishDetach, ForgetsEntry
<1>3. (\A r \in Requests \ {q} : at'[r] = at[r]) /\ at'[q] \in {"client", "done"}
  BY DEF FinishDetach, Go, Types, PathType
<1>4. CASE Session(q) # s
  <2>1. attached'[s] = attached[s]
    BY <1>2, <1>4 DEF Types, HandleType
  <2>2. \A r \in Requests : Session(r) = s => at'[r] = at[r]
    BY <1>3, <1>4
  <2> QED
    BY <1>1, <1>2, <2>1, <2>2 DEF HandleOf, Session, IsTurn, Kind
<1>5. CASE Session(q) = s
  <2>1. attached'[s] = None
    BY <1>2, <1>5 DEF Types, HandleType
  <2>2. \A e \in open : e[1] # s
    BY <1>2, <1>5 DEF HandleOf
  <2>3. ASSUME NEW r \in Requests, Session(r) = s, at'[r] = "detaching"
        PROVE  FALSE
    <3>1. r # q /\ at[r] = "detaching"
      BY <1>3, <2>3
    <3>2. Holds("session", q) /\ Holds("session", r)
      BY <1>2, <3>1 DEF Holds, In, Entry, Chained, InChain
    <3> QED
      BY <1>5, <2>3, <3>1, <3>2 DEF Exclusive, Locks
  <2> QED
    BY <1>1, <1>2, <2>1, <2>2, <2>3 DEF HandleOf, Session, IsTurn, Kind
<1> QED
  BY <1>4, <1>5

LEMMA HandleNext ==
  ASSUME Types, Exclusive, HandleInv, Next
  PROVE  HandleInv'
<1>1. UNCHANGED work
  BY DEF Next, Alive
<1>2. \A s : Plain(s)' <=> Plain(s)
  BY <1>1 DEF Plain, Kind, Session
<1> SUFFICES ASSUME stop' \in {"no", "closing"}, NEW s \in Sessions, Plain(s)
             PROVE  HandleOf(s)'
  BY <1>2 DEF HandleInv
<1>3. stop \in {"no", "closing"} /\ HandleOf(s)
  BY StopSteps DEF HandleInv
<1>4. ASSUME NEW q \in Requests, OpenHandle(q) \/ Detach(q) \/ FinishDetach(q)
      PROVE  HandleOf(s)'
  BY <1>3, <1>4, OpenHandleKeeps, DetachKeeps, FinishDetachKeeps
<1>5. CASE ~ \E q \in Requests : OpenHandle(q) \/ Detach(q) \/ FinishDetach(q)
  <2>1. ~StopForgets
    BY DEF StopForgets
  <2>2. attached'[s] = attached[s] /\ \A e \in open' : e[1] = s => e \in open
    <3>1. CASE UNCHANGED <<open, attached>>
      BY <3>1
    <3>2. ASSUME NEW p \in Sessions, StopHandle(p)
          PROVE  attached' = attached /\ open' \subseteq open
      BY <3>2 DEF StopHandle
    <3>3. ASSUME NEW q \in Requests, CreateHandle(q)
          PROVE  attached'[s] = attached[s] /\ \A e \in open' : e[1] = s => e \in open
      <4>1. Session(q) # s
        BY <3>3 DEF CreateHandle, Types, PathType, OnPath, Plain
      <4> QED
        BY <3>3, <4>1 DEF CreateHandle, Types, HandleType
    <3> QED
      BY <1>5, <2>1, <3>1, <3>2, <3>3, HandleSteps
  <2> QED
    BY <1>3, <1>5, <2>2, HandleStays
<1> QED
  BY <1>4, <1>5

(* A session is attached once, however many first uses, disconnects and      *)
(* deletions of it race (getOrResumeSession inside withAttachLock), if no    *)
(* request attaches it without the lock.                                     *)
THEOREM OneHandleHolds == Spec => []OneHandle
<1>1. Init => HandleInv
  BY DEF Init, HandleInv, HandleOf, Opening
<1>2. Types /\ Exclusive /\ HandleInv /\ [Next]_vars => HandleInv'
  <2>1. ASSUME HandleInv, UNCHANGED vars
        PROVE  HandleInv'
    <3>1. UNCHANGED <<work, at, attached, open, stop>>
      BY <2>1 DEF vars, handleVars
    <3> QED
      BY <2>1, <3>1 DEF HandleInv, HandleOf, Plain, Session, Kind, IsTurn
  <2> QED
    BY <2>1, HandleNext
<1>3. Types /\ HandleInv => OneHandle
  <2> SUFFICES ASSUME HandleInv, stop \in {"no", "closing"}, NEW s \in Sessions, Plain(s)
               PROVE  Cardinality({h \in open : h[1] = s}) <= 1
    BY DEF OneHandle, Plain
  <2> DEFINE one == {<<s, attached[s]>>}
             found1 == {h \in open : h[1] = s}
  <2>1. found1 \subseteq one
    BY DEF HandleInv, HandleOf
  <2>2. IsFiniteSet(one) /\ Cardinality(one) = 1
    BY FS_Singleton
  <2>3. IsFiniteSet(found1) /\ Cardinality(found1) <= Cardinality(one)
    BY <2>1, <2>2, FS_Subset
  <2> QED
    BY <2>2, <2>3
<1> QED
  BY <1>1, <1>2, <1>3, TypesHold, LocksExclude, PTL DEF Spec

-------------------------------------------------------------------------------
(* The slots.  A turn that was woken has the slot that was given back for it *)
(* promised: as long as none is taken past it, the turns that hold a slot    *)
(* and those that were woken are no more than the limit, and while a turn    *)
(* waits they are no fewer.                                                  *)

Woken == {r \in Requests : at[r] = "woken"}

SlotInv ==
  /\ active \in Int
  /\ waiters # <<>> => active + Cardinality(Woken) >= Limit
  /\ ~barged => active + Cardinality(Woken) <= Limit

LEMMA WokenIsFinite ==
  ASSUME IsFiniteSet(Requests)
  PROVE  IsFiniteSet(Woken) /\ Cardinality(Woken) \in Nat
<1>1. IsFiniteSet(Woken)
  BY FS_Subset DEF Woken
<1> QED  BY <1>1, FS_CardinalityType

(* Who moves from and to other places leaves the woken as they are.          *)
LEMMA WokenStay ==
  ASSUME Types, NEW r \in Requests, NEW step, Go(r, step), at[r] # "woken", step # "woken"
  PROVE  Woken' = Woken
BY DEF Woken, Go, Types, PathType

LEMMA SameSlots ==
  ASSUME SlotInv, UNCHANGED slotVars, Woken' = Woken
  PROVE  SlotInv'
BY DEF SlotInv, slotVars

LEMMA NotWoken ==
  ASSUME NEW r \in Requests
  PROVE  "woken" \notin {WithHandle(r), Failed(r), WithClient(r), WithoutClient(r)}
BY DEF WithHandle, Failed, WithClient, WithoutClient

LEMMA OneMovesSlots ==
  ASSUME Types, SlotInv, NEW r \in Requests, OneMoves(r), ~WakeUp(r)
  PROVE  SlotInv'
<1>1. UNCHANGED slotVars
  BY DEF OneMoves, StartTurn, StartResume, StartDetach, StartCreate, LookUp, Attach, CheckOwner,
     OpenHandle, NeedClient, BeginTurn, Send, TimeOut, AgentIdle, AbortFails, EndTurn,
     ClearCapability, EnterDetach, Detach, FinishDetach, DeleteFiles, Unregister, LookForRow,
     Register, CreateHandle, RegisterOwner, CreateFails, UndoCreate
<1>2. at[r] # "woken" /\ \E step : Go(r, step) /\ step # "woken"
  BY NotWoken DEF OneMoves, StartTurn, StartResume, StartDetach, StartCreate, LookUp, Attach,
     CheckOwner, OpenHandle, NeedClient, BeginTurn, Send, TimeOut, AgentIdle, AbortFails, EndTurn,
     ClearCapability, EnterDetach, Detach, FinishDetach, DeleteFiles, Unregister, LookForRow,
     Register, CreateHandle, RegisterOwner, CreateFails, UndoCreate, Attaching
<1> QED  BY <1>1, <1>2, WokenStay, SameSlots

LEMMA TakeSlotSlots ==
  ASSUME Types, SlotInv, IsFiniteSet(Requests), NEW r \in Requests, TakeSlot(r)
  PROVE  SlotInv'
<1>1. Cardinality(Woken) \in Nat /\ Limit \in Nat
  BY WokenIsFinite, LimitAssumption DEF LimitAssumption
<1>2. Woken' = Woken
  BY WokenStay DEF TakeSlot
<1>3. CASE SlotIsFree
  <2>1. active' = active + 1 /\ waiters' = waiters /\ active < Limit
    BY <1>3 DEF TakeSlot, SlotIsFree
  <2>2. ~barged' => Woken = {} /\ ~barged
    BY <1>3 DEF TakeSlot, Woken
  <2>3. Cardinality({}) = 0
    BY FS_EmptySet
  <2>4. active' \in Int /\ (waiters' # <<>> => active' + Cardinality(Woken) >= Limit)
    BY <1>1, <2>1 DEF SlotInv
  <2>5. ~barged' => active' + Cardinality(Woken) <= Limit
    <3>1. ~barged' => Cardinality(Woken) = 0
      BY <2>2, <2>3
    <3>2. active + 1 <= Limit
      BY <1>1, <2>1 DEF SlotInv
    <3>3. Cardinality(Woken) = 0 => active' + Cardinality(Woken) <= Limit
      BY <1>1, <2>1, <3>2
    <3> QED  BY <3>1, <3>3
  <2> QED  BY <1>2, <2>4, <2>5 DEF SlotInv
<1>4. CASE ~SlotIsFree
  <2>1. UNCHANGED <<active, barged>> /\ ~(active < Limit)
    BY <1>4 DEF TakeSlot, SlotIsFree
  <2>2. active + Cardinality(Woken) >= Limit
    BY <1>1, <2>1 DEF SlotInv
  <2> QED  BY <1>2, <2>1, <2>2 DEF SlotInv
<1> QED  BY <1>3, <1>4

LEMMA WakeUpSlots ==
  ASSUME Types, SlotInv, IsFiniteSet(Requests), NEW r \in Requests, WakeUp(r)
  PROVE  SlotInv'
<1>1. Cardinality(Woken) \in Nat /\ Limit \in Nat /\ IsFiniteSet(Woken)
  BY WokenIsFinite, LimitAssumption DEF LimitAssumption
<1>2. r \in Woken /\ Woken' = Woken \ {r}
  BY DEF WakeUp, Go, Woken, Types, PathType
<1>3. Cardinality(Woken') = Cardinality(Woken) - 1
  BY <1>1, <1>2, FS_RemoveElement
<1>4. active' = active + 1 /\ UNCHANGED <<waiters, barged>>
  BY DEF WakeUp
<1> QED  BY <1>1, <1>3, <1>4 DEF SlotInv

LEMMA ReleaseSlots ==
  ASSUME Types, SlotInv, IsFiniteSet(Requests), NEW r \in Requests, ReleaseSlot(r)
  PROVE  SlotInv'
<1>1. Cardinality(Woken) \in Nat /\ Limit \in Nat /\ IsFiniteSet(Woken)
  BY WokenIsFinite, LimitAssumption DEF LimitAssumption
<1>2. active' = active - 1 /\ barged' = barged
  BY DEF ReleaseSlot
<1>3. CASE waiters = <<>>
  <2>1. Woken' = Woken /\ waiters' = <<>>
    BY <1>3, WokenStay, NotWoken DEF ReleaseSlot
  <2> QED  BY <1>1, <1>2, <2>1 DEF SlotInv
<1>4. CASE waiters # <<>>
  <2> DEFINE h == Head(waiters)
  <2>1. h \in Requests /\ at[h] = "queued" /\ at[r] = "release"
    <3>1. h = waiters[1] /\ 1 \in 1 .. Len(waiters)
      BY <1>4 DEF Types, WaitersType
    <3> QED  BY <3>1 DEF Types, WaitersType, ReleaseSlot
  <2>2. at' = [at EXCEPT ![r] = Failed(r), ![h] = "woken"]
    BY <1>4 DEF ReleaseSlot
  <2>3. h \notin Woken /\ Woken' = Woken \cup {h}
    BY <2>1, <2>2, NotWoken DEF Woken, Types, PathType
  <2>4. Cardinality(Woken') = Cardinality(Woken) + 1
    BY <1>1, <2>3, FS_AddElement
  <2> QED  BY <1>1, <1>2, <1>4, <2>4 DEF SlotInv
<1> QED  BY <1>3, <1>4

LEMMA OtherSlots ==
  ASSUME Types, SlotInv,
         \/ StopBegins \/ (\E s \in Sessions : StopHandle(s)) \/ StopForgets \/ Exit
         \/ (\E r \in Requests : LateIdle(r) \/ ClientLeaves(r))
         \/ (\E g \in startups : ClientStarts(g) \/ ClientFails(g))
  PROVE  SlotInv'
<1>1. UNCHANGED slotVars
  BY DEF StopBegins, StopHandle, StopForgets, Exit, LateIdle, ClientLeaves, ClientStarts, ClientFails
<1>2. CASE StopBegins \/ (\E s \in Sessions : StopHandle(s)) \/ StopForgets \/ Exit
           \/ \E r \in Requests : LateIdle(r)
  <2>1. UNCHANGED at
    BY <1>2 DEF StopBegins, StopHandle, StopForgets, Exit, LateIdle
  <2> QED  BY <1>1, <2>1, SameSlots DEF Woken
<1>3. ASSUME NEW r \in Requests, ClientLeaves(r)
      PROVE  Woken' = Woken
  BY <1>3 DEF ClientLeaves, Woken
<1>4. ASSUME NEW g \in startups, ClientStarts(g) \/ ClientFails(g)
      PROVE  Woken' = Woken
  <2>1. WakeCallers(g, WithClient) \/ WakeCallers(g, WithoutClient)
    BY <1>4 DEF ClientStarts, ClientFails
  <2> QED  BY <2>1, NotWoken DEF WakeCallers, Woken
<1> QED  BY <1>1, <1>2, <1>3, <1>4, SameSlots

(* The turns share the slots: there are no more of them than slots, unless   *)
(* one took a slot promised to another, and none waits while a slot is       *)
(* neither taken nor promised (concurrency.ts), however turns end.           *)
THEOREM SlotsAreSharedHolds ==
  ASSUME IsFiniteSet(Requests)
  PROVE  Spec => []SlotsAreShared
<1>1. Init => SlotInv
  <2> SUFFICES ASSUME Init PROVE SlotInv
    OBVIOUS
  <2>1. Woken = {} /\ Cardinality({}) = 0
    BY FS_EmptySet DEF Init, Woken
  <2> QED  BY <2>1, LimitAssumption DEF Init, SlotInv, LimitAssumption
<1>2. Types /\ SlotInv /\ [Next]_vars => SlotInv'
  <2> SUFFICES ASSUME Types, SlotInv, [Next]_vars
               PROVE  SlotInv'
    OBVIOUS
  <2>1. CASE UNCHANGED vars
    BY <2>1, SameSlots DEF vars, Woken
  <2>2. ASSUME NEW r \in Requests,
               \/ StartTurn(r) \/ StartResume(r) \/ StartDetach(r) \/ StartCreate(r)
               \/ Progress(r) \/ AgentIdle(r)
        PROVE  SlotInv'
    BY <2>2, OneMovesSlots, TakeSlotSlots, WakeUpSlots, ReleaseSlots DEF Progress, OneMoves
  <2> QED  BY <2>1, <2>2, OtherSlots DEF Next
<1>3. SlotInv => SlotsAreShared
  <2> SUFFICES ASSUME SlotInv PROVE SlotsAreShared
    OBVIOUS
  <2>1. Cardinality(Woken) \in Nat /\ Limit \in Nat
    BY WokenIsFinite, LimitAssumption DEF LimitAssumption
  <2> QED  BY <2>1 DEF SlotInv, SlotsAreShared, AtMostLimit, NoIdleSlot, Woken
<1> QED  BY <1>1, <1>2, <1>3, TypesHold, PTL DEF Spec

-------------------------------------------------------------------------------
(* The records.  Who has a record, or has just made one, finds it there, but *)
(* for a deletion or for a creation that found nothing and rolled it back.   *)

Creating == {"existing", "register", "creating", "registrar", "undo"}

RemovesRow(r) ==
  \E q \in Requests \ {r} : Session(q) = Session(r) /\
    (Kind(q) = "delete" \/ (Kind(q) = "create" /\ q \notin found /\ at[q] \in {"undo", "done"}))

RecordInv ==
  /\ created \subseteq Requests
  /\ \A r \in Requests :
      /\ at[r] \in Creating => Kind(r) = "create"
      /\ at[r] = "unregister" \/ at[r] = "deleting" => Kind(r) = "delete"
      /\ at[r] = "undo" => r \notin found
      /\ r \in created => at[r] = "done" /\ Kind(r) = "create"
      /\ at[r] \in {"creating", "registrar"} \/ r \in created => row[Session(r)] \/ RemovesRow(r)

RowType == row \in [Sessions -> BOOLEAN]

(* A request moves on outside of what concerns the records.                  *)
MovesElsewhere(q) ==
  \/ at'[q] = at[q]
  \/ /\ at[q] \notin Creating \cup {"done"}
     /\ \/ at'[q] \notin Creating \cup {"unregister", "deleting"}
        \/ at'[q] = "existing" /\ Kind(q) = "create"
        \/ at'[q] = "deleting" /\ Kind(q) = "delete"

LEMMA RemovalStays ==
  ASSUME UNCHANGED work, NEW r \in Requests, RemovesRow(r),
         \A q \in Requests : at[q] \in {"undo", "done"} =>
           at'[q] \in {"undo", "done"} /\ (q \notin found => q \notin found')
  PROVE  RemovesRow(r)'
BY DEF RemovesRow, Session, Kind

LEMMA ElsewhereKeepsRecords ==
  ASSUME RecordInv, UNCHANGED <<work, found, created>>, \A q \in Requests : MovesElsewhere(q),
         \A s \in Sessions : row[s] => row'[s], \A q \in Requests : Session(q) \in Sessions
  PROVE  RecordInv'
<1>0. created' \subseteq Requests
  BY DEF RecordInv
<1> SUFFICES ASSUME NEW r \in Requests
             PROVE  /\ at'[r] \in Creating => Kind(r) = "create"
                    /\ at'[r] = "unregister" \/ at'[r] = "deleting" => Kind(r) = "delete"
                    /\ at'[r] = "undo" => r \notin found
                    /\ r \in created => at'[r] = "done" /\ Kind(r) = "create"
                    /\ at'[r] \in {"creating", "registrar"} \/ r \in created =>
                         row'[Session(r)] \/ RemovesRow(r)'
  BY <1>0 DEF RecordInv, Kind, Session
<1>1. \A q \in Requests : at[q] \in {"undo", "done"} => at'[q] \in {"undo", "done"}
  BY DEF MovesElsewhere, Creating
<1>2. RemovesRow(r) => RemovesRow(r)'
  BY <1>1, RemovalStays
<1>3. MovesElsewhere(r)
  OBVIOUS
<1>4. CASE at'[r] = at[r]
  BY <1>2, <1>4 DEF RecordInv
<1>5. CASE at'[r] # at[r]
  BY <1>3, <1>5 DEF RecordInv, MovesElsewhere, Creating
<1> QED  BY <1>4, <1>5

(* A request makes, or removes, a record: where it goes.                     *)
LEMMA MakerMoves ==
  ASSUME Types, NEW r \in Requests, NEW step, Go(r, step)
  PROVE  at'[r] = step /\ \A q \in Requests \ {r} : at'[q] = at[q]
BY DEF Types, PathType, Go

Makes(r) ==
  \/ LookForRow(r) \/ Register(r) \/ CreateHandle(r) \/ RegisterOwner(r) \/ CreateFails(r)
  \/ UndoCreate(r) \/ DeleteFiles(r) \/ Unregister(r)

LEMMA MakesRecords ==
  ASSUME Types, RowType, RecordInv, UNCHANGED work, NEW r \in Requests, Makes(r)
  PROVE  RecordInv'
<1> USE DEF diskVars, createVars
<1>0. \A q \in Requests : Session(q) \in Sessions /\ (Kind(q) = Kind(q)') /\ (Session(q) = Session(q)')
  BY DEF Types, PathType, Workload, Session, Kind
<1>1. \A q \in Requests \ {r} : at'[q] = at[q]
  BY MakerMoves DEF Makes, LookForRow, Register, CreateHandle, RegisterOwner, CreateFails,
     UndoCreate, DeleteFiles, Unregister
<1>2. at[r] \in Creating \cup {"deleting", "unregister"} /\ at'[r] \in Creating \cup {"unregister", "done"}
  BY MakerMoves DEF Makes, LookForRow, Register, CreateHandle, RegisterOwner, CreateFails,
     UndoCreate, DeleteFiles, Unregister, Creating
<1>3. Kind(r) = IF at[r] \in Creating THEN "create" ELSE "delete"
  BY <1>2 DEF RecordInv
<1>4. /\ at'[r] \in Creating => at[r] \in Creating
      /\ at'[r] = "unregister" => at[r] = "deleting"
  BY MakerMoves DEF Makes, LookForRow, Register, CreateHandle, RegisterOwner, CreateFails,
     UndoCreate, DeleteFiles, Unregister, Creating
<1>5. /\ found' = found \/ (at[r] = "existing" /\ found' \in {found, found \cup {r}})
      /\ created' = created \/ (at[r] = "registrar" /\ at'[r] = "done" /\ created' = created \cup {r})
      /\ at'[r] = "undo" => r \notin found'
  BY MakerMoves DEF Makes, LookForRow, Register, CreateHandle, RegisterOwner, CreateFails,
     UndoCreate, DeleteFiles, Unregister, RollsBack
<1>6. \A q \in Requests : RemovesRow(q) => RemovesRow(q)'
  <2>1. \A q \in Requests : at[q] \in {"undo", "done"} =>
           at'[q] \in {"undo", "done"} /\ (q \notin found => q \notin found')
    <3>1. at[r] = "undo" => at'[r] = "done"
      BY MakerMoves DEF Makes, LookForRow, Register, CreateHandle, RegisterOwner, CreateFails,
         UndoCreate, DeleteFiles, Unregister
    <3>2. at[r] # "done"
      BY <1>2 DEF Creating
    <3> QED  BY <1>1, <1>5, <3>1, <3>2
  <2> QED  BY <2>1, RemovalStays
<1>7. ASSUME NEW q \in Requests,
             at'[q] \in {"creating", "registrar"} \/ q \in created'
      PROVE  row'[Session(q)] \/ RemovesRow(q)'
  <2>1. CASE q = r /\ Register(r)
    BY <1>0, <2>1 DEF Register, Claim, RowType
  <2>2. CASE ~(q = r /\ Register(r))
    <3>1. at[q] \in {"creating", "registrar"} \/ q \in created
      <4>1. CASE q = r
        <5>1. at'[r] = "creating" => Register(r)
          BY MakerMoves DEF Makes, LookForRow, CreateHandle, RegisterOwner, CreateFails,
             UndoCreate, DeleteFiles, Unregister
        <5>2. at'[r] = "registrar" => at[r] = "creating"
          BY MakerMoves DEF Makes, LookForRow, Register, CreateHandle, RegisterOwner, CreateFails,
             UndoCreate, DeleteFiles, Unregister
        <5> QED  BY <1>5, <1>7, <2>2, <4>1, <5>1, <5>2
      <4>2. CASE q # r
        BY <1>1, <1>5, <1>7, <4>2
      <4> QED  BY <4>1, <4>2
    <3>2. row[Session(q)] \/ RemovesRow(q)
      BY <3>1 DEF RecordInv
    <3>3. CASE RemovesRow(q)
      BY <1>6, <3>3
    <3>4. CASE row[Session(q)] /\ ~(Unregister(r) \/ UndoCreate(r))
      <4>1. row' = row \/ row' = [row EXCEPT ![Session(r)] = TRUE]
        BY <3>4 DEF Makes, LookForRow, Register, CreateHandle, RegisterOwner, CreateFails,
           DeleteFiles, Claim
      <4> QED  BY <1>0, <3>4, <4>1 DEF RowType
    <3>5. CASE row[Session(q)] /\ (Unregister(r) \/ UndoCreate(r))
      <4>1. row' = [row EXCEPT ![Session(r)] = FALSE] /\ at'[r] = "done" /\ found' = found
            /\ at[r] \in {"unregister", "undo"}
        BY <3>5, MakerMoves DEF Unregister, UndoCreate
      <4>2. q # r
        BY <3>1, <4>1 DEF RecordInv
      <4>3. CASE Session(q) = Session(r)
        <5>1. Kind(r) = "delete" \/ (Kind(r) = "create" /\ r \notin found')
          BY <4>1 DEF RecordInv, Creating
        <5> QED  BY <1>0, <4>1, <4>2, <4>3, <5>1 DEF RemovesRow
      <4>4. CASE Session(q) # Session(r)
        BY <1>0, <3>5, <4>1, <4>4 DEF RowType
      <4> QED  BY <4>3, <4>4
    <3> QED  BY <3>2, <3>3, <3>4, <3>5
  <2> QED  BY <2>1, <2>2
<1>8. ASSUME NEW q \in Requests
      PROVE  /\ at'[q] \in Creating => Kind(q) = "create"
             /\ at'[q] = "unregister" \/ at'[q] = "deleting" => Kind(q) = "delete"
             /\ at'[q] = "undo" => q \notin found'
             /\ q \in created' => at'[q] = "done" /\ Kind(q) = "create"
  <2>1. CASE q = r
    <3>1. r \in created => FALSE
      BY <1>2 DEF RecordInv, Creating
    <3>2. r \in created' => at'[r] = "done" /\ Kind(r) = "create"
      BY <1>3, <1>5, <3>1 DEF Creating
    <3>3. /\ at'[r] \in Creating => Kind(r) = "create"
          /\ at'[r] = "unregister" \/ at'[r] = "deleting" => Kind(r) = "delete"
      BY <1>2, <1>3, <1>4 DEF Creating
    <3> QED  BY <1>5, <2>1, <3>2, <3>3
  <2>2. CASE q # r
    BY <1>1, <1>5, <2>2 DEF RecordInv
  <2> QED  BY <2>1, <2>2
<1>9. created' \subseteq Requests
  BY <1>5 DEF RecordInv
<1> QED  BY <1>0, <1>7, <1>8, <1>9 DEF RecordInv

LEMMA WhereTo ==
  ASSUME NEW r \in Requests
  PROVE  /\ {WithHandle(r), Failed(r), WithoutClient(r)} \cap (Creating \cup {"unregister", "deleting"}) = {}
         /\ \/ WithClient(r) \notin Creating \cup {"unregister", "deleting"}
            \/ WithClient(r) = "existing" /\ Kind(r) = "create"
            \/ WithClient(r) = "deleting" /\ Kind(r) = "delete"
<1>1. {WithHandle(r), Failed(r), WithoutClient(r)} \cap (Creating \cup {"unregister", "deleting"}) = {}
  BY DEF WithHandle, Failed, WithoutClient, Creating
<1>2. \/ WithClient(r) \in {"done", "open"}
      \/ WithClient(r) = "existing" /\ Kind(r) = "create"
      \/ WithClient(r) = "deleting" /\ Kind(r) = "delete"
  BY DEF WithClient
<1> QED  BY <1>1, <1>2 DEF Creating

(* The actions that make and remove no record.                               *)
Passes(r) ==
  \/ StartTurn(r) \/ StartResume(r) \/ StartDetach(r) \/ StartCreate(r)
  \/ LookUp(r) \/ Attach(r) \/ CheckOwner(r) \/ OpenHandle(r) \/ NeedClient(r)
  \/ WakeUp(r) \/ BeginTurn(r) \/ Send(r) \/ TimeOut(r) \/ AgentIdle(r)
  \/ AbortFails(r) \/ EndTurn(r) \/ ClearCapability(r)
  \/ EnterDetach(r) \/ Detach(r) \/ FinishDetach(r) \/ TakeSlot(r)

LEMMA PassesElsewhere ==
  ASSUME Types, RowType, NEW r \in Requests, Passes(r), Session(r) \in Sessions
  PROVE  /\ UNCHANGED <<found, created>> /\ RowType'
         /\ \A s \in Sessions : row[s] => row'[s]
         /\ \A q \in Requests : MovesElsewhere(q)
<1> USE DEF diskVars, createVars
<1>1. UNCHANGED <<found, created>> /\ (row' = row \/ row' = [row EXCEPT ![Session(r)] = TRUE])
  BY DEF Passes, StartTurn, StartResume, StartDetach, StartCreate, LookUp, Attach, CheckOwner,
     OpenHandle, NeedClient, WakeUp, BeginTurn, Send, TimeOut, AgentIdle, AbortFails, EndTurn,
     ClearCapability, EnterDetach, Detach, FinishDetach, TakeSlot, Claim
<1>2. RowType' /\ \A s \in Sessions : row[s] => row'[s]
  BY <1>1 DEF RowType
<1>3. at[r] \notin Creating \cup {"done"}
  BY DEF Passes, StartTurn, StartResume, StartDetach, StartCreate, LookUp, Attach, CheckOwner,
     OpenHandle, NeedClient, WakeUp, BeginTurn, Send, TimeOut, AgentIdle, AbortFails, EndTurn,
     ClearCapability, EnterDetach, Detach, FinishDetach, TakeSlot, Creating
<1>4. CASE NeedClient(r)
  <2>1. Go(r, WithClient(r)) \/ Go(r, "starting")
    BY <1>4 DEF NeedClient
  <2>2. at'[r] \in {WithClient(r), "starting"} /\ \A q \in Requests \ {r} : at'[q] = at[q]
    BY <2>1, MakerMoves
  <2>3. MovesElsewhere(r)
    BY <1>3, <2>2, WhereTo DEF MovesElsewhere, Creating
  <2> QED  BY <1>1, <1>2, <2>2, <2>3 DEF MovesElsewhere
<1>5. CASE ~NeedClient(r)
  <2> DEFINE Ways ==
        {"look", "client", "lock", "slot", "owned", "reowned", "attach", "opening", "queued",
         "sending", "running", "ending", "aborting", "release", "clear", "detach", "detaching",
         "done", WithHandle(r), Failed(r)}
  <2>1. Ways \cap (Creating \cup {"unregister", "deleting"}) = {}
    BY WhereTo DEF Creating
  <2>3. ASSUME NEW step \in Ways, Go(r, step)
        PROVE  at'[r] \in Ways /\ \A q \in Requests \ {r} : at'[q] = at[q]
    BY <2>3, MakerMoves
  <2> HIDE DEF Ways
  <2>4. /\ WithHandle(r) \in Ways /\ Failed(r) \in Ways
        /\ \A step \in {"look", "client", "lock", "slot", "owned", "reowned", "attach",
                         "opening", "queued", "sending", "running", "ending", "aborting",
                         "release", "clear", "detach", "detaching", "done"} : step \in Ways
    BY DEF Ways
  <2>5. at'[r] \in Ways /\ \A q \in Requests \ {r} : at'[q] = at[q]
    <3>1. CASE StartTurn(r) \/ StartResume(r) \/ StartDetach(r) \/ StartCreate(r) \/ LookUp(r)
               \/ Attach(r)
      BY <2>3, <2>4, <3>1 DEF StartTurn, StartResume, StartDetach, StartCreate, LookUp, Attach
    <3>2. CASE CheckOwner(r)
      BY <2>3, <2>4, <3>2 DEF CheckOwner
    <3>3. CASE OpenHandle(r)
      BY <2>3, <2>4, <3>3 DEF OpenHandle
    <3>4. CASE \/ WakeUp(r) \/ BeginTurn(r) \/ Send(r) \/ TimeOut(r) \/ AgentIdle(r)
               \/ AbortFails(r) \/ EndTurn(r) \/ ClearCapability(r) \/ TakeSlot(r)
      BY <2>3, <2>4, <3>4 DEF WakeUp, BeginTurn, Send, TimeOut, AgentIdle, AbortFails, EndTurn,
         ClearCapability, TakeSlot
    <3>5. CASE EnterDetach(r) \/ Detach(r) \/ FinishDetach(r)
      BY <2>3, <2>4, <3>5 DEF EnterDetach, Detach, FinishDetach
    <3> QED  BY <1>5, <3>1, <3>2, <3>3, <3>4, <3>5 DEF Passes
  <2>2. at'[r] \notin Creating \cup {"unregister", "deleting"} /\ \A q \in Requests \ {r} : at'[q] = at[q]
    BY <2>1, <2>5
  <2> QED  BY <1>1, <1>2, <1>3, <2>2 DEF MovesElsewhere
<1> QED  BY <1>4, <1>5

LEMMA ReleasesElsewhere ==
  ASSUME Types, NEW r \in Requests, ReleaseSlot(r)
  PROVE  UNCHANGED diskVars /\ \A q \in Requests : MovesElsewhere(q)
<1>1. CASE waiters = <<>>
  BY <1>1, MakerMoves, WhereTo DEF ReleaseSlot, MovesElsewhere, Creating
<1>2. CASE waiters # <<>>
  <2> DEFINE h == Head(waiters)
  <2>1. h = waiters[1] /\ 1 \in 1 .. Len(waiters)
    BY <1>2 DEF Types, WaitersType
  <2>2. h \in Requests /\ at[h] = "queued" /\ at[r] = "release"
    BY <2>1 DEF Types, WaitersType, ReleaseSlot
  <2>3. at' = [at EXCEPT ![r] = Failed(r), ![h] = "woken"]
    BY <1>2 DEF ReleaseSlot
  <2>4. /\ at'[h] = "woken" /\ at'[r] = Failed(r)
        /\ \A q \in Requests \ {r, h} : at'[q] = at[q]
    BY <2>2, <2>3 DEF Types, PathType
  <2> QED  BY <2>2, <2>4, WhereTo DEF ReleaseSlot, MovesElsewhere, Creating
<1> QED  BY <1>1, <1>2

LEMMA OthersElsewhere ==
  ASSUME Types,
         \/ StopBegins \/ (\E s \in Sessions : StopHandle(s)) \/ StopForgets \/ Exit
         \/ (\E r \in Requests : LateIdle(r) \/ ClientLeaves(r))
         \/ (\E g \in startups : ClientStarts(g) \/ ClientFails(g))
  PROVE  UNCHANGED diskVars /\ \A q \in Requests : MovesElsewhere(q)
<1>1. UNCHANGED diskVars
  BY DEF StopBegins, StopHandle, StopForgets, Exit, LateIdle, ClientLeaves, ClientStarts, ClientFails
<1>2. CASE StopBegins \/ (\E s \in Sessions : StopHandle(s)) \/ StopForgets \/ Exit
           \/ \E r \in Requests : LateIdle(r)
  <2>1. UNCHANGED at
    BY <1>2 DEF StopBegins, StopHandle, StopForgets, Exit, LateIdle
  <2> QED  BY <1>1, <2>1 DEF MovesElsewhere
<1>3. ASSUME NEW r \in Requests, ClientLeaves(r), NEW q \in Requests
      PROVE  MovesElsewhere(q)
  <2>1. at'[q] = at[q] \/ (at[q] \in {"running", "aborting"} /\ at'[q] = "ending")
    BY <1>3 DEF ClientLeaves
  <2> QED  BY <2>1 DEF MovesElsewhere, Creating
<1>4. ASSUME NEW g \in startups, ClientStarts(g) \/ ClientFails(g), NEW q \in Requests
      PROVE  MovesElsewhere(q)
  <2>1. WakeCallers(g, WithClient) \/ WakeCallers(g, WithoutClient)
    BY <1>4 DEF ClientStarts, ClientFails
  <2>2. at'[q] = at[q] \/ (at[q] = "starting" /\ at'[q] \in {WithClient(q), WithoutClient(q)})
    BY <2>1 DEF WakeCallers
  <2> QED  BY <2>2, WhereTo DEF MovesElsewhere, Creating
<1> QED  BY <1>1, <1>2, <1>3, <1>4

(* The record of a session whose creation succeeded stays until the session  *)
(* is deleted: a creation that is repeated and fails rolls back only what it *)
(* made itself (createSession), unless both found nothing.                   *)
THEOREM CreatedStaysOnRecordHolds == Spec => []CreatedStaysOnRecord
<1>1. Init => RowType /\ RecordInv
  BY WorkloadAssumption DEF Init, RowType, RecordInv, Creating, WorkloadAssumption, Workload
<1>2. Types /\ RowType /\ RecordInv /\ [Next]_vars => RowType' /\ RecordInv'
  <2> SUFFICES ASSUME Types, RowType, RecordInv, [Next]_vars
               PROVE  RowType' /\ RecordInv'
    OBVIOUS
  <2>0. \A q \in Requests : Session(q) \in Sessions
    BY DEF Types, PathType, Workload, Session
  <2>1. CASE UNCHANGED vars
    <3>1. UNCHANGED <<work, found, created, row, at>>
      BY <2>1 DEF vars, diskVars, createVars
    <3>2. \A q \in Requests : MovesElsewhere(q)
      BY <3>1 DEF MovesElsewhere
    <3> QED  BY <2>0, <3>1, <3>2, ElsewhereKeepsRecords DEF RowType
  <2>2. CASE Next
    <3>1. UNCHANGED work
      BY <2>2 DEF Next, Alive
    <3>2. ASSUME NEW r \in Requests, Passes(r)
          PROVE  RowType' /\ RecordInv'
      BY <2>0, <3>1, <3>2, PassesElsewhere, ElsewhereKeepsRecords
    <3>3. ASSUME NEW r \in Requests, Makes(r)
          PROVE  RowType' /\ RecordInv'
      <4>1. row' = row \/ \E v \in BOOLEAN : row' = [row EXCEPT ![Session(r)] = v]
        BY <3>3 DEF Makes, LookForRow, Register, CreateHandle, RegisterOwner, CreateFails,
           UndoCreate, DeleteFiles, Unregister, Claim, diskVars, createVars
      <4>2. RowType'
        BY <4>1 DEF RowType
      <4> QED  BY <3>1, <3>3, <4>2, MakesRecords
    <3>4. CASE (\E r \in Requests : ReleaseSlot(r))
               \/ StopBegins \/ (\E s \in Sessions : StopHandle(s)) \/ StopForgets \/ Exit
               \/ (\E r \in Requests : LateIdle(r) \/ ClientLeaves(r))
               \/ (\E g \in startups : ClientStarts(g) \/ ClientFails(g))
      <4>1. UNCHANGED diskVars /\ \A q \in Requests : MovesElsewhere(q)
        BY <3>4, ReleasesElsewhere, OthersElsewhere
      <4> QED  BY <2>0, <3>1, <4>1, ElsewhereKeepsRecords DEF diskVars, createVars, RowType
    <3> QED  BY <2>2, <3>2, <3>3, <3>4 DEF Next, Progress, Passes, Makes
  <2> QED  BY <2>1, <2>2
<1>3. RecordInv => CreatedStaysOnRecord
  BY DEF RecordInv, CreatedStaysOnRecord, RemovesRow
<1> QED  BY <1>1, <1>2, <1>3, TypesHold, PTL DEF Spec

===============================================================================
