-------------------------- MODULE SessionStreamProofs --------------------------
(***************************************************************************)
(* Theorems about SessionStream, for any number of requests, connections,   *)
(* users and tenants, on either database.                                   *)
(***************************************************************************)
EXTENDS SessionStream, NumberLemmas, TLAPS

-------------------------------------------------------------------------------
(* The types of the requests and the people; of a connection, that its       *)
(* fields are there (what they hold is below, see Given).                    *)

OpPhases ==
  {"idle", "record", "refused", "checked", "created", "written", "appending", "committed",
   "failed", "done"}

Events == Seq([type : {"joined", "removed", "left", "message", "queued"}, about : Ids \cup {None}])

Records == [owner : {Owner}, mode : {"single", "shared"}, sequence : Nat]

Rows == [role : {"owner", "member", "observer"}, status : {"active", "left", "removed"},
         tenant : {Tenant}]

Fields == {"phase", "record", "cursor", "delivered", "buffer", "page", "given", "listens",
           "closed", "cut", "early"}

RequestType ==
  /\ work \in Workloads
  /\ ops \in [Requests -> [phase : OpPhases, record : Records \cup {None}, events : Events,
                           sequence : Nat]]
  /\ \A r \in Requests : ops[r].phase # "idle" => work.ask[r] # None

PeopleType ==
  /\ session \in Records \cup {None}
  /\ members \in [Ids -> Rows \cup {None}]
  /\ lock \in Requests \cup {None}
  /\ lock # None => session \in Records

ConnectionType ==
  /\ conns = [c \in Connections |-> conns[c]]
  /\ \A c \in Connections : /\ Fields \subseteq DOMAIN conns[c]
                            /\ conns[c].record \in Records \cup {None}
                            /\ conns[c].phase # "idle" => work.client # None

Types == RequestType /\ PeopleType /\ ConnectionType

LEMMA WorkloadType ==
  ASSUME NEW w \in Workloads
  PROVE  /\ w.client # None => w.client \in Users
         /\ \A r \in Requests : w.ask[r] # None =>
              /\ w.ask[r] \in Ask
              /\ w.ask[r].kind \in {"add", "remove"} => w.ask[r].about \in Ids
         /\ w.mode \in {"single", "shared"}
BY WorkloadAssumption DEF WorkloadAssumption, Workload

(* Whom a request about a participant is about.                              *)
LEMMA AboutType ==
  ASSUME RequestType, NEW r \in Requests, ops[r].phase # "idle"
  PROVE  /\ About(r) \in Ids \cup {None} /\ Actor(r) \in Users
         /\ Kind(r) \in {"add", "remove", "leave"} => About(r) \in Ids
         /\ Kind(r) = "leave" => About(r) = Actor(r).id
BY WorkloadType DEF RequestType, About, Actor, Kind, Ask, Users

LEMMA FreshType == work \in Workloads => Fresh \in Records
BY WorkloadType DEF Fresh, Records

LEMMA EventsType ==
  /\ \A type \in {"joined", "removed", "left"}, id \in Ids : <<[type |-> type, about |-> id]>> \in Events
  /\ <<[type |-> "message", about |-> None], [type |-> "queued", about |-> None]>> \in Events
  /\ \A e \in Events : Tail(e) \in Events
<1> DEFINE E == [type : {"joined", "removed", "left", "message", "queued"}, about : Ids \cup {None}]
<1>1. \A e \in E : <<e>> \in Seq(E)
  OBVIOUS
<1>2. \A d, e \in E : <<d, e>> \in Seq(E)
  OBVIOUS
<1>3. \A e \in Seq(E) : Tail(e) \in Seq(E)
  <2> SUFFICES ASSUME NEW e \in Seq(E)
               PROVE  Tail(e) \in Seq(E)
    OBVIOUS
  <2>1. CASE e = <<>>
    BY <2>1
  <2>2. CASE e # <<>>
    BY <2>2
  <2> QED
    BY <2>1, <2>2
<1> QED
  BY <1>1, <1>2, <1>3 DEF Events

(* The record of the session as requests see it, and the phase.              *)
LEMMA RequestStep ==
  ASSUME Types, UNCHANGED work, NEW r \in Requests, NEW phase \in OpPhases,
         ops[r].phase # "idle",
         NEW events \in Events, NEW sequence \in Nat,
         ops' = [ops EXCEPT ![r].phase = phase, ![r].events = events, ![r].sequence = sequence]
  PROVE  RequestType'
BY DEF Types, RequestType

LEMMA PhaseStep ==
  ASSUME Types, UNCHANGED work, NEW r \in Requests, NEW phase \in OpPhases,
         ops[r].phase # "idle", Phase(r, phase)
  PROVE  RequestType'
BY DEF Types, RequestType, Phase

LEMMA PeopleActions ==
  ASSUME Types, NEW r \in Requests,
         \/ Begin(r) \/ CheckAccess(r) \/ Add(r) \/ SetStatus(r, "remove", "removed")
         \/ SetStatus(r, "leave", "left") \/ Post(r) \/ Delete(r) \/ Create(r) \/ RegisterOwner(r)
         \/ TakeSequence(r) \/ Commit(r) \/ RollBack(r)
  PROVE  Types'
<1> USE DEF People, Stream
<1>1. UNCHANGED work
  BY DEF Begin, CheckAccess, Add, SetStatus, Post, Delete, Create, RegisterOwner, TakeSequence,
     Commit, RollBack
<1>2. ConnectionType'
  BY DEF Types, ConnectionType, Begin, CheckAccess, Add, SetStatus, Post, Delete, Create,
     RegisterOwner, TakeSequence, Commit, RollBack
<1>3. PeopleType'
  <2>1. CASE Add(r)
    BY <2>1, AboutType, WorkloadType DEF Types, RequestType, PeopleType, Add, Row, Rows, Upserted, Announces, Kind, Ask
  <2>2. CASE SetStatus(r, "remove", "removed") \/ SetStatus(r, "leave", "left")
    BY <2>2, AboutType DEF Types, PeopleType, SetStatus, Rows, Announces
  <2>3. CASE Delete(r) \/ Create(r) \/ RegisterOwner(r)
    BY <2>3, FreshType, UserAssumption DEF CanLockRow, Types, RequestType, PeopleType, Delete, Create, RegisterOwner, NoMembers,
       Row, Rows, UserAssumption
  <2>4. CASE TakeSequence(r) \/ RollBack(r)
    BY <2>4 DEF Types, PeopleType, TakeSequence, RollBack
  <2>5. CASE Commit(r)
    <3>1. session \in Records
      BY <2>5, NoneAssumption DEF Types, PeopleType, Commit, Statement, NoneAssumption
    <3>2. [session EXCEPT !.sequence = @ + 1] \in Records
      BY <3>1 DEF Records
    <3> QED
      BY <2>5, <3>2 DEF Types, PeopleType, Commit
  <2>6. CASE Begin(r) \/ CheckAccess(r) \/ Post(r)
    BY <2>6 DEF Types, PeopleType, Begin, CheckAccess, Post
  <2> QED
    BY <2>1, <2>2, <2>3, <2>4, <2>5, <2>6
<1>4. RequestType'
  <2>1. CASE Begin(r)
    <3>1. /\ ops[r].phase = "idle" /\ work.ask[r] # None
          /\ \E phase \in OpPhases : ops' = [ops EXCEPT ![r].phase = phase, ![r].record = session]
      BY <2>1 DEF Begin, OpPhases
    <3> QED
      BY <1>1, <3>1, ZenonT(60) DEF Types, RequestType, PeopleType
  <2>2. CASE CheckAccess(r) \/ Delete(r) \/ Create(r) \/ RegisterOwner(r) \/ TakeSequence(r) \/ RollBack(r)
    BY <1>1, <2>2, PhaseStep DEF CheckAccess, Delete, Create, RegisterOwner, TakeSequence, RollBack, OpPhases
  <2>3. CASE Phase(r, "failed") /\ ops[r].phase = "checked"
    BY <1>1, <2>3, PhaseStep DEF OpPhases
  <2>4. CASE /\ ops[r].phase = "checked"
             /\ \E events \in Events : ops' = [ops EXCEPT ![r].phase = "written", ![r].events = events]
    BY <1>1, <2>4, ZenonT(60) DEF Types, RequestType, OpPhases
  <2>5. CASE Add(r)
    BY <2>3, <2>4, <2>5, AboutType, EventsType DEF Types, Add, Announces
  <2>6. CASE SetStatus(r, "remove", "removed") \/ SetStatus(r, "leave", "left")
    BY <2>3, <2>4, <2>6, AboutType, EventsType DEF Types, SetStatus, Announces
  <2>7. CASE Post(r)
    <3>1. CASE Phase(r, "done")
      BY <1>1, <2>7, <3>1, PhaseStep DEF Post, OpPhases
    <3> QED
      BY <2>3, <2>4, <2>7, <3>1, EventsType DEF Post
  <2>8. CASE Commit(r)
    <3>1. /\ ops[r].phase = "appending" /\ session.sequence + 1 \in Nat
          /\ Tail(ops[r].events) \in Events
          /\ ops' = [ops EXCEPT ![r].phase = "committed", ![r].events = Tail(ops[r].events),
                                ![r].sequence = session.sequence + 1]
      BY <2>8, EventsType DEF Types, RequestType, PeopleType, Commit, Statement, Records
    <3> QED
      BY <1>1, <3>1, RequestStep DEF OpPhases
  <2> QED
    BY <2>1, <2>2, <2>5, <2>6, <2>7, <2>8
<1> QED
  BY <1>2, <1>3, <1>4 DEF Types

(* A connection keeps its fields, whatever is delivered to it.               *)
LEMMA DeliverType ==
  ASSUME NEW conn, Fields \subseteq DOMAIN conn, NEW e
  PROVE  /\ Fields \subseteq DOMAIN Deliver(conn, e)
         /\ Deliver(conn, e).phase = conn.phase /\ Deliver(conn, e).record = conn.record
         /\ Deliver(conn, e).listens = conn.listens /\ Deliver(conn, e).closed = conn.closed
         /\ Deliver(conn, e).early = conn.early
<1>1. CASE Old(conn, e)
  BY <1>1 DEF Deliver
<1>2. CASE ~Old(conn, e) /\ conn.phase \in {"subscribed", "read"}
  BY <1>2 DEF Deliver, Fields
<1>3. CASE ~Old(conn, e) /\ conn.phase \notin {"subscribed", "read"}
  <2>1. Deliver(conn, e) = GiveTo(conn, e)
    BY <1>3 DEF Deliver
  <2> QED
    BY <2>1 DEF GiveTo, Fields
<1> QED
  BY <1>1, <1>2, <1>3

(* What a broadcast leaves alone.                                            *)
SameConnections ==
  /\ conns' = [c \in Connections |-> conns'[c]]
  /\ \A c \in Connections :
       /\ Fields \subseteq DOMAIN conns'[c]
       /\ conns'[c].phase = conns[c].phase /\ conns'[c].record = conns[c].record
       /\ conns'[c].listens = conns[c].listens /\ conns'[c].closed = conns[c].closed
       /\ conns'[c].early = conns[c].early

LEMMA BroadcastType ==
  ASSUME Types, NEW e, Broadcast(e)
  PROVE  SameConnections
BY DeliverType DEF Types, ConnectionType, Broadcast, SameConnections

LEMMA TellType ==
  ASSUME Types, Publish \/ \E r \in Requests : Tell(r)
  PROVE  Types' /\ SameConnections /\ UNCHANGED <<work, People>>
<1>1. UNCHANGED <<work, People>> /\ SameConnections
  BY BroadcastType DEF Publish, Tell
<1>2. PeopleType' /\ ConnectionType'
  BY <1>1 DEF Types, PeopleType, ConnectionType, SameConnections, People
<1>3. RequestType'
  <2>1. CASE Publish
    BY <1>1, <2>1 DEF Publish, Types, RequestType
  <2>2. ASSUME NEW r \in Requests, Tell(r)
        PROVE  RequestType'
    BY <1>1, <2>2, PhaseStep DEF Tell, OpPhases
  <2> QED
    BY <2>1, <2>2
<1> QED
  BY <1>1, <1>2, <1>3 DEF Types

(* One connection moves: what it becomes has the fields.                     *)
LEMMA ConnectionStep ==
  ASSUME Types, UNCHANGED <<work, ops, People>>, NEW c \in Connections, NEW conn, SetConn(c, conn),
         Fields \subseteq DOMAIN conn, conn.record \in Records \cup {None},
         conn.phase # "idle" => work.client # None
  PROVE  Types' /\ conns'[c] = conn /\ \A d \in Connections \ {c} : conns'[d] = conns[d]
BY DEF Types, RequestType, PeopleType, ConnectionType, SetConn, People

LEMMA ConnectionActions ==
  ASSUME Types, NEW c \in Connections,
         Connect(c) \/ CheckView(c) \/ Replay(c) \/ GoLive(c) \/ ReplayFails(c) \/ Break(c) \/ BreakEarly(c)
  PROVE  Types' /\ UNCHANGED <<work, People>> /\ \A d \in Connections \ {c} : conns'[d] = conns[d]
<1> USE DEF Rest, Types, ConnectionType, Fields
<1>1. UNCHANGED <<work, ops, People>>
  BY DEF Connect, CheckView, Replay, GoLive, ReplayFails, Break, BreakEarly
<1>2. CASE Connect(c)
  BY <1>1, <1>2, ConnectionStep DEF Connect, PeopleType
<1>3. CASE CheckView(c)
  BY <1>1, <1>3, ConnectionStep DEF CheckView
<1>4. CASE Replay(c)
  BY <1>1, <1>4, ConnectionStep DEF Replay
<1>5. CASE GoLive(c)
  BY <1>1, <1>5, ConnectionStep DEF GoLive
<1>6. CASE ReplayFails(c) \/ BreakEarly(c)
  BY <1>1, <1>6, ConnectionStep DEF ReplayFails, BreakEarly
<1>7. CASE Break(c)
  BY <1>1, <1>7, ConnectionStep DEF Break
<1> QED
  BY <1>2, <1>3, <1>4, <1>5, <1>6, <1>7

LEMMA InitType == Init => Types
<1> SUFFICES ASSUME Init
             PROVE  Types
  OBVIOUS
<1>1. work \in Workloads
  BY DEF Init
<1>2. RequestType
  <2>1. <<>> \in Events
    BY DEF Events
  <2>2. NotAsked \in [phase : OpPhases, record : Records \cup {None}, events : Events, sequence : Nat]
    BY <2>1 DEF NotAsked, OpPhases
  <2> QED
    BY <1>1, <2>2 DEF Init, RequestType, NotAsked
<1>3. PeopleType
  <2>1. session \in Records
    BY <1>1, FreshType DEF Init
  <2>2. Row("owner", "active") \in Rows /\ Row("member", "active") \in Rows
    BY DEF Row, Rows
  <2>3. members \in [Ids -> Rows \cup {None}]
    BY <2>2 DEF Init, NoMembers
  <2> QED
    BY <2>1, <2>3 DEF Init, PeopleType
<1>4. ConnectionType
  BY DEF Init, ConnectionType, NotConnected, Fields
<1> QED
  BY <1>2, <1>3, <1>4 DEF Types

LEMMA NextType ==
  ASSUME Types, Next
  PROVE  Types'
BY PeopleActions, TellType, ConnectionActions DEF Next, Serving, Following

THEOREM TypesHold == Spec => []Types
<1>1. Types /\ UNCHANGED vars => Types'
  BY DEF vars, Types, RequestType, PeopleType, ConnectionType
<1> QED
  BY <1>1, InitType, NextType, PTL DEF Spec

-------------------------------------------------------------------------------
(* The owner.  What a request may still do to a participant was checked      *)
(* against the owner of the record it read, and that never changes.          *)

OwnersRow == members["owner"] \in {None, Row("owner", "active")}

NotAboutOwner ==
  \A r \in Requests :
    ops[r].phase = "checked" /\ Kind(r) \in {"add", "remove", "leave"} => About(r) # "owner"

(* The row is missing only while a creation is about to write it.            *)
OwnerIsListed ==
  session # None /\ members["owner"] # Row("owner", "active") => \E r \in Requests : ops[r].phase = "created"

OwnerIsSafe == OwnersRow /\ NotAboutOwner /\ OwnerIsListed

LEMMA AccessNeedsRecord ==
  ASSUME NEW record, NEW row, NEW user, NEW permission,
         Allows(RoleOf(record, row, user), permission)
  PROVE  record # None
BY DEF Allows, RoleOf

(* Who is not checked in this step was checked before, and is the same.      *)
LEMMA ChecksHold ==
  ASSUME Types, NotAboutOwner, Next
  PROVE  NotAboutOwner'
<1>1. UNCHANGED work
  BY DEF Next, Serving, Following, Begin, CheckAccess, Add, SetStatus, Post, Delete, Create,
     RegisterOwner, TakeSequence, Commit, RollBack, Tell, Connect, CheckView, Replay, GoLive,
     ReplayFails, Break, BreakEarly, Publish, Rest
<1> SUFFICES ASSUME NEW r \in Requests, ops'[r].phase = "checked", Kind(r) \in {"add", "remove", "leave"}
             PROVE  About(r) # "owner"
  BY <1>1 DEF NotAboutOwner, Kind, About, Actor
<1>2. CASE CheckAccess(r)
  <2>1. ops[r].phase = "record" /\ ~RuledOut(r) /\ ops[r].record # None
    BY <1>2, AccessNeedsRecord DEF CheckAccess, Phase, Types, RequestType
  <2>2. ops[r].record.owner = Owner
    BY <2>1 DEF Types, RequestType, Records
  <2> QED
    BY <2>1, <2>2, AboutType DEF Types, RuledOut, AboutOwner, Owner
<1>3. CASE ~CheckAccess(r)
  <2>1. ASSUME NEW q \in Requests, q # r, Begin(q) \/ Serving(q)
        PROVE  ops'[r].phase = ops[r].phase
    BY <2>1 DEF Serving, Begin, CheckAccess, Add, SetStatus, Post, Delete, Create, RegisterOwner,
       TakeSequence, Commit, RollBack, Tell, Phase, Announces, Types, RequestType
  <2>2. ~Begin(r)
    BY DEF Begin, Types, RequestType
  <2>3. ~Serving(r)
    BY <1>3 DEF Serving, Add, SetStatus, Post, Delete, Create, RegisterOwner,
       TakeSequence, Commit, RollBack, Tell, Phase, Announces, Types, RequestType
  <2>4. ASSUME NEW c \in Connections, Connect(c) \/ Following(c) \/ Break(c) \/ BreakEarly(c)
        PROVE  UNCHANGED ops
    BY <2>4 DEF Following, Connect, CheckView, Replay, GoLive, ReplayFails, Break, BreakEarly, Rest
  <2>5. ops[r].phase = "checked"
    BY <2>1, <2>2, <2>3, <2>4 DEF Next, Publish
  <2> QED
    BY <2>5 DEF NotAboutOwner
<1> QED
  BY <1>2, <1>3

LEMMA OwnersRowNext ==
  ASSUME Types, OwnerIsSafe, Next
  PROVE  OwnersRow'
<1>1. "owner" \in Ids
  BY UserAssumption DEF UserAssumption
<1>2. CASE UNCHANGED members
  BY <1>2 DEF OwnerIsSafe, OwnersRow, Row
<1>3. ASSUME NEW r \in Requests, Add(r) \/ SetStatus(r, "remove", "removed") \/ SetStatus(r, "leave", "left")
      PROVE  members'["owner"] = members["owner"]
  <2>1. About(r) # "owner"
    BY <1>3 DEF Add, SetStatus, OwnerIsSafe, NotAboutOwner
  <2> QED
    BY <1>1, <1>3, <2>1 DEF Add, SetStatus, Types, PeopleType
<1>4. ASSUME NEW r \in Requests, Delete(r) \/ RegisterOwner(r)
      PROVE  OwnersRow'
  BY <1>1, <1>2, <1>4 DEF Delete, RegisterOwner, NoMembers, OwnersRow, Types, PeopleType, Row
<1>5. \/ UNCHANGED members
      \/ \E r \in Requests : \/ Add(r) \/ SetStatus(r, "remove", "removed") \/ SetStatus(r, "leave", "left")
                             \/ Delete(r) \/ RegisterOwner(r)
  BY DEF Next, Serving, Following, Begin, CheckAccess, Post, Create,
     TakeSequence, Commit, RollBack, Tell, Connect, CheckView, Replay, GoLive,
     ReplayFails, Break, BreakEarly, Publish, Rest, People
<1> QED
  BY <1>2, <1>3, <1>4, <1>5 DEF OwnerIsSafe, OwnersRow, Row

(* A creation leaves its place with the row written, or without a session;   *)
(* the row goes with the session only.                                       *)
LEMMA OwnerIsListedNext ==
  ASSUME Types, OwnerIsSafe, Next
  PROVE  OwnerIsListed'
<1>0. "owner" \in Ids
  BY UserAssumption DEF UserAssumption
<1>1. ASSUME NEW r \in Requests, Begin(r) \/ Serving(r)
      PROVE  OwnerIsListed'
  <2> DEFINE others == \A q \in Requests \ {r} : ops'[q].phase = ops[q].phase
  <2>1. CASE Create(r)
    <3>1. ops'[r].phase = "created"
      BY <2>1 DEF Create, Phase, Types, RequestType
    <3> QED  BY <3>1 DEF OwnerIsListed
  <2>2. CASE RegisterOwner(r)
    BY <1>0, <2>2 DEF RegisterOwner, OwnerIsListed, Types, PeopleType
  <2>3. CASE Delete(r)
    BY <2>3 DEF Delete, OwnerIsListed
  <2>4. CASE ~Create(r) /\ ~RegisterOwner(r) /\ ~Delete(r)
    <3>1. session' # None => session # None
      <4>1. CASE Commit(r)
        BY <4>1, NoneAssumption DEF Types, PeopleType, Records, Commit, Statement, NoneAssumption
      <4> QED
        BY <1>1, <2>4, <4>1 DEF Begin, Serving, CheckAccess, Add, SetStatus, Post, TakeSequence,
           RollBack, Tell, People
    <3>2. members'["owner"] = members["owner"]
      <4>1. CASE Add(r) \/ SetStatus(r, "remove", "removed") \/ SetStatus(r, "leave", "left")
        <5>1. About(r) # "owner"
          BY <4>1 DEF Add, SetStatus, OwnerIsSafe, NotAboutOwner
        <5> QED  BY <1>0, <4>1, <5>1 DEF Add, SetStatus, Types, PeopleType
      <4>2. CASE UNCHANGED members
        BY <4>2
      <4> QED
        BY <1>1, <2>4, <4>1, <4>2 DEF Begin, Serving, CheckAccess, Post, TakeSequence, Commit,
           RollBack, Tell, People
    <3>3. \A q \in Requests : ops[q].phase = "created" => ops'[q].phase = "created"
      BY <1>1, <2>4 DEF Begin, Serving, CheckAccess, Add, SetStatus, Post, TakeSequence, Commit,
         RollBack, Tell, Phase, Announces, Types, RequestType
    <3> QED  BY <3>1, <3>2, <3>3 DEF OwnerIsListed, OwnerIsSafe, Row
  <2> QED  BY <2>1, <2>2, <2>3, <2>4
<1>2. CASE UNCHANGED <<session, members, ops>>
  BY <1>2 DEF OwnerIsListed, OwnerIsSafe
<1>3. \/ UNCHANGED <<session, members, ops>> \/ \E r \in Requests : Begin(r) \/ Serving(r)
  BY DEF Next, Following, Connect, CheckView, Replay, GoLive, ReplayFails, Break, BreakEarly,
     Publish, Rest, People
<1> QED  BY <1>1, <1>2, <1>3

(* The owner is never locked out or demoted, by whatever is done to the      *)
(* participants, and is listed from the registration on (participant-service *)
(* and session-registry against access checks that are statements old).      *)
THEOREM OwnerStaysOwnerHolds == Spec => []OwnerStaysOwner
<1>1. Init => OwnerIsSafe
  BY UserAssumption, NoneAssumption DEF Init, OwnerIsSafe, OwnersRow, OwnerIsListed, NotAboutOwner,
     NotAsked, NoMembers, UserAssumption, Row
<1>2. Types /\ OwnerIsSafe /\ Next => OwnerIsSafe'
  BY ChecksHold, OwnersRowNext, OwnerIsListedNext DEF OwnerIsSafe
<1>3. OwnerIsSafe /\ UNCHANGED vars => OwnerIsSafe'
  BY DEF vars, OwnerIsSafe, OwnersRow, OwnerIsListed, NotAboutOwner, Kind, About, Actor, Row
<1>4. Types /\ OwnerIsSafe => OwnerStaysOwner
  <2> SUFFICES ASSUME Types, OwnerIsSafe, session # None
               PROVE  LET row == members[session.owner.id] IN
                      /\ RoleOf(session, row, session.owner) = "owner"
                      /\ \/ row = Row("owner", "active")
                         \/ row = None /\ \E r \in Requests : ops[r].phase = "created"
    BY DEF OwnerStaysOwner
  <2>1. session.owner = Owner /\ session.owner.id = "owner"
    BY DEF Types, PeopleType, Records, Owner
  <2>2. RoleOf(session, members[session.owner.id], session.owner) = "owner"
    BY <2>1 DEF OwnerIsSafe, OwnersRow, RoleOf, Row, Owner
  <2> QED
    BY <2>1, <2>2 DEF OwnerIsSafe, OwnersRow, OwnerIsListed
<1> QED
  BY <1>1, <1>2, <1>3, <1>4, TypesHold, PTL DEF Spec

-------------------------------------------------------------------------------
(* Who follows.                                                              *)

(* A role is given to nobody of another tenant.                              *)
LEMMA RoleIsOfTenant ==
  ASSUME NEW record \in Records \cup {None}, NEW row \in Rows \cup {None}, NEW user,
         NEW permission, Allows(RoleOf(record, row, user), permission)
  PROVE  user.tenant = Tenant
<1>1. CASE row # None /\ SameTenant(row, user)
  BY <1>1 DEF SameTenant, Rows
<1>2. CASE ~(row # None /\ SameTenant(row, user))
  <2>1. record # None /\ record.owner = user
    BY <1>2 DEF Allows, RoleOf
  <2> QED
    BY <2>1 DEF Records, Owner
<1> QED
  BY <1>1, <1>2

(* What an action does to a connection: nothing that matters, or one step.   *)
LEMMA ConnectionMoves ==
  ASSUME Types, Next, NEW c \in Connections
  PROVE  /\ UNCHANGED work
         /\ \/ /\ conns'[c].phase = conns[c].phase /\ conns'[c].listens = conns[c].listens
               /\ conns'[c].closed = conns[c].closed /\ conns'[c].early = conns[c].early
            \/ \/ Connect(c) \/ CheckView(c) \/ Replay(c) \/ GoLive(c) \/ ReplayFails(c)
               \/ Break(c) \/ BreakEarly(c)
<1>1. ASSUME Publish \/ \E r \in Requests : Tell(r)
      PROVE  /\ UNCHANGED work
             /\ conns'[c].phase = conns[c].phase /\ conns'[c].listens = conns[c].listens
             /\ conns'[c].closed = conns[c].closed /\ conns'[c].early = conns[c].early
  BY <1>1, TellType DEF SameConnections
<1>2. ASSUME NEW r \in Requests, Begin(r) \/ Serving(r), ~Tell(r)
      PROVE  UNCHANGED <<work, conns>>
  BY <1>2 DEF Serving, Begin, CheckAccess, Add, SetStatus, Post, Delete, Create, RegisterOwner,
     TakeSequence, Commit, RollBack, Stream
<1>3. ASSUME NEW d \in Connections, d # c, Connect(d) \/ Following(d) \/ Break(d) \/ BreakEarly(d)
      PROVE  UNCHANGED work /\ conns'[c] = conns[c]
  BY <1>3, ConnectionActions DEF Following
<1>4. ASSUME Connect(c) \/ Following(c) \/ Break(c) \/ BreakEarly(c)
      PROVE  UNCHANGED work
  BY <1>4, ConnectionActions DEF Following
<1> QED
  BY <1>1, <1>2, <1>3, <1>4 DEF Next, Following

Served == {"subscribed", "read", "live", "left"}

(* Nobody of another tenant is given anything, whoever shares the id of a    *)
(* participant.                                                              *)
THEOREM OwnTenantSeesHolds == Spec => []OwnTenantSees
<1>1. Init => OwnTenantSees
  BY DEF Init, OwnTenantSees, NotConnected
<1>2. ASSUME Types, OwnTenantSees, Next
      PROVE  OwnTenantSees'
  <2> SUFFICES ASSUME NEW c \in Connections, conns'[c].phase \in Served
               PROVE  work'.client.tenant = Tenant
    BY DEF OwnTenantSees, Served
  <2>1. UNCHANGED work
    BY <1>2, ConnectionMoves
  <2>2. CASE conns[c].phase \in Served
    BY <1>2, <2>1, <2>2 DEF OwnTenantSees, Served
  <2>3. CASE conns[c].phase \notin Served
    <3>1. CheckView(c)
      <4>1. ~Connect(c)
        BY <1>2 DEF Connect, SetConn, Types, ConnectionType, Fields, Served
      <4>2. ~Replay(c) /\ ~GoLive(c) /\ ~ReplayFails(c) /\ ~Break(c)
        BY <2>3 DEF Replay, GoLive, ReplayFails, Break, Served
      <4>3. ~BreakEarly(c)
        BY <1>2 DEF BreakEarly, SetConn, Types, ConnectionType, Fields, Served
      <4> QED
        BY <1>2, <2>3, <4>1, <4>2, <4>3, ConnectionMoves
    <3>2. conns[c].phase = "record" /\ work.client \in Users
      BY <1>2, <3>1, WorkloadType DEF CheckView, Types, ConnectionType, RequestType
    <3>3. Allows(RoleOf(conns[c].record, members[work.client.id], work.client), "view")
      BY <1>2, <3>1 DEF CheckView, SetConn, Types, ConnectionType, Fields, Served
    <3> QED
      BY <1>2, <2>1, <3>2, <3>3, RoleIsOfTenant DEF Types, ConnectionType, PeopleType, Users
  <2> QED
    BY <2>2, <2>3
<1>3. OwnTenantSees /\ UNCHANGED vars => OwnTenantSees'
  BY DEF OwnTenantSees, vars
<1> QED
  BY <1>1, <1>2, <1>3, TypesHold, PTL DEF Spec

SilentUntilChecked ==
  \A c \in Connections : conns[c].phase \in {"idle", "record"} => ~conns[c].listens

(* A connection that is over has no listener, once its replay has ended.     *)
THEOREM NoListenerLeftHolds == Spec => []NoListenerLeft
<1> DEFINE Inv == NoListenerLeft /\ SilentUntilChecked
<1>1. Init => Inv
  BY DEF Init, NoListenerLeft, SilentUntilChecked, NotConnected
<1>2. ASSUME Types, Inv, Next
      PROVE  Inv'
  <2> SUFFICES ASSUME NEW c \in Connections
               PROVE  LET conn == conns'[c] IN
                      /\ conn.listens => \/ ~IsOver(conn) \/ conn.phase \in {"subscribed", "read"}
                                         \/ conn.phase = "failed" \/ conn.early
                      /\ conn.phase \in {"idle", "record"} => ~conn.listens
    BY DEF NoListenerLeft, SilentUntilChecked
  <2> USE <1>2 DEF NoListenerLeft, SilentUntilChecked, IsOver, Ended
  <2>1. CASE /\ conns'[c].phase = conns[c].phase /\ conns'[c].listens = conns[c].listens
             /\ conns'[c].closed = conns[c].closed /\ conns'[c].early = conns[c].early
    BY <2>1
  <2> USE DEF SetConn, Types, ConnectionType, Fields
  <2>2. CASE Connect(c)
    BY <2>2 DEF Connect
  <2>3. CASE CheckView(c)
    BY <2>3 DEF CheckView
  <2>4. CASE Replay(c)
    BY <2>4 DEF Replay
  <2>5. CASE GoLive(c)
    BY <2>5 DEF GoLive, Unsubscribes
  <2>6. CASE ReplayFails(c)
    BY <2>6 DEF ReplayFails
  <2>7. CASE Break(c)
    BY <2>7 DEF Break
  <2>8. CASE BreakEarly(c)
    BY <2>8 DEF BreakEarly
  <2> QED
    BY <2>1, <2>2, <2>3, <2>4, <2>5, <2>6, <2>7, <2>8, ConnectionMoves
<1>3. Inv /\ UNCHANGED vars => Inv'
  BY DEF NoListenerLeft, SilentUntilChecked, vars, IsOver
<1>4. Inv => NoListenerLeft
  OBVIOUS
<1> QED
  BY <1>1, <1>2, <1>3, <1>4, TypesHold, PTL DEF Spec

-------------------------------------------------------------------------------
(* What is told.  A request that changed a participant's row has one event   *)
(* about it to tell, about the owner there is none, and while no two         *)
(* requests are about one person the row says what the request will tell.    *)

Talks(r) == Kind(r) \in {"add", "remove", "leave"}
Untold(r) == ops[r].phase \in {"written", "appending"}
Says(type) == IF type = "joined" THEN "active" ELSE type

Announced(r) ==
  ops[r].phase \in Writing =>
    /\ Untold(r) => ops[r].events # <<>>
    /\ \/ Talks(r) /\ About(r) \in Ids \ {"owner"}
       \/ Kind(r) = "post" /\ \A i \in DOMAIN ops[r].events : ops[r].events[i].about = None
    /\ Talks(r) =>
         IF Untold(r) THEN \E type \in {"joined", "removed", "left"} :
                             ops[r].events = <<[type |-> type, about |-> About(r)]>>
         ELSE ops[r].events = <<>>

TimelineInv ==
  /\ timeline \in Events
  /\ \A i \in DOMAIN timeline : timeline[i].about # "owner"

AnnouncedInv == TimelineInv /\ \A r \in Requests : Announced(r)

LEMMA OnlyItsOwn ==
  ASSUME Types, NEW r \in Requests, Begin(r) \/ Serving(r)
  PROVE  UNCHANGED work /\ \A q \in Requests \ {r} : ops'[q] = ops[q]
BY DEF Serving, Begin, CheckAccess, Add, SetStatus, Post, Delete, Create, RegisterOwner,
   TakeSequence, Commit, RollBack, Tell, Phase, Announces, Types, RequestType

LEMMA PhaseIs ==
  ASSUME Types, NEW r \in Requests, NEW phase, Phase(r, phase)
  PROVE  ops'[r].phase = phase /\ ops'[r].events = ops[r].events
BY DEF Types, RequestType, Phase

LEMMA AnnouncesIs ==
  ASSUME Types, NEW r \in Requests, NEW events, Announces(r, events)
  PROVE  ops'[r].phase = "written" /\ ops'[r].events = events
BY DEF Types, RequestType, Announces

LEMMA AnnouncedNext ==
  ASSUME Types, NotAboutOwner, AnnouncedInv, NEW r \in Requests, Begin(r) \/ Serving(r)
  PROVE  \A q \in Requests : Announced(q)'
<1>0. UNCHANGED work /\ \A q \in Requests \ {r} : ops'[q] = ops[q]
  BY OnlyItsOwn
<1>1. \A q \in Requests \ {r} : Announced(q)'
  BY <1>0 DEF AnnouncedInv, Announced, Untold, Talks, Kind, About, Actor
<1>2. Announced(r)
  BY DEF AnnouncedInv
<1> SUFFICES Announced(r)'
  BY <1>1
<1> USE <1>0 DEF Writing, Untold, Talks, Kind, About, Actor
<1>3. CASE ops'[r].phase \notin Writing
  BY <1>3 DEF Announced
<1>4. CASE Begin(r) \/ CheckAccess(r) \/ Delete(r) \/ Create(r) \/ RegisterOwner(r) \/ RollBack(r)
  <2>1. ops'[r].phase \notin Writing
    BY <1>4, PhaseIs DEF Begin, CheckAccess, Delete, Create, RegisterOwner, RollBack, Types, RequestType
  <2> QED  BY <1>3, <2>1
<1>5. CASE Add(r) \/ SetStatus(r, "remove", "removed") \/ SetStatus(r, "leave", "left")
  <2>1. Talks(r) /\ About(r) \in Ids \ {"owner"}
    BY <1>5, AboutType DEF Add, SetStatus, NotAboutOwner, Types
  <2>2. ops'[r].phase = "failed" \/ \E type \in {"joined", "removed", "left"} :
           Announces(r, <<[type |-> type, about |-> About(r)]>>)
    BY <1>5, PhaseIs DEF Add, SetStatus
  <2>3. ASSUME NEW type \in {"joined", "removed", "left"},
               Announces(r, <<[type |-> type, about |-> About(r)]>>)
        PROVE  Announced(r)'
    <3>1. ops'[r].phase = "written" /\ ops'[r].events = <<[type |-> type, about |-> About(r)]>>
      BY <2>3, AnnouncesIs
    <3>2. ops'[r].events # <<>> /\ Kind(r) # "post"
      BY <2>1, <3>1
    <3> QED  BY <2>1, <3>1, <3>2 DEF Announced
  <2> QED  BY <1>3, <2>2, <2>3
<1>6. CASE Post(r)
  <2>1. CASE ops'[r].phase \in Writing
    <3>1. Kind(r) = "post" /\ ops'[r].phase = "written"
          /\ ops'[r].events = <<[type |-> "message", about |-> None], [type |-> "queued", about |-> None]>>
      BY <1>6, <2>1, PhaseIs DEF Post, Types, RequestType
    <3>2. \A i \in DOMAIN ops'[r].events : ops'[r].events[i].about = None
      BY <3>1
    <3>3. ops'[r].events # <<>>
      BY <3>1
    <3> QED  BY <3>1, <3>2, <3>3 DEF Announced
  <2> QED  BY <1>3, <2>1
<1>7. CASE TakeSequence(r)
  BY <1>2, <1>7, PhaseIs DEF TakeSequence, Announced
<1>8. CASE Commit(r)
  <2>1. ops[r].phase = "appending" /\ ops'[r].phase = "committed" /\ ops'[r].events = Tail(ops[r].events)
    BY <1>8 DEF Commit, Types, RequestType
  <2>2. ops[r].events \in Events
    BY DEF Types, RequestType
  <2>3. CASE Talks(r)
    <3>1. PICK type : ops[r].events = <<[type |-> type, about |-> About(r)]>>
      BY <1>2, <2>1, <2>3 DEF Announced
    <3>2. Tail(<<[type |-> type, about |-> About(r)]>>) = <<>>
      OBVIOUS
    <3>3. ops'[r].events = <<>>
      BY <2>1, <3>1, <3>2
    <3> QED  BY <1>2, <2>1, <2>3, <3>3 DEF Announced
  <2>4. CASE Kind(r) = "post"
    <3>1. ops[r].events # <<>> /\ \A i \in DOMAIN ops[r].events : ops[r].events[i].about = None
      BY <1>2, <2>1, <2>4 DEF Announced
    <3>2. \A i \in DOMAIN Tail(ops[r].events) :
             i + 1 \in DOMAIN ops[r].events /\ Tail(ops[r].events)[i] = ops[r].events[i + 1]
      BY <2>2, <3>1 DEF Events
    <3> QED  BY <2>1, <2>4, <3>1, <3>2 DEF Announced
  <2> QED  BY <1>2, <2>1, <2>3, <2>4 DEF Announced
<1>9. CASE Tell(r)
  <2>1. ops[r].phase = "committed" /\ ops'[r].events = ops[r].events
        /\ ops'[r].phase = IF ops[r].events = <<>> THEN "done" ELSE "written"
    BY <1>9, PhaseIs DEF Tell
  <2> QED  BY <1>2, <2>1 DEF Announced
<1> QED  BY <1>4, <1>5, <1>6, <1>7, <1>8, <1>9 DEF Serving

(* An append of the first of some events.                                    *)
LEMMA AppendIs ==
  ASSUME NEW line \in Events, NEW events \in Events, events # <<>>
  PROVE  LET e == Head(events) IN
         /\ Append(line, e) \in Events /\ DOMAIN line = 1 .. Len(line)
         /\ DOMAIN Append(line, e) = 1 .. Len(line) + 1
         /\ Append(line, e)[Len(line) + 1] = e
         /\ \A i \in 1 .. Len(line) : Append(line, e)[i] = line[i]
<1> DEFINE E == [type : {"joined", "removed", "left", "message", "queued"}, about : Ids \cup {None}]
<1>1. line \in Seq(E) /\ events \in Seq(E)
  BY DEF Events
<1> HIDE DEF E
<1>2. Head(events) \in E
  BY <1>1
<1>3. /\ Append(line, Head(events)) \in Seq(E) /\ DOMAIN line = 1 .. Len(line)
      /\ DOMAIN Append(line, Head(events)) = 1 .. Len(line) + 1
      /\ Append(line, Head(events))[Len(line) + 1] = Head(events)
      /\ \A i \in 1 .. Len(line) : Append(line, Head(events))[i] = line[i]
  BY <1>1, <1>2
<1> QED  BY <1>3 DEF E, Events

LEMMA TimelineNext ==
  ASSUME Types, AnnouncedInv, Next
  PROVE  TimelineInv'
<1>1. CASE UNCHANGED timeline
  BY <1>1 DEF AnnouncedInv, TimelineInv
<1>2. ASSUME NEW r \in Requests, Delete(r)
      PROVE  TimelineInv'
  BY <1>2 DEF Delete, TimelineInv, Events
<1>3. ASSUME NEW r \in Requests, Commit(r)
      PROVE  TimelineInv'
  <2> DEFINE e == Head(ops[r].events)
  <2>1. ops[r].phase = "appending" /\ timeline' = Append(timeline, e)
    BY <1>3 DEF Commit
  <2>2. ops[r].events \in Events /\ ops[r].events # <<>>
    BY <2>1 DEF AnnouncedInv, Announced, Writing, Untold, Types, RequestType
  <2>3. e.about # "owner"
    <3>1. e = ops[r].events[1] /\ 1 \in DOMAIN ops[r].events
      BY <2>2 DEF Events
    <3>2. Announced(r) /\ ops[r].phase \in Writing /\ Untold(r)
      BY <2>1 DEF AnnouncedInv, Writing, Untold
    <3>3. CASE Talks(r)
      <4>1. PICK type : ops[r].events = <<[type |-> type, about |-> About(r)]>>
        BY <3>2, <3>3 DEF Announced
      <4>2. About(r) # "owner"
        BY <3>2, <3>3 DEF Announced, Talks
      <4> QED  BY <3>1, <4>1, <4>2
    <3>4. CASE ~Talks(r)
      <4>1. e.about = None
        BY <3>1, <3>2, <3>4 DEF Announced
      <4> QED  BY <4>1, NoneAssumption, UserAssumption DEF NoneAssumption, UserAssumption
    <3> QED  BY <3>3, <3>4
  <2>4. timeline \in Events /\ \A i \in DOMAIN timeline : timeline[i].about # "owner"
    BY DEF AnnouncedInv, TimelineInv
  <2> HIDE DEF e
  <2>a. /\ Append(timeline, e) \in Events /\ DOMAIN timeline = 1 .. Len(timeline)
        /\ DOMAIN Append(timeline, e) = 1 .. Len(timeline) + 1
        /\ Append(timeline, e)[Len(timeline) + 1] = e
        /\ \A i \in 1 .. Len(timeline) : Append(timeline, e)[i] = timeline[i]
    BY <2>2, <2>4, AppendIs DEF e
  <2>5. Append(timeline, e) \in Events
    BY <2>a
  <2>6. \A i \in DOMAIN Append(timeline, e) : Append(timeline, e)[i].about # "owner"
    <3> SUFFICES ASSUME NEW i \in 1 .. Len(timeline) + 1
                 PROVE  Append(timeline, e)[i].about # "owner"
      BY <2>a
    <3>1. CASE i = Len(timeline) + 1
      BY <2>3, <2>a, <3>1
    <3>2. CASE i # Len(timeline) + 1
      <4>1. i \in 1 .. Len(timeline)
        BY <2>4, <3>2 DEF Events
      <4> QED  BY <2>4, <2>a, <4>1
    <3> QED  BY <3>1, <3>2
  <2> QED  BY <2>1, <2>5, <2>6 DEF TimelineInv
<1>4. \/ UNCHANGED timeline
      \/ \E r \in Requests : Delete(r) \/ Commit(r)
  BY DEF Next, Serving, Following, Begin, CheckAccess, Add, SetStatus, Post, Create, RegisterOwner,
     TakeSequence, RollBack, Tell, Connect, CheckView, Replay, GoLive,
     ReplayFails, Break, BreakEarly, Publish, Rest, People
<1> QED  BY <1>1, <1>2, <1>3, <1>4

IsLast(i, id) ==
  /\ i \in DOMAIN timeline /\ timeline[i].about = id
  /\ \A j \in DOMAIN timeline : timeline[j].about = id => j <= i

OneAtATime(id) ==
  \A r, q \in Requests :
    /\ Talks(r) /\ ops[r].phase \in Writing /\ About(r) = id
    /\ Talks(q) /\ ops[q].phase \in Writing /\ About(q) = id
    => r = q

WillTell(id) ==
  \A r \in Requests :
    Talks(r) /\ Untold(r) /\ About(r) = id => members[id].status = Says(ops[r].events[1].type)

HasTold(id) ==
  /\ \A r \in Requests : Talks(r) /\ Untold(r) => About(r) # id
  /\ \E i \in DOMAIN timeline : timeline[i].about = id
  => \E i \in DOMAIN timeline : IsLast(i, id) /\ members[id].status = Says(timeline[i].type)

RowIsTold(id) == OneAtATime(id) /\ WillTell(id) /\ HasTold(id)

StatusInv == ~Recreated => session # None /\ \A id \in Ids \ unclear : RowIsTold(id)

LEMMA NoRecord == None \notin Records
BY NoneAssumption DEF NoneAssumption, Records

LEMMA NothingDone ==
  ASSUME UNCHANGED <<work, ops, People>>
  PROVE  /\ AnnouncedInv => AnnouncedInv'
         /\ StatusInv => StatusInv'
<1>1. \A r \in Requests : /\ Kind(r)' = Kind(r) /\ About(r)' = About(r) /\ Talks(r)' = Talks(r)
                          /\ Untold(r)' = Untold(r)
  BY DEF Kind, About, Actor, Talks, Untold
<1>2. AnnouncedInv => AnnouncedInv'
  BY <1>1 DEF People, AnnouncedInv, TimelineInv, Announced
<1>3. \A id \in Ids : RowIsTold(id) => RowIsTold(id)'
  BY <1>1 DEF People, RowIsTold, OneAtATime, WillTell, HasTold, IsLast
<1> QED  BY <1>1, <1>2, <1>3 DEF StatusInv, Recreated, People

LEMMA RecreatedStays ==
  ASSUME Types, Recreated, NEW r \in Requests, Begin(r) \/ Serving(r)
  PROVE  Recreated'
<1>1. UNCHANGED work /\ \A q \in Requests \ {r} : ops'[q] = ops[q]
  BY OnlyItsOwn
<1>2. ops[r].phase # "done"
  BY DEF Serving, Begin, CheckAccess, Add, SetStatus, Post, Delete, Create, RegisterOwner,
     TakeSequence, Commit, RollBack, Tell
<1> QED  BY <1>1, <1>2 DEF Recreated, Kind

(* A step that changes no row but the owner's, and tells nothing.            *)
Quiet ==
  /\ UNCHANGED <<work, timeline, unclear>>
  /\ \A id \in Ids \ {"owner"} : members'[id] = members[id]
  /\ \A r \in Requests : Talks(r) =>
       /\ ops'[r].phase \in Writing => ops[r].phase \in Writing
       /\ Untold(r)' <=> Untold(r)
       /\ Untold(r) => ops'[r].events = ops[r].events

LEMMA QuietStep ==
  ASSUME Types, AnnouncedInv, Quiet, NEW id \in Ids, RowIsTold(id)
  PROVE  RowIsTold(id)'
<1>1. \A r \in Requests : (Talks(r)' <=> Talks(r)) /\ About(r)' = About(r)
  BY DEF Quiet, Talks, About, Kind, Actor
<1>2. CASE id = "owner"
  <2>1. \A r \in Requests : Talks(r) /\ ops[r].phase \in Writing => About(r) # id
    BY <1>2 DEF AnnouncedInv, Announced, Talks
  <2>2. \A i \in DOMAIN timeline : timeline[i].about # id
    BY <1>2 DEF AnnouncedInv, TimelineInv
  <2>3. \A r \in Requests : Untold(r) => ops[r].phase \in Writing
    BY DEF Untold, Writing
  <2>4. OneAtATime(id)'
    BY <1>1, <2>1 DEF OneAtATime, Quiet
  <2>5. WillTell(id)'
    BY <1>1, <2>1, <2>3 DEF WillTell, Quiet
  <2>6. HasTold(id)'
    BY <2>2 DEF HasTold, Quiet
  <2> QED  BY <2>4, <2>5, <2>6 DEF RowIsTold
<1>3. CASE id # "owner"
  <2>1. members'[id] = members[id] /\ timeline' = timeline
    BY <1>3 DEF Quiet
  <2>2. OneAtATime(id)'
    BY <1>1 DEF RowIsTold, OneAtATime, Quiet
  <2>3. WillTell(id)'
    BY <1>1, <2>1 DEF RowIsTold, WillTell, Quiet
  <2>4. HasTold(id)'
    BY <1>1, <2>1 DEF RowIsTold, HasTold, Quiet, IsLast
  <2> QED  BY <2>2, <2>3, <2>4 DEF RowIsTold
<1> QED  BY <1>2, <1>3

(* The row of a participant is changed, and what is to be told is known.     *)
LEMMA AnnounceStep ==
  ASSUME Types, AnnouncedInv, NEW r \in Requests, Serving(r),
         Talks(r), About(r) \in Ids, NEW type \in {"joined", "removed", "left"},
         NEW row, members' = [members EXCEPT ![About(r)] = row], row.status = Says(type),
         Announces(r, <<[type |-> type, about |-> About(r)]>>), UNCHANGED timeline,
         NEW id \in Ids, id \notin unclear', RowIsTold(id)
  PROVE  RowIsTold(id)'
<1>1. UNCHANGED work /\ \A q \in Requests \ {r} : ops'[q] = ops[q]
  BY OnlyItsOwn
<1>2. \A q \in Requests : (Talks(q)' <=> Talks(q)) /\ About(q)' = About(q)
  BY <1>1 DEF Talks, About, Kind, Actor
<1>3. ops'[r].phase = "written" /\ ops'[r].events = <<[type |-> type, about |-> About(r)]>>
  BY AnnouncesIs
<1>4. CASE id = About(r)
  <2>1. \A q \in Requests \ {r} : ops[q].phase \in Writing => About(q) # id
    BY <1>4 DEF Announces, Overlaps
  <2>2. \A q \in Requests \ {r} : Untold(q)' => ops[q].phase \in Writing
    BY <1>1 DEF Untold, Writing
  <2>3. OneAtATime(id)'
    BY <1>1, <1>2, <2>1 DEF OneAtATime
  <2>4. members'[id].status = Says(type)
    BY <1>4 DEF Types, PeopleType
  <2>5. WillTell(id)'
    <3>1. ops'[r].events[1].type = type
      BY <1>3
    <3> QED  BY <1>2, <2>1, <2>2, <2>4, <3>1 DEF WillTell, Says
  <2>6. HasTold(id)'
    BY <1>2, <1>3, <1>4 DEF HasTold, Untold
  <2> QED  BY <2>3, <2>5, <2>6 DEF RowIsTold
<1>5. CASE id # About(r)
  <2>1. members'[id] = members[id]
    BY <1>5 DEF Types, PeopleType
  <2>2. OneAtATime(id)'
    BY <1>1, <1>2, <1>5 DEF RowIsTold, OneAtATime
  <2>3. WillTell(id)'
    BY <1>1, <1>2, <1>5, <2>1 DEF RowIsTold, WillTell, Untold
  <2>4. HasTold(id)'
    BY <1>1, <1>2, <1>5, <2>1 DEF RowIsTold, HasTold, Untold, IsLast
  <2> QED  BY <2>2, <2>3, <2>4 DEF RowIsTold
<1> QED  BY <1>4, <1>5

(* The event about a participant becomes the last one.                       *)
LEMMA CommitStep ==
  ASSUME Types, AnnouncedInv, NEW r \in Requests, Commit(r), NEW id \in Ids, RowIsTold(id)
  PROVE  RowIsTold(id)'
<1> DEFINE e == Head(ops[r].events)
<1>1. UNCHANGED work /\ \A q \in Requests \ {r} : ops'[q] = ops[q]
  BY OnlyItsOwn DEF Serving
<1>2. \A q \in Requests : (Talks(q)' <=> Talks(q)) /\ About(q)' = About(q)
  BY <1>1 DEF Talks, About, Kind, Actor
<1>3. /\ ops[r].phase = "appending" /\ ops'[r].phase = "committed"
      /\ timeline' = Append(timeline, e) /\ UNCHANGED members
  BY DEF Commit, Types, RequestType
<1>4. ops[r].events \in Events /\ ops[r].events # <<>> /\ Announced(r) /\ Untold(r)
      /\ ops[r].phase \in Writing
  BY <1>3 DEF AnnouncedInv, Announced, Writing, Untold, Types, RequestType
<1>5. timeline \in Events
  BY DEF AnnouncedInv, TimelineInv
<1>6. e = ops[r].events[1] /\ 1 \in DOMAIN ops[r].events
  BY <1>4 DEF Events
<1>7. /\ DOMAIN timeline = 1 .. Len(timeline) /\ Len(timeline) \in Nat
      /\ DOMAIN timeline' = 1 .. Len(timeline) + 1
      /\ timeline'[Len(timeline) + 1] = e
      /\ \A i \in 1 .. Len(timeline) : timeline'[i] = timeline[i]
  BY <1>3, <1>4, <1>5, AppendIs DEF Events
<1> HIDE DEF e
<1>8. OneAtATime(id)'
  BY <1>1, <1>2, <1>4 DEF RowIsTold, OneAtATime
<1>9. WillTell(id)'
  BY <1>1, <1>2, <1>3 DEF RowIsTold, WillTell, Untold
<1>10. CASE Talks(r) /\ About(r) = id
  <2>1. e.about = id
    <3>1. PICK type : ops[r].events = <<[type |-> type, about |-> About(r)]>>
      BY <1>4, <1>10 DEF Announced
    <3> QED  BY <1>6, <1>10, <3>1
  <2>2. members[id].status = Says(e.type)
    BY <1>4, <1>6, <1>10 DEF RowIsTold, WillTell
  <2> PICK n : n = Len(timeline) + 1
    OBVIOUS
  <2>3. IsLast(n, id)'
    BY <1>7, <2>1 DEF IsLast
  <2>4. HasTold(id)'
    BY <1>3, <1>7, <2>2, <2>3 DEF HasTold, Says
  <2> QED  BY <1>8, <1>9, <2>4 DEF RowIsTold
<1>11. CASE ~(Talks(r) /\ About(r) = id)
  <2>1. e.about # id
    <3>1. CASE Talks(r)
      <4>1. PICK type : ops[r].events = <<[type |-> type, about |-> About(r)]>>
        BY <1>4, <3>1 DEF Announced
      <4> QED  BY <1>6, <1>11, <3>1, <4>1
    <3>2. CASE ~Talks(r)
      <4>1. e.about = None
        BY <1>4, <1>6, <3>2 DEF Announced
      <4> QED  BY <4>1, NoneAssumption DEF NoneAssumption
    <3> QED  BY <3>1, <3>2
  <2>2. ASSUME NEW i \in DOMAIN timeline'
        PROVE  timeline'[i].about = id => i \in DOMAIN timeline /\ timeline'[i] = timeline[i]
    BY <1>7, <2>1
  <2>3. ASSUME NEW i \in DOMAIN timeline, IsLast(i, id)
        PROVE  i \in DOMAIN timeline' /\ timeline'[i] = timeline[i] /\ IsLast(i, id)'
    BY <1>7, <2>2, <2>3 DEF IsLast
  <2>4. \A q \in Requests : Talks(q) /\ About(q) = id => (Untold(q)' <=> Untold(q))
    BY <1>1, <1>11 DEF Untold
  <2>5. HasTold(id)'
    BY <1>2, <1>3, <2>2, <2>3, <2>4 DEF RowIsTold, HasTold
  <2> QED  BY <1>8, <1>9, <2>5 DEF RowIsTold
<1> QED  BY <1>10, <1>11

(* An append fails: the person it was about is known to be unclear.          *)
LEMMA RollBackStep ==
  ASSUME Types, NEW r \in Requests, RollBack(r), NEW id \in Ids \ unclear', RowIsTold(id)
  PROVE  RowIsTold(id)'
<1>1. UNCHANGED work /\ \A q \in Requests \ {r} : ops'[q] = ops[q]
  BY OnlyItsOwn DEF Serving
<1>2. \A q \in Requests : (Talks(q)' <=> Talks(q)) /\ About(q)' = About(q)
  BY <1>1 DEF Talks, About, Kind, Actor
<1>3. ops'[r].phase = "failed" /\ UNCHANGED <<members, timeline>> /\ About(r) # id
  BY PhaseIs DEF RollBack
<1>4. OneAtATime(id)'
  BY <1>1, <1>2, <1>3 DEF RowIsTold, OneAtATime
<1>5. WillTell(id)'
  BY <1>1, <1>2, <1>3 DEF RowIsTold, WillTell, Untold
<1>6. HasTold(id)'
  BY <1>1, <1>2, <1>3 DEF RowIsTold, HasTold, Untold, IsLast
<1> QED  BY <1>4, <1>5, <1>6 DEF RowIsTold

LEMMA StatusNext ==
  ASSUME Types, NotAboutOwner, AnnouncedInv, StatusInv, NEW r \in Requests, Begin(r) \/ Serving(r)
  PROVE  StatusInv'
<1> SUFFICES ASSUME ~Recreated'
             PROVE  session' # None /\ \A id \in Ids \ unclear' : RowIsTold(id)'
  BY DEF StatusInv
<1>0. UNCHANGED work /\ \A q \in Requests \ {r} : ops'[q] = ops[q]
  BY OnlyItsOwn
<1>1. session # None /\ \A id \in Ids \ unclear : RowIsTold(id)
  BY RecreatedStays DEF StatusInv
<1>2. ~Delete(r)
  BY <1>0, PhaseIs DEF Delete, Recreated, Kind
<1>3. session' # None
  <2>1. \/ UNCHANGED session
        \/ session' = IF session = None THEN Fresh ELSE session
        \/ session' = [session EXCEPT !.sequence = @ + 1]
    BY <1>2 DEF Serving, Begin, CheckAccess, Add, SetStatus, Post, Create, RegisterOwner,
       TakeSequence, Commit, RollBack, Tell, People
  <2>2. session' \in Records
    <3>1. [session EXCEPT !.sequence = @ + 1] \in Records
      BY <1>1 DEF Types, PeopleType, Records
    <3> QED  BY <1>1, <2>1, <3>1 DEF Types, PeopleType
  <2> QED  BY <2>2, NoRecord
<1>4. unclear \subseteq unclear'
  BY <1>2 DEF Serving, Begin, CheckAccess, Add, SetStatus, Post, Create, RegisterOwner,
     TakeSequence, Commit, RollBack, Tell, People, Announces
<1> SUFFICES ASSUME NEW id \in Ids \ unclear'
             PROVE  RowIsTold(id)'
  BY <1>3
<1>5. RowIsTold(id)
  BY <1>1, <1>4
<1>6. CASE Quiet
  BY <1>5, <1>6, QuietStep
<1>7. CASE Begin(r) \/ CheckAccess(r) \/ Create(r) \/ RegisterOwner(r)
  <2>1. UNCHANGED <<work, timeline, unclear>> /\ \A i \in Ids \ {"owner"} : members'[i] = members[i]
    BY <1>7 DEF Begin, CheckAccess, Create, RegisterOwner, People, Types, PeopleType
  <2>2. ops[r].phase \notin Writing /\ ops'[r].phase \notin Writing
    BY <1>7, PhaseIs DEF Begin, CheckAccess, Create, RegisterOwner, Writing, Types, RequestType
  <2>3. Quiet
    BY <1>0, <2>1, <2>2 DEF Quiet, Untold, Writing
  <2> QED  BY <1>6, <2>3
<1>8. CASE Post(r)
  <2>1. UNCHANGED <<work, timeline, unclear, members>> /\ ~Talks(r)
    BY <1>8 DEF Post, People, Talks
  <2>2. Quiet
    BY <1>0, <2>1 DEF Quiet, Untold
  <2> QED  BY <1>6, <2>2
<1>9. CASE TakeSequence(r)
  <2>1. UNCHANGED <<work, timeline, unclear, members>> /\ ops[r].phase = "written"
        /\ ops'[r].phase = "appending" /\ ops'[r].events = ops[r].events
    BY <1>1, <1>9, PhaseIs DEF TakeSequence
  <2>2. Quiet
    BY <1>0, <2>1 DEF Quiet, Untold, Writing
  <2> QED  BY <1>6, <2>2
<1>10. CASE Tell(r)
  <2>1. UNCHANGED <<work, timeline, unclear, members>> /\ ops[r].phase = "committed"
        /\ ops'[r].phase = IF ops[r].events = <<>> THEN "done" ELSE "written"
    BY <1>10, PhaseIs DEF Tell, People
  <2>2. Talks(r) => ops'[r].phase = "done"
    BY <2>1 DEF AnnouncedInv, Announced, Writing, Untold
  <2>3. Quiet
    BY <1>0, <2>1, <2>2 DEF Quiet, Untold, Writing
  <2> QED  BY <1>6, <2>3
<1>11. CASE Add(r) \/ SetStatus(r, "remove", "removed") \/ SetStatus(r, "leave", "left")
  <2>1. Talks(r) /\ About(r) \in Ids /\ Serving(r) /\ ops[r].phase = "checked"
        /\ UNCHANGED <<work, timeline>>
    BY <1>11, AboutType DEF Add, SetStatus, Talks, Types, Serving
  <2>2. CASE Phase(r, "failed") /\ UNCHANGED <<members, unclear>>
    <3>1. ops'[r].phase = "failed"
      BY <2>2, PhaseIs
    <3>2. Quiet
      BY <1>0, <2>1, <2>2, <3>1 DEF Quiet, Untold, Writing
    <3> QED  BY <1>6, <3>2
  <2>3. ASSUME NEW type \in {"joined", "removed", "left"}, NEW row,
               members' = [members EXCEPT ![About(r)] = row], row.status = Says(type),
               Announces(r, <<[type |-> type, about |-> About(r)]>>)
        PROVE  RowIsTold(id)'
    BY <1>5, <2>1, <2>3, AnnounceStep
  <2>4. CASE Add(r)
    <3>1. Row(work.ask[r].role, "active").status = Says("joined")
      BY DEF Row, Says
    <3> QED  BY <1>1, <2>2, <2>3, <2>4, <3>1 DEF Add, Upserted
  <2>5. ASSUME NEW status \in {"removed", "left"}, NEW kind, SetStatus(r, kind, status)
        PROVE  RowIsTold(id)'
    <3>1. CASE members[About(r)] = None
      BY <2>2, <2>5, <3>1 DEF SetStatus
    <3>2. CASE members[About(r)] # None
      <4> DEFINE row == [members[About(r)] EXCEPT !.status = status]
      <4>1. members[About(r)] \in Rows
        BY <2>1, <3>2 DEF Types, PeopleType
      <4>2. row.status = Says(status)
        BY <4>1 DEF Rows, Says
      <4>3. members' = [members EXCEPT ![About(r)] = row]
            /\ Announces(r, <<[type |-> status, about |-> About(r)]>>)
        BY <2>5, <3>2 DEF SetStatus
      <4> QED  BY <2>3, <4>2, <4>3
    <3> QED  BY <3>1, <3>2
  <2> QED  BY <1>11, <2>4, <2>5
<1>12. CASE Commit(r)
  BY <1>5, <1>12, CommitStep
<1>13. CASE RollBack(r)
  BY <1>5, <1>13, RollBackStep
<1> QED  BY <1>2, <1>7, <1>8, <1>9, <1>10, <1>11, <1>12, <1>13 DEF Serving

(* What is told of whom, in the timeline, always.                            *)
LEMMA AnnouncedStep ==
  ASSUME Types, NotAboutOwner, AnnouncedInv, Next
  PROVE  NotAboutOwner' /\ AnnouncedInv'
<1>1. NotAboutOwner' /\ TimelineInv'
  BY ChecksHold, TimelineNext
<1>2. ASSUME NEW r \in Requests, Begin(r) \/ Serving(r)
      PROVE  AnnouncedInv'
  BY <1>1, <1>2, AnnouncedNext DEF AnnouncedInv
<1>3. CASE Publish \/ \E c \in Connections : Connect(c) \/ Following(c) \/ Break(c) \/ BreakEarly(c)
  <2>1. UNCHANGED <<work, ops, People>>
    BY <1>3, ConnectionActions DEF Publish, Following, Connect, CheckView, Replay, GoLive,
       ReplayFails, Break, BreakEarly, Rest
  <2> QED  BY <1>1, <2>1, NothingDone
<1> QED  BY <1>1, <1>2, <1>3 DEF Next

LEMMA AnnouncedHolds == Spec => [](NotAboutOwner /\ AnnouncedInv)
<1>1. Init => NotAboutOwner /\ AnnouncedInv
  <2> SUFFICES ASSUME Init
               PROVE  NotAboutOwner /\ AnnouncedInv
    OBVIOUS
  <2>1. \A r \in Requests : ops[r].phase = "idle"
    BY DEF Init, NotAsked
  <2>2. timeline = <<>> /\ timeline \in Events /\ DOMAIN timeline = {}
    BY DEF Init, Events
  <2> QED  BY <2>1, <2>2 DEF NotAboutOwner, AnnouncedInv, TimelineInv, Announced, Writing, Untold
<1>2. NotAboutOwner /\ AnnouncedInv /\ UNCHANGED vars => NotAboutOwner' /\ AnnouncedInv'
  BY NothingDone DEF vars, People, NotAboutOwner, Kind, About, Actor
<1> QED  BY <1>1, <1>2, AnnouncedStep, TypesHold, PTL DEF Spec

(* The timeline tells who is in: once nothing about a user is on its way,    *)
(* the last event about them says what their row says, unless two requests   *)
(* about them were made at once, or an append failed.                        *)
THEOREM TimelineTellsStatusHolds == Spec => []TimelineTellsStatus
<1>1. Init => StatusInv
  <2> SUFFICES ASSUME Init
               PROVE  StatusInv
    OBVIOUS
  <2>1. \A r \in Requests : ops[r].phase = "idle"
    BY DEF Init, NotAsked
  <2>2. timeline = <<>> /\ DOMAIN timeline = {}
    BY DEF Init
  <2>3. session # None
    BY InitType, NoRecord, FreshType DEF Init
  <2> QED  BY <2>1, <2>2, <2>3 DEF Writing, Untold, StatusInv, RowIsTold, OneAtATime, WillTell, HasTold
<1>2. Types /\ NotAboutOwner /\ AnnouncedInv /\ StatusInv /\ Next => StatusInv'
  <2> SUFFICES ASSUME Types, NotAboutOwner, AnnouncedInv, StatusInv, Next
               PROVE  StatusInv'
    OBVIOUS
  <2>1. ASSUME NEW r \in Requests, Begin(r) \/ Serving(r)
        PROVE  StatusInv'
    BY <2>1, StatusNext
  <2>2. CASE Publish \/ \E c \in Connections : Connect(c) \/ Following(c) \/ Break(c) \/ BreakEarly(c)
    <3>1. UNCHANGED <<work, ops, People>>
      BY <2>2, ConnectionActions DEF Publish, Following, Connect, CheckView, Replay, GoLive,
         ReplayFails, Break, BreakEarly, Rest
    <3> QED  BY <3>1, NothingDone
  <2> QED  BY <2>1, <2>2 DEF Next
<1>3. StatusInv /\ UNCHANGED vars => StatusInv'
  BY NothingDone DEF vars, People
<1>4. Types /\ AnnouncedInv /\ StatusInv => TimelineTellsStatus
  <2> SUFFICES ASSUME Types, AnnouncedInv, StatusInv, NEW id \in Ids \ unclear,
                      \E i \in DOMAIN timeline : timeline[i].about = id,
                      \A r \in Requests : ops[r].phase \in Writing => About(r) # id,
                      ~Recreated
               PROVE  members[id].status = IF LastAbout(id) = "joined" THEN "active" ELSE LastAbout(id)
    BY DEF TimelineTellsStatus
  <2>1. HasTold(id)
    BY DEF StatusInv, RowIsTold
  <2>2. PICK i \in DOMAIN timeline : IsLast(i, id) /\ members[id].status = Says(timeline[i].type)
    BY <2>1 DEF HasTold, Untold, Writing
  <2>3. \A j \in DOMAIN timeline : j \in Nat
    BY DEF AnnouncedInv, TimelineInv, Events
  <2> DEFINE told == {j \in DOMAIN timeline : timeline[j].about = id}
             last == CHOOSE j \in told : \A k \in told : k <= j
  <2>4. i \in told /\ \A k \in told : k <= i
    BY <2>2 DEF IsLast
  <2>5. last \in told /\ \A k \in told : k <= last
    BY <2>4
  <2>6. last = i
    BY <2>3, <2>4, <2>5
  <2>7. LastAbout(id) = timeline[i].type
    BY <2>6 DEF LastAbout
  <2> QED  BY <2>2, <2>7 DEF Says
<1> QED  BY <1>1, <1>2, <1>3, <1>4, AnnouncedHolds, TypesHold, PTL DEF Spec

-------------------------------------------------------------------------------
(* Sequences of events: what comes in order, and what leaves no gap.         *)

(* A sequence of numbers with one more.                                      *)
LEMMA OneMore ==
  ASSUME NEW s \in Seq(Nat), NEW e \in Nat
  PROVE  /\ Append(s, e) \in Seq(Nat)
         /\ Stored(s) \subseteq 1 .. Len(s)
         /\ \A i \in 1 .. Len(s) : Append(s, e)[i] = s[i]
         /\ Append(s, e)[Len(s) + 1] = e
         /\ Stored(Append(s, e)) = IF e > 0 THEN Stored(s) \cup {Len(s) + 1} ELSE Stored(s)
<1>1. /\ Append(s, e) \in Seq(Nat) /\ DOMAIN s = 1 .. Len(s)
      /\ DOMAIN Append(s, e) = 1 .. Len(s) + 1
      /\ Append(s, e)[Len(s) + 1] = e
      /\ \A i \in 1 .. Len(s) : Append(s, e)[i] = s[i]
  OBVIOUS
<1> DEFINE t == Append(s, e)
<1>2. \A i \in 1 .. Len(s) : i \in Stored(t) <=> i \in Stored(s)
  BY <1>1 DEF Stored
<1>3. Len(s) + 1 \in Stored(t) <=> e > 0
  BY <1>1 DEF Stored
<1>4. Stored(s) \subseteq 1 .. Len(s) /\ Stored(t) \subseteq 1 .. Len(s) + 1
  BY <1>1 DEF Stored
<1> HIDE DEF t
<1>5. Len(s) \in Nat /\ \A i \in 1 .. Len(s) + 1 : i \in 1 .. Len(s) \/ i = Len(s) + 1
  OBVIOUS
<1>6. Stored(t) = IF e > 0 THEN Stored(s) \cup {Len(s) + 1} ELSE Stored(s)
  <2>1. CASE e > 0
    <3>1. \A i : i \in Stored(t) <=> i \in Stored(s) \cup {Len(s) + 1}
      BY <1>2, <1>3, <1>4, <1>5, <2>1
    <3> QED  BY <2>1, <3>1, Zenon
  <2>2. CASE ~(e > 0)
    <3>1. \A i : i \in Stored(t) <=> i \in Stored(s)
      BY <1>2, <1>3, <1>4, <1>5, <2>2
    <3> QED  BY <2>2, <3>1, Zenon
  <2> QED  BY <2>1, <2>2
<1> QED  BY <1>1, <1>4, <1>6 DEF t

LEMMA InOrder ==
  ASSUME NEW s \in Seq(Nat), NEW e \in Nat, Increasing(s),
         e > 0 => \A i \in Stored(s) : s[i] < e
  PROVE  Increasing(Append(s, e))
<1> DEFINE t == Append(s, e)
<1>0. /\ Stored(s) \subseteq 1 .. Len(s)
      /\ \A i \in 1 .. Len(s) : t[i] = s[i]
      /\ t[Len(s) + 1] = e
      /\ Stored(t) = IF e > 0 THEN Stored(s) \cup {Len(s) + 1} ELSE Stored(s)
  BY OneMore
<1> HIDE DEF t
<1>1. \A i \in Stored(s) : i \in 1 .. Len(s) /\ t[i] = s[i]
  BY <1>0
<1>2. t[Len(s) + 1] = e /\ \A i \in Stored(t) : i \in Stored(s) \/ (e > 0 /\ i = Len(s) + 1)
  BY <1>0
<1>3. \A i, j \in Stored(t) : i < j => t[i] < t[j]
  BY <1>1, <1>2 DEF Increasing
<1> QED  BY <1>3 DEF t, Increasing

(* A run with one more: a delta, or the next event.                          *)
LEMMA RunGrows ==
  ASSUME NEW s \in Seq(Nat), NEW a \in Nat, NEW b \in Nat, a <= b, IsRun(s, a + 1, b)
  PROVE  IsRun(Append(s, 0), a + 1, b) /\ IsRun(Append(s, b + 1), a + 1, b + 1)
<1>1. \A i \in Stored(s) : i \in 1 .. Len(s) /\ s[i] \in a + 1 .. b
  BY OneMore DEF IsRun
<1>2. Increasing(Append(s, 0)) /\ Increasing(Append(s, b + 1))
  BY <1>1, InOrder DEF IsRun
<1>3. ASSUME NEW e \in {0, b + 1}, NEW c \in Nat, c = IF e = 0 THEN b ELSE b + 1
      PROVE  IsRun(Append(s, e), a + 1, c)
  <2> DEFINE t == Append(s, e)
  <2>1. /\ \A i \in 1 .. Len(s) : t[i] = s[i]
        /\ t[Len(s) + 1] = e
        /\ Stored(t) = IF e > 0 THEN Stored(s) \cup {Len(s) + 1} ELSE Stored(s)
    BY OneMore
  <2>2. Increasing(t)
    BY <1>2
  <2> HIDE DEF t
  <2>3. \A i \in Stored(t) : t[i] \in a + 1 .. c
    BY <1>1, <1>3, <2>1
  <2>4. \A x \in a + 1 .. c : \E i \in Stored(t) : t[i] = x
    <3> SUFFICES ASSUME NEW x \in a + 1 .. c
                 PROVE  \E i \in Stored(t) : t[i] = x
      OBVIOUS
    <3>1. CASE x \in a + 1 .. b
      <4>1. PICK i \in Stored(s) : s[i] = x
        BY <3>1 DEF IsRun
      <4> QED  BY <1>1, <2>1, <4>1
    <3>2. CASE x \notin a + 1 .. b
      <4>1. x = b + 1 /\ e = b + 1
        BY <1>3, <3>2
      <4> QED  BY <2>1, <4>1
    <3> QED  BY <3>1, <3>2
  <2> QED  BY <2>2, <2>3, <2>4 DEF IsRun, t
<1> QED  BY <1>3

LEMMA NoEvents ==
  ASSUME NEW a \in Nat
  PROVE  IsRun(<<>>, a + 1, a)
<1>1. Stored(<<>>) = {}
  BY DEF Stored
<1> QED  BY <1>1 DEF IsRun, Increasing

LEMMA ConcatIs ==
  ASSUME NEW s \in Seq(Nat), NEW t \in Seq(Nat)
  PROVE  /\ s \o t \in Seq(Nat) /\ DOMAIN (s \o t) = 1 .. Len(s) + Len(t)
         /\ DOMAIN s = 1 .. Len(s) /\ DOMAIN t = 1 .. Len(t)
         /\ Len(s) \in Nat /\ Len(t) \in Nat
         /\ \A i \in 1 .. Len(s) : (s \o t)[i] = s[i]
         /\ \A i \in 1 .. Len(t) : (s \o t)[Len(s) + i] = t[i] /\ t[i] \in Nat
OBVIOUS

(* One run after the other.                                                  *)
LEMMA RunsJoin ==
  ASSUME NEW s \in Seq(Nat), NEW t \in Seq(Nat), NEW a \in Nat, NEW b \in Nat, NEW c \in Nat,
         a <= b, b <= c, IsRun(s, a + 1, b), IsRun(t, b + 1, c)
  PROVE  s \o t \in Seq(Nat) /\ IsRun(s \o t, a + 1, c)
<1> DEFINE u == s \o t
<1>1. /\ u \in Seq(Nat) /\ DOMAIN u = 1 .. Len(s) + Len(t)
      /\ DOMAIN s = 1 .. Len(s) /\ DOMAIN t = 1 .. Len(t)
      /\ Len(s) \in Nat /\ Len(t) \in Nat
      /\ \A i \in 1 .. Len(s) : u[i] = s[i]
      /\ \A i \in 1 .. Len(t) : u[Len(s) + i] = t[i]
  BY ConcatIs
<1> HIDE DEF u
<1>2. \A i \in Stored(s) : i \in 1 .. Len(s) /\ i \in Stored(u) /\ u[i] = s[i] /\ s[i] \in a + 1 .. b
  BY <1>1 DEF Stored, IsRun
<1>3. \A i \in Stored(t) : /\ i \in 1 .. Len(t) /\ Len(s) + i \in Stored(u) /\ u[Len(s) + i] = t[i]
                           /\ t[i] \in b + 1 .. c
  BY <1>1 DEF Stored, IsRun
<1>4. ASSUME NEW i \in Stored(u), i \notin Stored(s)
      PROVE  i - Len(s) \in Stored(t) /\ i = Len(s) + (i - Len(s))
  <2>1. i \in 1 .. Len(s) + Len(t) /\ i \notin 1 .. Len(s) /\ u[i] > 0
    BY <1>1, <1>4 DEF Stored
  <2>2. i - Len(s) \in 1 .. Len(t) /\ i = Len(s) + (i - Len(s))
    BY <1>1, <2>1
  <2>3. u[i] = t[i - Len(s)]
    BY <1>1, <2>2
  <2> QED  BY <1>1, <2>1, <2>2, <2>3 DEF Stored
<1>5. Increasing(u)
  <2> SUFFICES ASSUME NEW i \in Stored(u), NEW j \in Stored(u), i < j
               PROVE  u[i] < u[j]
    BY DEF Increasing
  <2>1. CASE i \in Stored(s) /\ j \in Stored(s)
    BY <1>2, <2>1 DEF IsRun, Increasing
  <2>2. CASE i \in Stored(s) /\ j \notin Stored(s)
    <3>1. u[j] \in b + 1 .. c
      BY <1>3, <1>4, <2>2
    <3> QED  BY <1>2, <2>2, <3>1
  <2>3. CASE i \notin Stored(s) /\ j \notin Stored(s)
    <3>1. PICK x \in Stored(t), y \in Stored(t) : i = Len(s) + x /\ j = Len(s) + y
      BY <1>4, <2>3
    <3>2. x < y
      BY <1>1, <1>3, <3>1
    <3> QED  BY <1>3, <3>1, <3>2 DEF IsRun, Increasing
  <2>4. CASE i \notin Stored(s) /\ j \in Stored(s)
    <3>1. PICK x \in Stored(t) : i = Len(s) + x
      BY <1>4, <2>4
    <3> QED  BY <1>1, <1>2, <1>3, <2>4, <3>1
  <2> QED  BY <2>1, <2>2, <2>3, <2>4
<1>6. ASSUME NEW i \in Stored(u)
      PROVE  u[i] \in a + 1 .. c
  <2>1. CASE i \in Stored(s)
    BY <1>2, <2>1
  <2>2. CASE i \notin Stored(s)
    <3>1. PICK x \in Stored(t) : i = Len(s) + x
      BY <1>4, <2>2
    <3>2. u[i] \in b + 1 .. c
      BY <1>3, <3>1
    <3> QED  BY <3>2
  <2> QED  BY <2>1, <2>2
<1>7. ASSUME NEW x \in a + 1 .. c
      PROVE  \E i \in Stored(u) : u[i] = x
  <2>1. CASE x \in a + 1 .. b
    <3>1. PICK i \in Stored(s) : s[i] = x
      BY <2>1 DEF IsRun
    <3> QED  BY <1>2, <3>1
  <2>2. CASE x \in b + 1 .. c
    <3>1. PICK i \in Stored(t) : t[i] = x
      BY <2>2 DEF IsRun
    <3> QED  BY <1>3, <3>1
  <2> QED  BY <2>1, <2>2
<1> QED  BY <1>1, <1>5, <1>6, <1>7 DEF u, IsRun

LEMMA LastIs ==
  ASSUME NEW s \in Seq(Nat), Stored(s) # {}
  PROVE  LastStored(s) \in Stored(s) /\ \A j \in Stored(s) : j <= LastStored(s)
<1>1. Stored(s) \in SUBSET Nat /\ Len(s) \in Nat /\ \A i \in Stored(s) : i <= Len(s)
  BY DEF Stored
<1>2. \E i \in Stored(s) : \A j \in Stored(s) : j <= i
  BY <1>1, Largest
<1> QED  BY <1>2 DEF LastStored

(* A client that breaks off has got a shorter run.                           *)
LEMMA RunPrefix ==
  ASSUME NEW s \in Seq(Nat), NEW a \in Nat, NEW b \in Nat, a <= b, IsRun(s, a + 1, b),
         NEW n \in 0 .. Len(s)
  PROVE  /\ SubSeq(s, 1, n) \in Seq(Nat)
         /\ \E m \in a .. b : IsRun(SubSeq(s, 1, n), a + 1, m)
<1> DEFINE t == SubSeq(s, 1, n)
<1>1. /\ t \in Seq(Nat) /\ DOMAIN t = 1 .. n /\ DOMAIN s = 1 .. Len(s) /\ Len(s) \in Nat
      /\ \A i \in 1 .. n : t[i] = s[i]
  OBVIOUS
<1> HIDE DEF t
<1>2. \A i \in Stored(t) : i \in 1 .. n /\ i \in Stored(s) /\ t[i] = s[i] /\ s[i] \in a + 1 .. b
  BY <1>1 DEF Stored, IsRun
<1>3. Increasing(t)
  BY <1>2 DEF IsRun, Increasing
<1>4. CASE Stored(t) = {}
  <2>1. IsRun(t, a + 1, a)
    BY <1>3, <1>4 DEF IsRun
  <2> QED  BY <1>1, <2>1 DEF t
<1>5. CASE Stored(t) # {}
  <2> DEFINE l == LastStored(t)
             m == s[l]
  <2>1. l \in Stored(t) /\ \A j \in Stored(t) : j <= l
    BY <1>1, <1>5, LastIs
  <2>2. m \in a + 1 .. b
    BY <1>2, <2>1
  <2>3. \A i \in Stored(t) : t[i] \in a + 1 .. m
    <3> SUFFICES ASSUME NEW i \in Stored(t)
                 PROVE  t[i] \in a + 1 .. m
      OBVIOUS
    <3>1. i = l \/ i < l
      BY <1>2, <2>1
    <3>2. t[i] <= m
      BY <1>2, <1>3, <2>1, <3>1 DEF Increasing
    <3> QED  BY <1>2, <2>2, <3>2
  <2>4. ASSUME NEW e \in a + 1 .. m
        PROVE  \E i \in Stored(t) : t[i] = e
    <3>1. PICK i \in Stored(s) : s[i] = e
      BY <2>2, <2>4 DEF IsRun
    <3>2. i \in 1 .. Len(s) /\ s[i] > 0
      BY <1>1 DEF Stored
    <3>3. i <= l
      <4>1. l \in Stored(s) /\ l \in 1 .. n
        BY <1>2, <2>1
      <4>2. ~(l < i)
        BY <2>2, <2>4, <3>1, <4>1 DEF IsRun, Increasing
      <4> QED  BY <3>2, <4>1, <4>2
    <3>4. i \in Stored(t)
      BY <1>1, <1>2, <2>1, <3>2, <3>3 DEF Stored
    <3> QED  BY <1>2, <3>1, <3>4
  <2>5. IsRun(t, a + 1, m)
    BY <1>3, <2>3, <2>4 DEF IsRun
  <2> QED  BY <1>1, <2>2, <2>5 DEF t
<1> QED  BY <1>4, <1>5

(* The last event of a run is where it ends: the cursor of who has got it.   *)
LEMMA RunEnds ==
  ASSUME NEW s \in Seq(Nat), NEW k \in Nat, IsRun(s, 1, k)
  PROVE  k = IF Stored(s) = {} THEN 0 ELSE s[LastStored(s)]
<1>1. \A i \in Stored(s) : i \in Nat /\ s[i] \in 1 .. k
  BY DEF Stored, IsRun
<1>2. CASE k = 0
  <2>1. Stored(s) = {}
    BY <1>1, <1>2
  <2> QED  BY <1>2, <2>1
<1>3. CASE k # 0
  <2>1. PICK i \in Stored(s) : s[i] = k
    BY <1>3 DEF IsRun
  <2> DEFINE l == LastStored(s)
  <2>2. l \in Stored(s) /\ i <= l
    BY <2>1, LastIs
  <2>3. ~(i < l)
    BY <1>1, <2>1, <2>2 DEF IsRun, Increasing
  <2>4. l = i
    BY <1>1, <2>1, <2>2, <2>3
  <2> QED  BY <2>1, <2>4
<1> QED  BY <1>2, <1>3

(* The function that gives one event after the other exists.                 *)
LEMMA Giving ==
  ASSUME NEW conn, NEW events \in Seq(Nat)
  PROVE  \E after : /\ after[0] = conn
                    /\ \A n \in 1 .. Len(events) : after[n] = GiveNew(after[n - 1], events[n])
                    /\ GiveAll(conn, events) = after[Len(events)]
<1> DEFINE Rule(f, i) == IF i = 0 THEN conn ELSE GiveNew(f[i - 1], events[i])
           Gives(f, n) == f = [i \in 0 .. n |-> Rule(f, i)]
           S == {n \in Nat : \E f : Gives(f, n)}
<1>0. Len(events) \in Nat
  OBVIOUS
<1>1. 0 \in S
  <2> DEFINE f == [i \in 0 .. 0 |-> conn]
  <2>1. f = [i \in 0 .. 0 |-> IF i = 0 THEN conn ELSE GiveNew(f[i - 1], events[i])]
    OBVIOUS
  <2> QED  BY <2>1
<1>2. ASSUME NEW n \in Nat, n \in S
      PROVE  n + 1 \in S
  <2>1. PICK f : Gives(f, n)
    BY <1>2
  <2> DEFINE g == [i \in 0 .. n + 1 |-> IF i = n + 1 THEN GiveNew(f[n], events[n + 1]) ELSE f[i]]
  <2>2. ASSUME NEW i \in 0 .. n + 1
        PROVE  g[i] = Rule(g, i)
    <3>1. CASE i = n + 1
      <4>1. g[n] = f[n]
        OBVIOUS
      <4> QED  BY <3>1, <4>1
    <3>2. CASE i = 0
      BY <2>1, <3>2
    <3>3. CASE i \in 1 .. n
      <4>1. i - 1 \in 0 .. n /\ i # n + 1 /\ i - 1 # n + 1 /\ i # 0
        BY <3>3
      <4>2. g[i] = f[i] /\ g[i - 1] = f[i - 1]
        BY <4>1
      <4>3. f[i] = Rule(f, i)
        BY <2>1, <4>1
      <4> QED  BY <4>1, <4>2, <4>3
    <3> QED  BY <3>1, <3>2, <3>3
  <2>3. g = [i \in 0 .. n + 1 |-> g[i]]
    OBVIOUS
  <2> HIDE DEF g, Rule
  <2>4. Gives(g, n + 1)
    BY <2>2, <2>3
  <2> QED  BY <2>4
<1>3. PICK f : Gives(f, Len(events))
  <2> HIDE DEF S
  <2>1. Len(events) \in S
    BY <1>0, <1>1, <1>2, Induction
  <2> QED  BY <2>1 DEF S
<1> DEFINE after == CHOOSE f_1 : Gives(f_1, Len(events))
<1>4. Gives(after, Len(events))
  BY <1>3
<1>5. GiveAll(conn, events) = after[Len(events)]
  BY DEF GiveAll
<1> HIDE DEF after
<1>6. after[0] = conn
  BY <1>0, <1>4
<1>7. ASSUME NEW n \in 1 .. Len(events)
      PROVE  after[n] = GiveNew(after[n - 1], events[n])
  <2>1. n \in 0 .. Len(events) /\ n # 0
    BY <1>0
  <2> QED  BY <1>4, <2>1
<1> QED  BY <1>5, <1>6, <1>7

(* What was given is in order, and the last of it is what was delivered.     *)
InOrderUpTo(conn) ==
  /\ Fields \subseteq DOMAIN conn /\ conn.closed \in BOOLEAN
  /\ conn.given \in Seq(Nat) /\ conn.delivered \in Nat
  /\ Increasing(conn.given)
  /\ \A i \in Stored(conn.given) : conn.given[i] <= conn.delivered

(* It is the run of the events behind first.                                 *)
Complete(conn, first) ==
  /\ ~conn.closed /\ first <= conn.delivered
  /\ IsRun(conn.given, first + 1, conn.delivered)

LEMMA GiveToIs ==
  ASSUME NEW conn, Fields \subseteq DOMAIN conn, NEW e
  PROVE  LET next == GiveTo(conn, e) IN
         /\ Fields \subseteq DOMAIN next
         /\ \A f \in Fields \ {"given", "delivered"} : next[f] = conn[f]
         /\ next.given = IF conn.closed THEN conn.given ELSE Append(conn.given, e)
         /\ next.delivered = IF e > 0 THEN Greater(conn.delivered, e) ELSE conn.delivered
BY DEF GiveTo, Fields

LEMMA GiveNewIs ==
  ASSUME NEW conn, InOrderUpTo(conn), NEW e \in Nat
  PROVE  LET next == GiveNew(conn, e) IN
         /\ InOrderUpTo(next)
         /\ \A f \in Fields \ {"given", "delivered"} : next[f] = conn[f]
         /\ conn.closed => next.given = conn.given
         /\ conn.delivered <= next.delivered /\ e <= next.delivered
         /\ next.delivered \in {conn.delivered, e}
<1> DEFINE next == GiveNew(conn, e)
           to == GiveTo(conn, e)
<1>1. CASE Old(conn, e)
  BY <1>1 DEF Old, GiveNew, InOrderUpTo
<1>2. CASE ~Old(conn, e)
  <2>1. next = to
    BY <1>2 DEF GiveNew
  <2>2. /\ Fields \subseteq DOMAIN to
        /\ \A f \in Fields \ {"given", "delivered"} : to[f] = conn[f]
        /\ to.given = IF conn.closed THEN conn.given ELSE Append(conn.given, e)
        /\ to.delivered = IF e > 0 THEN Greater(conn.delivered, e) ELSE conn.delivered
    BY GiveToIs DEF InOrderUpTo
  <2> HIDE DEF to
  <2>3. e > 0 => e > conn.delivered
    BY <1>2 DEF Old, InOrderUpTo
  <2>4. /\ to.delivered = IF e > 0 THEN e ELSE conn.delivered
        /\ to.delivered \in Nat /\ conn.delivered <= to.delivered /\ e <= to.delivered
    BY <2>2, <2>3 DEF Greater, InOrderUpTo
  <2>5. to.closed = conn.closed
    BY <2>2 DEF Fields
  <2>6. /\ to.given \in Seq(Nat) /\ Increasing(to.given)
        /\ \A i \in Stored(to.given) : to.given[i] <= to.delivered
    <3>1. CASE conn.closed
      <4>1. \A i \in Stored(conn.given) : conn.given[i] \in Nat
        BY DEF Stored, InOrderUpTo
      <4> QED  BY <2>2, <2>4, <3>1, <4>1 DEF InOrderUpTo
    <3>2. CASE ~conn.closed
      <4> DEFINE s == conn.given
      <4>1. s \in Seq(Nat) /\ Increasing(s) /\ \A i \in Stored(s) : s[i] <= conn.delivered
        BY DEF InOrderUpTo
      <4>2. to.given = Append(s, e)
        BY <2>2, <3>2
      <4>3. \A i \in Stored(s) : s[i] \in Nat
        BY <4>1 DEF Stored
      <4> HIDE DEF s
      <4>4. e > 0 => \A i \in Stored(s) : s[i] < e
        BY <2>3, <4>1, <4>3 DEF InOrderUpTo
      <4>5. Increasing(Append(s, e))
        BY <4>1, <4>4, InOrder
      <4>6. /\ Append(s, e) \in Seq(Nat)
            /\ Stored(s) \subseteq 1 .. Len(s)
            /\ \A i \in 1 .. Len(s) : Append(s, e)[i] = s[i]
            /\ Append(s, e)[Len(s) + 1] = e
            /\ Stored(Append(s, e)) = IF e > 0 THEN Stored(s) \cup {Len(s) + 1} ELSE Stored(s)
        BY <4>1, OneMore
      <4>7. \A i \in Stored(Append(s, e)) : Append(s, e)[i] <= to.delivered
        <5> SUFFICES ASSUME NEW i \in Stored(Append(s, e))
                     PROVE  Append(s, e)[i] <= to.delivered
          OBVIOUS
        <5>1. CASE i \in Stored(s)
          BY <2>4, <4>1, <4>3, <4>6, <5>1 DEF InOrderUpTo
        <5>2. CASE i \notin Stored(s)
          <6>1. i = Len(s) + 1
            BY <4>6, <5>2
          <6> QED  BY <2>4, <4>6, <6>1
        <5> QED  BY <5>1, <5>2
      <4> QED  BY <4>2, <4>5, <4>6, <4>7
    <3> QED  BY <3>1, <3>2 DEF InOrderUpTo
  <2>7. InOrderUpTo(to)
    BY <2>2, <2>4, <2>5, <2>6 DEF InOrderUpTo
  <2> QED  BY <2>1, <2>2, <2>4, <2>7
<1> QED  BY <1>1, <1>2

(* An event that was given, or comes next, leaves no gap.                    *)
LEMMA GiveNext ==
  ASSUME NEW conn, InOrderUpTo(conn), NEW first \in Nat, Complete(conn, first),
         NEW e \in Nat, e <= conn.delivered + 1
  PROVE  Complete(GiveNew(conn, e), first)
<1>1. CASE Old(conn, e)
  BY <1>1 DEF GiveNew
<1>2. CASE ~Old(conn, e)
  <2> DEFINE to == GiveTo(conn, e)
  <2>1. /\ \A f \in Fields \ {"given", "delivered"} : to[f] = conn[f]
        /\ to.given = Append(conn.given, e)
        /\ to.delivered = IF e > 0 THEN Greater(conn.delivered, e) ELSE conn.delivered
    BY GiveToIs DEF InOrderUpTo, Complete
  <2>2. e \in {0, conn.delivered + 1}
    BY <1>2 DEF Old, InOrderUpTo
  <2> HIDE DEF to
  <2>3. to.delivered = (IF e = 0 THEN conn.delivered ELSE conn.delivered + 1) /\ ~to.closed
    BY <2>1, <2>2 DEF Greater, InOrderUpTo, Complete, Fields
  <2>4. IsRun(Append(conn.given, 0), first + 1, conn.delivered)
        /\ IsRun(Append(conn.given, conn.delivered + 1), first + 1, conn.delivered + 1)
    BY RunGrows DEF InOrderUpTo, Complete
  <2>5. first <= to.delivered
    BY <2>3 DEF InOrderUpTo, Complete
  <2>6. IsRun(to.given, first + 1, to.delivered)
    BY <2>1, <2>2, <2>3, <2>4 DEF InOrderUpTo
  <2> QED  BY <1>2, <2>3, <2>5, <2>6 DEF GiveNew, Complete, to
<1> QED  BY <1>1, <1>2

(* Whatever is given leaves what was given in order.                         *)
LEMMA GiveAllInOrder ==
  ASSUME NEW conn, InOrderUpTo(conn), NEW events \in Seq(Nat)
  PROVE  /\ InOrderUpTo(GiveAll(conn, events))
         /\ conn.closed => GiveAll(conn, events).given = conn.given
<1>1. PICK after : /\ after[0] = conn
                   /\ \A n \in 1 .. Len(events) : after[n] = GiveNew(after[n - 1], events[n])
                   /\ GiveAll(conn, events) = after[Len(events)]
  BY Giving
<1>2. Len(events) \in Nat /\ \A n \in 1 .. Len(events) : events[n] \in Nat
  OBVIOUS
<1> DEFINE S == {n \in Nat : n <= Len(events) =>
                   /\ InOrderUpTo(after[n])
                   /\ conn.closed => after[n].closed /\ after[n].given = conn.given}
<1>3. 0 \in S
  BY <1>1
<1>4. ASSUME NEW n \in Nat, n \in S
      PROVE  n + 1 \in S
  <2> SUFFICES ASSUME n + 1 <= Len(events)
               PROVE  /\ InOrderUpTo(after[n + 1])
                      /\ conn.closed => after[n + 1].closed /\ after[n + 1].given = conn.given
    OBVIOUS
  <2>1. n + 1 \in 1 .. Len(events) /\ n <= Len(events) /\ (n + 1) - 1 = n
    BY <1>2
  <2>2. after[n + 1] = GiveNew(after[n], events[n + 1]) /\ events[n + 1] \in Nat
    BY <1>1, <1>2, <2>1
  <2>3. InOrderUpTo(after[n]) /\ (conn.closed => after[n].closed /\ after[n].given = conn.given)
    BY <1>4, <2>1
  <2> HIDE DEF S
  <2>4. LET next == GiveNew(after[n], events[n + 1]) IN
         /\ InOrderUpTo(next)
         /\ \A f \in Fields \ {"given", "delivered"} : next[f] = after[n][f]
         /\ after[n].closed => next.given = after[n].given
    BY <2>2, <2>3, GiveNewIs
  <2> QED  BY <2>2, <2>3, <2>4 DEF Fields
<1>5. Len(events) \in S
  <2> HIDE DEF S
  <2> QED  BY <1>2, <1>3, <1>4, Induction
<1> QED  BY <1>1, <1>2, <1>5

(* Each event is one that was there, or comes next after one before it.      *)
Gapless(events, first) ==
  \A i \in DOMAIN events :
    events[i] <= first + 1 \/ \E j \in DOMAIN events : j < i /\ events[i] <= events[j] + 1

LEMMA GiveAllComplete ==
  ASSUME NEW conn, InOrderUpTo(conn), NEW events \in Seq(Nat), NEW first \in Nat,
         Complete(conn, first), Gapless(events, conn.delivered)
  PROVE  LET given == GiveAll(conn, events) IN
         /\ InOrderUpTo(given) /\ Complete(given, first)
         /\ conn.delivered <= given.delivered
         /\ \A i \in DOMAIN events : events[i] <= given.delivered
         /\ given.delivered = conn.delivered \/ \E i \in DOMAIN events : given.delivered = events[i]
<1>1. PICK after : /\ after[0] = conn
                   /\ \A n \in 1 .. Len(events) : after[n] = GiveNew(after[n - 1], events[n])
                   /\ GiveAll(conn, events) = after[Len(events)]
  BY Giving
<1>2. Len(events) \in Nat /\ DOMAIN events = 1 .. Len(events)
      /\ \A n \in 1 .. Len(events) : events[n] \in Nat
  OBVIOUS
<1> DEFINE Good(n) == /\ InOrderUpTo(after[n]) /\ Complete(after[n], first)
                      /\ conn.delivered <= after[n].delivered
                      /\ \A i \in 1 .. n : events[i] <= after[n].delivered
                      /\ \/ after[n].delivered = conn.delivered
                         \/ \E i \in DOMAIN events : after[n].delivered = events[i]
           S == {n \in Nat : n <= Len(events) => Good(n)}
<1>3. 0 \in S
  <2>1. conn.delivered <= conn.delivered
    BY DEF InOrderUpTo
  <2> QED  BY <1>1, <2>1
<1>4. ASSUME NEW n \in Nat, n \in S
      PROVE  n + 1 \in S
  <2> SUFFICES ASSUME n + 1 <= Len(events)
               PROVE  Good(n + 1)
    OBVIOUS
  <2>1. n + 1 \in 1 .. Len(events) /\ n <= Len(events) /\ (n + 1) - 1 = n
    BY <1>2
  <2> DEFINE e == events[n + 1]
             now == after[n]
             next == after[n + 1]
  <2>2. next = GiveNew(now, e) /\ e \in Nat
    BY <1>1, <1>2, <2>1
  <2>3. Good(n)
    BY <1>4, <2>1
  <2> HIDE DEF S, e, now, next
  <2>4. /\ InOrderUpTo(next)
        /\ now.delivered <= next.delivered /\ e <= next.delivered
        /\ next.delivered \in {now.delivered, e}
    BY <2>2, <2>3, GiveNewIs DEF now
  <2>5. now.delivered \in Nat /\ next.delivered \in Nat /\ conn.delivered \in Nat
    BY <2>3, <2>4 DEF InOrderUpTo, now
  <2>6. e <= now.delivered + 1
    <3>1. CASE e <= conn.delivered + 1
      BY <2>2, <2>3, <2>5, <3>1 DEF now
    <3>2. CASE \E j \in DOMAIN events : j < n + 1 /\ e <= events[j] + 1
      <4>1. PICK j \in DOMAIN events : j < n + 1 /\ e <= events[j] + 1
        BY <3>2
      <4>2. j \in 1 .. n /\ events[j] \in Nat
        BY <1>2, <4>1
      <4>3. events[j] <= now.delivered
        BY <2>3, <4>2 DEF now
      <4> QED  BY <2>2, <2>5, <4>1, <4>2, <4>3
    <3> QED  BY <1>2, <2>1, <3>1, <3>2 DEF Gapless, e
  <2>7. Complete(next, first)
    BY <2>2, <2>3, <2>6, GiveNext DEF now
  <2>8. conn.delivered <= next.delivered
    BY <2>3, <2>4, <2>5 DEF now
  <2>9. ASSUME NEW i \in 1 .. n + 1
        PROVE  events[i] <= next.delivered
    <3>1. CASE i = n + 1
      BY <2>4, <3>1 DEF e
    <3>2. CASE i # n + 1
      <4>1. i \in 1 .. n /\ events[i] \in Nat
        BY <1>2, <2>1, <3>2
      <4>2. events[i] <= now.delivered
        BY <2>3, <4>1 DEF now
      <4> QED  BY <2>4, <2>5, <4>1, <4>2
    <3> QED  BY <3>1, <3>2
  <2>10. next.delivered = conn.delivered \/ \E i \in DOMAIN events : next.delivered = events[i]
    BY <1>2, <2>1, <2>3, <2>4 DEF now, e
  <2> QED  BY <2>4, <2>7, <2>8, <2>9, <2>10 DEF next
<1>5. Len(events) \in S
  <2> HIDE DEF S
  <2> QED  BY <1>2, <1>3, <1>4, Induction
<1> QED  BY <1>1, <1>2, <1>5

-------------------------------------------------------------------------------
(* What a connection is given.  Nothing is written while its replay is read; *)
(* until it is checked nothing is kept for it either.                        *)

Given(conn) ==
  /\ InOrderUpTo(conn)
  /\ conn.cursor \in Nat /\ conn.page \in Seq(Nat) /\ conn.buffer \in Seq(Nat)
  /\ conn.cut \in BOOLEAN /\ conn.early \in BOOLEAN /\ conn.listens \in BOOLEAN
  /\ conn.phase \in {"idle", "record", "subscribed", "read"} => conn.given = <<>>
  /\ conn.phase \in {"idle", "record"} =>
       conn.buffer = <<>> /\ ~conn.closed /\ ~conn.listens
  /\ conn.phase \in {"idle", "record", "subscribed"} => ~conn.cut
  /\ conn.phase = "live" => ~conn.closed
  /\ conn.phase = "idle" => ~conn.early

GivenInv == received \in Seq(Nat) /\ \A c \in Connections : Given(conns[c])

LEMMA NothingGiven == Increasing(<<>>) /\ Stored(<<>>) = {}
BY DEF Increasing, Stored

LEMMA DeliverGiven ==
  ASSUME NEW conn, Given(conn), NEW e \in Nat, conn.listens
  PROVE  Given(Deliver(conn, e))
<1>1. CASE Old(conn, e)
  BY <1>1 DEF Deliver
<1>2. CASE ~Old(conn, e) /\ conn.phase \in {"subscribed", "read"}
  <2>1. Append(conn.buffer, e) \in Seq(Nat)
    BY DEF Given
  <2> QED  BY <1>2, <2>1 DEF Deliver, Given, InOrderUpTo, Fields
<1>3. CASE ~Old(conn, e) /\ conn.phase \notin {"subscribed", "read"}
  <2> DEFINE next == GiveNew(conn, e)
  <2>1. /\ InOrderUpTo(next)
        /\ \A f \in Fields \ {"given", "delivered"} : next[f] = conn[f]
    BY GiveNewIs DEF Given
  <2>2. Deliver(conn, e) = next
    BY <1>3 DEF Deliver, GiveNew
  <2> HIDE DEF next
  <2>3. conn.phase \notin {"idle", "record"}
    BY DEF Given
  <2>4. Given(next)
    BY <1>3, <2>1, <2>3 DEF Given, Fields
  <2> QED  BY <2>2, <2>4
<1> QED  BY <1>1, <1>2, <1>3

LEMMA CursorType ==
  ASSUME received \in Seq(Nat)
  PROVE  Cursor \in Nat
<1>1. CASE Stored(received) = {}
  BY <1>1 DEF Cursor
<1>2. CASE Stored(received) # {}
  <2>1. LastStored(received) \in DOMAIN received
    BY <1>2, LastIs DEF Stored
  <2> QED  BY <1>2, <2>1 DEF Cursor
<1> QED  BY <1>1, <1>2

(* A page of the replay: the next events after the cursor.                   *)
LEMMA PageIs ==
  ASSUME TimelineInv, NEW n \in Nat
  PROVE  LET page == {e \in {d \in DOMAIN timeline : d > n} : e <= n + Limit} IN
         /\ Cardinality(page) \in Nat
         /\ [i \in 1 .. Cardinality(page) |-> n + i] \in Seq(Nat)
<1> DEFINE page == {e \in {d \in DOMAIN timeline : d > n} : e <= n + Limit}
           size == Cardinality(page)
<1>1. DOMAIN timeline = 1 .. Len(timeline) /\ Len(timeline) \in Nat
  BY DEF TimelineInv, Events
<1>2. IsFiniteSet(1 .. Len(timeline)) /\ page \subseteq 1 .. Len(timeline)
  BY <1>1, FS_Interval
<1> HIDE DEF page
<1>3. size \in Nat
  BY <1>2, FS_Subset, FS_CardinalityType
<1> HIDE DEF size
<1>4. [i \in 1 .. size |-> n + i] \in Seq(Nat)
  BY <1>3
<1> QED  BY <1>3, <1>4 DEF size, page

LEMMA TellGiven ==
  ASSUME Types, GivenInv, Publish \/ \E r \in Requests : Tell(r)
  PROVE  GivenInv'
<1>1. received' = received /\ \E e \in Nat : Broadcast(e)
  BY DEF Publish, Tell, Types, RequestType
<1>2. PICK e \in Nat : Broadcast(e)
  BY <1>1
<1>3. \A c \in Connections : Given(conns'[c])
  BY <1>2, DeliverGiven DEF Broadcast, GivenInv
<1> QED  BY <1>1, <1>3 DEF GivenInv

(* One connection moves, and what it becomes is known.                       *)
LEMMA ConnectionGiven ==
  ASSUME Types, GivenInv, received' \in Seq(Nat), NEW c \in Connections, NEW conn,
         SetConn(c, conn), Given(conn)
  PROVE  GivenInv'
BY DEF Types, ConnectionType, SetConn, GivenInv

LEMMA BreakGives ==
  ASSUME Types, GivenInv, NEW c \in Connections, Break(c)
  PROVE  received' \in Seq(Nat)
<1>1. PICK n \in 0 .. Len(conns[c].given) : received' = received \o SubSeq(conns[c].given, 1, n)
  BY DEF Break
<1>2. received \in Seq(Nat) /\ conns[c].given \in Seq(Nat)
  BY DEF GivenInv, Given, InOrderUpTo
<1>3. SubSeq(conns[c].given, 1, n) \in Seq(Nat)
  BY <1>2
<1> HIDE DEF GivenInv
<1> QED  BY <1>1, <1>2, <1>3

LEMMA FollowGiven ==
  ASSUME Types, TimelineInv, GivenInv, NEW c \in Connections,
         Connect(c) \/ CheckView(c) \/ Replay(c) \/ GoLive(c) \/ ReplayFails(c) \/ Break(c) \/ BreakEarly(c)
  PROVE  GivenInv'
<1>1. Given(conns[c]) /\ Fields \subseteq DOMAIN conns[c]
  BY DEF GivenInv, Types, ConnectionType
<1>2. received' \in Seq(Nat)
  <2>1. CASE Break(c)
    BY <2>1, BreakGives
  <2>2. CASE ~Break(c)
    BY <2>2 DEF GivenInv, Connect, CheckView, Replay, GoLive, ReplayFails, BreakEarly
  <2> QED  BY <2>1, <2>2
<1>3. CASE Connect(c)
  <2>1. Cursor \in Nat
    BY CursorType DEF GivenInv
  <2>2. Given([conns[c] EXCEPT !.phase = "record", !.record = session, !.cursor = Cursor])
    BY <1>1, <1>3, <2>1 DEF Connect, Given, InOrderUpTo, Fields
  <2> QED  BY <1>2, <1>3, <2>2, ConnectionGiven DEF Connect
<1>4. CASE CheckView(c)
  <2>1. conns[c].phase = "record"
    BY <1>4 DEF CheckView
  <2>2. Given([conns[c] EXCEPT !.phase = "subscribed", !.delivered = conns[c].cursor,
                               !.listens = SubscribesFirst])
    BY <1>1, <2>1, NothingGiven DEF Given, InOrderUpTo, Fields, SubscribesFirst
  <2>3. Given([conns[c] EXCEPT !.phase = "refused"])
    BY <1>1, <2>1 DEF Given, InOrderUpTo, Fields
  <2> QED  BY <1>2, <1>4, <2>2, <2>3, ConnectionGiven DEF CheckView
<1>5. CASE Replay(c)
  <2> DEFINE behind == {e \in DOMAIN timeline : e > conns[c].cursor}
             page == {e \in behind : e <= conns[c].cursor + Limit}
             events == [i \in 1 .. Cardinality(page) |-> conns[c].cursor + i]
  <2>1. events \in Seq(Nat) /\ (page # behind) \in BOOLEAN
    BY <1>1, PageIs DEF Given
  <2>2. SetConn(c, [conns[c] EXCEPT !.phase = "read", !.cut = (page # behind), !.page = events])
        /\ conns[c].phase = "subscribed"
    BY <1>5 DEF Replay
  <2> DEFINE cut == page # behind
  <2>3. cut \in BOOLEAN
    BY <2>1
  <2> HIDE DEF events, cut
  <2>4. Given([conns[c] EXCEPT !.phase = "read", !.cut = cut, !.page = events])
    BY <1>1, <2>1, <2>2, <2>3 DEF Given, InOrderUpTo, Fields
  <2> QED  BY <1>2, <2>2, <2>4, ConnectionGiven DEF cut
<1>6. CASE GoLive(c)
  <2> DEFINE events == conns[c].page \o conns[c].buffer
             after == GiveAll(conns[c], events)
  <2>1. events \in Seq(Nat)
    BY <1>1 DEF Given
  <2> HIDE DEF events
  <2>2. InOrderUpTo(after) /\ (conns[c].closed => after.given = conns[c].given)
    BY <1>1, <2>1, GiveAllInOrder DEF Given
  <2>3. conns[c].phase = "read"
        /\ SetConn(c, [conns[c] EXCEPT !.phase = IF conns[c].closed THEN "left" ELSE "live",
                                 !.listens = ~Unsubscribes(conns[c]),
                                 !.given = after.given, !.delivered = after.delivered,
                                 !.page = <<>>, !.buffer = <<>>])
    BY <1>6 DEF GoLive, events
  <2> HIDE DEF after
  <2>4. <<>> \in Seq(Nat)
    OBVIOUS
  <2>5. Unsubscribes(conns[c]) = conns[c].closed /\ conns[c].closed \in BOOLEAN
    BY <1>1 DEF Unsubscribes, Given, InOrderUpTo
  <2>6. Given([conns[c] EXCEPT !.phase = IF conns[c].closed THEN "left" ELSE "live",
                                 !.listens = ~Unsubscribes(conns[c]),
                                 !.given = after.given, !.delivered = after.delivered,
                                 !.page = <<>>, !.buffer = <<>>])
    BY <1>1, <2>2, <2>3, <2>4, <2>5 DEF Given, InOrderUpTo, Fields
  <2> QED  BY <1>2, <2>3, <2>6, ConnectionGiven
<1>7. CASE ReplayFails(c)
  <2>1. Given([conns[c] EXCEPT !.phase = "failed", !.closed = TRUE])
    BY <1>1, <1>7 DEF ReplayFails, Given, InOrderUpTo, Fields
  <2> QED  BY <1>2, <1>7, <2>1, ConnectionGiven DEF ReplayFails
<1>8. CASE Break(c)
  <2> DEFINE conn == [conns[c] EXCEPT !.closed = TRUE, !.phase = IF @ = "live" THEN "left" ELSE @,
                                      !.listens = conns[c].phase # "live"]
  <2>1. SetConn(c, conn) /\ conns[c].phase \in {"subscribed", "read", "live"}
    BY <1>8 DEF Break
  <2>2. Given(conn)
    BY <1>1, <2>1 DEF Given, InOrderUpTo, Fields
  <2> QED  BY <1>2, <2>1, <2>2, ConnectionGiven
<1>9. CASE BreakEarly(c)
  <2>1. Given([conns[c] EXCEPT !.early = TRUE])
    BY <1>1, <1>9 DEF BreakEarly, Given, InOrderUpTo, Fields
  <2> QED  BY <1>2, <1>9, <2>1, ConnectionGiven DEF BreakEarly
<1> QED  BY <1>3, <1>4, <1>5, <1>6, <1>7, <1>8, <1>9

LEMMA GivenInit == Init => GivenInv
<1> SUFFICES ASSUME Init
             PROVE  GivenInv
  OBVIOUS
<1>1. <<>> \in Seq(Nat)
  OBVIOUS
<1>2. Given(NotConnected)
  BY <1>1, NothingGiven DEF Given, InOrderUpTo, NotConnected, Fields
<1> QED  BY <1>1, <1>2 DEF Init, GivenInv

LEMMA GivenNext ==
  ASSUME Types, TimelineInv, GivenInv, Next
  PROVE  GivenInv'
<1>1. ASSUME UNCHANGED <<conns, received>>
      PROVE  GivenInv'
  BY <1>1 DEF GivenInv
<1>2. ASSUME NEW r \in Requests, Begin(r) \/ Serving(r)
      PROVE  GivenInv'
  <2>1. CASE Tell(r)
    BY <2>1, TellGiven
  <2>2. CASE ~Tell(r)
    BY <1>1, <1>2, <2>2 DEF Begin, Serving, CheckAccess, Add, SetStatus, Post, Delete, Create, RegisterOwner,
       TakeSequence, Commit, RollBack, Stream
  <2> QED  BY <2>1, <2>2
<1>3. ASSUME NEW c \in Connections, Connect(c) \/ Following(c) \/ Break(c) \/ BreakEarly(c)
      PROVE  GivenInv'
  BY <1>3, FollowGiven DEF Following
<1> QED  BY <1>2, <1>3, TellGiven DEF Next

(* A connection is given every stored event once, in order, whatever the     *)
(* replay, the events kept during it and the live ones have in common.       *)
THEOREM OnceInOrderHolds == Spec => []OnceInOrder
<1>1. GivenInv /\ UNCHANGED vars => GivenInv'
  BY DEF vars, GivenInv
<1>2. AnnouncedInv => TimelineInv
  BY DEF AnnouncedInv
<1>3. GivenInv => OnceInOrder
  BY DEF GivenInv, Given, InOrderUpTo, OnceInOrder
<1> QED  BY <1>1, <1>2, <1>3, GivenInit, GivenNext, AnnouncedHolds, TypesHold, PTL DEF Spec

-------------------------------------------------------------------------------
(* What a client misses.  An event is told once it is broadcast; as long as  *)
(* none is overtaken, those not told yet are behind all that are.            *)

Told ==
  {e \in 1 .. Len(timeline) : \A r \in Requests : ops[r].phase = "committed" => ops[r].sequence # e}

SequenceInv ==
  ~Recreated =>
    /\ session # None /\ session.sequence = Len(timeline)
    /\ \A r \in Requests : ops[r].phase = "committed" => ops[r].sequence \in 1 .. Len(timeline)
    /\ \A r, q \in Requests :
         ops[r].phase = "committed" /\ ops[q].phase = "committed"
           /\ ops[r].sequence = ops[q].sequence => r = q
    /\ ~overtaken =>
         \A r \in Requests : ops[r].phase = "committed" => \A e \in Told : e < ops[r].sequence

(* The connection that follows: the connections before it are over.          *)
Current(conn) == conn.phase \in {"record", "subscribed", "read", "live"} /\ ~IsOver(conn)

InTurn ==
  \A c \in Connections :
    /\ conns[c].phase = "idle" => ~IsOver(conns[c])
    /\ Current(conns[c]) => \A d \in Connections : d < c => IsOver(conns[d])

(* What it keeps while its replay is read: the events told since.            *)
KeepsNew(conn, told) ==
  /\ conn.listens /\ conn.delivered = conn.cursor /\ Increasing(conn.buffer)
  /\ \A i \in Stored(conn.buffer) : conn.buffer[i] \in told /\ conn.buffer[i] > conn.cursor

LastRead(conn) == conn.cursor + Len(conn.page)

(* Between what was read and what is kept, and then what is given, no event  *)
(* that was told is missing.                                                 *)
HasRead(conn, told, n) ==
  /\ KeepsNew(conn, told) /\ LastRead(conn) <= n
  /\ \A i \in DOMAIN conn.page : conn.page[i] = conn.cursor + i
  /\ \A e \in told : e > LastRead(conn) => \E i \in Stored(conn.buffer) : conn.buffer[i] = e

HasGiven(conn, told, n) ==
  /\ conn.listens /\ conn.delivered \in conn.cursor .. n
  /\ IsRun(conn.given, conn.cursor + 1, conn.delivered)
  /\ \A e \in told : e <= conn.delivered

Follows(conn, told, n) ==
  /\ conn.phase = "subscribed" => KeepsNew(conn, told)
  /\ conn.phase = "read" => HasRead(conn, told, n)
  /\ conn.phase = "live" => HasGiven(conn, told, n)

Undisturbed == ~Recreated /\ ~overtaken /\ \A c \in Connections : ~conns[c].cut

FollowInv ==
  Undisturbed =>
    /\ Cursor <= Len(timeline) /\ IsRun(received, 1, Cursor)
    /\ \A c \in Connections :
         Current(conns[c]) =>
           conns[c].cursor = Cursor /\ Follows(conns[c], Told, Len(timeline))

LEMMA TimelineLength ==
  ASSUME TimelineInv
  PROVE  Len(timeline) \in Nat /\ DOMAIN timeline = 1 .. Len(timeline)
BY DEF TimelineInv, Events

(* A step of a request that neither stores an event nor tells one.           *)
LEMMA QuietRequest ==
  ASSUME Types, SequenceInv, NEW r \in Requests, Begin(r) \/ Serving(r), ~Commit(r), ~Tell(r),
         ~Recreated'
  PROVE  /\ UNCHANGED <<work, session, timeline, overtaken, conns, received>> /\ ~Recreated
         /\ ops[r].phase # "committed" /\ ops'[r].phase # "committed"
         /\ \A q \in Requests \ {r} : ops'[q] = ops[q]
<1>0. UNCHANGED work /\ \A q \in Requests \ {r} : ops'[q] = ops[q]
  BY OnlyItsOwn
<1>1. ~Recreated
  BY RecreatedStays
<1>2. ~Delete(r)
  BY <1>0, PhaseIs DEF Delete, Recreated, Kind
<1>3. session # None
  BY <1>1 DEF SequenceInv
<1>4. UNCHANGED <<session, timeline, overtaken, conns, received>> /\ ops[r].phase # "committed"
  BY <1>2, <1>3 DEF Serving, Begin, CheckAccess, Add, SetStatus, Post, Create, RegisterOwner,
     TakeSequence, RollBack, People, Stream
<1>5. ops'[r].phase # "committed"
  BY <1>2, PhaseIs, AnnouncesIs DEF Serving, Begin, CheckAccess, Add, SetStatus, Post, Create, RegisterOwner,
     TakeSequence, RollBack, Types, RequestType
<1> QED  BY <1>0, <1>1, <1>4, <1>5

LEMMA QuietTold ==
  ASSUME UNCHANGED timeline, NEW r \in Requests,
         ops[r].phase # "committed", ops'[r].phase # "committed",
         \A q \in Requests \ {r} : ops'[q] = ops[q]
  PROVE  Told' = Told
BY DEF Told

(* An event is stored: it is the last, and not told.                         *)
LEMMA CommitIs ==
  ASSUME Types, AnnouncedInv, SequenceInv, NEW r \in Requests, Commit(r), ~Recreated'
  PROVE  /\ ~Recreated /\ session' # None /\ session'.sequence = Len(timeline')
         /\ Len(timeline) \in Nat /\ Len(timeline') = Len(timeline) + 1
         /\ ops[r].phase = "appending"
         /\ ops'[r].phase = "committed" /\ ops'[r].sequence = Len(timeline) + 1
         /\ UNCHANGED <<overtaken, conns, received>>
         /\ \A q \in Requests \ {r} : ops'[q] = ops[q]
         /\ Told' = Told
<1>1. ~Recreated /\ \A q \in Requests \ {r} : ops'[q] = ops[q]
  BY RecreatedStays, OnlyItsOwn DEF Serving
<1>2. session # None /\ session.sequence = Len(timeline) /\ session \in Records
  BY <1>1 DEF SequenceInv, Types, PeopleType
<1>3. /\ ops[r].phase = "appending" /\ ops'[r].phase = "committed"
      /\ ops'[r].sequence = session.sequence + 1
      /\ session' = [session EXCEPT !.sequence = @ + 1]
      /\ timeline' = Append(timeline, Head(ops[r].events))
      /\ UNCHANGED <<overtaken, conns, received>>
  BY DEF Commit, Types, RequestType, Stream
<1>4. session' \in Records /\ session'.sequence = Len(timeline) + 1
  BY <1>2, <1>3 DEF Records
<1>5. timeline \in Events /\ ops[r].events \in Events /\ ops[r].events # <<>>
  BY <1>3 DEF AnnouncedInv, TimelineInv, Announced, Writing, Untold, Types, RequestType
<1>6. Len(timeline) \in Nat /\ Len(timeline') = Len(timeline) + 1
  <2>0. /\ Append(timeline, Head(ops[r].events)) \in Events
        /\ DOMAIN Append(timeline, Head(ops[r].events)) = 1 .. Len(timeline) + 1
    BY <1>5, AppendIs
  <2>1. /\ DOMAIN timeline' = 1 .. Len(timeline) + 1 /\ timeline' \in Events
        /\ Len(timeline) \in Nat
    BY <1>3, <1>5, <2>0 DEF Events
  <2>2. DOMAIN timeline' = 1 .. Len(timeline') /\ Len(timeline') \in Nat
    BY <2>1 DEF Events
  <2>3. Len(timeline) + 1 \in 1 .. Len(timeline')
    BY <2>1, <2>2
  <2>4. Len(timeline') \in 1 .. Len(timeline) + 1
    BY <2>1, <2>2, <2>3
  <2> QED  BY <2>1, <2>2, <2>3, <2>4
<1>7. Told' = Told
  <2>1. ASSUME NEW e \in Told'
        PROVE  e \in Told
    <3>1. e \in 1 .. Len(timeline) + 1 /\ e # Len(timeline) + 1
      BY <1>2, <1>3, <1>6 DEF Told
    <3>2. e \in 1 .. Len(timeline)
      BY <1>6, <3>1
    <3> QED  BY <1>1, <1>3, <3>2 DEF Told
  <2>2. ASSUME NEW e \in Told
        PROVE  e \in Told'
    <3>1. e \in 1 .. Len(timeline) /\ e \in 1 .. Len(timeline') /\ e # ops'[r].sequence
      BY <1>2, <1>3, <1>6 DEF Told
    <3> QED  BY <1>1, <1>3, <3>1 DEF Told
  <2> QED  BY <2>1, <2>2
<1> QED  BY <1>1, <1>2, <1>3, <1>4, <1>6, <1>7, NoRecord

(* An event is told, and none before it was not.                             *)
LEMMA TellIs ==
  ASSUME Types, AnnouncedInv, SequenceInv, NEW r \in Requests, Tell(r), ~Recreated'
  PROVE  LET e == ops[r].sequence IN
         /\ ~Recreated /\ UNCHANGED <<session, timeline, received>> /\ Broadcast(e)
         /\ ops[r].phase = "committed" /\ ops'[r].phase # "committed"
         /\ ops'[r].sequence = e
         /\ \A q \in Requests \ {r} : ops'[q] = ops[q]
         /\ e \in 1 .. Len(timeline) /\ Told' = Told \cup {e}
         /\ ~overtaken' => /\ ~overtaken /\ ~Earlier(r) /\ \A x \in Told : x < e
                           /\ \A x \in 1 .. Len(timeline) : x < e => x \in Told
<1> DEFINE e == ops[r].sequence
<1>1. ~Recreated /\ \A q \in Requests \ {r} : ops'[q] = ops[q]
  BY RecreatedStays, OnlyItsOwn DEF Serving
<1>2. /\ UNCHANGED <<session, timeline, received>> /\ Broadcast(e) /\ ops[r].phase = "committed"
      /\ ops'[r].phase # "committed" /\ ops'[r].sequence = e
      /\ overtaken' = (overtaken \/ Earlier(r))
  <2>1. /\ UNCHANGED <<session, timeline, received>> /\ Broadcast(e) /\ ops[r].phase = "committed"
        /\ overtaken' = (overtaken \/ Earlier(r))
    BY DEF Tell, People
  <2>2. Phase(r, "done") \/ Phase(r, "written")
    BY DEF Tell
  <2>3. ops'[r].phase # "committed" /\ ops'[r].sequence = e
    BY <2>2 DEF Phase, Types, RequestType
  <2> QED  BY <2>1, <2>3
<1>3. Len(timeline) \in Nat
  BY TimelineLength DEF AnnouncedInv
<1>4. e \in 1 .. Len(timeline) /\ e \in Nat
  BY <1>1, <1>2 DEF SequenceInv, Types, RequestType
<1>5. \A q \in Requests \ {r} : ops[q].phase = "committed" => ops[q].sequence # e
  BY <1>1, <1>2 DEF SequenceInv
<1>6. Told' = Told \cup {e}
  BY <1>1, <1>2, <1>4, <1>5 DEF Told
<1>7. ASSUME ~overtaken'
      PROVE  /\ ~overtaken /\ ~Earlier(r) /\ \A x \in Told : x < e
             /\ \A x \in 1 .. Len(timeline) : x < e => x \in Told
  <2>1. ~overtaken /\ ~Earlier(r)
    BY <1>2, <1>7
  <2>2. \A x \in Told : x < e
    BY <1>1, <1>2, <2>1 DEF SequenceInv
  <2>3. \A x \in 1 .. Len(timeline) : x < e => x \in Told
    BY <2>1 DEF Earlier, Told
  <2> QED  BY <2>1, <2>2, <2>3
<1> QED  BY <1>1, <1>2, <1>4, <1>6, <1>7

LEMMA SequenceNext ==
  ASSUME Types, AnnouncedInv, SequenceInv, NEW r \in Requests, Begin(r) \/ Serving(r)
  PROVE  SequenceInv'
<1> SUFFICES ASSUME ~Recreated'
             PROVE  SequenceInv'
  BY DEF SequenceInv
<1>1. CASE Commit(r)
  <2>1. /\ ~Recreated /\ session' # None /\ session'.sequence = Len(timeline')
        /\ Len(timeline) \in Nat /\ Len(timeline') = Len(timeline) + 1
        /\ ops[r].phase = "appending"
        /\ ops'[r].phase = "committed" /\ ops'[r].sequence = Len(timeline) + 1
        /\ UNCHANGED overtaken
        /\ \A q \in Requests \ {r} : ops'[q] = ops[q]
        /\ Told' = Told
    BY <1>1, CommitIs
  <2>2. \A q \in Requests : ops'[q].phase = "committed" =>
           \/ q = r /\ ops'[q].sequence = Len(timeline) + 1
           \/ q # r /\ ops'[q] = ops[q] /\ ops[q].sequence \in 1 .. Len(timeline)
    BY <2>1 DEF SequenceInv
  <2>3. \A q \in Requests : ops'[q].phase = "committed" => ops'[q].sequence \in 1 .. Len(timeline')
    BY <2>1, <2>2
  <2>4. \A p, q \in Requests :
         ops'[p].phase = "committed" /\ ops'[q].phase = "committed"
           /\ ops'[p].sequence = ops'[q].sequence => p = q
    <3> SUFFICES ASSUME NEW p \in Requests, NEW q \in Requests,
                        ops'[p].phase = "committed", ops'[q].phase = "committed",
                        ops'[p].sequence = ops'[q].sequence
                 PROVE  p = q
      OBVIOUS
    <3>1. CASE p = r \/ q = r
      BY <2>1, <2>2, <3>1
    <3>2. CASE p # r /\ q # r
      BY <2>1, <2>2, <3>2 DEF SequenceInv
    <3> QED  BY <3>1, <3>2
  <2>5. ~overtaken' => \A q \in Requests : ops'[q].phase = "committed" => \A e \in Told' : e < ops'[q].sequence
    <3> SUFFICES ASSUME ~overtaken, NEW q \in Requests, ops'[q].phase = "committed", NEW e \in Told
                 PROVE  e < ops'[q].sequence
      BY <2>1
    <3>1. CASE q = r
      BY <2>1, <3>1 DEF Told
    <3>2. CASE q # r
      BY <2>1, <3>2 DEF SequenceInv
    <3> QED  BY <3>1, <3>2
  <2> QED  BY <2>1, <2>3, <2>4, <2>5 DEF SequenceInv
<1>2. CASE Tell(r)
  <2> DEFINE e == ops[r].sequence
  <2>1. /\ ~Recreated /\ UNCHANGED <<session, timeline>>
        /\ ops'[r].phase # "committed"
        /\ \A q \in Requests \ {r} : ops'[q] = ops[q]
        /\ e \in 1 .. Len(timeline) /\ Told' = Told \cup {e}
        /\ ~overtaken' => ~overtaken /\ ~Earlier(r)
        /\ ops[r].phase = "committed"
    BY <1>2, TellIs
  <2>2. \A q \in Requests : ops'[q].phase = "committed" => q # r /\ ops'[q] = ops[q]
    BY <2>1
  <2>3. ~overtaken' => \A q \in Requests : ops'[q].phase = "committed" => \A x \in Told' : x < ops'[q].sequence
    <3> SUFFICES ASSUME ~overtaken', NEW q \in Requests, ops'[q].phase = "committed", NEW x \in Told'
                 PROVE  x < ops'[q].sequence
      OBVIOUS
    <3>1. CASE x \in Told
      BY <2>1, <2>2, <3>1 DEF SequenceInv
    <3>2. CASE x = e
      <4>1. ops[q].phase = "committed" /\ q # r /\ ops'[q] = ops[q]
        BY <2>2
      <4>2. ops[q].sequence # e /\ ~(ops[q].sequence < e)
        BY <2>1, <4>1 DEF SequenceInv, Earlier
      <4>3. ops[q].sequence \in Nat /\ e \in Nat
        BY DEF Types, RequestType
      <4> QED  BY <3>2, <4>1, <4>2, <4>3
    <3> QED  BY <2>1, <3>1, <3>2
  <2> QED  BY <2>1, <2>2, <2>3 DEF SequenceInv
<1>3. CASE ~Commit(r) /\ ~Tell(r)
  <2>1. /\ UNCHANGED <<session, timeline, overtaken>> /\ ~Recreated
        /\ ops[r].phase # "committed" /\ ops'[r].phase # "committed"
        /\ \A q \in Requests \ {r} : ops'[q] = ops[q]
    BY <1>3, QuietRequest
  <2>2. Told' = Told
    BY <2>1, QuietTold
  <2>3. \A q \in Requests : ops'[q].phase = "committed" => ops'[q] = ops[q]
    BY <2>1
  <2> QED  BY <2>1, <2>2, <2>3 DEF SequenceInv
<1> QED  BY <1>1, <1>2, <1>3

(* An event is broadcast: the next one, or a delta.                          *)
LEMMA DeliverFollows ==
  ASSUME NEW conn, Given(conn), NEW n \in Nat, NEW told \in SUBSET (1 .. n), NEW e \in 0 .. n,
         e > 0 => /\ \A x \in told : x < e
                  /\ \A x \in 1 .. n : x < e => x \in told,
         NEW after, after = (IF e = 0 THEN told ELSE told \cup {e}),
         Current(conn), conn.listens, Follows(conn, told, n)
  PROVE  Follows(Deliver(conn, e), after, n)
<1> DEFINE next == Deliver(conn, e)
<1>0. Fields \subseteq DOMAIN conn /\ conn.delivered \in Nat /\ conn.cursor \in Nat /\ e \in Nat
      /\ conn.phase \in {"subscribed", "read", "live"}
  BY DEF Given, InOrderUpTo, Current
<1>1. CASE conn.phase \in {"subscribed", "read"}
  <2>1. KeepsNew(conn, told) /\ conn.buffer \in Seq(Nat) /\ conn.page \in Seq(Nat)
    BY <1>1 DEF Follows, HasRead, Given
  <2>2. CASE Old(conn, e)
    <3>1. next = conn /\ e <= conn.cursor /\ e > 0
      BY <2>1, <2>2 DEF Deliver, Old, KeepsNew
    <3>2. KeepsNew(next, after)
      BY <2>1, <3>1 DEF KeepsNew
    <3>3. conn.phase = "read" => HasRead(next, after, n)
      <4> SUFFICES ASSUME conn.phase = "read"
                   PROVE  HasRead(next, after, n)
        OBVIOUS
      <4>1. HasRead(conn, told, n)
        BY DEF Follows
      <4>2. ~(e > LastRead(conn))
        BY <1>0, <2>1, <3>1 DEF LastRead
      <4> QED  BY <3>1, <3>2, <4>1, <4>2 DEF HasRead
    <3> QED  BY <1>1, <3>1, <3>2, <3>3 DEF Follows
  <2>3. CASE ~Old(conn, e)
    <3> DEFINE s == conn.buffer
               t == Append(s, e)
    <3>1. next = [conn EXCEPT !.buffer = t]
      BY <1>1, <2>3 DEF Deliver
    <3>2. /\ next.phase = conn.phase /\ next.listens = conn.listens /\ next.delivered = conn.delivered
          /\ next.cursor = conn.cursor /\ next.page = conn.page /\ next.buffer = t
      BY <1>0, <3>1 DEF Fields
    <3>3. e > 0 => e > conn.cursor
      BY <1>0, <2>1, <2>3 DEF Old, KeepsNew
    <3>4. /\ t \in Seq(Nat) /\ Stored(s) \subseteq 1 .. Len(s)
          /\ \A i \in 1 .. Len(s) : t[i] = s[i]
          /\ t[Len(s) + 1] = e
          /\ Stored(t) = IF e > 0 THEN Stored(s) \cup {Len(s) + 1} ELSE Stored(s)
      BY <1>0, <2>1, OneMore
    <3> HIDE DEF next, t
    <3>5. Increasing(t)
      <4>1. e > 0 => \A i \in Stored(s) : s[i] < e
        BY <2>1 DEF KeepsNew
      <4>2. Increasing(s)
        BY <2>1 DEF KeepsNew
      <4> QED  BY <1>0, <2>1, <4>1, <4>2, InOrder DEF t
    <3>6. \A i \in Stored(t) : t[i] \in after /\ t[i] > conn.cursor
      <4> SUFFICES ASSUME NEW i \in Stored(t)
                   PROVE  t[i] \in after /\ t[i] > conn.cursor
        OBVIOUS
      <4>1. CASE i \in Stored(s)
        <5>1. t[i] = s[i] /\ s[i] \in told /\ s[i] > conn.cursor
          BY <2>1, <3>4, <4>1 DEF KeepsNew
        <5> QED  BY <5>1
      <4>2. CASE i \notin Stored(s)
        <5>1. e > 0 /\ t[i] = e
          BY <3>4, <4>2
        <5> QED  BY <3>3, <5>1
      <4> QED  BY <4>1, <4>2
    <3>7. KeepsNew(next, after)
      BY <2>1, <3>2, <3>5, <3>6 DEF KeepsNew
    <3>8. ASSUME conn.phase = "read"
          PROVE  HasRead(next, after, n)
      <4>1. HasRead(conn, told, n)
        BY <3>8 DEF Follows
      <4>2. \A x \in after : x > LastRead(conn) => \E i \in Stored(t) : t[i] = x
        <5> SUFFICES ASSUME NEW x \in after, x > LastRead(conn)
                     PROVE  \E i \in Stored(t) : t[i] = x
          OBVIOUS
        <5>1. CASE x \in told
          <6>1. PICK i \in Stored(s) : s[i] = x
            BY <4>1, <5>1 DEF HasRead
          <6>2. i \in Stored(t) /\ t[i] = s[i]
            BY <3>4, <6>1
          <6> QED  BY <6>1, <6>2
        <5>2. CASE x \notin told
          <6>1. x = e /\ e > 0
            BY <5>2
          <6> QED  BY <3>4, <6>1
        <5> QED  BY <5>1, <5>2
      <4>3. LastRead(next) = LastRead(conn)
        BY <3>2 DEF LastRead
      <4> QED  BY <3>2, <3>7, <4>1, <4>2, <4>3 DEF HasRead
    <3> QED  BY <1>1, <3>2, <3>7, <3>8 DEF Follows, next
  <2> QED  BY <2>2, <2>3
<1>2. CASE conn.phase = "live"
  <2> DEFINE give == GiveNew(conn, e)
  <2>1. next = give
    BY <1>2 DEF Deliver, GiveNew
  <2>2. HasGiven(conn, told, n) /\ ~conn.closed
    BY <1>2 DEF Follows, Given
  <2>3. /\ \A f \in Fields \ {"given", "delivered"} : give[f] = conn[f]
        /\ InOrderUpTo(give)
        /\ conn.delivered <= give.delivered /\ e <= give.delivered
        /\ give.delivered \in {conn.delivered, e}
    <3>1. InOrderUpTo(conn)
      BY DEF Given
    <3> QED  BY <1>0, <3>1, GiveNewIs
  <2>4. Complete(conn, conn.cursor)
    BY <1>0, <2>2 DEF Complete, HasGiven
  <2>5. e <= conn.delivered + 1
    <3>1. CASE e <= 1
      BY <1>0, <3>1
    <3>2. CASE e > 1
      <4>1. e - 1 \in 1 .. n /\ e - 1 < e
        BY <3>2
      <4>2. e - 1 \in told
        BY <3>2, <4>1
      <4>3. e - 1 <= conn.delivered
        BY <2>2, <4>2 DEF HasGiven
      <4> QED  BY <1>0, <4>3
    <3> QED  BY <3>1, <3>2
  <2>6. Complete(give, conn.cursor)
    BY <1>0, <2>4, <2>5, GiveNext DEF Given
  <2> HIDE DEF give, next
  <2>7. give.delivered \in Nat
    BY <2>3 DEF InOrderUpTo
  <2>8. give.phase = "live" /\ give.listens = conn.listens /\ give.cursor = conn.cursor
    BY <1>2, <2>3 DEF Fields
  <2>9. give.delivered \in conn.cursor .. n
    BY <1>0, <2>2, <2>3, <2>6, <2>7 DEF HasGiven, Complete
  <2>10. \A x \in after : x <= give.delivered
    BY <1>0, <2>2, <2>3, <2>7 DEF HasGiven
  <2>11. HasGiven(give, after, n)
    BY <2>2, <2>6, <2>8, <2>9, <2>10 DEF HasGiven, Complete
  <2> QED  BY <2>1, <2>8, <2>11 DEF Follows, next
<1> QED  BY <1>0, <1>1, <1>2

(* What was kept goes on where the page ends.                                *)
LEMMA PageAndKept ==
  ASSUME NEW conn, Given(conn), NEW n \in Nat, NEW told \in SUBSET (1 .. n),
         \A e \in told : \A d \in 1 .. e : d \in told,
         HasRead(conn, told, n)
  PROVE  LET events == conn.page \o conn.buffer IN
         /\ events \in Seq(Nat) /\ Gapless(events, conn.cursor)
         /\ \A i \in DOMAIN events : events[i] <= n
         /\ \A e \in told : e > conn.cursor => \E i \in DOMAIN events : events[i] = e
<1> DEFINE events == conn.page \o conn.buffer
           m == Len(conn.page)
           k == Len(conn.buffer)
           kept == conn.buffer
<1>1. /\ conn.page \in Seq(Nat) /\ kept \in Seq(Nat) /\ conn.cursor \in Nat
      /\ KeepsNew(conn, told) /\ conn.cursor + m <= n
      /\ \A i \in DOMAIN conn.page : conn.page[i] = conn.cursor + i
      /\ \A e \in told : e > conn.cursor + m => \E i \in Stored(kept) : kept[i] = e
  BY DEF Given, HasRead, LastRead
<1>2. /\ events \in Seq(Nat) /\ m \in Nat /\ k \in Nat
      /\ DOMAIN events = 1 .. m + k
      /\ DOMAIN conn.page = 1 .. m /\ DOMAIN kept = 1 .. k
      /\ \A i \in 1 .. m : events[i] = conn.page[i]
      /\ \A i \in 1 .. k : events[m + i] = kept[i] /\ kept[i] \in Nat
  BY <1>1, ConcatIs
<1>a. /\ Increasing(kept)
      /\ \A i \in Stored(kept) : kept[i] \in told /\ kept[i] > conn.cursor
      /\ \A x \in told : x \in Nat /\ x <= n
  BY <1>1 DEF KeepsNew
<1> HIDE DEF events, m, k, kept
<1>3. \A i \in 1 .. m : events[i] = conn.cursor + i
  BY <1>1, <1>2
<1>4. \A i \in 1 .. k : kept[i] = 0 \/ (i \in Stored(kept) /\ kept[i] \in told /\ kept[i] > conn.cursor)
  <2>1. \A i \in 1 .. k : kept[i] = 0 \/ i \in Stored(kept)
    BY <1>2 DEF Stored
  <2> QED  BY <1>a, <2>1
<1>5. \A i \in 1 .. m + k : i \in 1 .. m \/ (i - m \in 1 .. k /\ i = m + (i - m))
  BY <1>2
<1>6. ASSUME NEW i \in 1 .. m + k
      PROVE  \/ events[i] <= conn.cursor + 1
             \/ \E j \in 1 .. m + k : j < i /\ events[i] <= events[j] + 1
  <2>1. CASE i = 1 /\ i \in 1 .. m
    BY <1>1, <1>3, <2>1
  <2>2. CASE i \in 2 .. m
    <3>1. i - 1 \in 1 .. m /\ i - 1 \in 1 .. m + k /\ i - 1 < i
      BY <1>2, <2>2
    <3>2. events[i] = conn.cursor + i /\ events[i - 1] = conn.cursor + (i - 1)
      BY <1>2, <1>3, <2>2, <3>1
    <3>3. events[i] <= events[i - 1] + 1
      BY <1>1, <3>2
    <3> QED  BY <3>1, <3>3
  <2>3. CASE i \notin 1 .. m
    <3> DEFINE l == i - m
               e == kept[l]
    <3>1. l \in 1 .. k /\ i = m + l /\ events[i] = e /\ e \in Nat
      BY <1>2, <1>5, <2>3
    <3> HIDE DEF e
    <3>2. CASE e <= conn.cursor + 1
      BY <3>1, <3>2
    <3>3. CASE e > conn.cursor + 1 /\ e <= conn.cursor + m + 1
      <4>0. conn.cursor \in Nat /\ m \in Nat /\ k \in Nat /\ i \in Nat /\ l >= 1 /\ l \in Nat
        BY <1>1, <1>2, <3>1
      <4>1. m \in 1 .. m /\ m \in 1 .. m + k /\ m < i
        <5>1. m >= 1
          BY <3>1, <3>3, <4>0
        <5>2. m < i
          BY <3>1, <4>0
        <5> HIDE DEF l
        <5> QED  BY <4>0, <5>1, <5>2
      <4>2. events[m] = conn.cursor + m
        BY <1>3, <4>1
      <4>3. events[i] <= events[m] + 1
        BY <3>1, <3>3, <4>2
      <4> QED  BY <4>1, <4>3
    <3>4. CASE e > conn.cursor + m + 1
      <4>1. e \in told /\ l \in Stored(kept)
        BY <1>1, <1>2, <1>4, <3>1, <3>4 DEF e
      <4>2. e - 1 \in told /\ e - 1 > conn.cursor + m
        <5>1. e - 1 \in 1 .. e /\ e - 1 > conn.cursor + m
          BY <1>1, <1>2, <3>1, <3>4
        <5> QED  BY <4>1, <5>1
      <4>3. PICK j \in Stored(kept) : kept[j] = e - 1
        BY <1>1, <4>2
      <4>4. j \in 1 .. k
        BY <1>2 DEF Stored
      <4>5. j < l
        <5>1. ~(l < j) /\ l # j
          BY <1>a, <3>1, <4>1, <4>3 DEF Increasing, e
        <5> QED  BY <1>2, <3>1, <4>4, <5>1
      <4>6. m + j \in 1 .. m + k /\ m + j < i /\ events[m + j] = e - 1
        BY <1>2, <3>1, <4>3, <4>4, <4>5
      <4> QED  BY <3>1, <4>6
    <3>5. conn.cursor \in Nat /\ m \in Nat
      BY <1>1, <1>2
    <3>6. \/ e <= conn.cursor + 1
          \/ e > conn.cursor + 1 /\ e <= conn.cursor + m + 1
          \/ e > conn.cursor + m + 1
      BY <3>1, <3>5
    <3> QED  BY <3>2, <3>3, <3>4, <3>6
  <2>4. (i = 1 /\ i \in 1 .. m) \/ i \in 2 .. m \/ i \notin 1 .. m
    BY <1>2
  <2> QED  BY <2>1, <2>2, <2>3, <2>4
<1>7. ASSUME NEW i \in 1 .. m + k
      PROVE  events[i] <= n
  <2>1. CASE i \in 1 .. m
    BY <1>1, <1>2, <1>3, <2>1
  <2>2. CASE i \notin 1 .. m
    <3>1. PICK l \in 1 .. k : i = m + l
      BY <1>5, <2>2
    <3>2. events[i] = kept[l] /\ (kept[l] = 0 \/ kept[l] \in told)
      BY <1>2, <1>4, <3>1
    <3>3. CASE kept[l] = 0
      BY <3>2, <3>3
    <3>4. CASE kept[l] \in told
      BY <1>a, <3>2, <3>4
    <3> QED  BY <3>2, <3>3, <3>4
  <2> QED  BY <2>1, <2>2
<1>8. ASSUME NEW e \in told, e > conn.cursor
      PROVE  \E i \in 1 .. m + k : events[i] = e
  <2>1. CASE e <= conn.cursor + m
    <3>1. e - conn.cursor \in 1 .. m /\ e - conn.cursor \in 1 .. m + k
      BY <1>1, <1>2, <1>8, <2>1
    <3>2. events[e - conn.cursor] = e
      BY <1>1, <1>3, <3>1
    <3> QED  BY <3>1, <3>2
  <2>2. CASE e > conn.cursor + m
    <3>1. PICK l \in Stored(kept) : kept[l] = e
      BY <1>1, <2>2
    <3>2. l \in 1 .. k
      BY <1>2 DEF Stored
    <3>3. m + l \in 1 .. m + k /\ events[m + l] = e
      BY <1>2, <3>1, <3>2
    <3> QED  BY <3>3
  <2> QED  BY <1>1, <1>2, <2>1, <2>2
<1>9. Gapless(events, conn.cursor)
  BY <1>2, <1>6 DEF Gapless
<1> QED  BY <1>2, <1>7, <1>8, <1>9 DEF events

(* What a broadcast leaves of a connection.                                  *)
LEMMA DeliverKeeps ==
  ASSUME NEW conn, Fields \subseteq DOMAIN conn, NEW e
  PROVE  Deliver(conn, e).cut = conn.cut /\ Deliver(conn, e).cursor = conn.cursor
<1>1. CASE Old(conn, e)
  BY <1>1 DEF Deliver
<1>2. CASE ~Old(conn, e) /\ conn.phase \in {"subscribed", "read"}
  BY <1>2 DEF Deliver, Fields
<1>3. CASE ~Old(conn, e) /\ conn.phase \notin {"subscribed", "read"}
  <2>1. Deliver(conn, e) = GiveTo(conn, e)
    BY <1>3 DEF Deliver
  <2> QED
    BY <2>1 DEF GiveTo, Fields
<1> QED  BY <1>1, <1>2, <1>3

LEMMA ConnectionIs ==
  ASSUME Types, NEW c \in Connections, NEW conn, SetConn(c, conn)
  PROVE  conns'[c] = conn /\ \A d \in Connections \ {c} : conns'[d] = conns[d]
BY DEF Types, ConnectionType, SetConn

LEMMA BroadcastFollows ==
  ASSUME Types, GivenInv, TimelineInv, InTurn, FollowInv, UNCHANGED <<timeline, received>>,
         Undisturbed' => Undisturbed,
         NEW e \in 0 .. Len(timeline), Broadcast(e),
         Undisturbed => /\ Told' = (IF e = 0 THEN Told ELSE Told \cup {e})
                        /\ e > 0 => /\ \A x \in Told : x < e
                                    /\ \A x \in 1 .. Len(timeline) : x < e => x \in Told
  PROVE  FollowInv'
<1> SUFFICES ASSUME Undisturbed
             PROVE  /\ Cursor' <= Len(timeline') /\ IsRun(received, 1, Cursor)'
                    /\ \A c \in Connections :
                         Current(conns'[c]) =>
                           conns'[c].cursor = Cursor' /\ Follows(conns'[c], Told', Len(timeline'))
  BY DEF FollowInv
<1>1. Cursor' = Cursor /\ Len(timeline') = Len(timeline) /\ received' = received
  BY DEF Cursor
<1>2. Cursor <= Len(timeline) /\ IsRun(received, 1, Cursor)
  BY DEF FollowInv
<1>3. Len(timeline) \in Nat /\ Told \in SUBSET (1 .. Len(timeline))
  BY TimelineLength DEF Told
<1> SUFFICES ASSUME NEW c \in Connections, Current(conns'[c])
             PROVE  conns'[c].cursor = Cursor /\ Follows(conns'[c], Told', Len(timeline))
  BY <1>1, <1>2
<1>4. Current(conns[c])
  <2>1. SameConnections
    BY BroadcastType
  <2> QED  BY <2>1 DEF SameConnections, Current, IsOver
<1>5. conns[c].cursor = Cursor /\ Follows(conns[c], Told, Len(timeline))
  BY <1>4 DEF FollowInv
<1>6. Given(conns[c]) /\ Fields \subseteq DOMAIN conns[c]
  BY DEF GivenInv, Types, ConnectionType
<1>7. CASE conns[c].listens
  <2>1. conns'[c] = Deliver(conns[c], e)
    BY <1>7 DEF Broadcast
  <2>2. Told' = (IF e = 0 THEN Told ELSE Told \cup {e})
    OBVIOUS
  <2>3. e > 0 => /\ \A x \in Told : x < e
                 /\ \A x \in 1 .. Len(timeline) : x < e => x \in Told
    OBVIOUS
  <2>4. Follows(Deliver(conns[c], e), Told', Len(timeline))
    BY <1>3, <1>4, <1>5, <1>6, <1>7, <2>2, <2>3, DeliverFollows
  <2> QED  BY <1>5, <1>6, <2>1, <2>4, DeliverKeeps
<1>8. CASE ~conns[c].listens
  <2>1. conns'[c] = conns[c]
    BY <1>8 DEF Broadcast
  <2>2. conns[c].phase = "record"
    BY <1>4, <1>5, <1>8 DEF Follows, Current, KeepsNew, HasRead, HasGiven
  <2> QED  BY <1>5, <2>1, <2>2 DEF Follows
<1> QED  BY <1>7, <1>8

LEMMA BroadcastTurn ==
  ASSUME Types, InTurn, NEW e, Broadcast(e)
  PROVE  InTurn'
<1>1. SameConnections
  BY BroadcastType
<1>2. \A c \in Connections : /\ conns'[c].phase = conns[c].phase
                             /\ IsOver(conns'[c]) <=> IsOver(conns[c])
                             /\ Current(conns'[c]) <=> Current(conns[c])
  BY <1>1 DEF SameConnections, IsOver, Current
<1> QED  BY <1>2 DEF InTurn

LEMMA BroadcastUndisturbed ==
  ASSUME Types, NEW e, Broadcast(e), ~Recreated' => ~Recreated, ~overtaken' => ~overtaken
  PROVE  Undisturbed' => Undisturbed
<1>1. \A c \in Connections : conns'[c].cut = conns[c].cut
  BY DeliverKeeps DEF Broadcast, Types, ConnectionType
<1> QED  BY <1>1 DEF Undisturbed

(* More events are stored than told.                                         *)
LEMMA FollowsLonger ==
  ASSUME NEW conn, Given(conn), NEW told, NEW n \in Nat, Follows(conn, told, n)
  PROVE  Follows(conn, told, n + 1)
<1>1. conn.cursor \in Nat /\ Len(conn.page) \in Nat /\ conn.delivered \in Nat
  BY DEF Given, InOrderUpTo
<1>2. conn.phase = "read" => HasRead(conn, told, n + 1)
  BY <1>1 DEF Follows, HasRead, LastRead
<1>3. conn.phase = "live" => HasGiven(conn, told, n + 1)
  BY <1>1 DEF Follows, HasGiven
<1> QED  BY <1>2, <1>3 DEF Follows

LEMMA RequestFollows ==
  ASSUME Types, GivenInv, AnnouncedInv, InTurn, SequenceInv, FollowInv,
         NEW r \in Requests, Begin(r) \/ Serving(r)
  PROVE  InTurn' /\ FollowInv'
<1>0. TimelineInv /\ Len(timeline) \in Nat
  BY TimelineLength DEF AnnouncedInv
<1>1. CASE Tell(r)
  <2> DEFINE e == ops[r].sequence
  <2>1. Broadcast(e) /\ UNCHANGED <<timeline, received>> /\ (~overtaken' => ~overtaken)
    BY <1>1 DEF Tell, People
  <2>2. ~Recreated' => ~Recreated
    BY RecreatedStays
  <2>3. InTurn' /\ (Undisturbed' => Undisturbed)
    BY <2>1, <2>2, BroadcastTurn, BroadcastUndisturbed
  <2>4. CASE ~Undisturbed'
    BY <2>3, <2>4 DEF FollowInv
  <2>5. CASE Undisturbed'
    <3>1. ~Recreated' /\ ~overtaken'
      BY <2>5 DEF Undisturbed
    <3>2. /\ e \in 1 .. Len(timeline) /\ Told' = Told \cup {e}
          /\ \A x \in Told : x < e
          /\ \A x \in 1 .. Len(timeline) : x < e => x \in Told
      BY <1>1, <3>1, TellIs
    <3> HIDE DEF e
    <3>3. e \in 0 .. Len(timeline) /\ e # 0
      BY <1>0, <3>2
    <3>4. /\ Told' = (IF e = 0 THEN Told ELSE Told \cup {e})
          /\ e > 0 => /\ \A x \in Told : x < e
                      /\ \A x \in 1 .. Len(timeline) : x < e => x \in Told
      BY <3>2, <3>3
    <3> QED  BY <1>0, <2>1, <2>3, <3>3, <3>4, BroadcastFollows
  <2> QED  BY <2>4, <2>5
<1>2. CASE ~Tell(r)
  <2>1. UNCHANGED <<conns, received, overtaken>>
    BY <1>2 DEF Serving, Begin, CheckAccess, Add, SetStatus, Post, Delete, Create, RegisterOwner,
       TakeSequence, Commit, RollBack, Stream
  <2>2. InTurn'
    BY <2>1 DEF InTurn
  <2>3. ~Recreated' => ~Recreated
    BY RecreatedStays
  <2>4. CASE ~Undisturbed'
    BY <2>2, <2>4 DEF FollowInv
  <2>5. CASE Undisturbed'
    <3>1. ~Recreated' /\ Undisturbed
      BY <2>1, <2>3, <2>5 DEF Undisturbed
    <3>2. /\ Cursor <= Len(timeline) /\ IsRun(received, 1, Cursor)
          /\ \A c \in Connections :
               Current(conns[c]) =>
                 conns[c].cursor = Cursor /\ Follows(conns[c], Told, Len(timeline))
      BY <3>1 DEF FollowInv
    <3>3. Cursor' = Cursor /\ Cursor \in Nat
      BY <2>1, CursorType DEF Cursor, GivenInv
    <3>4. CASE Commit(r)
      <4>1. Told' = Told /\ Len(timeline') = Len(timeline) + 1
        BY <3>1, <3>4, CommitIs
      <4>2. \A c \in Connections : Current(conns[c]) => Follows(conns[c], Told, Len(timeline) + 1)
        BY <1>0, <3>2, FollowsLonger DEF GivenInv
      <4>3. Cursor <= Len(timeline) + 1
        BY <1>0, <3>2, <3>3
      <4> QED  BY <2>1, <2>2, <3>2, <3>3, <4>1, <4>2, <4>3 DEF FollowInv
    <3>5. CASE ~Commit(r)
      <4>1. timeline' = timeline /\ Told' = Told
        BY <1>2, <3>1, <3>5, QuietRequest, QuietTold
      <4> QED  BY <2>1, <2>2, <3>2, <3>3, <4>1 DEF FollowInv
    <3> QED  BY <3>4, <3>5
  <2> QED  BY <2>4, <2>5
<1> QED  BY <1>1, <1>2

(* What a step makes of a connection.                                        *)
LEMMA Becomes ==
  ASSUME Types, NEW c \in Connections
  PROVE  LET conn == conns[c]
             after == GiveAll(conn, conn.page \o conn.buffer)
             behind == {e \in DOMAIN timeline : e > conn.cursor}
             page == {e \in behind : e <= conn.cursor + Limit} IN
         /\ Connect(c) => conns'[c] = [conn EXCEPT !.phase = "record", !.record = session, !.cursor = Cursor]
         /\ CheckView(c) =>
              \/ conns'[c] = [conn EXCEPT !.phase = "subscribed", !.delivered = conn.cursor,
                                          !.listens = SubscribesFirst]
              \/ conns'[c] = [conn EXCEPT !.phase = "refused"]
         /\ Replay(c) =>
              conns'[c] = [conn EXCEPT !.phase = "read", !.cut = page # behind,
                                       !.page = [i \in 1 .. Cardinality(page) |-> conn.cursor + i]]
         /\ GoLive(c) =>
              conns'[c] = [conn EXCEPT !.phase = IF conn.closed THEN "left" ELSE "live",
                                       !.listens = ~Unsubscribes(conn),
                                       !.given = after.given, !.delivered = after.delivered,
                                       !.page = <<>>, !.buffer = <<>>]
         /\ ReplayFails(c) => conns'[c] = [conn EXCEPT !.phase = "failed", !.closed = TRUE]
         /\ Break(c) => conns'[c] = [conn EXCEPT !.closed = TRUE, !.phase = IF @ = "live" THEN "left" ELSE @,
                                                 !.listens = conn.phase # "live"]
         /\ BreakEarly(c) => conns'[c] = [conn EXCEPT !.early = TRUE]
<1>1. \A conn : SetConn(c, conn) => conns'[c] = conn
  BY ConnectionIs
<1> QED  BY <1>1, Zenon DEF Connect, CheckView, Replay, GoLive, ReplayFails, Break, BreakEarly

(* A connection moves on: it stays over once it is, and none starts before   *)
(* those before it are over.                                                 *)
LEMMA TurnStep ==
  ASSUME Types, InTurn, NEW c \in Connections,
         Connect(c) \/ Following(c) \/ Break(c) \/ BreakEarly(c)
  PROVE  InTurn'
<1>0. \A d \in Connections \ {c} : conns'[d] = conns[d]
  BY ConnectionActions DEF Following
<1>1. Connections \subseteq Nat
  BY ConnectionsAssumption DEF ConnectionsAssumption
<1>2. CASE Connect(c)
  <2>0. conns'[c] = [conns[c] EXCEPT !.phase = "record", !.record = session, !.cursor = Cursor]
        /\ Fields \subseteq DOMAIN conns[c]
    BY <1>2, Becomes DEF Types, ConnectionType
  <2>1. /\ conns[c].phase = "idle" /\ \A d \in Connections : d < c => IsOver(conns[d])
        /\ conns'[c].phase # "idle"
    BY <1>2, <2>0 DEF Connect, Fields
  <2>2. ~IsOver(conns[c])
    BY <2>1 DEF InTurn
  <2>3. \A d \in Connections : Current(conns[d]) => ~(c < d)
    BY <2>2 DEF InTurn
  <2>4. \A d \in Connections : d < c => d # c
    BY <1>1
  <2> QED  BY <1>0, <2>1, <2>3, <2>4 DEF InTurn
<1>3. CASE ~Connect(c)
  <2>1. /\ conns'[c].phase # "idle"
        /\ IsOver(conns[c]) => IsOver(conns'[c])
        /\ Current(conns'[c]) => Current(conns[c])
    <3>0. Fields \subseteq DOMAIN conns[c]
      BY DEF Types, ConnectionType
    <3> USE DEF Fields, IsOver, Current, Ended
    <3>1. CASE CheckView(c)
      <4>1. \/ conns'[c] = [conns[c] EXCEPT !.phase = "subscribed", !.delivered = conns[c].cursor,
                                            !.listens = SubscribesFirst]
            \/ conns'[c] = [conns[c] EXCEPT !.phase = "refused"]
        BY <3>1, Becomes
      <4> QED  BY <3>0, <3>1, <4>1 DEF CheckView
    <3>2. CASE Replay(c)
      <4> DEFINE behind == {e \in DOMAIN timeline : e > conns[c].cursor}
                 page == {e \in behind : e <= conns[c].cursor + Limit}
                 cut == page # behind
                 read == [i \in 1 .. Cardinality(page) |-> conns[c].cursor + i]
      <4>1. conns'[c] = [conns[c] EXCEPT !.phase = "read", !.cut = cut, !.page = read]
        BY <3>2, Becomes
      <4> HIDE DEF cut, read
      <4> QED  BY <3>0, <3>2, <4>1 DEF Replay
    <3>3. CASE GoLive(c)
      <4> DEFINE after == GiveAll(conns[c], conns[c].page \o conns[c].buffer)
      <4>1. conns'[c] = [conns[c] EXCEPT !.phase = IF conns[c].closed THEN "left" ELSE "live",
                           !.listens = ~Unsubscribes(conns[c]),
                           !.given = after.given, !.delivered = after.delivered,
                           !.page = <<>>, !.buffer = <<>>]
        BY <3>3, Becomes
      <4> HIDE DEF after
      <4> QED  BY <3>0, <3>3, <4>1 DEF GoLive
    <3>4. CASE ReplayFails(c)
      <4>1. conns'[c] = [conns[c] EXCEPT !.phase = "failed", !.closed = TRUE]
        BY <3>4, Becomes
      <4> QED  BY <3>0, <4>1
    <3>5. CASE Break(c)
      <4>1. \E listens : conns'[c] = [conns[c] EXCEPT !.closed = TRUE,
                                       !.phase = IF @ = "live" THEN "left" ELSE @, !.listens = listens]
        BY <3>5, Becomes
      <4> QED  BY <3>0, <3>5, <4>1 DEF Break
    <3>6. CASE BreakEarly(c)
      <4>1. conns'[c] = [conns[c] EXCEPT !.early = TRUE] /\ conns[c].phase = "record"
        BY <3>6, Becomes DEF BreakEarly
      <4> QED  BY <3>0, <4>1
    <3> QED  BY <1>3, <3>1, <3>2, <3>3, <3>4, <3>5, <3>6 DEF Following
  <2> QED  BY <1>0, <2>1 DEF InTurn
<1> QED  BY <1>2, <1>3

(* The events told have none untold before them.                             *)
LEMMA ToldAll ==
  ASSUME SequenceInv, TimelineInv, ~Recreated, ~overtaken
  PROVE  /\ Told \in SUBSET (1 .. Len(timeline))
         /\ \A e \in Told : \A d \in 1 .. e : d \in Told
<1>1. Len(timeline) \in Nat
  BY TimelineLength
<1>2. ASSUME NEW e \in Told, NEW d \in 1 .. e
      PROVE  d \in Told
  <2>1. e \in 1 .. Len(timeline) /\ d \in 1 .. Len(timeline) /\ ~(e < d)
    BY <1>1 DEF Told
  <2>2. \A r \in Requests : ops[r].phase = "committed" => e < ops[r].sequence
    BY DEF SequenceInv
  <2> QED  BY <2>1, <2>2 DEF Told
<1> QED  BY <1>2 DEF Told

(* An access check that passes: it listens now, and has kept nothing yet.    *)
LEMMA ViewFollows ==
  ASSUME NEW conn, Given(conn), conn.phase = "record", NEW told, NEW n,
         NEW next, next = [conn EXCEPT !.phase = "subscribed", !.delivered = conn.cursor,
                                       !.listens = SubscribesFirst]
  PROVE  next.cursor = conn.cursor /\ Follows(next, told, n)
<1>1. Fields \subseteq DOMAIN conn /\ conn.buffer = <<>>
  BY DEF Given, InOrderUpTo
<1>2. /\ next.phase = "subscribed" /\ next.listens = TRUE /\ next.delivered = conn.cursor
      /\ next.cursor = conn.cursor /\ next.buffer = <<>>
  BY <1>1 DEF Fields, SubscribesFirst
<1>3. KeepsNew(next, told)
  BY <1>2, NothingGiven DEF KeepsNew
<1> QED  BY <1>2, <1>3 DEF Follows

LEMMA BehindIs ==
  ASSUME NEW k \in Nat, NEW n \in Nat, k <= n
  PROVE  Cardinality({e \in 1 .. n : e > k}) = n - k
<1>1. {e \in 1 .. n : e > k} = k + 1 .. n
  OBVIOUS
<1>2. k + 1 \in Int /\ n \in Int
  OBVIOUS
<1>3. Cardinality(k + 1 .. n) = IF k + 1 > n THEN 0 ELSE n - (k + 1) + 1
  BY <1>2, FS_Interval, Zenon
<1>4. (IF k + 1 > n THEN 0 ELSE n - (k + 1) + 1) = n - k
  OBVIOUS
<1> QED  BY <1>1, <1>3, <1>4

(* A replay that was not cut has read all there is.                          *)
LEMMA ReplayFollows ==
  ASSUME NEW conn, Given(conn), conn.phase = "subscribed",
         NEW n \in Nat, NEW told \in SUBSET (1 .. n), Follows(conn, told, n), conn.cursor <= n,
         NEW next, next.phase = "read", next.listens = conn.listens,
         next.delivered = conn.delivered, next.cursor = conn.cursor, next.buffer = conn.buffer,
         NEW size, size = Cardinality({e \in 1 .. n : e > conn.cursor}),
         next.page = [i \in 1 .. size |-> conn.cursor + i]
  PROVE  Follows(next, told, n)
<1>1. conn.cursor \in Nat /\ KeepsNew(conn, told)
  BY DEF Given, Follows
<1> PICK k : k = conn.cursor
  OBVIOUS
<1>2. k \in Nat /\ k <= n
  BY <1>1
<1>3. size = n - k
  BY <1>2, BehindIs
<1>4. n \in Nat
  OBVIOUS
<1>5. size \in Nat /\ k + size = n
  <2>1. n - k \in Nat /\ k + (n - k) = n
    BY <1>2, <1>4
  <2> QED  BY <1>3, <2>1
<1>6. Len(next.page) = size /\ DOMAIN next.page = 1 .. size
      /\ \A i \in 1 .. size : next.page[i] = conn.cursor + i
  BY <1>5
<1>7. KeepsNew(next, told)
  BY <1>1 DEF KeepsNew
<1>8. LastRead(next) = n
  BY <1>5, <1>6 DEF LastRead
<1>9. \A e \in told : ~(e > n)
  OBVIOUS
<1>10. \A i \in DOMAIN next.page : next.page[i] = next.cursor + i
  BY <1>6
<1>11. HasRead(next, told, n)
  <2>1. n <= n
    OBVIOUS
  <2> QED  BY <1>7, <1>8, <1>9, <1>10, <2>1 DEF HasRead
<1> QED  BY <1>11 DEF Follows

(* The page and what was kept are given: nothing told is missing.            *)
LEMMA LiveFollows ==
  ASSUME NEW conn, Given(conn), conn.phase = "read", ~conn.closed, NEW n \in Nat,
         NEW told \in SUBSET (1 .. n), \A e \in told : \A d \in 1 .. e : d \in told,
         Follows(conn, told, n), conn.cursor <= n,
         NEW after, after = GiveAll(conn, conn.page \o conn.buffer),
         NEW next, next.phase = "live", next.listens, next.cursor = conn.cursor,
         next.given = after.given, next.delivered = after.delivered
  PROVE  Follows(next, told, n)
<1> DEFINE events == conn.page \o conn.buffer
<1>1. /\ Fields \subseteq DOMAIN conn /\ conn.cursor \in Nat /\ conn.given = <<>> /\ InOrderUpTo(conn)
      /\ HasRead(conn, told, n)
  BY DEF Given, InOrderUpTo, Follows
<1>2. conn.delivered = conn.cursor
  BY <1>1 DEF HasRead, KeepsNew
<1>3. /\ events \in Seq(Nat) /\ Gapless(events, conn.cursor)
      /\ \A i \in DOMAIN events : events[i] <= n
      /\ \A e \in told : e > conn.cursor => \E i \in DOMAIN events : events[i] = e
  BY <1>1, PageAndKept
<1>4. Complete(conn, conn.cursor)
  <2>1. IsRun(conn.given, conn.cursor + 1, conn.delivered)
    BY <1>1, <1>2, NoEvents
  <2>2. conn.cursor <= conn.delivered
    BY <1>1, <1>2
  <2> QED  BY <2>1, <2>2 DEF Complete
<1>5. after = GiveAll(conn, events)
  OBVIOUS
<1> HIDE DEF events
<1>6. /\ InOrderUpTo(after) /\ Complete(after, conn.cursor)
      /\ \A i \in DOMAIN events : events[i] <= after.delivered
      /\ after.delivered = conn.delivered \/ \E i \in DOMAIN events : after.delivered = events[i]
  BY <1>1, <1>2, <1>3, <1>4, <1>5, GiveAllComplete
<1>7. after.delivered \in Nat /\ conn.cursor <= after.delivered /\ after.delivered <= n
  BY <1>2, <1>3, <1>6 DEF InOrderUpTo, Complete
<1>8. ASSUME NEW e \in told
      PROVE  e <= after.delivered
  <2>1. CASE e > conn.cursor
    BY <1>3, <1>6, <2>1
  <2>2. CASE ~(e > conn.cursor)
    BY <1>1, <1>7, <2>2
  <2> QED  BY <2>1, <2>2
<1>10. HasGiven(next, told, n)
  BY <1>1, <1>6, <1>7, <1>8 DEF HasGiven, Complete
<1> QED  BY <1>10 DEF Follows

(* A connection breaks: what the client has got is a run all the same.       *)
LEMMA BreakFollows ==
  ASSUME Types, TimelineInv, GivenInv, NEW c \in Connections, Break(c),
         Cursor <= Len(timeline), IsRun(received, 1, Cursor),
         conns[c].cursor = Cursor, Follows(conns[c], Told, Len(timeline))
  PROVE  Cursor' <= Len(timeline) /\ IsRun(received', 1, Cursor')
<1> DEFINE n == Len(timeline)
           given == conns[c].given
<1>1. PICK k \in 0 .. Len(given) : received' = received \o SubSeq(given, 1, k)
  BY DEF Break
<1>2. Given(conns[c]) /\ given \in Seq(Nat) /\ received \in Seq(Nat) /\ Cursor \in Nat /\ n \in Nat
  BY CursorType, TimelineLength DEF GivenInv, Given, InOrderUpTo
<1>3. PICK b \in Cursor .. n : IsRun(given, Cursor + 1, b)
  <2>1. CASE conns[c].phase = "live"
    BY <2>1 DEF Follows, HasGiven
  <2>2. CASE conns[c].phase # "live"
    <3>1. given = <<>>
      BY <1>2, <2>2 DEF Break, Given
    <3>2. Cursor \in Cursor .. n
      BY <1>2
    <3> QED  BY <1>2, <3>1, <3>2, NoEvents
  <2> QED  BY <2>1, <2>2
<1> HIDE DEF given, n
<1>4. b \in Nat /\ Cursor <= b /\ b <= n
  BY <1>2, <1>3
<1>5. SubSeq(given, 1, k) \in Seq(Nat) /\ \E m \in Cursor .. b : IsRun(SubSeq(given, 1, k), Cursor + 1, m)
  BY <1>2, <1>3, <1>4, RunPrefix
<1>6. PICK m \in Cursor .. b : IsRun(SubSeq(given, 1, k), Cursor + 1, m)
  BY <1>5
<1>7. m \in Nat /\ Cursor <= m /\ m <= n /\ 0 <= Cursor /\ 0 + 1 = 1
  BY <1>2, <1>4
<1>8. received' \in Seq(Nat) /\ IsRun(received', 1, m)
  <2> DEFINE t == SubSeq(given, 1, k)
  <2>1. /\ received' = received \o t /\ t \in Seq(Nat) /\ IsRun(t, Cursor + 1, m)
        /\ IsRun(received, 0 + 1, Cursor)
    BY <1>1, <1>5, <1>6, <1>7
  <2> HIDE DEF t
  <2>2. received \o t \in Seq(Nat) /\ IsRun(received \o t, 0 + 1, m)
    BY <1>2, <1>7, <2>1, RunsJoin
  <2> QED  BY <1>7, <2>1, <2>2
<1>9. Cursor' = m
  BY <1>7, <1>8, RunEnds DEF Cursor
<1> QED  BY <1>7, <1>8, <1>9 DEF n

LEMMA ConnectionFollows ==
  ASSUME Types, GivenInv, AnnouncedInv, InTurn, SequenceInv, FollowInv,
         NEW c \in Connections, Connect(c) \/ Following(c) \/ Break(c) \/ BreakEarly(c)
  PROVE  SequenceInv' /\ FollowInv'
<1> DEFINE conn == conns[c]
           next == conns'[c]
           n == Len(timeline)
<1>1. UNCHANGED <<work, ops, People, overtaken>>
  BY DEF Following, Connect, CheckView, Replay, GoLive, ReplayFails, Break, BreakEarly, Rest
<1>2. Told' = Told /\ (Recreated' <=> Recreated) /\ timeline' = timeline /\ session' = session
  BY <1>1 DEF Told, Recreated, Kind, People
<1>3. SequenceInv'
  BY <1>1, <1>2 DEF SequenceInv
<1>4. (\A d \in Connections \ {c} : conns'[d] = conns[d]) /\ conns'[c] = next
  BY ConnectionActions DEF Following
<1>5. Given(conn) /\ Fields \subseteq DOMAIN conn /\ TimelineInv
  BY DEF GivenInv, Types, ConnectionType, AnnouncedInv
<1>6. ASSUME Undisturbed'
      PROVE  Undisturbed
  <2>1. CASE Replay(c)
    BY <1>1, <1>2, <1>4, <1>5, <1>6, <2>1 DEF Replay, Undisturbed, Given
  <2>2. CASE ~Replay(c)
    <3>1. next.cut = conn.cut
      <4>1. CASE Connect(c)
        <5>1. next = [conn EXCEPT !.phase = "record", !.record = session, !.cursor = Cursor]
          BY <4>1, Becomes
        <5> HIDE DEF next, conn
        <5> QED  BY <1>5, <5>1 DEF Fields
      <4>2. CASE CheckView(c)
        <5>1. \/ next = [conn EXCEPT !.phase = "subscribed", !.delivered = conn.cursor,
                                     !.listens = SubscribesFirst]
              \/ next = [conn EXCEPT !.phase = "refused"]
          BY <4>2, Becomes
        <5> HIDE DEF next, conn
        <5> QED  BY <1>5, <5>1 DEF Fields
      <4>3. CASE GoLive(c)
        <5> DEFINE after == GiveAll(conn, conn.page \o conn.buffer)
        <5>1. next = [conn EXCEPT !.phase = IF conn.closed THEN "left" ELSE "live",
                                  !.listens = ~Unsubscribes(conn),
                                  !.given = after.given, !.delivered = after.delivered,
                                  !.page = <<>>, !.buffer = <<>>]
          BY <4>3, Becomes
        <5> HIDE DEF after, next, conn
        <5> QED  BY <1>5, <5>1 DEF Fields
      <4>4. CASE ReplayFails(c)
        <5>1. next = [conn EXCEPT !.phase = "failed", !.closed = TRUE]
          BY <4>4, Becomes
        <5> HIDE DEF next, conn
        <5> QED  BY <1>5, <5>1 DEF Fields
      <4>5. CASE Break(c)
        <5>1. next = [conn EXCEPT !.closed = TRUE, !.phase = IF @ = "live" THEN "left" ELSE @,
                                  !.listens = conn.phase # "live"]
          BY <4>5, Becomes
        <5> HIDE DEF next, conn
        <5> QED  BY <1>5, <5>1 DEF Fields
      <4>6. CASE BreakEarly(c)
        <5>1. next = [conn EXCEPT !.early = TRUE]
          BY <4>6, Becomes
        <5> HIDE DEF next, conn
        <5> QED  BY <1>5, <5>1 DEF Fields
      <4> QED  BY <2>2, <4>1, <4>2, <4>3, <4>4, <4>5, <4>6 DEF Following
    <3> QED  BY <1>1, <1>2, <1>4, <1>6, <3>1 DEF Undisturbed
  <2> QED  BY <2>1, <2>2
<1> SUFFICES ASSUME Undisturbed, Undisturbed'
             PROVE  /\ Cursor' <= n /\ IsRun(received', 1, Cursor')
                    /\ \A d \in Connections :
                         Current(conns'[d]) =>
                           conns'[d].cursor = Cursor' /\ Follows(conns'[d], Told, n)
  BY <1>2, <1>3, <1>6 DEF FollowInv
<1>7. /\ Cursor <= n /\ IsRun(received, 1, Cursor)
      /\ \A d \in Connections :
           Current(conns[d]) => conns[d].cursor = Cursor /\ Follows(conns[d], Told, n)
  BY DEF FollowInv
<1>8. CASE Break(c)
  <2>1. Current(conn)
    BY <1>8 DEF Break, Current
  <2>2. Cursor' <= n /\ IsRun(received', 1, Cursor')
    BY <1>5, <1>7, <1>8, <2>1, BreakFollows
  <2>3. ~Current(next)
    <3>1. next = [conn EXCEPT !.closed = TRUE, !.phase = IF @ = "live" THEN "left" ELSE @,
                              !.listens = conn.phase # "live"]
      BY <1>8, Becomes
    <3>2. next.closed = TRUE
      BY <1>5, <3>1 DEF Fields
    <3> QED  BY <3>2 DEF Current, IsOver
  <2>4. \A d \in Connections \ {c} : ~Current(conns[d])
    <3>1. \A d \in Connections \ {c} : d < c \/ c < d
      BY ConnectionsAssumption DEF ConnectionsAssumption
    <3> QED  BY <2>1, <3>1 DEF InTurn, Current
  <2> QED  BY <1>4, <2>2, <2>3, <2>4
<1>9. CASE ~Break(c)
  <2>1. received' = received
    BY <1>9 DEF Following, Connect, CheckView, Replay, GoLive, ReplayFails, BreakEarly
  <2>2. Cursor' = Cursor
    BY <2>1 DEF Cursor
  <2>3. n \in Nat /\ Told \in SUBSET (1 .. n) /\ \A e \in Told : \A d \in 1 .. e : d \in Told
    BY <1>5, TimelineLength, ToldAll DEF Undisturbed
  <2>4. ASSUME Current(next)
        PROVE  next.cursor = Cursor /\ Follows(next, Told, n)
    <3> HIDE DEF n
    <3>1. CASE Connect(c)
      <4>1. next = [conn EXCEPT !.phase = "record", !.record = session, !.cursor = Cursor]
        BY <3>1, Becomes
      <4> HIDE DEF next
      <4>2. next.phase = "record" /\ next.cursor = Cursor
        BY <1>5, <4>1 DEF Fields
      <4> QED  BY <4>2 DEF Follows
    <3>2. CASE CheckView(c)
      <4>1. \/ next = [conn EXCEPT !.phase = "subscribed", !.delivered = conn.cursor,
                                   !.listens = SubscribesFirst]
            \/ next = [conn EXCEPT !.phase = "refused"]
        BY <3>2, Becomes
      <4>2. conn.phase = "record"
        BY <3>2 DEF CheckView
      <4> HIDE DEF next, conn
      <4>3. next # [conn EXCEPT !.phase = "refused"]
        BY <1>5, <2>4 DEF Fields, Current
      <4>4. next = [conn EXCEPT !.phase = "subscribed", !.delivered = conn.cursor,
                                !.listens = SubscribesFirst]
        BY <4>1, <4>3
      <4>5. ~IsOver(next) => ~IsOver(conn)
        BY <1>5, <4>2, <4>4 DEF Fields, IsOver, Ended
      <4>6. Current(conn)
        BY <2>4, <4>2, <4>5 DEF Current
      <4>7. conn.cursor = Cursor
        BY <1>7, <4>6 DEF conn
      <4> QED  BY <1>5, <4>2, <4>4, <4>7, ViewFollows
    <3>3. CASE Replay(c)
      <4> DEFINE behind == {e \in DOMAIN timeline : e > conn.cursor}
                 page == {e \in behind : e <= conn.cursor + Limit}
      <4>1. next = [conn EXCEPT !.phase = "read", !.cut = page # behind,
                                !.page = [i \in 1 .. Cardinality(page) |-> conn.cursor + i]]
        BY <3>3, Becomes
      <4>2. conn.phase = "subscribed"
        BY <3>3 DEF Replay
      <4>3. page = behind
        <5> DEFINE cut == page # behind
                   read == [i \in 1 .. Cardinality(page) |-> conn.cursor + i]
        <5>1. next = [conn EXCEPT !.phase = "read", !.cut = cut, !.page = read]
          BY <4>1
        <5> HIDE DEF cut, read, next, conn
        <5>2. next.cut = cut
          BY <1>5, <5>1 DEF Fields
        <5>3. ~next.cut
          BY <1>4 DEF Undisturbed, next
        <5> QED  BY <5>2, <5>3 DEF cut
      <4> DEFINE size == Cardinality(behind)
                 read == [i \in 1 .. size |-> conn.cursor + i]
      <4>4. next = [conn EXCEPT !.phase = "read", !.cut = page # behind, !.page = read]
        BY <4>1, <4>3
      <4>5. PICK cut, events : events = read /\ next = [conn EXCEPT !.phase = "read", !.cut = cut, !.page = events]
        BY <4>4
      <4>6. size = Cardinality({e \in 1 .. n : e > conn.cursor})
        BY <1>5, TimelineLength DEF n
      <4>7. events = [i \in 1 .. size |-> conn.cursor + i]
        BY <4>5
      <4> HIDE DEF next, conn, size
      <4>8. /\ next.phase = "read" /\ next.listens = conn.listens /\ next.delivered = conn.delivered
            /\ next.cursor = conn.cursor /\ next.buffer = conn.buffer /\ next.page = events
            /\ next.closed = conn.closed /\ next.early = conn.early
        BY <1>5, <4>5 DEF Fields
      <4>9. Current(conn)
        BY <2>4, <4>2, <4>8 DEF Current, IsOver, Ended
      <4>10. conn.cursor = Cursor /\ Follows(conn, Told, n)
        BY <1>7, <4>9 DEF conn
      <4>11. next.page = [i \in 1 .. size |-> conn.cursor + i]
        BY <4>7, <4>8
      <4>12. Follows(next, Told, n)
        BY <1>5, <1>7, <2>3, <4>2, <4>6, <4>8, <4>10, <4>11, ReplayFollows
      <4> QED  BY <4>8, <4>10, <4>12
    <3>4. CASE GoLive(c)
      <4> DEFINE after == GiveAll(conn, conn.page \o conn.buffer)
      <4>1. next = [conn EXCEPT !.phase = IF conn.closed THEN "left" ELSE "live",
                                !.listens = ~Unsubscribes(conn),
                                !.given = after.given, !.delivered = after.delivered,
                                !.page = <<>>, !.buffer = <<>>]
        BY <3>4, Becomes
      <4>2. conn.phase = "read"
        BY <3>4 DEF GoLive
      <4>3. PICK all : all = after
        OBVIOUS
      <4>4. next = [conn EXCEPT !.phase = IF conn.closed THEN "left" ELSE "live",
                                !.listens = ~Unsubscribes(conn),
                                !.given = all.given, !.delivered = all.delivered,
                                !.page = <<>>, !.buffer = <<>>]
        BY <4>1, <4>3
      <4>5. all = GiveAll(conn, conn.page \o conn.buffer)
        BY <4>3
      <4> HIDE DEF after, next, conn
      <4>6. Current(conn) /\ ~conn.closed
        <5>1. next.closed = conn.closed /\ next.early = conn.early
          BY <1>5, <4>4 DEF Fields
        <5> QED  BY <2>4, <4>2, <5>1 DEF Current, IsOver, Ended
      <4>7. conn.cursor = Cursor /\ Follows(conn, Told, n)
        BY <1>7, <4>6 DEF conn
      <4>8. /\ next.phase = "live" /\ next.listens /\ next.cursor = conn.cursor
            /\ next.given = all.given /\ next.delivered = all.delivered
        BY <1>5, <4>4, <4>6 DEF Fields, Unsubscribes
      <4>9. Follows(next, Told, n)
        BY <1>5, <1>7, <2>3, <4>2, <4>5, <4>6, <4>7, <4>8, LiveFollows
      <4> QED  BY <4>7, <4>8, <4>9
    <3>5. CASE ReplayFails(c)
      <4>1. next = [conn EXCEPT !.phase = "failed", !.closed = TRUE]
        BY <3>5, Becomes
      <4> HIDE DEF next, conn
      <4>2. next.phase = "failed"
        BY <1>5, <4>1 DEF Fields
      <4> QED  BY <2>4, <4>2 DEF Current
    <3>6. CASE BreakEarly(c)
      <4>1. next = [conn EXCEPT !.early = TRUE]
        BY <3>6, Becomes
      <4> HIDE DEF next, conn
      <4>2. next.early = TRUE
        BY <1>5, <4>1 DEF Fields
      <4> QED  BY <2>4, <4>2 DEF Current, IsOver
    <3> QED  BY <1>9, <3>1, <3>2, <3>3, <3>4, <3>5, <3>6 DEF Following
  <2> QED  BY <1>4, <1>7, <2>1, <2>2, <2>4
<1> QED  BY <1>8, <1>9

LEMMA PublishFollows ==
  ASSUME Types, GivenInv, AnnouncedInv, InTurn, SequenceInv, FollowInv, Publish
  PROVE  InTurn' /\ SequenceInv' /\ FollowInv'
<1>1. UNCHANGED <<work, session, timeline, ops, received, overtaken>> /\ Broadcast(0)
  BY DEF Publish, People
<1>2. Told' = Told /\ (Recreated' <=> Recreated)
  BY <1>1 DEF Told, Recreated, Kind
<1>3. SequenceInv'
  BY <1>1, <1>2 DEF SequenceInv
<1>4. InTurn' /\ (Undisturbed' => Undisturbed)
  BY <1>1, <1>2, BroadcastTurn, BroadcastUndisturbed
<1>5. 0 \in 0 .. Len(timeline) /\ TimelineInv
  BY TimelineLength DEF AnnouncedInv
<1>6. FollowInv'
  BY <1>1, <1>2, <1>4, <1>5, BroadcastFollows
<1> QED  BY <1>3, <1>4, <1>6

MissedInv == GivenInv /\ InTurn /\ SequenceInv /\ FollowInv

LEMMA MissedInit == Init => MissedInv
<1> SUFFICES ASSUME Init
             PROVE  MissedInv
  OBVIOUS
<1>1. \A r \in Requests : ops[r].phase = "idle"
  BY DEF Init, NotAsked
<1>2. timeline = <<>> /\ Len(timeline) = 0 /\ received = <<>>
  BY DEF Init
<1>3. SequenceInv
  <2>1. session # None /\ session.sequence = 0
    BY InitType, NoRecord, FreshType DEF Init, Fresh
  <2> QED  BY <1>1, <1>2, <2>1 DEF SequenceInv
<1>4. \A c \in Connections : conns[c].phase = "idle" /\ ~conns[c].closed /\ ~conns[c].early
  BY DEF Init, NotConnected
<1>5. \A c \in Connections : ~Current(conns[c]) /\ ~IsOver(conns[c])
  BY <1>4 DEF Current, IsOver, Ended
<1>6. Cursor = 0 /\ IsRun(received, 1, 0)
  <2>1. 0 \in Nat /\ 0 + 1 = 1
    OBVIOUS
  <2>2. IsRun(<<>>, 0 + 1, 0)
    BY NoEvents
  <2> QED  BY <1>2, <2>1, <2>2, NothingGiven DEF Cursor
<1>7. InTurn /\ FollowInv
  BY <1>2, <1>5, <1>6 DEF InTurn, FollowInv
<1> QED  BY <1>3, <1>7, GivenInit DEF MissedInv

LEMMA MissedNext ==
  ASSUME Types, AnnouncedInv, MissedInv, Next
  PROVE  MissedInv'
<1>1. GivenInv'
  BY GivenNext DEF AnnouncedInv, MissedInv
<1>2. ASSUME NEW r \in Requests, Begin(r) \/ Serving(r)
      PROVE  InTurn' /\ SequenceInv' /\ FollowInv'
  BY <1>2, SequenceNext, RequestFollows DEF MissedInv
<1>3. ASSUME NEW c \in Connections, Connect(c) \/ Following(c) \/ Break(c) \/ BreakEarly(c)
      PROVE  InTurn' /\ SequenceInv' /\ FollowInv'
  BY <1>3, TurnStep, ConnectionFollows DEF MissedInv
<1>4. CASE Publish
  BY <1>1, <1>4, PublishFollows DEF MissedInv
<1> QED  BY <1>1, <1>2, <1>3, <1>4 DEF Next, MissedInv

LEMMA MissedImplies ==
  ASSUME AnnouncedInv, MissedInv
  PROVE  NothingMissed
<1> SUFFICES ASSUME NEW c \in Connections,
                    conns[c].phase = "live", ~conns[c].early, ~Recreated, ~overtaken,
                    \A d \in Connections : ~conns[d].cut,
                    \A r \in Requests : ops[r].phase # "committed"
             PROVE  IsRun(received \o conns[c].given, 1, session.sequence)
  BY DEF NothingMissed
<1> DEFINE n == Len(timeline)
           conn == conns[c]
<1>1. session.sequence = n /\ n \in Nat
  BY TimelineLength DEF MissedInv, SequenceInv, AnnouncedInv
<1>2. Given(conn) /\ received \in Seq(Nat) /\ Cursor \in Nat
  BY CursorType DEF MissedInv, GivenInv
<1>3. Current(conn)
  BY <1>2 DEF Current, IsOver, Ended, Given
<1>4. /\ IsRun(received, 1, Cursor) /\ conn.cursor = Cursor
      /\ Follows(conn, Told, n)
  BY <1>3 DEF MissedInv, FollowInv, Undisturbed
<1>5. HasGiven(conn, Told, n)
  BY <1>4 DEF Follows
<1>6. Told = 1 .. n
  BY DEF Told
<1>7. conn.delivered \in Cursor .. n /\ IsRun(conn.given, Cursor + 1, conn.delivered)
  BY <1>4, <1>5 DEF HasGiven
<1>8. conn.delivered = n
  <2>1. CASE n = 0
    BY <1>1, <1>2, <1>7, <2>1
  <2>2. CASE n # 0
    <3>1. n \in Told
      BY <1>1, <1>6, <2>2
    <3>2. n <= conn.delivered
      BY <1>5, <3>1 DEF HasGiven
    <3> QED  BY <1>1, <1>2, <1>7, <3>2
  <2> QED  BY <2>1, <2>2
<1>9. conn.given \in Seq(Nat)
  BY <1>2 DEF Given, InOrderUpTo
<1>10. 0 <= Cursor /\ Cursor <= n /\ 0 + 1 = 1 /\ 0 \in Nat
  BY <1>1, <1>2, <1>7
<1>11. IsRun(received \o conn.given, 0 + 1, n)
  <2>1. IsRun(received, 0 + 1, Cursor) /\ IsRun(conn.given, Cursor + 1, n)
    BY <1>4, <1>7, <1>8, <1>10
  <2> QED  BY <1>1, <1>2, <1>9, <1>10, <2>1, RunsJoin
<1> QED  BY <1>1, <1>10, <1>11

(* A client that comes back has what it missed: once nothing is on its way,  *)
(* what it got over its connections is the whole timeline, without a gap.    *)
THEOREM NothingMissedHolds == Spec => []NothingMissed
<1>1. MissedInv /\ UNCHANGED vars => MissedInv'
  <2> SUFFICES ASSUME MissedInv, UNCHANGED vars
               PROVE  MissedInv'
    OBVIOUS
  <2>1. /\ UNCHANGED <<timeline, session, ops, conns, received, overtaken, work>>
        /\ Told' = Told /\ Cursor' = Cursor /\ (Recreated' <=> Recreated)
    BY DEF vars, Told, Cursor, Recreated, Kind
  <2> QED  BY <2>1 DEF MissedInv, GivenInv, InTurn, SequenceInv, FollowInv, Undisturbed
<1> QED  BY <1>1, MissedInit, MissedNext, MissedImplies, AnnouncedHolds, TypesHold, PTL DEF Spec
===============================================================================
