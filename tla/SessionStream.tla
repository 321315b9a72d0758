------------------------------ MODULE SessionStream -----------------------------
(***************************************************************************)
(* The timeline of a session and the people on it: who may do what          *)
(* (services/session-access.ts), joining, leaving and being removed         *)
(* (collaboration/participant-service.ts), the events that tell it          *)
(* (collaboration/session-event-service.ts, sql-repository.ts) and the      *)
(* stream a client follows and comes back to (routes/session-collaboration  *)
(* .ts), on either database (db/sqlite.ts, db/postgres.ts).                 *)
(*                                                                          *)
(* A request is in one of its awaits between two actions.  An event is its  *)
(* sequence number; 0 is a delta of the answer, which is never stored.      *)
(***************************************************************************)
EXTENDS Naturals, Sequences, FiniteSets

CONSTANTS
  None,
  Requests, Connections,   \* what is asked for, and the connections of one client
  Ids, Tenants,            \* the user ids and the tenants there are
  Workloads,  \* the mixes that are looked at, see Workload
  Limit       \* how many events a replay reads at most

(* A user has an id and a tenant; another tenant may use the same id.        *)
Tenant == "bank"
Owner == [id |-> "owner", tenant |-> Tenant]
Users == [id : Ids, tenant : Tenants]

Ask == [kind : {"add", "remove", "leave", "post", "delete", "create"},
        actor : Users, about : Ids \cup {None}, role : {"member", "observer"}]

(* Who asks for what, who follows, in which mode and on which database, how  *)
(* many deltas are published, and what may fail.                             *)
Workload ==
  [ask : [Requests -> Ask \cup {None}], client : Users \cup {None},
   mode : {"single", "shared"}, storage : {"sqlite", "postgres"}, deltas : Nat,
   faults : SUBSET {"append", "replay", "early"}]

UserAssumption == {"owner", "member"} \subseteq Ids /\ Tenant \in Tenants
NoneAssumption ==
  /\ None \notin Requests \cup Ids \cup Users /\ None \notin Ask
  /\ None \notin [owner : {Owner}, mode : {"single", "shared"}, sequence : Nat]
WorkloadAssumption ==
  /\ Workloads \subseteq Workload
  /\ \A w \in Workloads : \A r \in Requests : w.ask[r] # None =>
       /\ w.ask[r].kind \in {"add", "remove"} => w.ask[r].about \in Ids
       /\ w.ask[r].kind = "create" => w.ask[r].actor = Owner

ConnectionsAssumption == Connections \subseteq Nat   \* in the order they are made

ASSUME UserAssumption
ASSUME ConnectionsAssumption
ASSUME NoneAssumption
ASSUME WorkloadAssumption

VARIABLES
  work,       \* the workload at hand
  session,    \* the record of the session, with its sequence, or None
  members,    \* its participants: user id -> row, or None
  timeline,   \* its stored events, in the order of their sequence
  lock,       \* the request whose append is in its transaction
  ops,        \* the requests
  conns,      \* the connections of the client, one after the other
  received,   \* what the client has got, as it got it
  deltas,     \* how many deltas were published
  overtaken,  \* whether an event was broadcast before an earlier one
  unclear     \* the users whose timeline may differ from their row

vars == <<work, session, members, timeline, lock, ops, conns, received, deltas,
          overtaken, unclear>>

Kind(r) == work.ask[r].kind
Actor(r) == work.ask[r].actor
About(r) == IF Kind(r) = "leave" THEN Actor(r).id ELSE work.ask[r].about

Fresh == [owner |-> Owner, mode |-> work.mode, sequence |-> 0]
Row(role, status) == [role |-> role, status |-> status, tenant |-> Tenant]
NoMembers == [id \in Ids |-> None]

NotAsked == [phase |-> "idle", record |-> None, events |-> <<>>, sequence |-> 0]

NotConnected ==
  [phase |-> "idle", record |-> None, cursor |-> 0, delivered |-> 0, buffer |-> <<>>,
   page |-> <<>>, given |-> <<>>, listens |-> FALSE, closed |-> FALSE, cut |-> FALSE, early |-> FALSE]

Init ==
  /\ work \in Workloads
  /\ session = Fresh
  /\ members = [NoMembers EXCEPT !["owner"] = Row("owner", "active"),
                                 !["member"] = IF work.mode = "shared"
                                                 THEN Row("member", "active") ELSE None]
  /\ timeline = <<>> /\ lock = None
  /\ ops = [r \in Requests |-> NotAsked]
  /\ conns = [c \in Connections |-> NotConnected]
  /\ received = <<>> /\ deltas = 0 /\ overtaken = FALSE /\ unclear = {}

People == <<session, members, timeline, lock, unclear>>
Stream == <<conns, received, deltas>>

-------------------------------------------------------------------------------
(* The database.  SQLite runs one statement or transaction at a time; in     *)
(* Postgres an append holds the row of the session until it commits.         *)

CanQuery == work.storage = "sqlite" => lock = None
CanLockRow == lock = None

-------------------------------------------------------------------------------
(* resolve and assertCan: the record is read, then the participant.          *)

Permissions ==
  [owner |-> {"view", "send", "manage_members", "manage_session", "delete"},
   member |-> {"view", "send"}, observer |-> {"view"}]

SameTenant(row, user) == row.tenant = user.tenant

RoleOf(record, row, user) ==
  IF record = None THEN None
  ELSE IF /\ record.mode = "shared" /\ row # None
          /\ SameTenant(row, user) /\ row.status = "active"
    THEN row.role
  ELSE IF record.owner = user THEN "owner"
  ELSE None

Allows(role, permission) == role # None /\ permission \in Permissions[role]

Needs == [add |-> "manage_members", remove |-> "manage_members", leave |-> "view",
          post |-> "send", delete |-> "delete"]

Phase(r, phase) == ops' = [ops EXCEPT ![r].phase = phase]

Begin(r) ==
  /\ ops[r].phase = "idle" /\ work.ask[r] # None /\ CanQuery
  /\ ops' = [ops EXCEPT ![r].phase = IF Kind(r) = "create" THEN "checked" ELSE "record",
                         ![r].record = session]
  /\ UNCHANGED <<work, People, Stream, overtaken>>

(* What the request itself rules out: members of a session of one, the owner *)
(* added, removed or leaving.                                                *)
NeverOwner(r) == FALSE
AboutOwner(r) == About(r) = ops[r].record.owner.id

RuledOut(r) ==
  \/ Kind(r) \in {"add", "leave"} /\ ops[r].record.mode # "shared"
  \/ Kind(r) \in {"add", "remove"} /\ AboutOwner(r)
  \/ Kind(r) = "leave" /\ Actor(r).id = ops[r].record.owner.id

CheckAccess(r) ==
  /\ ops[r].phase = "record" /\ CanQuery
  /\ LET role == RoleOf(ops[r].record, members[Actor(r).id], Actor(r)) IN
     Phase(r, IF Allows(role, Needs[Kind(r)]) /\ ~RuledOut(r) THEN "checked" ELSE "refused")
  /\ UNCHANGED <<work, People, Stream, overtaken>>

-------------------------------------------------------------------------------
(* The writes, each a statement of its own, and the events that follow.      *)

Writing == {"written", "appending", "committed"}
Overlaps(r) == \E q \in Requests \ {r} : ops[q].phase \in Writing /\ About(q) = About(r)

Announces(r, events) ==
  /\ ops' = [ops EXCEPT ![r].phase = "written", ![r].events = events]
  /\ unclear' = IF Overlaps(r) THEN unclear \cup {About(r)} ELSE unclear

KeepsStatus(row, status) == IF row = None THEN status ELSE row.status
Upserted(row, status) == status

Add(r) ==
  /\ ops[r].phase = "checked" /\ Kind(r) = "add" /\ CanQuery
  /\ IF session = None THEN Phase(r, "failed") /\ UNCHANGED <<members, unclear>>
     ELSE /\ members' = [members EXCEPT ![About(r)] =
                           Row(work.ask[r].role, Upserted(@, "active"))]
          /\ Announces(r, <<[type |-> "joined", about |-> About(r)]>>)
  /\ UNCHANGED <<work, session, timeline, lock, Stream, overtaken>>

SetStatus(r, kind, status) ==
  /\ ops[r].phase = "checked" /\ Kind(r) = kind /\ CanQuery
  /\ IF members[About(r)] = None THEN Phase(r, "failed") /\ UNCHANGED <<members, unclear>>
     ELSE /\ members' = [members EXCEPT ![About(r)].status = status]
          /\ Announces(r, <<[type |-> status, about |-> About(r)]>>)
  /\ UNCHANGED <<work, session, timeline, lock, Stream, overtaken>>

(* submitMessage: the message and the execution are stored, and told; in a   *)
(* session of one there is nobody to tell.                                   *)
Post(r) ==
  /\ ops[r].phase = "checked" /\ Kind(r) = "post" /\ CanQuery
  /\ IF session = None THEN Phase(r, "failed")
     ELSE IF ops[r].record.mode = "single" THEN Phase(r, "done")
     ELSE ops' = [ops EXCEPT ![r].phase = "written",
                             ![r].events = <<[type |-> "message", about |-> None],
                                             [type |-> "queued", about |-> None]>>]
  /\ UNCHANGED <<work, People, Stream, overtaken>>

(* registry.remove: the rows of the session go with it.                      *)
Delete(r) ==
  /\ ops[r].phase = "checked" /\ Kind(r) = "delete" /\ CanLockRow
  /\ session' = None /\ members' = NoMembers /\ timeline' = <<>>
  /\ Phase(r, "done")
  /\ UNCHANGED <<work, lock, Stream, overtaken, unclear>>

(* registry.create, and the registration of the owner as a participant.      *)
Create(r) ==
  /\ ops[r].phase = "checked" /\ Kind(r) = "create" /\ CanQuery
  /\ session' = IF session = None THEN Fresh ELSE session
  /\ Phase(r, "created")
  /\ UNCHANGED <<work, members, timeline, lock, Stream, overtaken, unclear>>

RegisterOwner(r) ==
  /\ ops[r].phase = "created" /\ CanQuery
  /\ IF session = None THEN Phase(r, "failed") /\ UNCHANGED members
     ELSE Phase(r, "done") /\ members' = [members EXCEPT !["owner"] = Row("owner", "active")]
  /\ UNCHANGED <<work, session, timeline, lock, Stream, overtaken, unclear>>

-------------------------------------------------------------------------------
(* append: the sequence is taken and the event stored in one transaction,    *)
(* then it is broadcast.                                                     *)

TakeSequence(r) ==
  /\ ops[r].phase = "written" /\ CanLockRow
  /\ IF session = None THEN Phase(r, "failed") /\ UNCHANGED lock
     ELSE Phase(r, "appending") /\ lock' = r
  /\ UNCHANGED <<work, session, members, timeline, Stream, overtaken, unclear>>

(* A statement of the transaction, not one of the pool, which would wait.    *)
OuterStatement(r) == CanQuery
Statement(r) == lock = r

Commit(r) ==
  /\ ops[r].phase = "appending" /\ Statement(r)
  /\ session' = [session EXCEPT !.sequence = @ + 1]
  /\ timeline' = Append(timeline, Head(ops[r].events))
  /\ ops' = [ops EXCEPT ![r].phase = "committed", ![r].events = Tail(@),
                        ![r].sequence = session.sequence + 1]
  /\ lock' = None
  /\ UNCHANGED <<work, members, Stream, overtaken, unclear>>

(* The database fails: nothing is undone but the append.                     *)
RollBack(r) ==
  /\ ops[r].phase = "appending" /\ "append" \in work.faults
  /\ Phase(r, "failed") /\ lock' = None
  /\ unclear' = unclear \cup {About(r)}
  /\ UNCHANGED <<work, session, members, timeline, Stream, overtaken>>

Greater(a, b) == IF a > b THEN a ELSE b

GiveTo(conn, e) ==
  [conn EXCEPT !.delivered = IF e > 0 THEN Greater(@, e) ELSE @,
               !.given = IF conn.closed THEN @ ELSE Append(@, e)]

(* deliver: what was delivered is dropped, during the replay it is kept.     *)
NeverOld(conn, e) == FALSE
Old(conn, e) == e > 0 /\ e <= conn.delivered

Deliver(conn, e) ==
  IF Old(conn, e) THEN conn
  ELSE IF conn.phase \in {"subscribed", "read"} THEN [conn EXCEPT !.buffer = Append(@, e)]
  ELSE GiveTo(conn, e)

GiveNew(conn, e) == IF Old(conn, e) THEN conn ELSE GiveTo(conn, e)

Broadcast(e) ==
  conns' = [c \in Connections |-> IF conns[c].listens THEN Deliver(conns[c], e) ELSE conns[c]]

Earlier(r) == \E q \in Requests : ops[q].phase = "committed" /\ ops[q].sequence < ops[r].sequence

(* With SQLite the commits and what follows them come in one order.          *)
Tell(r) ==
  /\ ops[r].phase = "committed"
  /\ work.storage = "sqlite" => ~Earlier(r)
  /\ Broadcast(ops[r].sequence)
  /\ Phase(r, IF ops[r].events = <<>> THEN "done" ELSE "written")
  /\ overtaken' = (overtaken \/ Earlier(r))
  /\ UNCHANGED <<work, People, received, deltas>>

(* publish: a delta goes to who listens.                                     *)
Publish ==
  /\ deltas < work.deltas /\ \E c \in Connections : conns[c].listens
  /\ Broadcast(0) /\ deltas' = deltas + 1
  /\ UNCHANGED <<work, People, ops, received, overtaken>>

-------------------------------------------------------------------------------
(* GET /:id/events: one connection after the other.                          *)

Ended == {"refused", "failed", "left"}
SetConn(c, conn) == conns' = [conns EXCEPT ![c] = conn]
Rest == <<work, People, ops, deltas, overtaken>>

(* Last-Event-ID: of what the client got, the last event that is stored.     *)
Stored(events) == {i \in DOMAIN events : events[i] > 0}
LastStored(events) == CHOOSE i \in Stored(events) : \A j \in Stored(events) : j <= i
Cursor == IF Stored(received) = {} THEN 0 ELSE received[LastStored(received)]

IsOver(conn) == conn.phase \in Ended \/ conn.closed \/ conn.early

Connect(c) ==
  /\ conns[c].phase = "idle" /\ work.client # None /\ CanQuery
  /\ \A d \in Connections : d < c => IsOver(conns[d])
  /\ SetConn(c, [conns[c] EXCEPT !.phase = "record", !.record = session, !.cursor = Cursor])
  /\ UNCHANGED <<Rest, received>>

(* Subscribed first, read then: what is stored between the two is kept.      *)
SubscribesLast == FALSE
SubscribesFirst == TRUE

CheckView(c) ==
  /\ conns[c].phase = "record" /\ CanQuery
  /\ LET role == RoleOf(conns[c].record, members[work.client.id], work.client) IN
     SetConn(c, IF Allows(role, "view")
       THEN [conns[c] EXCEPT !.phase = "subscribed", !.delivered = conns[c].cursor,
                             !.listens = SubscribesFirst]
       ELSE [conns[c] EXCEPT !.phase = "refused"])
  /\ UNCHANGED <<Rest, received>>

(* listAfter: the events behind the cursor, no more than a page of them.     *)
Replay(c) ==
  /\ conns[c].phase = "subscribed" /\ CanQuery
  /\ LET behind == {e \in DOMAIN timeline : e > conns[c].cursor}
         page == {e \in behind : e <= conns[c].cursor + Limit}
     IN SetConn(c, [conns[c] EXCEPT
          !.phase = "read", !.cut = page # behind,
          !.page = [i \in 1 .. Cardinality(page) |-> conns[c].cursor + i]])
  /\ UNCHANGED <<Rest, received>>

NeverUnsubscribes(conn) == FALSE
Unsubscribes(conn) == conn.closed

(* One event is written after the other.                                     *)
GiveAll(conn, events) ==
  LET after[n \in 0 .. Len(events)] ==
        IF n = 0 THEN conn ELSE GiveNew(after[n - 1], events[n])
  IN after[Len(events)]

(* The page is written, then what was kept; a client that left meanwhile is  *)
(* unsubscribed now.                                                         *)
GoLive(c) ==
  /\ conns[c].phase = "read"
  /\ LET after == GiveAll(conns[c], conns[c].page \o conns[c].buffer) IN
     SetConn(c, [conns[c] EXCEPT !.phase = IF conns[c].closed THEN "left" ELSE "live",
                                 !.listens = ~Unsubscribes(conns[c]),
                                 !.given = after.given, !.delivered = after.delivered,
                                 !.page = <<>>, !.buffer = <<>>])
  /\ UNCHANGED <<Rest, received>>

(* The replay fails: the response ends, the listener stays.                  *)
ReplayFails(c) ==
  /\ conns[c].phase = "subscribed" /\ "replay" \in work.faults
  /\ SetConn(c, [conns[c] EXCEPT !.phase = "failed", !.closed = TRUE])
  /\ UNCHANGED <<Rest, received>>

(* The connection breaks; the client has got some of what was written.       *)
Break(c) ==
  /\ conns[c].phase \in {"subscribed", "read", "live"} /\ ~IsOver(conns[c])
  /\ \E n \in 0 .. Len(conns[c].given) :
       received' = received \o SubSeq(conns[c].given, 1, n)
  /\ SetConn(c, [conns[c] EXCEPT
       !.closed = TRUE,
       !.phase = IF @ = "live" THEN "left" ELSE @,
       !.listens = conns[c].phase # "live"])
  /\ UNCHANGED Rest

(* It breaks before anybody listens for that: the route goes on for nobody.  *)
BreakEarly(c) ==
  /\ conns[c].phase = "record" /\ ~conns[c].early /\ "early" \in work.faults
  /\ SetConn(c, [conns[c] EXCEPT !.early = TRUE])
  /\ UNCHANGED <<Rest, received>>

-------------------------------------------------------------------------------

Serving(r) ==
  \/ CheckAccess(r) \/ Add(r) \/ SetStatus(r, "remove", "removed") \/ SetStatus(r, "leave", "left")
  \/ Post(r) \/ Delete(r) \/ Create(r) \/ RegisterOwner(r)
  \/ TakeSequence(r) \/ Commit(r) \/ RollBack(r) \/ Tell(r)

Following(c) == CheckView(c) \/ Replay(c) \/ GoLive(c) \/ ReplayFails(c)

Next ==
  \/ \E r \in Requests : Begin(r) \/ Serving(r)
  \/ \E c \in Connections : Connect(c) \/ Following(c) \/ Break(c) \/ BreakEarly(c)
  \/ Publish

Spec == Init /\ [][Next]_vars

(* What they wait for is an answer of the database: as long as there are     *)
(* requests that can go on one of them does, and so for the connections.     *)
FairSpec ==
  /\ Spec
  /\ WF_vars(\E r \in Requests : Serving(r))
  /\ WF_vars(\E c \in Connections : Following(c))

-------------------------------------------------------------------------------
(* The stored events among those that were sent come in order, none twice.   *)
Increasing(events) == \A i, j \in Stored(events) : i < j => events[i] < events[j]

(* They are the events from first to last, without a gap.                    *)
IsRun(events, first, last) ==
  /\ Increasing(events)
  /\ \A i \in Stored(events) : events[i] \in first .. last
  /\ \A e \in first .. last : \E i \in Stored(events) : events[i] = e

(* The state is of its types, and the sequence counts the stored events.     *)
TypeOK ==
  /\ session # None => session.sequence = Len(timeline)
  /\ session = None => members = NoMembers /\ timeline = <<>>
  /\ \A id \in Ids : members[id] # None =>
       members[id] \in [role : {"owner", "member", "observer"},
                        status : {"active", "left", "removed"}, tenant : {Tenant}]
  /\ lock # None <=> \E r \in Requests : ops[r].phase = "appending"
  /\ \A c \in Connections : conns[c].phase \in
       {"idle", "record", "refused", "subscribed", "read", "failed", "live", "left"}
  /\ deltas \in 0 .. work.deltas /\ unclear \subseteq Ids \cup {None}

(* A connection is given every stored event once, in order, whatever the     *)
(* replay, the events kept during it and the live ones have in common.       *)
OnceInOrder == \A c \in Connections : Increasing(conns[c].given)

(* A client that comes back has what it missed: once nothing is on its way,  *)
(* what it got over its connections is the whole timeline, without a gap.    *)
(* The code keeps this but for a replay cut at its limit, events broadcast   *)
(* in another order than stored, and a session that was created anew.        *)
Recreated == \E r \in Requests : ops[r].phase = "done" /\ Kind(r) = "delete"

NothingMissed ==
  \A c \in Connections :
    conns[c].phase = "live" /\ ~conns[c].early /\ session # None /\ ~Recreated /\ ~overtaken
      /\ (\A d \in Connections : ~conns[d].cut)
      /\ (\A r \in Requests : ops[r].phase # "committed")
    => IsRun(received \o conns[c].given, 1, session.sequence)

(* A connection that is over has no listener, once its replay has ended.     *)
(* Two are left for good: of a replay that failed (its unsubscribe was never *)
(* handed out), and of a connection that broke during the access check.      *)
NoListenerLeft ==
  \A c \in Connections : conns[c].listens =>
    \/ ~IsOver(conns[c]) \/ conns[c].phase \in {"subscribed", "read"}
    \/ conns[c].phase = "failed" \/ conns[c].early

(* Nobody of another tenant is given anything, nor anybody who never was a   *)
(* participant, whoever shares the id of one.                                *)
OwnTenantSees ==
  \A c \in Connections :
    conns[c].phase \in {"subscribed", "read", "live", "left"} => work.client.tenant = Tenant

(* The owner is never locked out or demoted, by whatever is done to the      *)
(* participants and whatever record the access check had read: the session   *)
(* gives the owner the role, and lists them, unless a creation that found no *)
(* session is between its record and their registration.                     *)
OwnerStaysOwner ==
  session # None =>
    LET row == members[session.owner.id] IN
    /\ RoleOf(session, row, session.owner) = "owner"
    /\ \/ row = Row("owner", "active")
       \/ row = None /\ \E r \in Requests : ops[r].phase = "created"

(* The timeline tells who is in: once nothing about a user is on its way,    *)
(* the last event about them says what their row says.  Two requests about   *)
(* one user at a time, or an append that failed, make it unclear.            *)
LastAbout(id) ==
  LET told == {i \in DOMAIN timeline : timeline[i].about = id} IN
  timeline[CHOOSE i \in told : \A j \in told : j <= i].type

TimelineTellsStatus ==
  \A id \in Ids \ unclear :
    /\ \E i \in DOMAIN timeline : timeline[i].about = id
    /\ \A r \in Requests : ops[r].phase \in Writing => About(r) # id
    /\ ~Recreated
    => members[id].status = IF LastAbout(id) = "joined" THEN "active" ELSE LastAbout(id)

(* Every request and every replay comes to an answer: there is always a      *)
(* moment after which none is in progress (each is made once).               *)
Busy == {"record", "checked", "created"} \cup Writing

Answered ==
  /\ \A r \in Requests : ops[r].phase \notin Busy
  /\ \A c \in Connections : conns[c].phase \notin {"record", "subscribed", "read"}

EveryCallEnds == ~Answered ~> Answered
===============================================================================
