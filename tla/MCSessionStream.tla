----------------------------- MODULE MCSessionStream ----------------------------
(* Small instances of SessionStream for TLC: the mixes of three requests, the *)
(* client that follows, the mode of the session and the database.             *)
EXTENDS SessionStream, TLC

CONSTANTS r1, r2, r3

Member == [id |-> "member", tenant |-> Tenant]
Guest == [id |-> "guest", tenant |-> Tenant]
Stranger == [id |-> "member", tenant |-> "other"]

Do(kind, actor, about, role) == [kind |-> kind, actor |-> actor, about |-> about, role |-> role]
Invite(id, role) == Do("add", Owner, id, role)
Expel(id) == Do("remove", Owner, id, "member")
By(kind, actor) == Do(kind, actor, None, "member")

Mix(a1, a2, a3, client, mode, storage, delta, faults) ==
  [ask |-> (r1 :> a1) @@ (r2 :> a2) @@ (r3 :> a3), client |-> client, mode |-> mode,
   storage |-> storage, deltas |-> delta, faults |-> faults]

Nothing == None

(* Requests about the participants.                                           *)
Members(storage) ==
  {Mix(Invite("member", "observer"), Expel("member"), By("leave", Member), None, "shared", storage, 0, {}),
   Mix(Invite("guest", "member"), By("post", Guest), Expel("guest"), None, "shared", storage, 0, {"append"}),
   Mix(Invite("owner", "observer"), Expel("owner"), By("leave", Owner), None, "shared", storage, 0, {}),
   Mix(By("leave", Stranger), By("post", Stranger), By("post", Owner), Stranger, "shared", storage, 0, {}),
   Mix(Invite("guest", "member"), By("leave", Owner), By("post", Owner), Owner, "single", storage, 0, {})}

(* A client that follows, loses the connection and comes back.                *)
Streams ==
  {Mix(By("post", Owner), Invite("guest", "observer"), Nothing, Guest, "shared", "postgres", 0, {}),
   Mix(By("post", Member), Nothing, Nothing, Member, "shared", "sqlite", 1, {"replay", "early"}),
   Mix(By("post", Member), Expel("member"), Nothing, Member, "shared", "sqlite", 0, {}),
   Mix(Expel("member"), By("delete", Owner), By("create", Owner), Owner, "shared", "postgres", 0, {})}

MCWorkloads == Members("sqlite") \cup Members("postgres") \cup Streams
===============================================================================
