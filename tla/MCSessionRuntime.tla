---------------------------- MODULE MCSessionRuntime ---------------------------
(* Small instances of SessionRuntime for TLC: the workloads that are looked   *)
(* at, each with at most three requests.                                      *)
EXTENDS SessionRuntime, TLC

CONSTANTS r1, r2, r3, s1, s2

Of(k1, k2, k3, other, exists, stops, claims) ==
  [kind |-> (r1 :> k1) @@ (r2 :> k2) @@ (r3 :> k3),
   session |-> (r1 :> s1) @@ (r2 :> s1) @@ (r3 :> other),
   tools |-> (r1 :> {"read"}) @@ (r2 :> Kinds) @@ (r3 :> {"write"}),
   exists |-> exists, stops |-> stops, claims |-> claims]

MCWorkloads ==
  {Of("task", "task", "plain", s1, TRUE, FALSE, FALSE),
   Of("task", "task", "stream", s2, TRUE, FALSE, FALSE),
   Of("task", "disconnect", "resume", s1, TRUE, FALSE, FALSE),
   Of("plain", "stream", "disconnect", s1, TRUE, FALSE, FALSE),
   Of("task", "delete", "stream", s1, TRUE, FALSE, TRUE),
   Of("plain", "delete", "disconnect", s1, TRUE, FALSE, FALSE),
   Of("task", "release", "queue", s1, TRUE, TRUE, FALSE),
   Of("create", "create", "plain", s1, FALSE, FALSE, FALSE),
   Of("create", "probe", "delete", s1, FALSE, FALSE, FALSE),
   Of("create", "disconnect", "probe", s1, TRUE, FALSE, FALSE)}
===============================================================================
