--------------------------- MODULE MCApprovalVoting ---------------------------
(* A small instance of ApprovalVoting for TLC.                                *)
EXTENDS ApprovalVoting, TLC

CONSTANTS pm, risk, ann, bob, cy, p1, p2, r1

(* bob holds both roles; ann started the execution, and could vote otherwise.  *)
(* The N_OF_M policy asks for more people than hold its role: only expiry or   *)
(* a cancellation closes its tasks, unless someone rejects.                    *)
PeoplesRoles == ann :> {pm} @@ bob :> {pm, risk} @@ cy :> {risk}

Policy(strategy, roles, required) ==
  [strategy |-> strategy, roles |-> roles, required |-> required]

EveryStrategy ==
  {Policy("ANY", <<pm, risk>>, None), Policy("ALL", <<pm, risk>>, None),
   Policy("N_OF_M", <<pm>>, 2), Policy("SEQUENTIAL", <<pm, risk>>, None)}

(* All requests on one process, or r1 on another one than the rest.           *)
TogetherOrApart ==
  {[r \in Requests |-> p1], [r \in Requests |-> IF r = r1 THEN p2 ELSE p1]}
===============================================================================
