---------------------------- MODULE MCSessionQueue ----------------------------
(* Small instances of SessionQueue for TLC.                                   *)
EXTENDS SessionQueue, TLC

Symmetry ==
  Permutations(Submissions) \cup Permutations(Keys) \cup Permutations(Requests)
===============================================================================
