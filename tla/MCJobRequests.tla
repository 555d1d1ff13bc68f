---------------------------- MODULE MCJobRequests ----------------------------
(* Instances of JobRequests for TLC. *)
EXTENDS JobRequests, TLC

Symmetric == Permutations(Ids) \cup Permutations(Pairs) \cup Permutations(Calls)
=============================================================================
