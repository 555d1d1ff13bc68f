---------------------------- MODULE MCCallsComplete ----------------------------
(***************************************************************************)
(* The acceptance of a job request, and the connections and locks that calls *)
(* wait for.  They share no state, so each is explored with the other at     *)
(* rest.                                                                     *)
(***************************************************************************)
EXTENDS JobRequests, AdvisoryLockPool

all == <<vars, pvars>>

MCNext ==
  \/ Next /\ PoolInit /\ UNCHANGED pvars
  \/ PoolNext /\ Init /\ UNCHANGED vars

MCSpec == Init /\ PoolInit /\ [][MCNext]_all /\ Fairness /\ PoolFairness
=============================================================================
