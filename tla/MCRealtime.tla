------------------------------- MODULE MCRealtime -------------------------------
(***************************************************************************)
(* The way of an event to its user: the bus, the hub's connections and the *)
(* phone that pushes go to.  They share no state, so each is explored with  *)
(* the others at rest.                                                      *)
(***************************************************************************)
EXTENDS RealtimeHub, Installations

all == <<vars, hubVars, ivars>>

MCInit == Init /\ HubInit /\ InstallationsInit

\* Events differ by nothing but their names: they are published in order.
InOrder ==
  \A e, f \in Events : e < f /\ published'[f] # NotPublished => published'[e] # NotPublished

MCNext ==
  \/ Next /\ InOrder /\ HubInit /\ InstallationsInit /\ UNCHANGED <<hubVars, ivars>>
  \/ HubNext /\ Init /\ InstallationsInit /\ UNCHANGED <<vars, ivars>>
  \/ InstallationsNext /\ Init /\ HubInit /\ UNCHANGED <<vars, hubVars>>

MCSpec == MCInit /\ [][MCNext]_all /\ BusFairness /\ HubFairness
=============================================================================
