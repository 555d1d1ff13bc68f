--------------------------- MODULE BookingContract ---------------------------
(***************************************************************************)
(* What the marketplace promises about one contract, without intents,      *)
(* sessions, requests or locks: a proposal is offered, one deposit books   *)
(* it, the provider reports the work done, and the balance settles it.     *)
(* Nothing goes back, and the deposit that booked it is never replaced.    *)
(***************************************************************************)
CONSTANTS Proposals, Payments

VARIABLES
  phase,    \* [Proposals -> "offered", "booked", "reported", "settled"]
  deposit   \* [Proposals -> the payments that booked it]

contract == <<phase, deposit>>

Init ==
  /\ phase = [p \in Proposals |-> "offered"]
  /\ deposit = [p \in Proposals |-> {}]

Book(p, y) ==
  /\ phase[p] = "offered"
  /\ \A q \in Proposals : y \notin deposit[q]
  /\ phase' = [phase EXCEPT ![p] = "booked"]
  /\ deposit' = [deposit EXCEPT ![p] = {y}]

Report(p) ==
  /\ phase[p] = "booked"
  /\ phase' = [phase EXCEPT ![p] = "reported"]
  /\ UNCHANGED deposit

Settle(p) ==
  /\ phase[p] = "reported"
  /\ phase' = [phase EXCEPT ![p] = "settled"]
  /\ UNCHANGED deposit

Next == \E p \in Proposals : (\E y \in Payments : Book(p, y)) \/ Report(p) \/ Settle(p)

Spec == Init /\ [][Next]_contract
=============================================================================
