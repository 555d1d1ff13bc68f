-------------------------- MODULE MCBookingPayments --------------------------
(* Instances of BookingPayments for TLC. *)
EXTENDS BookingPaymentsInvariant, BookingTerms, TLC

\* Up to 300 pesos and around a multiple of the denominator, the share is the nearest
\* cent to a fifth, and what is accepted starts at three cents.
ASSUME SampledTotals ==
  \A total \in (0..30000) \cup (999990000..1000010000) :
    /\ PercentageOf(total) = (2 * (total \div 10) + (2 * (total % 10) + 5) \div 10)
    /\ Accepts(total) <=> total >= 3

Symmetric == Permutations(Payments) \cup Permutations(Requests)

\* A booked proposal at its service's time: intent 1 was paid by some payment.
BookedInit ==
  /\ now = ScheduledOn
  /\ proposal = [p \in Proposals |-> "accepted"]
  /\ intent = [i \in IntentIds |->
       IF i = 1 THEN [proposal |-> CHOOSE p \in Proposals : TRUE, purpose |-> "booking_deposit",
                      status |-> "paid", expiresOn |-> BookingDeadline]
       ELSE NoIntent]
  /\ order = [p \in Proposals |-> NewOrder]
  /\ \E y \in Payments :
       /\ txn = [z \in Payments |-> IF z = y THEN 1 ELSE 0]
       /\ notices = [z \in Payments |-> IF z = y THEN 1 ELSE 0]
       /\ payment = [z \in Payments |-> IF z = y THEN [intent |-> 1, status |-> "approved"]
                                        ELSE [intent |-> 0, status |-> "none"]]
  /\ req = [r \in Requests |-> Idle]
  /\ failures = 0
  /\ unlocked = {}

BookedSpec == BookedInit /\ [][Next]_vars
=============================================================================
