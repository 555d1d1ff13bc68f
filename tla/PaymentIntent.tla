---------------------------- MODULE PaymentIntent ----------------------------
(***************************************************************************)
(* The state machine of one payment intent (domain/payment/intent.go), as  *)
(* operators over the row of table payment_intents joined with its session *)
(* in payment_checkout_sessions.  The row keeps what the code's decisions  *)
(* read: the proposal, the purpose, the status and the session's expiry    *)
(* (NoSession when the join finds none).  Currency and amounts are fixed   *)
(* when the intent is made and the processor charges exactly what the      *)
(* preference says, so MarkPaid's comparisons of them never fail here.     *)
(***************************************************************************)
EXTENDS Integers

Purposes == {"booking_deposit", "service_balance"}

\* "absent" stands for a row that was not inserted yet.
IntentStatuses == {"absent", "requires_checkout", "checkout_ready",
                   "processing", "paid", "rejected", "expired"}

\* The predicate of the partial unique index over (service_proposal_id, purpose).
ActiveStatuses == {"requires_checkout", "checkout_ready", "processing", "paid"}

NoSession == 0

\* What the processor says of a payment.  "none": there is no such payment yet.
PaymentStatuses == {"none", "processing", "rejected", "approved"}

\* What a payment's verdict turns the intent's status into.
StatusAfter(verdict) ==
  IF verdict = "approved" THEN "paid" ELSE verdict

\* Mutant: only a ready intent takes a verdict.
MayApply_ReadyOnly(verdict, status) == status = "checkout_ready"

\* The statuses MarkProcessing, MarkRejected and MarkPaid accept.
MayApply(verdict, status) ==
  \/ status \in {"checkout_ready", "processing"}
  \/ verdict = "rejected" /\ status = "rejected"

\* PrepareCheckout, at time "at": reuse the intent's session, renew (make
\* another intent), expire the intent and then renew, or refuse.
PrepareCheckout(row, at) ==
  CASE row.expiresOn = NoSession ->
         IF row.status \in {"rejected", "expired"} THEN "renew" ELSE "refuse"
    [] row.expiresOn # NoSession /\ row.status = "processing" -> "reuse"
    [] row.expiresOn # NoSession /\ row.status \notin {"processing", "checkout_ready"} -> "renew"
    [] OTHER -> IF row.expiresOn > at THEN "reuse" ELSE "expire"
=============================================================================
