----------------------- MODULE BookingPaymentsInvariant -----------------------
(***************************************************************************)
(* The inductive invariant behind the safety theorems of BookingPayments.  *)
(* None of them is inductive: a commit writes the rows its request read    *)
(* steps before, so the invariant has to say what a request at each step   *)
(* holds, that the rows it points to are still there and still for the     *)
(* same obligation (Shape), and what the locks and the order of the steps  *)
(* keep true of them meanwhile (Ledger).                                   *)
(***************************************************************************)
EXTENDS BookingPayments

\* A row with a session or a status is an intent of some proposal.
IntentsWellFormed ==
  \A i \in IntentIds :
    /\ intent[i].status # "absent" => intent[i].proposal \in Proposals
    /\ intent[i].status = "absent" => intent[i].expiresOn = NoSession

\* A payment at the processor is for an intent, and it is recorded for that one.
PaymentsWellFormed ==
  \A y \in Payments :
    /\ payment[y].status # "none" =>
         payment[y].intent \in IntentIds /\ intent[payment[y].intent].status # "absent"
    /\ txn[y] # 0 => payment[y].status # "none" /\ txn[y] = payment[y].intent

CheckoutPcs == {"latest", "expire", "create", "external", "ready"}
WebhookPcs  == {"mark", "accept", "contract", "settle", "pay", "notify"}

\* What a checkout knows: its proposal and, once it has one, its intent.
CheckoutWellFormed(q, intents) ==
  /\ q.op \in {"booking", "balance"} => q.proposal \in Proposals
  /\ q.pc \in CheckoutPcs => q.op \in {"booking", "balance"}
  /\ q.pc \in {"expire", "external", "ready"} =>
       q.intent \in IntentIds /\ intents[q.intent].status # "absent"

\* What a notification knows: its payment, that payment's intent and, once it
\* read the intent, the proposal and the obligation it pays.
WebhookWellFormed(q, intents, payments) ==
  /\ q.op = "webhook" =>
       /\ q.payment \in Payments /\ payments[q.payment].status # "none"
       /\ q.intent = payments[q.payment].intent /\ q.verdict # "none"
  /\ q.pc = "apply" => q.op = "webhook"
  /\ q.pc \in WebhookPcs =>
       /\ q.op = "webhook"
       /\ q.proposal \in Proposals /\ q.proposal = intents[q.intent].proposal
  /\ q.pc \in {"accept", "contract"} => intents[q.intent].purpose = "booking_deposit"
  /\ q.pc \in {"settle", "pay"} => intents[q.intent].purpose = "service_balance"

\* A request that carries a work order carries one that exists.
OrderCopyWellFormed(q, orders) ==
  /\ q.pc = "report" => q.op = "report"
  /\ q.pc = "review" => q.op = "review"
  /\ q.pc \in {"report", "review", "pay"} =>
       /\ q.proposal \in Proposals
       /\ orders[q.proposal].status # "none" /\ q.order.status # "none"

WellFormed(q, intents, payments, orders) ==
  /\ CheckoutWellFormed(q, intents)
  /\ WebhookWellFormed(q, intents, payments)
  /\ OrderCopyWellFormed(q, orders)

RequestsWellFormed == \A r \in Requests : WellFormed(req[r], intent, payment, order)

Shape == TypeOK /\ IntentsWellFormed /\ PaymentsWellFormed /\ RequestsWellFormed

-----------------------------------------------------------------------------
(* What the properties about intents, payments and work orders rest on. *)

\* No two requests hold the same advisory lock.
LocksExclude ==
  \A r, s \in Requests :
    r # s /\ HoldsLock(req[r]) /\ HoldsLock(req[s]) => ~SameLock(req[r], req[s])

\* The intent a checkout works on is of its own obligation and, until the checkout
\* gives it a session, nobody touches it: neither a payment, which takes a session,
\* nor a checkout that expires an intent, even one that lost its lock.
CheckoutHolds(q, intents) ==
  /\ q.pc \in {"expire", "external", "ready"} =>
       intents[q.intent].proposal = q.proposal /\ intents[q.intent].purpose = Purpose(q)
  /\ q.pc = "expire" => intents[q.intent].status # "requires_checkout"
  /\ q.pc \in {"external", "ready"} =>
       /\ intents[q.intent].status = "requires_checkout"
       /\ intents[q.intent].expiresOn = NoSession

\* The intent a checkout made is its own, locked or not: its id was free.
MakingPcs == {"external", "ready"}
IntentsApart ==
  \A r, s \in Requests :
    r # s /\ req[r].pc \in MakingPcs /\ req[s].pc \in MakingPcs => req[r].intent # req[s].intent

\* The payment of a notification that goes on is not recorded yet, unless one that
\* lost its lock recorded it, and only a verdict that approves nothing is saved
\* without a transaction.
NotificationHolds(q, txns, noted) ==
  /\ q.pc = "mark" => q.verdict # "approved"
  /\ q.lost /\ q.op = "webhook" => q.payment \in noted
  /\ q.pc \in {"apply", "mark", "accept", "contract", "settle", "pay"} =>
       txns[q.payment] = 0 \/ q.payment \in noted

\* The proposals whose balance was recorded.
Settled == {p \in Proposals : \E y \in Payments : PaysFor(y, p, "service_balance")}

\* However old the copy of an order, it carries the report, what it is decided on
\* was reached, and a copy that reads as paid is of a settled order.
CopyHolds(q, orders, settled) ==
  /\ q.pc \in {"report", "review", "pay"} => q.order.report # NoReport
  /\ q.pc = "report" => q.order.status = "awaiting_payment"
  /\ q.pc \in {"review", "pay"} => q.order.status = "paid"
  /\ q.pc = "pay" => orders[q.proposal].status # "scheduled"
  /\ q.pc = "review" => q.proposal \in settled

Holds(q, intents, txns, noted, orders, settled) ==
  CheckoutHolds(q, intents) /\ NotificationHolds(q, txns, noted) /\ CopyHolds(q, orders, settled)

RequestsHold == \A r \in Requests : Holds(req[r], intent, txn, unlocked, order, Settled)

\* Whoever pays does so through a session.
SessionsBehindPayments ==
  \A y \in Payments :
    payment[y].status # "none" => intent[payment[y].intent].expiresOn # NoSession

\* An order that does not exist has no evidence, a settled one exists, and one that
\* reads as paid is settled and has its report.
OrdersBacked ==
  \A p \in Proposals :
    /\ order[p].status = "none" => order[p] = NoOrder /\ p \notin Settled
    /\ order[p].status = "paid" => order[p].report # NoReport /\ p \in Settled

Ledger ==
  /\ LocksExclude /\ IntentsApart /\ RequestsHold
  /\ SessionsBehindPayments /\ OrdersBacked
  /\ IntentsAgree /\ AppliedOnce

\* The inductive invariant.
IInv == Shape /\ BookedAtomically /\ OneDepositPerProposal /\ Ledger
=============================================================================
