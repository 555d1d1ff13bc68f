------------------------ MODULE BookingPaymentsProofs ------------------------
(***************************************************************************)
(* Proofs about BookingPayments for every number of proposals, payments,   *)
(* requests and intents and every deadline: the inductive invariant IInv,  *)
(* and from it type correctness, the atomicity of a booking and the        *)
(* uniqueness of its deposit, the agreement of intents with their          *)
(* payments, the payments' backing and evidence, and the refinement of     *)
(* BookingContract.  And about BookingTerms for every amount.              *)
(***************************************************************************)
EXTENDS BookingPaymentsInvariant, BookingTerms, TLAPS

\* What no step does to the tables: take a present intent to another obligation
\* or remove it, remove a work order, change what a payment is for.
TablesKeep ==
  /\ \A i \in IntentIds : intent[i].status # "absent" =>
       /\ intent'[i].status # "absent"
       /\ intent'[i].proposal = intent[i].proposal
       /\ intent'[i].purpose = intent[i].purpose
  /\ \A p \in Proposals : order[p].status # "none" => order'[p].status # "none"
  /\ \A y \in Payments : payment[y].status # "none" =>
       payment'[y].status # "none" /\ payment'[y].intent = payment[y].intent

-----------------------------------------------------------------------------
\* A request's facts survive any step of another one: TablesKeep is all it needs.
LEMMA WellFormedKept ==
  ASSUME Shape, TablesKeep, NEW q \in RequestRow, WellFormed(q, intent, payment, order)
  PROVE  WellFormed(q, intent', payment', order')
<1>1. CheckoutWellFormed(q, intent')
  BY DEF TablesKeep, WellFormed, CheckoutWellFormed
<1>2. WebhookWellFormed(q, intent', payment')
  <2>1. q.op = "webhook" => /\ q.payment \in Payments /\ payment'[q.payment].status # "none"
                            /\ q.intent = payment'[q.payment].intent
    BY DEF TablesKeep, WellFormed, WebhookWellFormed
  <2>2. q.op = "webhook" => q.intent \in IntentIds /\ intent[q.intent].status # "absent"
    BY DEF Shape, PaymentsWellFormed, WellFormed, WebhookWellFormed
  <2>3. q.op = "webhook" => /\ intent'[q.intent].proposal = intent[q.intent].proposal
                            /\ intent'[q.intent].purpose = intent[q.intent].purpose
    BY <2>2 DEF TablesKeep
  <2>4. q.pc \in WebhookPcs => q.op = "webhook"
    BY DEF WellFormed, WebhookWellFormed
  <2>. QED BY <2>1, <2>3, <2>4 DEF WellFormed, WebhookWellFormed, WebhookPcs
<1>3. OrderCopyWellFormed(q, order')
  BY DEF TablesKeep, WellFormed, OrderCopyWellFormed
<1>. QED BY <1>1, <1>2, <1>3 DEF WellFormed

\* The step of one request: the others keep what they know.
LEMMA RequestStep ==
  ASSUME Shape, TablesKeep, NEW r \in Requests, NEW q \in RequestRow,
         WellFormed(q, intent', payment', order'), req' = [req EXCEPT ![r] = q]
  PROVE  req' \in [Requests -> RequestRow] /\ RequestsWellFormed'
<1>1. req \in [Requests -> RequestRow]
  BY DEF Shape, TypeOK
<1>2. req' \in [Requests -> RequestRow]
  BY <1>1
<1>3. ASSUME NEW s \in Requests PROVE WellFormed(req'[s], intent', payment', order')
  <2>1. CASE s = r
    <3>1. req'[s] = q BY <1>1, <2>1
    <3>. QED BY <3>1
  <2>2. CASE s # r
    <3>1. req'[s] = req[s] BY <1>1, <2>2
    <3>2. WellFormed(req[s], intent, payment, order) BY DEF Shape, RequestsWellFormed
    <3>3. req[s] \in RequestRow BY <1>1
    <3>4. WellFormed(req[s], intent', payment', order') BY <3>2, <3>3, WellFormedKept
    <3>. QED BY <3>1, <3>4
  <2>. QED BY <2>1, <2>2
<1>. QED BY <1>2, <1>3 DEF RequestsWellFormed

\* What the invariant says of one request.
LEMMA RowOfRequest ==
  ASSUME Shape, NEW r \in Requests
  PROVE  req[r] \in RequestRow /\ WellFormed(req[r], intent, payment, order)
BY DEF Shape, TypeOK, RequestsWellFormed

\* The absent work order is a row.
LEMMA NoOrderTyped == NoOrder \in OrderRow
BY DEF NoOrder, OrderRow, OrderStatuses

\* The idle request is a row.
LEMMA IdleTyped == Idle \in RequestRow
BY NoOrderTyped, BoundsAssumption
   DEF Idle, RequestRow, Operations, UnlockedPcs, PaymentStatuses

\* A finished request knows nothing.
LEMMA IdleWellFormed ==
  ASSUME NEW intents, NEW payments, NEW orders
  PROVE  WellFormed(Idle, intents, payments, orders)
BY DEF WellFormed, CheckoutWellFormed, WebhookWellFormed, OrderCopyWellFormed, Idle,
       CheckoutPcs, WebhookPcs

\* A step that changes only what one request holds.
LEMMA RequestOnlyStep ==
  ASSUME Shape, NEW r \in Requests, NEW q \in RequestRow,
         WellFormed(q, intent, payment, order), req' = [req EXCEPT ![r] = q],
         UNCHANGED <<now, proposal, intent, txn, order, notices, payment, failures, unlocked>>
  PROVE  Shape'
<1>1. TablesKeep
  BY DEF TablesKeep
<1>2. req' \in [Requests -> RequestRow] /\ RequestsWellFormed'
  BY <1>1, RequestStep
<1>. QED BY <1>2 DEF Shape, TypeOK, IntentsWellFormed, PaymentsWellFormed

-----------------------------------------------------------------------------
(* The steps that change only a request. *)

\* A booking checkout starts with a proposal, without an intent.
LEMMA StartBookingCheckoutShape ==
  ASSUME Shape, NEW r \in Requests, NEW p \in Proposals, StartBookingCheckout(r, p)
  PROVE  Shape'
<1> DEFINE q == [Idle EXCEPT !.op = "booking", !.pc = "lock", !.proposal = p]
<1>1. q \in RequestRow
  BY IdleTyped DEF RequestRow, Operations, UnlockedPcs
<1>2. WellFormed(q, intent, payment, order)
  BY DEF WellFormed, CheckoutWellFormed, WebhookWellFormed, OrderCopyWellFormed, Idle,
         CheckoutPcs, WebhookPcs
<1>. QED BY <1>1, <1>2, RequestOnlyStep DEF StartBookingCheckout

\* A balance checkout starts with a proposal, without an intent.
LEMMA StartBalanceCheckoutShape ==
  ASSUME Shape, NEW r \in Requests, NEW p \in Proposals, StartBalanceCheckout(r, p)
  PROVE  Shape'
<1> DEFINE q == [Idle EXCEPT !.op = "balance", !.pc = "lock", !.proposal = p]
<1>1. q \in RequestRow
  BY IdleTyped DEF RequestRow, Operations, UnlockedPcs
<1>2. WellFormed(q, intent, payment, order)
  BY DEF WellFormed, CheckoutWellFormed, WebhookWellFormed, OrderCopyWellFormed, Idle,
         CheckoutPcs, WebhookPcs
<1>. QED BY <1>1, <1>2, RequestOnlyStep DEF StartBalanceCheckout

\* A report starts with a copy of an order that exists.
LEMMA StartReportShape ==
  ASSUME Shape, NEW r \in Requests, NEW p \in Proposals, NEW c \in Reports, StartReport(r, p, c)
  PROVE  Shape'
<1> DEFINE q == [Idle EXCEPT !.op = "report", !.pc = "report", !.proposal = p,
                             !.order = WithReport(order[p], c)]
<1>1. order[p] \in OrderRow
  BY DEF Shape, TypeOK
<1>2. WithReport(order[p], c) \in OrderRow /\ WithReport(order[p], c).status = "awaiting_payment"
  BY <1>1 DEF WithReport, OrderRow, OrderStatuses
<1>3. q \in RequestRow
  BY <1>2, IdleTyped DEF RequestRow, Operations, UnlockedPcs
<1>4. order[p].status # "none"
  BY DEF StartReport, MayReport
<1>5. WellFormed(q, intent, payment, order)
  BY <1>2, <1>4, IdleTyped
     DEF WellFormed, CheckoutWellFormed, WebhookWellFormed, OrderCopyWellFormed, Idle,
         CheckoutPcs, WebhookPcs
<1>. QED BY <1>3, <1>5, RequestOnlyStep DEF StartReport

\* A review starts with a copy of an order that exists.
LEMMA StartReviewShape ==
  ASSUME Shape, NEW r \in Requests, NEW p \in Proposals, StartReview(r, p)
  PROVE  Shape'
<1> DEFINE q == [Idle EXCEPT !.op = "review", !.pc = "review", !.proposal = p,
                             !.order = order[p]]
<1>1. order[p] \in OrderRow
  BY DEF Shape, TypeOK
<1>2. q \in RequestRow
  BY <1>1, IdleTyped DEF RequestRow, Operations, UnlockedPcs
<1>3. order[p].status # "none"
  BY DEF StartReview, MayReview
<1>4. WellFormed(q, intent, payment, order)
  BY <1>3 DEF WellFormed, CheckoutWellFormed, WebhookWellFormed, OrderCopyWellFormed, Idle,
              CheckoutPcs, WebhookPcs
<1>. QED BY <1>2, <1>4, RequestOnlyStep DEF StartReview

\* A notification starts with the intent of its payment.
LEMMA StartNotificationShape ==
  ASSUME Shape, NEW r \in Requests, NEW y \in Payments, StartNotification(r, y)
  PROVE  Shape'
<1> DEFINE q == [Idle EXCEPT !.op = "webhook", !.pc = "lock", !.payment = y,
                             !.verdict = payment[y].status, !.intent = payment[y].intent]
<1>1. payment[y] \in PaymentRow
  BY DEF Shape, TypeOK
<1>2. q \in RequestRow
  BY <1>1, IdleTyped DEF RequestRow, Operations, UnlockedPcs, PaymentRow
<1>3. WellFormed(q, intent, payment, order)
  BY DEF WellFormed, CheckoutWellFormed, WebhookWellFormed, OrderCopyWellFormed, Idle,
         CheckoutPcs, WebhookPcs, StartNotification
<1>. QED BY <1>2, <1>3, RequestOnlyStep DEF StartNotification

\* The end of a request that leaves the tables alone.
LEMMA FinishShape ==
  ASSUME Shape, NEW r \in Requests, Finish(r),
         UNCHANGED <<now, proposal, intent, txn, order, notices, payment, failures, unlocked>>
  PROVE  Shape'
BY IdleTyped, IdleWellFormed, RequestOnlyStep DEF Finish

\* A checkout that got its lock keeps its proposal.
LEMMA LockCheckoutShape ==
  ASSUME Shape, NEW r \in Requests, LockCheckout(r)
  PROVE  Shape'
<1>1. CASE Finish(r)
  BY <1>1, FinishShape DEF LockCheckout
<1>2. CASE req' = [req EXCEPT ![r].pc = "latest", ![r].at = now]
  <2> DEFINE q == [req[r] EXCEPT !.pc = "latest", !.at = now]
  <2>0. now \in 0..MaxTime
    BY BoundsAssumption DEF Shape, TypeOK, Instants
  <2>1. q \in RequestRow
    BY <2>0, RowOfRequest DEF RequestRow, LockedPcs
  <2>2. WellFormed(q, intent, payment, order)
    BY RowOfRequest
       DEF LockCheckout, WellFormed, CheckoutWellFormed, WebhookWellFormed,
           OrderCopyWellFormed, CheckoutPcs, WebhookPcs, RequestRow
  <2>3. req' = [req EXCEPT ![r] = q]
    BY <1>2 DEF Shape, TypeOK
  <2>. QED BY <2>1, <2>2, <2>3, RequestOnlyStep DEF LockCheckout
<1>. QED BY <1>1, <1>2 DEF LockCheckout

\* The latest intent a checkout goes on with is a present one.
LEMMA FindLatestIntentShape ==
  ASSUME Shape, NEW r \in Requests, FindLatestIntent(r)
  PROVE  Shape'
<1>1. CASE Finish(r)
  BY <1>1, FinishShape DEF FindLatestIntent
<1>2. CASE Continue(r, "create")
  <2> DEFINE q == [req[r] EXCEPT !.pc = "create"]
  <2>1. q \in RequestRow
    BY RowOfRequest DEF RequestRow, LockedPcs
  <2>2. WellFormed(q, intent, payment, order)
    BY RowOfRequest
       DEF FindLatestIntent, WellFormed, CheckoutWellFormed, WebhookWellFormed,
           OrderCopyWellFormed, CheckoutPcs, WebhookPcs, RequestRow
  <2>3. req' = [req EXCEPT ![r] = q]
    BY <1>2 DEF Continue, Shape, TypeOK
  <2>. QED BY <2>1, <2>2, <2>3, RequestOnlyStep DEF FindLatestIntent
<1>3. CASE \E i \in IntentIds : /\ IsLatest(i, req[r].proposal, Purpose(req[r]))
                               /\ req' = [req EXCEPT ![r].pc = "expire", ![r].intent = i]
  <2>1. PICK i \in IntentIds : /\ IsLatest(i, req[r].proposal, Purpose(req[r]))
                              /\ req' = [req EXCEPT ![r].pc = "expire", ![r].intent = i]
    BY <1>3
  <2> DEFINE q == [req[r] EXCEPT !.pc = "expire", !.intent = i]
  <2>2. intent[i].status # "absent"
    BY <2>1 DEF IsLatest, Of
  <2>0. i \in 0..MaxIntents
    BY BoundsAssumption DEF IntentIds
  <2>3. q \in RequestRow
    BY <2>0, RowOfRequest DEF RequestRow, LockedPcs
  <2>4. req[r].op \in {"booking", "balance"} /\ req[r].proposal \in Proposals
    BY RowOfRequest DEF FindLatestIntent, WellFormed, CheckoutWellFormed, CheckoutPcs
  <2>5. WellFormed(q, intent, payment, order)
    BY <2>2, <2>4, RowOfRequest
       DEF WellFormed, CheckoutWellFormed, WebhookWellFormed,
           OrderCopyWellFormed, CheckoutPcs, WebhookPcs, RequestRow
  <2>6. req' = [req EXCEPT ![r] = q]
    BY <2>1 DEF Shape, TypeOK
  <2>. QED BY <2>3, <2>5, <2>6, RequestOnlyStep DEF FindLatestIntent
<1>. QED BY <1>1, <1>2, <1>3 DEF FindLatestIntent

\* The processor's answer leaves the intent of the checkout in place.
LEMMA CreateExternalCheckoutShape ==
  ASSUME Shape, NEW r \in Requests, CreateExternalCheckout(r)
  PROVE  Shape'
<1>1. CASE Finish(r)
  BY <1>1, FinishShape DEF CreateExternalCheckout
<1>2. CASE req' = [req EXCEPT ![r].pc = "ready", ![r].expiresOn = Expiration(req[r])]
  <2> DEFINE q == [req[r] EXCEPT !.pc = "ready", !.expiresOn = Expiration(req[r])]
  <2>1. Expiration(req[r]) \in 0..(MaxTime + CheckoutValidity)
    BY RowOfRequest, BoundsAssumption DEF Expiration, RequestRow
  <2>2. q \in RequestRow
    BY <2>1, RowOfRequest DEF RequestRow, LockedPcs
  <2>3. WellFormed(q, intent, payment, order)
    BY RowOfRequest
       DEF CreateExternalCheckout, WellFormed, CheckoutWellFormed, WebhookWellFormed,
           OrderCopyWellFormed, CheckoutPcs, WebhookPcs, RequestRow
  <2>4. req' = [req EXCEPT ![r] = q]
    BY <1>2 DEF Shape, TypeOK
  <2>. QED BY <2>2, <2>3, <2>4, RequestOnlyStep DEF CreateExternalCheckout
<1>. QED BY <1>1, <1>2 DEF CreateExternalCheckout

\* A notification that got its lock keeps its payment.
LEMMA LockNotificationShape ==
  ASSUME Shape, NEW r \in Requests, LockNotification(r)
  PROVE  Shape'
<1>1. CASE Finish(r)
  BY <1>1, FinishShape DEF LockNotification
<1>2. CASE Continue(r, "apply")
  <2> DEFINE q == [req[r] EXCEPT !.pc = "apply"]
  <2>1. q \in RequestRow
    BY RowOfRequest DEF RequestRow, LockedPcs
  <2>2. WellFormed(q, intent, payment, order)
    BY RowOfRequest
       DEF LockNotification, WellFormed, CheckoutWellFormed, WebhookWellFormed,
           OrderCopyWellFormed, CheckoutPcs, WebhookPcs, RequestRow
  <2>3. req' = [req EXCEPT ![r] = q]
    BY <1>2 DEF Continue, Shape, TypeOK
  <2>. QED BY <2>1, <2>2, <2>3, RequestOnlyStep DEF LockNotification
<1>. QED BY <1>1, <1>2 DEF LockNotification

\* The intent a notification reads has the proposal and purpose it goes on with.
LEMMA ApplyVerdictShape ==
  ASSUME Shape, NEW r \in Requests, ApplyVerdict(r)
  PROVE  Shape'
<1> DEFINE i == req[r].intent
           v == Visit(req[r].verdict, intent[i].purpose)
           q == [req[r] EXCEPT !.proposal = intent[i].proposal, !.pc = v]
<1>1. CASE Finish(r)
  BY <1>1, FinishShape DEF ApplyVerdict
<1>2. CASE req' = [req EXCEPT ![r].proposal = intent[i].proposal, ![r].pc = v]
  <2>1. /\ i \in IntentIds /\ intent[i].status # "absent" /\ req[r].payment \in Payments
        /\ req[r].op = "webhook"
    BY RowOfRequest
       DEF ApplyVerdict, Shape, PaymentsWellFormed, WellFormed, WebhookWellFormed
  <2>2. intent[i].proposal \in Proposals /\ intent[i].purpose \in Purposes
    BY <2>1 DEF Shape, TypeOK, IntentsWellFormed, IntentRow
  <2>3. /\ v \in {"mark", "accept", "settle"}
        /\ v = "accept" => intent[i].purpose = "booking_deposit"
        /\ v = "settle" => intent[i].purpose = "service_balance"
    BY <2>2 DEF Visit, Purposes
  <2>4. q \in RequestRow
    BY <2>2, <2>3, RowOfRequest DEF RequestRow, LockedPcs
  <2>5. WellFormed(q, intent, payment, order)
    BY <2>1, <2>2, <2>3, RowOfRequest
       DEF WellFormed, CheckoutWellFormed, WebhookWellFormed,
           OrderCopyWellFormed, CheckoutPcs, WebhookPcs, RequestRow
  <2>6. req' = [req EXCEPT ![r] = q]
    BY <1>2 DEF Shape, TypeOK
  <2>. QED BY <2>4, <2>5, <2>6, RequestOnlyStep DEF ApplyVerdict
<1>. QED BY <1>1, <1>2 DEF ApplyVerdict

\* Accepting on a copy leaves the tables alone.
LEMMA AcceptProposalShape ==
  ASSUME Shape, NEW r \in Requests, AcceptProposal(r)
  PROVE  Shape'
<1>1. CASE Finish(r)
  BY <1>1, FinishShape DEF AcceptProposal
<1>2. CASE Continue(r, "contract")
  <2> DEFINE q == [req[r] EXCEPT !.pc = "contract"]
  <2>1. q \in RequestRow
    BY RowOfRequest DEF RequestRow, LockedPcs
  <2>2. WellFormed(q, intent, payment, order)
    BY RowOfRequest
       DEF AcceptProposal, WellFormed, CheckoutWellFormed, WebhookWellFormed,
           OrderCopyWellFormed, CheckoutPcs, WebhookPcs, RequestRow
  <2>3. req' = [req EXCEPT ![r] = q]
    BY <1>2 DEF Continue, Shape, TypeOK
  <2>. QED BY <2>1, <2>2, <2>3, RequestOnlyStep DEF AcceptProposal
<1>. QED BY <1>1, <1>2 DEF AcceptProposal

\* The order a balance payment carries exists.
LEMMA RegisterBalanceShape ==
  ASSUME Shape, NEW r \in Requests, RegisterBalance(r)
  PROVE  Shape'
<1> DEFINE p == req[r].proposal
           q == [req[r] EXCEPT !.pc = "pay", !.order = WithPayment(order[p])]
<1>1. CASE Finish(r)
  BY <1>1, FinishShape DEF RegisterBalance
<1>2. CASE /\ MayPayBalance(order[p])
           /\ req' = [req EXCEPT ![r].pc = "pay", ![r].order = WithPayment(order[p])]
  <2>1. p \in Proposals /\ req[r].op = "webhook"
    BY RowOfRequest DEF RegisterBalance, WellFormed, WebhookWellFormed, WebhookPcs
  <2>2. order[p] \in OrderRow /\ order[p].status # "none"
    BY <1>2, <2>1 DEF Shape, TypeOK, MayPayBalance
  <2>3. WithPayment(order[p]) \in OrderRow /\ WithPayment(order[p]).status = "paid"
    BY <2>2 DEF WithPayment, OrderRow, OrderStatuses
  <2>4. q \in RequestRow
    BY <2>3, RowOfRequest DEF RequestRow, LockedPcs
  <2>5. q.order.status = "paid" /\ q.proposal = p /\ q.pc = "pay" /\ q.op = req[r].op
        /\ q.intent = req[r].intent /\ q.payment = req[r].payment
    BY <2>3, RowOfRequest DEF RequestRow
  <2>6. CheckoutWellFormed(q, intent)
    BY <2>1, <2>5 DEF CheckoutWellFormed, CheckoutPcs
  <2>7. WebhookWellFormed(q, intent, payment)
    BY <2>1, <2>5, RowOfRequest
       DEF RegisterBalance, WellFormed, WebhookWellFormed, WebhookPcs
  <2>8. OrderCopyWellFormed(q, order)
    BY <2>1, <2>2, <2>5 DEF OrderCopyWellFormed
  <2>9. req' = [req EXCEPT ![r] = q]
    BY <1>2 DEF Shape, TypeOK
  <2>. QED BY <2>4, <2>6, <2>7, <2>8, <2>9, RequestOnlyStep DEF RegisterBalance, WellFormed
<1>. QED BY <1>1, <1>2 DEF RegisterBalance

-----------------------------------------------------------------------------
(* The steps that change the tables. *)

\* A step that gives one present intent another status or session.
LEMMA IntentStep ==
  ASSUME Shape, NEW r \in Requests, NEW i \in IntentIds, NEW row \in IntentRow,
         intent[i].status # "absent", row.status # "absent",
         row.proposal = intent[i].proposal, row.purpose = intent[i].purpose,
         intent' = [intent EXCEPT ![i] = row],
         UNCHANGED <<order, payment, txn>>
  PROVE  TablesKeep /\ intent' \in [IntentIds -> IntentRow]
         /\ IntentsWellFormed' /\ PaymentsWellFormed'
<1>1. intent' \in [IntentIds -> IntentRow]
  BY DEF Shape, TypeOK
<1>2. \A j \in IntentIds : intent'[j] = IF j = i THEN row ELSE intent[j]
  BY DEF Shape, TypeOK
<1>3. TablesKeep
  BY <1>2 DEF TablesKeep
<1>4. IntentsWellFormed'
  BY <1>2 DEF Shape, IntentsWellFormed
<1>5. PaymentsWellFormed'
  BY <1>2 DEF Shape, PaymentsWellFormed
<1>. QED BY <1>1, <1>3, <1>4, <1>5

\* A request that ends after such a step.
LEMMA IntentStepFinish ==
  ASSUME Shape, NEW r \in Requests, NEW i \in IntentIds, NEW row \in IntentRow,
         intent[i].status # "absent", row.status # "absent",
         row.proposal = intent[i].proposal, row.purpose = intent[i].purpose,
         intent' = [intent EXCEPT ![i] = row], Finish(r),
         UNCHANGED <<now, proposal, txn, order, notices, payment, failures, unlocked>>
  PROVE  Shape'
<1>1. TablesKeep /\ intent' \in [IntentIds -> IntentRow]
      /\ IntentsWellFormed' /\ PaymentsWellFormed'
  BY IntentStep
<1>2. WellFormed(Idle, intent', payment', order')
  BY IdleWellFormed
<1>3. req' \in [Requests -> RequestRow] /\ RequestsWellFormed'
  BY <1>1, <1>2, IdleTyped, RequestStep DEF Finish
<1>. QED BY <1>1, <1>3 DEF Shape, TypeOK

\* Expiring an intent keeps it present.
LEMMA SaveExpiredShape ==
  ASSUME Shape, NEW r \in Requests, SaveExpired(r)
  PROVE  Shape'
<1> DEFINE i == req[r].intent
           row == [intent[i] EXCEPT !.status = "expired"]
           q == [req[r] EXCEPT !.pc = "create"]
<1>1. i \in IntentIds /\ intent[i].status # "absent" /\ req[r].proposal \in Proposals
      /\ req[r].op \in {"booking", "balance"}
  BY RowOfRequest DEF SaveExpired, WellFormed, CheckoutWellFormed, CheckoutPcs
<1>2. intent[i] \in IntentRow
  BY <1>1 DEF Shape, TypeOK
<1>3. row \in IntentRow /\ row.status # "absent" /\ row.proposal = intent[i].proposal
      /\ row.purpose = intent[i].purpose
  BY <1>2 DEF IntentRow, IntentStatuses
<1>4. intent' = [intent EXCEPT ![i] = row]
  BY <1>1 DEF SaveExpired, Shape, TypeOK
<1>5. TablesKeep /\ intent' \in [IntentIds -> IntentRow]
      /\ IntentsWellFormed' /\ PaymentsWellFormed'
  BY <1>1, <1>3, <1>4, IntentStep DEF SaveExpired
<1>6. q \in RequestRow
  BY RowOfRequest DEF RequestRow, LockedPcs
<1>7. WellFormed(q, intent', payment', order')
  BY <1>1, RowOfRequest
     DEF SaveExpired, WellFormed, CheckoutWellFormed, WebhookWellFormed,
         OrderCopyWellFormed, CheckoutPcs, WebhookPcs, RequestRow
<1>8. req' = [req EXCEPT ![r] = q]
  BY DEF SaveExpired, Continue, Shape, TypeOK
<1>9. req' \in [Requests -> RequestRow] /\ RequestsWellFormed'
  BY <1>5, <1>6, <1>7, <1>8, RequestStep
<1>. QED BY <1>5, <1>9 DEF SaveExpired, Shape, TypeOK

\* Giving an intent its session keeps it present.
LEMMA SaveCheckoutReadyShape ==
  ASSUME Shape, NEW r \in Requests, SaveCheckoutReady(r)
  PROVE  Shape'
<1> DEFINE i == req[r].intent
           row == [intent[i] EXCEPT !.status = "checkout_ready",
                                    !.expiresOn = req[r].expiresOn]
<1>1. i \in IntentIds /\ intent[i].status # "absent"
  BY RowOfRequest DEF SaveCheckoutReady, WellFormed, CheckoutWellFormed
<1>2. intent[i] \in IntentRow /\ req[r].expiresOn \in 0..(MaxTime + CheckoutValidity)
  BY <1>1, RowOfRequest DEF Shape, TypeOK, RequestRow
<1>3. row \in IntentRow /\ row.status # "absent" /\ row.proposal = intent[i].proposal
      /\ row.purpose = intent[i].purpose
  BY <1>2 DEF IntentRow, IntentStatuses
<1>4. CASE intent' = [intent EXCEPT ![i].status = "checkout_ready",
                                    ![i].expiresOn = req[r].expiresOn]
  <2>1. intent' = [intent EXCEPT ![i] = row]
    BY <1>1, <1>4 DEF Shape, TypeOK
  <2>. QED BY <1>1, <1>3, <2>1, IntentStepFinish DEF SaveCheckoutReady
<1>5. CASE UNCHANGED intent
  BY <1>5, FinishShape DEF SaveCheckoutReady
<1>. QED BY <1>4, <1>5 DEF SaveCheckoutReady

\* A verdict gives a present intent a status, never absence.
LEMMA SaveIntentUpdatedShape ==
  ASSUME Shape, NEW r \in Requests, SaveIntentUpdated(r)
  PROVE  Shape'
<1> DEFINE i == req[r].intent
           row == [intent[i] EXCEPT !.status = StatusAfter(req[r].verdict)]
<1>1. i \in IntentIds /\ intent[i].status # "absent" /\ req[r].verdict \in PaymentStatuses
      /\ req[r].verdict # "none"
  BY RowOfRequest DEF SaveIntentUpdated, WellFormed, WebhookWellFormed, WebhookPcs, Shape,
                      PaymentsWellFormed, RequestRow
<1>2. intent[i] \in IntentRow
  BY <1>1 DEF Shape, TypeOK
<1>3. row \in IntentRow /\ row.status # "absent" /\ row.proposal = intent[i].proposal
      /\ row.purpose = intent[i].purpose
  BY <1>1, <1>2 DEF IntentRow, IntentStatuses, StatusAfter, PaymentStatuses
<1>4. CASE intent' = [intent EXCEPT ![i].status = StatusAfter(req[r].verdict)]
  <2>1. intent' = [intent EXCEPT ![i] = row]
    BY <1>1, <1>4 DEF Shape, TypeOK
  <2>. QED BY <1>1, <1>3, <2>1, IntentStepFinish DEF SaveIntentUpdated
<1>5. CASE UNCHANGED intent
  BY <1>5, FinishShape DEF SaveIntentUpdated
<1>. QED BY <1>4, <1>5 DEF SaveIntentUpdated

\* A request that is cut short leaves the tables alone.
LEMMA CutShortShape ==
  ASSUME Shape, NEW r \in Requests, CutShort(r)
  PROVE  Shape'
<1>1. TablesKeep
  BY DEF CutShort, TablesKeep
<1>2. req' \in [Requests -> RequestRow] /\ RequestsWellFormed'
  BY <1>1, IdleTyped, IdleWellFormed, RequestStep DEF CutShort, Finish
<1>3. failures' \in 0..MaxFailures
  BY BoundsAssumption DEF CutShort, Shape, TypeOK
<1>. QED BY <1>2, <1>3 DEF CutShort, Shape, TypeOK, IntentsWellFormed, PaymentsWellFormed

\* A lost lock leaves the tables and what the request holds in memory alone.
LEMMA LoseLockShape ==
  ASSUME Shape, NEW r \in Requests, LoseLock(r)
  PROVE  Shape'
<1> DEFINE q == [req[r] EXCEPT !.lost = TRUE]
<1>1. TablesKeep
  BY DEF LoseLock, TablesKeep
<1>2. q \in RequestRow
  BY RowOfRequest DEF RequestRow
<1>3. WellFormed(q, intent, payment, order)
  BY RowOfRequest
     DEF WellFormed, CheckoutWellFormed, WebhookWellFormed, OrderCopyWellFormed, RequestRow
<1>4. req' = [req EXCEPT ![r] = q]
  BY DEF LoseLock, Shape, TypeOK
<1>5. req' \in [Requests -> RequestRow] /\ RequestsWellFormed'
  BY <1>1, <1>2, <1>3, <1>4, RequestStep DEF LoseLock
<1>6. failures' \in 0..MaxFailures
  BY BoundsAssumption DEF LoseLock, Shape, TypeOK
<1>7. unlocked' \subseteq Payments
  <2>1. req[r].op = "webhook" => req[r].payment \in Payments
    BY RowOfRequest DEF WellFormed, WebhookWellFormed
  <2>. QED BY <2>1 DEF LoseLock, Shape, TypeOK
<1>. QED BY <1>5, <1>6, <1>7 DEF LoseLock, Shape, TypeOK, IntentsWellFormed, PaymentsWellFormed

\* The clock stays within its bound.
LEMMA TickShape ==
  ASSUME Shape, Tick
  PROVE  Shape'
<1>1. now' \in Instants
  BY BoundsAssumption DEF Tick, Shape, TypeOK, Instants
<1>. QED BY <1>1 DEF Tick, Shape, TypeOK, IntentsWellFormed, PaymentsWellFormed,
                     RequestsWellFormed

\* A step of the processor: the payments change, nothing else.
LEMMA PaymentStep ==
  ASSUME Shape, TablesKeep, payment' \in [Payments -> PaymentRow],
         \A y \in Payments : payment'[y].status # "none" =>
           payment'[y].intent \in IntentIds /\ intent[payment'[y].intent].status # "absent",
         UNCHANGED <<now, proposal, intent, txn, order, notices, req, failures, unlocked>>
  PROVE  Shape'
<1>1. PaymentsWellFormed'
  BY DEF Shape, PaymentsWellFormed, TablesKeep
<1>2. ASSUME NEW s \in Requests PROVE WellFormed(req'[s], intent', payment', order')
  BY RowOfRequest, WellFormedKept
<1>. QED BY <1>1, <1>2 DEF Shape, TypeOK, IntentsWellFormed, RequestsWellFormed

\* A payment begins for an intent with a session, which is present.
LEMMA BeginPaymentShape ==
  ASSUME Shape, NEW y \in Payments, NEW i \in IntentIds, NEW v \in PaymentStatuses \ {"none"},
         BeginPayment(y, i, v)
  PROVE  Shape'
<1>1. i \in 0..MaxIntents
  BY BoundsAssumption DEF IntentIds
<1>2. payment' \in [Payments -> PaymentRow]
  BY <1>1 DEF BeginPayment, Shape, TypeOK, PaymentRow
<1>3. intent[i].status # "absent"
  <2>1. now > 0 /\ intent[i].expiresOn > now
    BY BoundsAssumption DEF BeginPayment, Shape, TypeOK, Instants
  <2>2. intent[i].expiresOn # NoSession
    BY <2>1, BoundsAssumption DEF NoSession, Shape, TypeOK, Instants
  <2>. QED BY <2>2 DEF Shape, IntentsWellFormed
<1>4. TablesKeep
  BY DEF BeginPayment, TablesKeep, Shape, TypeOK
<1>5. \A z \in Payments : payment'[z].status # "none" =>
        payment'[z].intent \in IntentIds /\ intent[payment'[z].intent].status # "absent"
  BY <1>3 DEF BeginPayment, Shape, TypeOK, PaymentsWellFormed
<1>. QED BY <1>2, <1>4, <1>5, PaymentStep DEF BeginPayment

\* A decided payment is still the payment of its intent.
LEMMA DecidePaymentShape ==
  ASSUME Shape, NEW y \in Payments, NEW v \in {"rejected", "approved"}, DecidePayment(y, v)
  PROVE  Shape'
<1>1. payment' \in [Payments -> PaymentRow]
  BY DEF DecidePayment, Shape, TypeOK, PaymentRow, PaymentStatuses
<1>2. \A z \in Payments : /\ payment'[z].intent = payment[z].intent
                          /\ payment'[z].status # "none" <=> payment[z].status # "none"
  BY DEF DecidePayment, Shape, TypeOK, PaymentRow
<1>3. TablesKeep
  BY <1>2 DEF DecidePayment, TablesKeep
<1>4. \A z \in Payments : payment'[z].status # "none" =>
        payment'[z].intent \in IntentIds /\ intent[payment'[z].intent].status # "absent"
  BY <1>2 DEF Shape, PaymentsWellFormed
<1>. QED BY <1>1, <1>3, <1>4, PaymentStep DEF DecidePayment

\* A new intent takes a free id, which no request and no payment points to.
LEMMA CreateIntentShape ==
  ASSUME Shape, NEW r \in Requests, CreateIntent(r)
  PROVE  Shape'
<1>1. CASE UNCHANGED intent /\ Finish(r)
  BY <1>1, FinishShape DEF CreateIntent
<1>2. ASSUME NEW i \in FreeIds,
             intent' = [intent EXCEPT ![i] = [NoIntent EXCEPT !.proposal = req[r].proposal,
                                                !.purpose = Purpose(req[r]),
                                                !.status = "requires_checkout"]],
             req' = [req EXCEPT ![r].pc = "external", ![r].intent = i]
      PROVE  Shape'
  <2> DEFINE row == [NoIntent EXCEPT !.proposal = req[r].proposal,
                       !.purpose = Purpose(req[r]), !.status = "requires_checkout"]
             q == [req[r] EXCEPT !.pc = "external", !.intent = i]
  <2>1. i \in IntentIds /\ i \in 0..MaxIntents /\ intent[i].status = "absent"
    BY <1>2, BoundsAssumption DEF FreeIds, IntentIds
  <2>2. req[r].proposal \in Proposals /\ req[r].op \in {"booking", "balance"}
    BY RowOfRequest DEF CreateIntent, WellFormed, CheckoutWellFormed, CheckoutPcs
  <2>3. /\ row \in IntentRow
        /\ row.proposal = req[r].proposal /\ row.status = "requires_checkout"
    <3>1. NoSession \in 0..(MaxTime + CheckoutValidity)
      BY BoundsAssumption DEF NoSession
    <3>2. Purpose(req[r]) \in Purposes
      BY DEF Purpose, Purposes
    <3>3. NoIntent \in IntentRow
      BY <3>1 DEF NoIntent, IntentRow, IntentStatuses, Purposes
    <3>. QED BY <2>2, <3>2, <3>3 DEF IntentRow, IntentStatuses
  <2>4. /\ intent' \in [IntentIds -> IntentRow]
        /\ \A j \in IntentIds : intent'[j] = IF j = i THEN row ELSE intent[j]
    BY <1>2, <2>1, <2>3 DEF Shape, TypeOK
  <2>5. TablesKeep
    BY <2>1, <2>4 DEF CreateIntent, TablesKeep
  <2>6. IntentsWellFormed'
    BY <2>2, <2>3, <2>4 DEF Shape, IntentsWellFormed
  <2>7. PaymentsWellFormed'
    BY <2>1, <2>3, <2>4 DEF CreateIntent, Shape, PaymentsWellFormed
  <2>8. q \in RequestRow
    BY <2>1, RowOfRequest DEF RequestRow, LockedPcs
  <2>9. WellFormed(q, intent', payment', order')
    BY <2>1, <2>2, <2>3, <2>4, RowOfRequest
       DEF WellFormed, CheckoutWellFormed, WebhookWellFormed,
           OrderCopyWellFormed, CheckoutPcs, WebhookPcs, RequestRow
  <2>10. req' = [req EXCEPT ![r] = q]
    BY <1>2 DEF Shape, TypeOK
  <2>11. req' \in [Requests -> RequestRow] /\ RequestsWellFormed'
    BY <2>5, <2>8, <2>9, <2>10, RequestStep
  <2>. QED BY <2>4, <2>6, <2>7, <2>11 DEF CreateIntent, Shape, TypeOK
<1>. QED BY <1>1, <1>2 DEF CreateIntent

\* A handler that only saves a work order and ends.
LEMMA OrderStepFinish ==
  ASSUME Shape, NEW r \in Requests, Finish(r), order' \in [Proposals -> OrderRow],
         \A p \in Proposals : order[p].status # "none" => order'[p].status # "none",
         UNCHANGED <<now, proposal, intent, txn, notices, payment, failures, unlocked>>
  PROVE  Shape'
<1>1. TablesKeep
  BY DEF TablesKeep
<1>2. req' \in [Requests -> RequestRow] /\ RequestsWellFormed'
  BY <1>1, IdleTyped, IdleWellFormed, RequestStep DEF Finish
<1>. QED BY <1>2 DEF Shape, TypeOK, IntentsWellFormed, PaymentsWellFormed

\* Saving an aggregate makes a row that has the aggregate's status.
LEMMA SavedTyped ==
  ASSUME NEW stored \in OrderRow, NEW aggregate \in OrderRow, NEW b \in BOOLEAN
  PROVE  Saved(stored, aggregate, b) \in OrderRow
         /\ Saved(stored, aggregate, b).status = aggregate.status
BY DEF Saved, OrderRow

\* An existing work order stays one when a copy of it is saved.
LEMMA SavedOrder ==
  ASSUME Shape, NEW r \in Requests, req[r].pc \in {"report", "review", "pay"},
         NEW b \in BOOLEAN,
         order' = [order EXCEPT ![req[r].proposal] = Saved(@, req[r].order, b)]
  PROVE  /\ order' \in [Proposals -> OrderRow]
         /\ \A p \in Proposals : order[p].status # "none" <=> order'[p].status # "none"
<1>1. /\ req[r].proposal \in Proposals /\ req[r].order \in OrderRow
      /\ order[req[r].proposal].status # "none" /\ req[r].order.status # "none"
  BY RowOfRequest DEF WellFormed, OrderCopyWellFormed, RequestRow
<1>2. order \in [Proposals -> OrderRow]
  BY DEF Shape, TypeOK
<1>3. Saved(order[req[r].proposal], req[r].order, b) \in OrderRow
      /\ Saved(order[req[r].proposal], req[r].order, b).status = req[r].order.status
  BY <1>1, <1>2, SavedTyped
<1>. QED BY <1>1, <1>2, <1>3

\* Saving a report keeps the order in existence.
LEMMA CommitReportShape ==
  ASSUME Shape, NEW r \in Requests, CommitReport(r)
  PROVE  Shape'
BY SavedOrder, OrderStepFinish DEF CommitReport

\* Saving a review keeps the order in existence.
LEMMA CommitReviewShape ==
  ASSUME Shape, NEW r \in Requests, CommitReview(r)
  PROVE  Shape'
<1>1. CASE UNCHANGED order
  BY <1>1, FinishShape DEF CommitReview
<1>2. CASE order' = [order EXCEPT ![req[r].proposal] = Saved(@, req[r].order, TRUE)]
  BY <1>2, SavedOrder, OrderStepFinish DEF CommitReview
<1>. QED BY <1>1, <1>2 DEF CommitReview

\* What a request whose unit of work commits knows of its payment and intent.
LEMMA KnownPayment ==
  ASSUME Shape, NEW r \in Requests, req[r].pc \in {"contract", "pay"}
  PROVE  /\ req[r].payment \in Payments /\ payment[req[r].payment].status # "none"
         /\ req[r].intent = payment[req[r].payment].intent
         /\ req[r].intent \in IntentIds /\ intent[req[r].intent].status # "absent"
         /\ req[r].proposal \in Proposals /\ req[r].proposal = intent[req[r].intent].proposal
         /\ req[r].pc = "contract" => intent[req[r].intent].purpose = "booking_deposit"
         /\ req[r].pc = "pay" => intent[req[r].intent].purpose = "service_balance"
BY RowOfRequest DEF WellFormed, WebhookWellFormed, WebhookPcs, Shape, PaymentsWellFormed

\* The part the units of work of both approvals share.
LEMMA PaidStep ==
  ASSUME Shape, NEW r \in Requests, req[r].pc \in {"contract", "pay"},
         Record(req[r].payment, req[r].intent),
         intent' = [intent EXCEPT ![req[r].intent].status = "paid"],
         CountNotice(req[r].payment), Continue(r, "notify"),
         proposal' \in [Proposals -> {"pending", "accepted"}],
         order' \in [Proposals -> OrderRow],
         \A p \in Proposals : order[p].status # "none" => order'[p].status # "none",
         UNCHANGED <<now, payment, failures, unlocked>>
  PROVE  Shape'
<1> DEFINE i == req[r].intent
           y == req[r].payment
           row == [intent[i] EXCEPT !.status = "paid"]
           q == [req[r] EXCEPT !.pc = "notify"]
<1>1. /\ i \in IntentIds /\ i \in 0..MaxIntents /\ y \in Payments
      /\ intent[i].status # "absent" /\ intent[i] \in IntentRow
  BY KnownPayment, BoundsAssumption DEF Shape, TypeOK, IntentIds
<1>2. row \in IntentRow /\ row.status = "paid" /\ row.proposal = intent[i].proposal
      /\ row.purpose = intent[i].purpose
  BY <1>1 DEF IntentRow, IntentStatuses
<1>3. /\ intent' \in [IntentIds -> IntentRow]
      /\ \A j \in IntentIds : intent'[j] = IF j = i THEN row ELSE intent[j]
  BY <1>1, <1>2 DEF Shape, TypeOK
<1>4. TablesKeep
  BY <1>2, <1>3 DEF TablesKeep
<1>5. IntentsWellFormed'
  BY <1>1, <1>2, <1>3 DEF Shape, IntentsWellFormed
<1>6. /\ txn' \in [Payments -> 0..MaxIntents]
      /\ \A z \in Payments : txn'[z] = IF z = y THEN i ELSE txn[z]
  BY <1>1 DEF Record, Shape, TypeOK
<1>7. PaymentsWellFormed'
  BY <1>3, <1>2, <1>6, KnownPayment DEF Shape, PaymentsWellFormed
<1>8. notices' \in [Payments -> 0..2]
  <2>1. \A n \in 0..2 : (IF n < 2 THEN n + 1 ELSE n) \in 0..2
    OBVIOUS
  <2>2. notices \in [Payments -> 0..2]
    BY DEF Shape, TypeOK
  <2>. QED BY <2>1, <2>2 DEF CountNotice
<1>9. q \in RequestRow
  BY RowOfRequest DEF RequestRow, LockedPcs
<1>10. WellFormed(q, intent', payment', order')
  <2>1. /\ q.pc = "notify" /\ q.op = req[r].op /\ q.intent = i /\ q.payment = y
        /\ q.verdict = req[r].verdict /\ q.proposal = req[r].proposal
    BY RowOfRequest DEF RequestRow
  <2>2. /\ req[r].op = "webhook" /\ req[r].proposal \in Proposals /\ req[r].verdict # "none"
        /\ y \in Payments /\ payment[y].status # "none" /\ i = payment[y].intent
        /\ req[r].proposal = intent'[i].proposal
    BY <1>1, <1>2, <1>3, KnownPayment, RowOfRequest
       DEF WellFormed, WebhookWellFormed, WebhookPcs
  <2>. QED BY <2>1, <2>2 DEF WellFormed, CheckoutWellFormed, WebhookWellFormed,
                            OrderCopyWellFormed, CheckoutPcs, WebhookPcs
<1>11. req' = [req EXCEPT ![r] = q]
  BY DEF Continue, Shape, TypeOK
<1>12. req' \in [Requests -> RequestRow] /\ RequestsWellFormed'
  BY <1>4, <1>9, <1>10, <1>11, RequestStep
<1>. QED BY <1>3, <1>5, <1>6, <1>7, <1>8, <1>12 DEF Shape, TypeOK

\* A new work order is a scheduled row.
LEMMA NewOrderTyped == NewOrder \in OrderRow /\ NewOrder.status = "scheduled"
BY NoOrderTyped DEF NewOrder, OrderRow, OrderStatuses

\* The unit of work of an approved deposit: all of it, or nothing.
LEMMA CommitBookingShape ==
  ASSUME Shape, NEW r \in Requests, CommitBooking(r)
  PROVE  Shape'
<1>1. CASE Finish(r) /\ UNCHANGED <<proposal, intent, txn, order, notices>>
  BY <1>1, FinishShape DEF CommitBooking
<1>2. CASE Continue(r, "notify") /\ Record(req[r].payment, req[r].intent)
           /\ intent' = [intent EXCEPT ![req[r].intent].status = "paid"]
           /\ proposal' = [proposal EXCEPT ![req[r].proposal] = "accepted"]
           /\ order' = [order EXCEPT ![req[r].proposal] = NewOrder]
           /\ CountNotice(req[r].payment)
  <2>1. /\ order' \in [Proposals -> OrderRow]
        /\ \A p \in Proposals : order[p].status # "none" => order'[p].status # "none"
    BY <1>2, NewOrderTyped DEF Shape, TypeOK
  <2>2. proposal' \in [Proposals -> {"pending", "accepted"}]
    BY <1>2 DEF Shape, TypeOK
  <2>. QED BY <1>2, <2>1, <2>2, PaidStep DEF CommitBooking
<1>. QED BY <1>1, <1>2 DEF CommitBooking

\* The unit of work of an approved balance: all of it, or nothing.
LEMMA CommitBalanceShape ==
  ASSUME Shape, NEW r \in Requests, CommitBalance(r)
  PROVE  Shape'
<1>1. CASE Finish(r) /\ UNCHANGED <<intent, txn, order, notices>>
  BY <1>1, FinishShape DEF CommitBalance
<1>2. CASE Continue(r, "notify") /\ Record(req[r].payment, req[r].intent)
           /\ intent' = [intent EXCEPT ![req[r].intent].status = "paid"]
           /\ order' = [order EXCEPT ![req[r].proposal] = Saved(@, req[r].order, FALSE)]
           /\ CountNotice(req[r].payment)
  <2>1. proposal' \in [Proposals -> {"pending", "accepted"}]
    BY DEF CommitBalance, Shape, TypeOK
  <2>. QED BY <1>2, <2>1, SavedOrder, PaidStep DEF CommitBalance
<1>. QED BY <1>1, <1>2 DEF CommitBalance

-----------------------------------------------------------------------------
(* The booking: proposal, work order and deposit. *)

Booked == BookedAtomically /\ OneDepositPerProposal

\* A payment is recorded for a present intent, so no step changes what it paid for.
LEMMA PaysForKept ==
  ASSUME Shape, NEW y \in Payments, NEW p \in Proposals, NEW u \in Purposes, txn'[y] = txn[y],
         \A i \in IntentIds : intent[i].status # "absent" =>
           intent'[i].proposal = intent[i].proposal /\ intent'[i].purpose = intent[i].purpose
  PROVE  PaysFor(y, p, u)' <=> PaysFor(y, p, u)
<1>1. txn[y] \in IntentIds => intent[txn[y]].status # "absent"
  BY DEF Shape, PaymentsWellFormed, IntentIds
<1>. QED BY <1>1 DEF PaysFor, IntentIds

\* Every step but the commit of a deposit leaves the bookings as they are.
LEMMA BookedKept ==
  ASSUME Shape, Booked, UNCHANGED proposal,
         \A p \in Proposals : order[p].status # "none" <=> order'[p].status # "none",
         \A i \in IntentIds : intent[i].status # "absent" =>
           intent'[i].proposal = intent[i].proposal /\ intent'[i].purpose = intent[i].purpose,
         UNCHANGED txn
  PROVE  Booked'
<1>1. \A y \in Payments, p \in Proposals :
        PaysFor(y, p, "booking_deposit")' <=> PaysFor(y, p, "booking_deposit")
  BY PaysForKept DEF Purposes
<1>2. BookedAtomically'
  BY <1>1 DEF Booked, BookedAtomically
<1>3. OneDepositPerProposal'
  BY <1>1 DEF Booked, OneDepositPerProposal
<1>. QED BY <1>2, <1>3 DEF Booked

\* A Save of an intent's status, with or without its session.
LEMMA ObligationKept ==
  ASSUME Shape, NEW j, NEW s, NEW t,
         \/ intent' = [intent EXCEPT ![j].status = s]
         \/ intent' = [intent EXCEPT ![j].status = s, ![j].expiresOn = t]
  PROVE  \A i \in IntentIds :
           intent'[i].proposal = intent[i].proposal /\ intent'[i].purpose = intent[i].purpose
<1>1. ASSUME NEW i \in IntentIds
      PROVE  intent'[i].proposal = intent[i].proposal /\ intent'[i].purpose = intent[i].purpose
  <2>1. intent \in [IntentIds -> IntentRow] /\ intent[i] \in IntentRow
    BY DEF Shape, TypeOK
  <2>2. CASE i # j
    <3>1. intent'[i] = intent[i] BY <2>1, <2>2
    <3>. QED BY <3>1
  <2>3. CASE i = j
    <3>1. \/ intent'[i] = [intent[i] EXCEPT !.status = s]
          \/ intent'[i] = [intent[i] EXCEPT !.status = s, !.expiresOn = t]
      BY <2>1, <2>3
    <3>. QED BY <2>1, <3>1 DEF IntentRow
  <2>. QED BY <2>2, <2>3
<1>. QED BY <1>1

\* The handlers that save an intent leave it with its obligation.
LEMMA IntentStepsKeep ==
  ASSUME Shape,
         \/ UNCHANGED intent
         \/ \E r \in Requests : \/ SaveExpired(r) \/ CreateIntent(r) \/ SaveCheckoutReady(r)
                               \/ SaveIntentUpdated(r)
  PROVE  \A i \in IntentIds : intent[i].status # "absent" =>
           intent'[i].proposal = intent[i].proposal /\ intent'[i].purpose = intent[i].purpose
<1>1. CASE UNCHANGED intent
  BY <1>1
<1>2. ASSUME NEW r \in Requests, SaveExpired(r) \/ SaveCheckoutReady(r) \/ SaveIntentUpdated(r)
      PROVE  \A i \in IntentIds :
        intent'[i].proposal = intent[i].proposal /\ intent'[i].purpose = intent[i].purpose
  BY <1>2, ObligationKept DEF SaveExpired, SaveCheckoutReady, SaveIntentUpdated
<1>3. ASSUME NEW r \in Requests, CreateIntent(r)
      PROVE  \A i \in IntentIds : intent[i].status # "absent" => intent'[i] = intent[i]
  BY <1>3 DEF CreateIntent, FreeIds, Shape, TypeOK
<1>. QED BY <1>1, <1>2, <1>3

\* The handlers that change the intents or only a request.
LEMMA BookedIntentStep ==
  ASSUME Shape, Booked, UNCHANGED <<proposal, order, txn>>,
         \/ UNCHANGED intent
         \/ \E r \in Requests : \/ SaveExpired(r) \/ CreateIntent(r) \/ SaveCheckoutReady(r)
                               \/ SaveIntentUpdated(r)
  PROVE  Booked'
BY IntentStepsKeep, BookedKept

\* Saving a report or a review neither makes nor removes a work order.
LEMMA BookedOrderStep ==
  ASSUME Shape, Booked, NEW r \in Requests, CommitReport(r) \/ CommitReview(r)
  PROVE  Booked'
<1>1. \A p \in Proposals : order[p].status # "none" <=> order'[p].status # "none"
  BY SavedOrder DEF CommitReport, CommitReview
<1>. QED BY <1>1, BookedKept DEF CommitReport, CommitReview

\* The balance's commit records a payment that is no deposit.
LEMMA BookedCommitBalance ==
  ASSUME Shape, Booked, NEW r \in Requests, CommitBalance(r)
  PROVE  Booked'
<1>1. \A p \in Proposals : order[p].status # "none" <=> order'[p].status # "none"
  BY SavedOrder DEF CommitBalance
<1>2. \A i \in IntentIds :
        intent'[i].proposal = intent[i].proposal /\ intent'[i].purpose = intent[i].purpose
  BY ObligationKept DEF CommitBalance
<1>3. CASE UNCHANGED txn
  BY <1>1, <1>2, <1>3, BookedKept DEF CommitBalance
<1>4. CASE Record(req[r].payment, req[r].intent)
  <2>1. PICK y \in Payments, i \in IntentIds :
          /\ y = req[r].payment /\ i = req[r].intent
          /\ intent[i].purpose = "service_balance" /\ i = payment[y].intent
    BY KnownPayment DEF CommitBalance
  <2>2. \A z \in Payments : txn'[z] = IF z = y THEN i ELSE txn[z]
    BY <1>4, <2>1 DEF Record, Shape, TypeOK
  <2>3. \A p \in Proposals : ~PaysFor(y, p, "booking_deposit")
    BY <2>1 DEF PaysFor, Shape, PaymentsWellFormed, IntentIds
  <2>4. \A p \in Proposals : ~PaysFor(y, p, "booking_deposit")'
    BY <1>2, <2>1, <2>2 DEF PaysFor
  <2>5. \A z \in Payments, p \in Proposals :
          PaysFor(z, p, "booking_deposit")' <=> PaysFor(z, p, "booking_deposit")
    BY <1>2, <2>2, <2>3, <2>4, PaysForKept DEF Purposes
  <2>6. UNCHANGED proposal
    BY DEF CommitBalance
  <2>7. BookedAtomically'
    BY <1>1, <2>5, <2>6 DEF Booked, BookedAtomically
  <2>8. OneDepositPerProposal'
    BY <2>5 DEF Booked, OneDepositPerProposal
  <2>. QED BY <2>7, <2>8 DEF Booked
<1>. QED BY <1>3, <1>4 DEF CommitBalance

\* The deposit's commit finds the proposal without an order, so without a
\* deposit: the one it records is the only one.
LEMMA BookedCommitBooking ==
  ASSUME Shape, Booked, NEW r \in Requests, CommitBooking(r)
  PROVE  Booked'
<1>1. CASE UNCHANGED <<proposal, intent, txn, order>>
  BY <1>1, BookedKept
<1>2. CASE /\ OrderInsertable(req[r].proposal) /\ Record(req[r].payment, req[r].intent)
           /\ intent' = [intent EXCEPT ![req[r].intent].status = "paid"]
           /\ proposal' = [proposal EXCEPT ![req[r].proposal] = "accepted"]
           /\ order' = [order EXCEPT ![req[r].proposal] = NewOrder]
  <2>1. PICK y \in Payments, i \in IntentIds, o \in Proposals :
          /\ y = req[r].payment /\ i = req[r].intent /\ o = req[r].proposal
          /\ intent[i].purpose = "booking_deposit" /\ o = intent[i].proposal
    BY KnownPayment DEF CommitBooking
  <2>2. \A j \in IntentIds :
          intent'[j].proposal = intent[j].proposal /\ intent'[j].purpose = intent[j].purpose
    BY <1>2, ObligationKept
  <2>3. \A z \in Payments : txn'[z] = IF z = y THEN i ELSE txn[z]
    BY <1>2, <2>1 DEF Record, Shape, TypeOK
  <2>4. \A z \in Payments : ~PaysFor(z, o, "booking_deposit")
    BY <1>2, <2>1 DEF Booked, BookedAtomically, OrderInsertable
  <2>5. \A p \in Proposals : PaysFor(y, p, "booking_deposit")' <=> p = o
    BY <2>1, <2>2, <2>3 DEF PaysFor
  <2>6. \A z \in Payments \ {y}, p \in Proposals :
          PaysFor(z, p, "booking_deposit")' <=> PaysFor(z, p, "booking_deposit")
    BY <2>2, <2>3, PaysForKept DEF Purposes
  <2>7. \A p \in Proposals : ~PaysFor(y, p, "booking_deposit")
    <3>1. txn[y] # 0 => txn[y] = i
      BY <2>1, KnownPayment DEF CommitBooking, Shape, PaymentsWellFormed
    <3>. QED BY <2>1, <2>4, <3>1 DEF PaysFor, IntentIds
  <2>8. BookedAtomically'
    <3>1. /\ \A p \in Proposals : proposal'[p] = IF p = o THEN "accepted" ELSE proposal[p]
          /\ \A p \in Proposals : order'[p] = IF p = o THEN NewOrder ELSE order[p]
          /\ NewOrder.status # "none"
      BY <1>2, <2>1, NewOrderTyped DEF Shape, TypeOK
    <3>2. \A p \in Proposals : order'[p].status # "none" <=> p = o \/ order[p].status # "none"
      BY <3>1
    <3>3. \A p \in Proposals : proposal'[p] = "accepted" <=> order'[p].status # "none"
      BY <3>1, <3>2 DEF Booked, BookedAtomically
    <3>4. \A p \in Proposals : order'[p].status # "none" <=>
            \E z \in Payments : PaysFor(z, p, "booking_deposit")'
      BY <2>1, <2>5, <2>6, <2>7, <3>2 DEF Booked, BookedAtomically
    <3>. QED BY <3>3, <3>4 DEF BookedAtomically
  <2>9. OneDepositPerProposal'
    BY <2>4, <2>5, <2>6 DEF Booked, OneDepositPerProposal
  <2>. QED BY <2>8, <2>9 DEF Booked
<1>. QED BY <1>1, <1>2 DEF CommitBooking

-----------------------------------------------------------------------------
(* The ledger: what the locks and the order of the steps keep true. *)

\* A save of an intent keeps its proposal and purpose.
ObligationsKept ==
  \A i \in IntentIds : intent[i].status # "absent" =>
    intent'[i].proposal = intent[i].proposal /\ intent'[i].purpose = intent[i].purpose

\* What is recorded of a payment stays.
TransactionsKept == \A y \in Payments : txn[y] # 0 => txn'[y] = txn[y]

RecordingPcs == {"apply", "mark", "accept", "contract", "settle", "pay"}

\* What a step of request r leaves to the others: the intents their checkouts made
\* or expire, the transactions their notifications looked for, the state their
\* orders reached.
OthersKeep(r) ==
  /\ ObligationsKept /\ TransactionsKept /\ unlocked \subseteq unlocked'
  /\ \A p \in Proposals :
       order[p].status \notin {"none", "scheduled"} => order'[p].status # "scheduled"
  /\ \A s \in Requests \ {r} :
       /\ req[s].pc \in MakingPcs => intent'[req[s].intent] = intent[req[s].intent]
       /\ req[s].pc = "expire" /\ intent[req[s].intent].status # "requires_checkout"
            => intent'[req[s].intent].status # "requires_checkout"
       /\ req[s].pc \in RecordingPcs =>
            txn'[req[s].payment] = txn[req[s].payment] \/ req[s].payment \in unlocked'

\* Request r goes on as q: it holds no lock, or the one it held or finds free, and
\* it makes no intent, or the one it made before or one with a free id.
KeepsOwn(r, q) ==
  /\ HoldsLock(q) => SameLock(q, req[r]) /\ (HoldsLock(req[r]) \/ LockFree(r))
  /\ q.pc \in MakingPcs =>
       \/ req[r].pc \in MakingPcs /\ q.intent = req[r].intent
       \/ intent[q.intent].status = "absent"

\* Which lock a request asks for is decided once, so two holders never meet.
LEMMA LocksKept ==
  ASSUME Shape, LocksExclude, NEW r \in Requests, NEW q,
         req' = [req EXCEPT ![r] = q], KeepsOwn(r, q)
  PROVE  LocksExclude'
<1>1. req \in [Requests -> RequestRow]
  BY DEF Shape, TypeOK
<1>2. req'[r] = q /\ \A s \in Requests \ {r} : req'[s] = req[s]
  BY <1>1
<1>3. ASSUME NEW s \in Requests \ {r}, HoldsLock(q), HoldsLock(req[s])
      PROVE  ~SameLock(q, req[s]) /\ ~SameLock(req[s], q)
  <2>1. SameLock(q, req[r]) /\ (HoldsLock(req[r]) \/ LockFree(r))
    BY <1>3 DEF KeepsOwn
  <2>2. ~SameLock(req[r], req[s])
    BY <1>3, <2>1 DEF LocksExclude, LockFree, SameLock
  <2>. QED BY <2>1, <2>2 DEF SameLock
<1>. QED BY <1>2, <1>3 DEF LocksExclude

\* A checkout that makes an intent takes an id of its own.
LEMMA ApartKept ==
  ASSUME Shape, IntentsApart, NEW r \in Requests, NEW q,
         req' = [req EXCEPT ![r] = q], KeepsOwn(r, q)
  PROVE  IntentsApart'
<1>1. req'[r] = q /\ \A s \in Requests \ {r} : req'[s] = req[s]
  BY DEF Shape, TypeOK
<1>2. ASSUME NEW s \in Requests \ {r}, q.pc \in MakingPcs, req[s].pc \in MakingPcs
      PROVE  q.intent # req[s].intent
  <2>1. intent[req[s].intent].status # "absent"
    BY <1>2, RowOfRequest DEF WellFormed, CheckoutWellFormed, MakingPcs
  <2>. QED BY <1>2, <2>1 DEF KeepsOwn, IntentsApart
<1>. QED BY <1>1, <1>2 DEF IntentsApart

\* A settled order stays settled; one that no transaction is added for is as before.
LEMMA SettledKept ==
  ASSUME Shape, ObligationsKept, TransactionsKept
  PROVE  /\ Settled \subseteq Settled'
         /\ txn' = txn => Settled' = Settled
<1>1. \A y \in Payments, p \in Proposals :
        txn'[y] = txn[y] => (PaysFor(y, p, "service_balance")' <=> PaysFor(y, p, "service_balance"))
  BY PaysForKept DEF ObligationsKept, Purposes
<1>2. \A y \in Payments, p \in Proposals : PaysFor(y, p, "service_balance") => txn'[y] = txn[y]
  BY DEF PaysFor, TransactionsKept, IntentIds
<1>3. Settled \subseteq Settled'
  BY <1>1, <1>2 DEF Settled
<1>4. txn' = txn => Settled' = Settled
  BY <1>1 DEF Settled
<1>. QED BY <1>3, <1>4

\* What a request holds outlives the steps of the others.
LEMMA HoldsKept ==
  ASSUME Shape, NEW r \in Requests, OthersKeep(r), NEW s \in Requests \ {r},
         Holds(req[s], intent, txn, unlocked, order, Settled)
  PROVE  Holds(req[s], intent', txn', unlocked', order', Settled')
<1>1. WellFormed(req[s], intent, payment, order)
  BY RowOfRequest
<1>2. CheckoutHolds(req[s], intent')
  BY <1>1 DEF Holds, CheckoutHolds, OthersKeep, ObligationsKept, WellFormed, CheckoutWellFormed,
              MakingPcs
<1>3. NotificationHolds(req[s], txn', unlocked')
  BY DEF Holds, NotificationHolds, OthersKeep, RecordingPcs
<1>4. CopyHolds(req[s], order', Settled')
  <2>1. Settled \subseteq Settled'
    BY SettledKept DEF OthersKeep
  <2>2. req[s].pc = "pay" => order'[req[s].proposal].status # "scheduled"
    BY <1>1 DEF Holds, CopyHolds, OthersKeep, WellFormed, OrderCopyWellFormed
  <2>. QED BY <2>1, <2>2 DEF Holds, CopyHolds
<1>. QED BY <1>2, <1>3, <1>4 DEF Holds

\* The step of one request: the locks exclude and everyone holds what it did.
LEMMA LedgerRequests ==
  ASSUME Shape, LocksExclude, IntentsApart, RequestsHold, NEW r \in Requests, NEW q,
         req' = [req EXCEPT ![r] = q], KeepsOwn(r, q), OthersKeep(r),
         Holds(q, intent', txn', unlocked', order', Settled')
  PROVE  LocksExclude' /\ IntentsApart' /\ RequestsHold'
<1>1. req'[r] = q /\ \A s \in Requests \ {r} : req'[s] = req[s]
  BY DEF Shape, TypeOK
<1>2. \A s \in Requests \ {r} : Holds(req[s], intent', txn', unlocked', order', Settled')
  BY HoldsKept DEF RequestsHold
<1>. QED BY <1>1, <1>2, LocksKept, ApartKept DEF RequestsHold

\* A finished request holds nothing.
LEMMA IdleHolds ==
  ASSUME NEW r \in Requests, NEW intents, NEW txns, NEW noted, NEW orders, NEW settled
  PROVE  KeepsOwn(r, Idle) /\ Holds(Idle, intents, txns, noted, orders, settled)
BY DEF Idle, KeepsOwn, HoldsLock, LockedPcs, MakingPcs, Holds, CheckoutHolds,
       NotificationHolds, CopyHolds

\* Once applied, always applied: a step that records no payment.
LEMMA AppliedKept ==
  ASSUME Shape, AppliedOnce, ObligationsKept, UNCHANGED <<txn, notices>>,
         unlocked \subseteq unlocked'
  PROVE  AppliedOnce'
<1>1. ASSUME NEW y \in Payments, notices[y] > 1
      PROVE  intent'[txn[y]].purpose = intent[txn[y]].purpose
  <2>1. notices[y] # 0
    BY <1>1 DEF Shape, TypeOK
  <2>2. txn[y] \in IntentIds /\ intent[txn[y]].status # "absent"
    BY <2>1 DEF AppliedOnce, Shape, PaymentsWellFormed
  <2>. QED BY <2>2 DEF ObligationsKept
<1>. QED BY <1>1 DEF AppliedOnce

\* A row the unique index admits keeps the obligation to one active intent, and a
\* paid one has its transaction.
LEMMA AgreeStep ==
  ASSUME Shape, IntentsAgree, TransactionsKept,
         NEW i \in IntentIds, NEW row, row.status # "absent",
         intent' = [intent EXCEPT ![i] = row],
         IndexAdmits(i, row.proposal, row.purpose, row.status),
         row.status = "paid" => \E y \in Payments : txn'[y] = i
  PROVE  IntentsAgree'
<1>1. \A j \in IntentIds : intent'[j] = IF j = i THEN row ELSE intent[j]
  BY DEF Shape, TypeOK
<1>2. ASSUME NEW p \in Proposals, NEW u \in Purposes, NEW j \in Of(p, u)', NEW k \in Of(p, u)',
             intent'[j].status \in ActiveStatuses, intent'[k].status \in ActiveStatuses
      PROVE  j = k
  <2>1. j \in IntentIds /\ k \in IntentIds
    BY <1>2 DEF Of
  <2>2. CASE j # i /\ k # i
    <3>1. j \in Of(p, u) /\ k \in Of(p, u)
      BY <1>1, <1>2, <2>1, <2>2 DEF Of
    <3>. QED BY <1>1, <1>2, <2>1, <2>2, <3>1 DEF IntentsAgree, OneActiveIntent
  <2>3. ASSUME NEW m \in Of(p, u)', m # i, i \in Of(p, u)',
               intent'[m].status \in ActiveStatuses, intent'[i].status \in ActiveStatuses
        PROVE  FALSE
    <3>1. p = row.proposal /\ u = row.purpose /\ row.status \in ActiveStatuses
      BY <1>1, <2>3 DEF Of
    <3>2. m \in Of(p, u) \ {i} /\ intent[m].status \in ActiveStatuses
      BY <1>1, <2>3 DEF Of
    <3>. QED BY <3>1, <3>2 DEF IndexAdmits
  <2>. QED BY <1>2, <2>2, <2>3
<1>3. OneActiveIntent'
  BY <1>2 DEF OneActiveIntent
<1>4. PaidIntentIsBacked'
  <2>1. ASSUME NEW j \in IntentIds, intent'[j].status = "paid"
        PROVE  \E y \in Payments : txn'[y] = j
    <3>1. CASE j = i
      BY <1>1, <2>1, <3>1
    <3>2. CASE j # i
      <4>1. PICK y \in Payments : txn[y] = j
        BY <1>1, <2>1, <3>2 DEF IntentsAgree, PaidIntentIsBacked
      <4>. QED BY <4>1 DEF TransactionsKept, IntentIds
    <3>. QED BY <3>1, <3>2
  <2>. QED BY <2>1 DEF PaidIntentIsBacked
<1>. QED BY <1>3, <1>4 DEF IntentsAgree

\* An active intent may keep an active status: the index admitted it before.
LEMMA ActiveStays ==
  ASSUME IntentsAgree, NEW p \in Proposals, NEW u \in Purposes, NEW i \in Of(p, u),
         intent[i].status \in ActiveStatuses, NEW s
  PROVE  IndexAdmits(i, p, u, s)
BY DEF IntentsAgree, OneActiveIntent, IndexAdmits, Of

\* A notification without its lock is noted.
LEMMA LostIsNoted ==
  ASSUME Ledger, NEW r \in Requests
  PROVE  req[r].lost /\ req[r].op = "webhook" => req[r].payment \in unlocked
BY DEF Ledger, RequestsHold, Holds, NotificationHolds

\* A saved row and an intent that keeps its session leave every payment with one.
LEMMA SessionsKept ==
  ASSUME Shape, SessionsBehindPayments, UNCHANGED payment,
         \A i \in IntentIds : intent[i].expiresOn # NoSession => intent'[i].expiresOn # NoSession
  PROVE  SessionsBehindPayments'
BY DEF SessionsBehindPayments, Shape, PaymentsWellFormed

\* A handler that only changes what its request holds.
LEMMA QuietLedger ==
  ASSUME Shape, Ledger, NEW r \in Requests, NEW q,
         UNCHANGED <<intent, txn, order, notices, payment>>, unlocked \subseteq unlocked',
         req' = [req EXCEPT ![r] = q], KeepsOwn(r, q),
         Holds(q, intent, txn, unlocked', order, Settled)
  PROVE  Ledger'
<1>1. OthersKeep(r)
  BY DEF OthersKeep, ObligationsKept, TransactionsKept
<1>2. Settled' = Settled
  BY SettledKept, <1>1 DEF OthersKeep
<1>3. LocksExclude' /\ IntentsApart' /\ RequestsHold'
  BY <1>1, <1>2, LedgerRequests DEF Ledger
<1>4. SessionsBehindPayments' /\ AppliedOnce'
  BY <1>1, AppliedKept DEF OthersKeep, Ledger, SessionsBehindPayments
<1>5. OrdersBacked'
  BY <1>2 DEF Ledger, OrdersBacked
<1>6. IntentsAgree'
  BY DEF Ledger, IntentsAgree, OneActiveIntent, PaidIntentIsBacked, Of
<1>. QED BY <1>3, <1>4, <1>5, <1>6 DEF Ledger

\* A handler that saves one intent and records no payment.
LEMMA IntentLedger ==
  ASSUME Shape, Ledger, NEW r \in Requests, NEW q, NEW i \in IntentIds, NEW row,
         UNCHANGED <<txn, order, notices, payment, unlocked>>,
         intent' = [intent EXCEPT ![i] = row], row.status \notin {"absent", "paid"},
         row.status = "requires_checkout" => intent[i].status = "absent",
         intent[i].status # "absent" =>
           row.proposal = intent[i].proposal /\ row.purpose = intent[i].purpose,
         intent[i].expiresOn # NoSession => row.expiresOn # NoSession,
         IndexAdmits(i, row.proposal, row.purpose, row.status),
         \A s \in Requests \ {r} : req[s].pc \in MakingPcs => req[s].intent # i,
         req' = [req EXCEPT ![r] = q], KeepsOwn(r, q),
         Holds(q, intent', txn, unlocked, order, Settled)
  PROVE  Ledger'
<1>1. \A j \in IntentIds : intent'[j] = IF j = i THEN row ELSE intent[j]
  BY DEF Shape, TypeOK
<1>2. ObligationsKept /\ TransactionsKept
  BY <1>1 DEF ObligationsKept, TransactionsKept
<1>3. OthersKeep(r)
  <2>1. ASSUME NEW s \in Requests \ {r}, req[s].pc \in MakingPcs
        PROVE  intent'[req[s].intent] = intent[req[s].intent]
    <3>1. req[s].intent \in IntentIds
      BY <2>1, RowOfRequest DEF WellFormed, CheckoutWellFormed, MakingPcs
    <3>. QED BY <1>1, <2>1, <3>1
  <2>2. ASSUME NEW s \in Requests \ {r}, req[s].pc = "expire",
               intent[req[s].intent].status # "requires_checkout"
        PROVE  intent'[req[s].intent].status # "requires_checkout"
    <3>1. req[s].intent \in IntentIds /\ intent[req[s].intent].status # "absent"
      BY <2>2, RowOfRequest DEF WellFormed, CheckoutWellFormed
    <3>. QED BY <1>1, <2>2, <3>1
  <2>. QED BY <1>2, <2>1, <2>2 DEF OthersKeep
<1>4. Settled' = Settled
  BY <1>2, SettledKept
<1>5. LocksExclude' /\ IntentsApart' /\ RequestsHold'
  BY <1>3, <1>4, LedgerRequests DEF Ledger
<1>6. SessionsBehindPayments'
  BY <1>1, SessionsKept DEF Ledger
<1>7. OrdersBacked' /\ AppliedOnce'
  BY <1>2, <1>4, AppliedKept DEF Ledger, OrdersBacked
<1>8. IntentsAgree'
  BY <1>2, AgreeStep DEF Ledger
<1>. QED BY <1>5, <1>6, <1>7, <1>8 DEF Ledger

\* Two checkouts never work on the same intent, whether they hold their locks or not:
\* one that expires an intent found it with a session or closed.
LEMMA IntentOfOneCheckout ==
  ASSUME Shape, Ledger, NEW r \in Requests, NEW s \in Requests \ {r},
         req[r].pc = "expire" \/ req[r].pc \in MakingPcs, req[s].pc \in MakingPcs
  PROVE  req[s].intent # req[r].intent
<1>1. CASE req[r].pc = "expire"
  <2>1. CheckoutHolds(req[r], intent) /\ CheckoutHolds(req[s], intent)
    BY DEF Ledger, RequestsHold, Holds
  <2>. QED BY <1>1, <2>1 DEF CheckoutHolds, MakingPcs
<1>2. CASE req[r].pc \in MakingPcs
  BY <1>2 DEF Ledger, IntentsApart
<1>. QED BY <1>1, <1>2

\* A payment is made through a session, and no checkout gave its intent one yet.
LEMMA IntentOfNotification ==
  ASSUME Shape, Ledger, NEW r \in Requests, NEW s \in Requests,
         req[r].op = "webhook", req[s].pc \in MakingPcs
  PROVE  req[s].intent # req[r].intent
<1>1. intent[req[r].intent].expiresOn # NoSession
  BY RowOfRequest DEF WellFormed, WebhookWellFormed, Ledger, SessionsBehindPayments
<1>. QED BY <1>1 DEF Ledger, RequestsHold, Holds, CheckoutHolds, MakingPcs

-----------------------------------------------------------------------------
(* The ledger, handler by handler. *)

\* A request that ends leaves the tables to the others.
LEMMA FinishLedger ==
  ASSUME Shape, Ledger, NEW r \in Requests, Finish(r),
         UNCHANGED <<intent, txn, order, notices, payment, unlocked>>
  PROVE  Ledger'
BY IdleHolds, QuietLedger DEF Finish

\* A notification whose lock is lost is noted, a checkout's makes no difference.
LEMMA LoseLockLedger ==
  ASSUME Shape, Ledger, NEW r \in Requests, LoseLock(r)
  PROVE  Ledger'
<1> DEFINE q == [req[r] EXCEPT !.lost = TRUE]
<1>1. /\ q.lost /\ q.pc = req[r].pc /\ q.op = req[r].op /\ q.proposal = req[r].proposal
      /\ q.payment = req[r].payment /\ q.intent = req[r].intent /\ q.verdict = req[r].verdict
      /\ q.order = req[r].order
  BY RowOfRequest DEF RequestRow
<1>2. unlocked \subseteq unlocked' /\ (req[r].op = "webhook" => req[r].payment \in unlocked')
  BY DEF LoseLock
<1>3. KeepsOwn(r, q)
  BY <1>1 DEF KeepsOwn, HoldsLock
<1>4. Holds(req[r], intent, txn, unlocked, order, Settled)
  BY DEF Ledger, RequestsHold
<1>5. CheckoutHolds(q, intent)
  BY <1>1, <1>4 DEF Holds, CheckoutHolds, Purpose
<1>6. NotificationHolds(q, txn, unlocked')
  BY <1>1, <1>2, <1>4 DEF Holds, NotificationHolds
<1>7. CopyHolds(q, order, Settled)
  BY <1>1, <1>4 DEF Holds, CopyHolds
<1>8. req' = [req EXCEPT ![r] = q]
  BY DEF LoseLock, Shape, TypeOK
<1> HIDE DEF q
<1>. QED BY <1>2, <1>3, <1>5, <1>6, <1>7, <1>8, QuietLedger DEF LoseLock, Holds

\* A request starts without a lock, and a review with a copy of a paid order.
LEMMA StartLedger ==
  ASSUME Shape, Ledger, NEW r \in Requests, Start(r)
  PROVE  Ledger'
<1>1. ASSUME NEW p \in Proposals, StartBookingCheckout(r, p) PROVE Ledger'
  <2> DEFINE q == [Idle EXCEPT !.op = "booking", !.pc = "lock", !.proposal = p]
  <2>1. KeepsOwn(r, q) /\ Holds(q, intent, txn, unlocked, order, Settled)
    BY DEF Idle, KeepsOwn, HoldsLock, LockedPcs, MakingPcs, Holds, CheckoutHolds,
           NotificationHolds, CopyHolds
  <2>. QED BY <1>1, <2>1, QuietLedger DEF StartBookingCheckout
<1>2. ASSUME NEW p \in Proposals, StartBalanceCheckout(r, p) PROVE Ledger'
  <2> DEFINE q == [Idle EXCEPT !.op = "balance", !.pc = "lock", !.proposal = p]
  <2>1. KeepsOwn(r, q) /\ Holds(q, intent, txn, unlocked, order, Settled)
    BY DEF Idle, KeepsOwn, HoldsLock, LockedPcs, MakingPcs, Holds, CheckoutHolds,
           NotificationHolds, CopyHolds
  <2>. QED BY <1>2, <2>1, QuietLedger DEF StartBalanceCheckout
<1>3. ASSUME NEW p \in Proposals, StartReview(r, p) PROVE Ledger'
  <2> DEFINE q == [Idle EXCEPT !.op = "review", !.pc = "review", !.proposal = p,
                               !.order = order[p]]
  <2>1. order[p].status = "paid" /\ order[p].report # NoReport
    BY <1>3 DEF StartReview, MayReview, Restorable
  <2>2. p \in Settled
    BY <2>1 DEF Ledger, OrdersBacked
  <2>3. KeepsOwn(r, q) /\ Holds(q, intent, txn, unlocked, order, Settled)
    BY <2>1, <2>2
       DEF Idle, KeepsOwn, HoldsLock, LockedPcs, MakingPcs, Holds, CheckoutHolds,
           NotificationHolds, CopyHolds
  <2>. QED BY <1>3, <2>3, QuietLedger DEF StartReview
<1>4. ASSUME NEW p \in Proposals, NEW c \in Reports, StartReport(r, p, c) PROVE Ledger'
  <2> DEFINE q == [Idle EXCEPT !.op = "report", !.pc = "report", !.proposal = p,
                               !.order = WithReport(order[p], c)]
  <2>1. WithReport(order[p], c).status = "awaiting_payment"
        /\ WithReport(order[p], c).report # NoReport
    BY NoReportAssumption DEF WithReport, Shape, TypeOK, OrderRow
  <2>2. KeepsOwn(r, q) /\ Holds(q, intent, txn, unlocked, order, Settled)
    BY <2>1
       DEF Idle, KeepsOwn, HoldsLock, LockedPcs, MakingPcs, Holds, CheckoutHolds,
           NotificationHolds, CopyHolds
  <2>. QED BY <1>4, <2>2, QuietLedger DEF StartReport
<1>5. ASSUME NEW y \in Payments, StartNotification(r, y) PROVE Ledger'
  <2> DEFINE q == [Idle EXCEPT !.op = "webhook", !.pc = "lock", !.payment = y,
                               !.verdict = payment[y].status, !.intent = payment[y].intent]
  <2>1. KeepsOwn(r, q) /\ Holds(q, intent, txn, unlocked, order, Settled)
    BY DEF Idle, KeepsOwn, HoldsLock, LockedPcs, MakingPcs, Holds, CheckoutHolds,
           NotificationHolds, CopyHolds
  <2>. QED BY <1>5, <2>1, QuietLedger DEF StartNotification
<1>. QED BY <1>1, <1>2, <1>3, <1>4, <1>5 DEF Start

\* A checkout takes its lock when no other request holds it.
LEMMA LockCheckoutLedger ==
  ASSUME Shape, Ledger, NEW r \in Requests, LockCheckout(r)
  PROVE  Ledger'
<1>1. CASE Finish(r)
  BY <1>1, FinishLedger DEF LockCheckout
<1>2. CASE req' = [req EXCEPT ![r].pc = "latest", ![r].at = now]
  <2> DEFINE q == [req[r] EXCEPT !.pc = "latest", !.at = now]
  <2>1. q.pc = "latest" /\ q.op = req[r].op /\ q.proposal = req[r].proposal
        /\ q.payment = req[r].payment /\ q.lost = req[r].lost
    BY RowOfRequest DEF RequestRow
  <2>2. KeepsOwn(r, q)
    BY <2>1 DEF LockCheckout, KeepsOwn, HoldsLock, SameLock, Resource, MakingPcs
  <2>3. Holds(q, intent, txn, unlocked, order, Settled)
    BY <2>1, LostIsNoted DEF Holds, CheckoutHolds, NotificationHolds, CopyHolds
  <2>4. req' = [req EXCEPT ![r] = q]
    BY <1>2 DEF Shape, TypeOK
  <2>. QED BY <2>2, <2>3, <2>4, QuietLedger DEF LockCheckout
<1>. QED BY <1>1, <1>2 DEF LockCheckout

\* The latest intent is of the checkout's own obligation.
LEMMA FindLatestIntentLedger ==
  ASSUME Shape, Ledger, NEW r \in Requests, FindLatestIntent(r)
  PROVE  Ledger'
<1>1. CASE Finish(r)
  BY <1>1, FinishLedger DEF FindLatestIntent
<1>2. CASE Continue(r, "create")
  <2> DEFINE q == [req[r] EXCEPT !.pc = "create"]
  <2>1. q.pc = "create" /\ q.op = req[r].op /\ q.proposal = req[r].proposal
        /\ q.payment = req[r].payment /\ q.lost = req[r].lost
    BY RowOfRequest DEF RequestRow
  <2>2. KeepsOwn(r, q) /\ Holds(q, intent, txn, unlocked, order, Settled)
    BY <2>1, LostIsNoted
       DEF FindLatestIntent, KeepsOwn, HoldsLock, SameLock, Resource, LockedPcs, MakingPcs,
                Holds, CheckoutHolds, NotificationHolds, CopyHolds
  <2>3. req' = [req EXCEPT ![r] = q]
    BY <1>2 DEF Continue, Shape, TypeOK
  <2>. QED BY <2>2, <2>3, QuietLedger DEF FindLatestIntent
<1>3. CASE \E i \in IntentIds :
             /\ IsLatest(i, req[r].proposal, Purpose(req[r]))
             /\ \/ PrepareCheckout(intent[i], req[r].at) = "expire"
                \/ intent[i].status = "expired"
             /\ req' = [req EXCEPT ![r].pc = "expire", ![r].intent = i]
  <2>1. PICK i \in IntentIds :
          /\ IsLatest(i, req[r].proposal, Purpose(req[r]))
          /\ \/ PrepareCheckout(intent[i], req[r].at) = "expire"
             \/ intent[i].status = "expired"
          /\ req' = [req EXCEPT ![r].pc = "expire", ![r].intent = i]
    BY <1>3
  <2> DEFINE q == [req[r] EXCEPT !.pc = "expire", !.intent = i]
  <2>2. q.pc = "expire" /\ q.op = req[r].op /\ q.proposal = req[r].proposal
        /\ q.payment = req[r].payment /\ q.lost = req[r].lost /\ q.intent = i
    BY RowOfRequest DEF RequestRow
  <2>3. intent[i].proposal = q.proposal /\ intent[i].purpose = Purpose(q)
    BY <2>1, <2>2 DEF IsLatest, Of, Purpose
  <2>6. intent[i].status # "requires_checkout"
    BY <2>1 DEF PrepareCheckout
  <2>4. KeepsOwn(r, q) /\ Holds(q, intent, txn, unlocked, order, Settled)
    BY <2>2, <2>3, <2>6, LostIsNoted
       DEF FindLatestIntent, KeepsOwn, HoldsLock, SameLock, Resource, LockedPcs, MakingPcs,
           Holds, CheckoutHolds, NotificationHolds, CopyHolds
  <2>5. req' = [req EXCEPT ![r] = q]
    BY <2>1 DEF Shape, TypeOK
  <2>. QED BY <2>4, <2>5, QuietLedger DEF FindLatestIntent
<1>. QED BY <1>1, <1>2, <1>3 DEF FindLatestIntent

\* The intent a checkout expires is no other checkout's.
LEMMA SaveExpiredLedger ==
  ASSUME Shape, Ledger, NEW r \in Requests, SaveExpired(r)
  PROVE  Ledger'
<1> DEFINE i == req[r].intent
           row == [intent[i] EXCEPT !.status = "expired"]
           q == [req[r] EXCEPT !.pc = "create"]
<1>1. i \in IntentIds /\ intent[i] \in IntentRow
  BY RowOfRequest DEF SaveExpired, WellFormed, CheckoutWellFormed, Shape, TypeOK
<1>2. /\ row.status = "expired" /\ row.proposal = intent[i].proposal
      /\ row.purpose = intent[i].purpose /\ row.expiresOn = intent[i].expiresOn
  BY <1>1 DEF IntentRow
<1>3. intent' = [intent EXCEPT ![i] = row]
  BY <1>1 DEF SaveExpired, Shape, TypeOK
<1>4. IndexAdmits(i, row.proposal, row.purpose, row.status)
  BY <1>2 DEF IndexAdmits, ActiveStatuses
<1>5. \A s \in Requests \ {r} : req[s].pc \in MakingPcs => req[s].intent # i
  BY IntentOfOneCheckout DEF SaveExpired
<1>6. q.pc = "create" /\ q.op = req[r].op /\ q.proposal = req[r].proposal
      /\ q.payment = req[r].payment /\ q.lost = req[r].lost
  BY RowOfRequest DEF RequestRow
<1>7. KeepsOwn(r, q) /\ Holds(q, intent', txn, unlocked, order, Settled)
  BY <1>6, LostIsNoted
     DEF SaveExpired, KeepsOwn, HoldsLock, SameLock, Resource, LockedPcs, MakingPcs,
         Holds, CheckoutHolds, NotificationHolds, CopyHolds
<1>8. req' = [req EXCEPT ![r] = q]
  BY DEF SaveExpired, Continue, Shape, TypeOK
<1> HIDE DEF row, q
<1>. QED BY <1>1, <1>2, <1>3, <1>4, <1>5, <1>7, <1>8, IntentLedger DEF SaveExpired

\* A new intent is made where there was none, when the index admits it.
LEMMA CreateIntentLedger ==
  ASSUME Shape, Ledger, NEW r \in Requests, CreateIntent(r)
  PROVE  Ledger'
<1>1. CASE UNCHANGED intent /\ Finish(r)
  BY <1>1, FinishLedger DEF CreateIntent
<1>2. ASSUME NEW i \in FreeIds,
             IndexAdmits(i, req[r].proposal, Purpose(req[r]), "requires_checkout"),
             intent' = [intent EXCEPT ![i] = [NoIntent EXCEPT !.proposal = req[r].proposal,
                                                !.purpose = Purpose(req[r]),
                                                !.status = "requires_checkout"]],
             req' = [req EXCEPT ![r].pc = "external", ![r].intent = i]
      PROVE  Ledger'
  <2> DEFINE row == [NoIntent EXCEPT !.proposal = req[r].proposal,
                       !.purpose = Purpose(req[r]), !.status = "requires_checkout"]
             q == [req[r] EXCEPT !.pc = "external", !.intent = i]
  <2>1. i \in IntentIds /\ intent[i].status = "absent" /\ intent[i].expiresOn = NoSession
    BY DEF FreeIds, Shape, IntentsWellFormed
  <2>2. /\ row.proposal = req[r].proposal /\ row.purpose = Purpose(req[r])
        /\ row.status = "requires_checkout" /\ row.expiresOn = NoSession
    BY DEF NoIntent
  <2>3. \A s \in Requests \ {r} : req[s].pc \in MakingPcs => req[s].intent # i
    BY <2>1, RowOfRequest DEF WellFormed, CheckoutWellFormed, MakingPcs
  <2>4. q.pc = "external" /\ q.op = req[r].op /\ q.proposal = req[r].proposal
        /\ q.payment = req[r].payment /\ q.lost = req[r].lost /\ q.intent = i
    BY RowOfRequest DEF RequestRow
  <2>5. intent'[i] = row
    BY <1>2, <2>1 DEF Shape, TypeOK
  <2>6. KeepsOwn(r, q)
    BY <2>1, <2>4 DEF CreateIntent, KeepsOwn, HoldsLock, SameLock, Resource, LockedPcs
  <2>7. Holds(q, intent', txn, unlocked, order, Settled)
    BY <2>2, <2>4, <2>5, LostIsNoted
       DEF Holds, CheckoutHolds, NotificationHolds, CopyHolds, Purpose
  <2>8. req' = [req EXCEPT ![r] = q]
    BY <1>2 DEF Shape, TypeOK
  <2>9. intent' = [intent EXCEPT ![i] = row]
    BY <1>2
  <2>10. IndexAdmits(i, row.proposal, row.purpose, row.status)
    BY <1>2, <2>2
  <2>11. UNCHANGED <<txn, order, notices, payment, unlocked>>
    BY DEF CreateIntent
  <2> HIDE DEF row, q
  <2>. QED BY <2>1, <2>2, <2>3, <2>6, <2>7, <2>8, <2>9, <2>10, <2>11, IntentLedger
<1>. QED BY <1>1, <1>2 DEF CreateIntent

\* The processor's answer changes nothing the request holds.
LEMMA CreateExternalCheckoutLedger ==
  ASSUME Shape, Ledger, NEW r \in Requests, CreateExternalCheckout(r)
  PROVE  Ledger'
<1>1. CASE Finish(r)
  BY <1>1, FinishLedger DEF CreateExternalCheckout
<1>2. CASE req' = [req EXCEPT ![r].pc = "ready", ![r].expiresOn = Expiration(req[r])]
  <2> DEFINE q == [req[r] EXCEPT !.pc = "ready", !.expiresOn = Expiration(req[r])]
  <2>1. q.pc = "ready" /\ q.op = req[r].op /\ q.proposal = req[r].proposal
        /\ q.payment = req[r].payment /\ q.lost = req[r].lost /\ q.intent = req[r].intent
    BY RowOfRequest DEF RequestRow
  <2>2. KeepsOwn(r, q)
    BY <2>1 DEF CreateExternalCheckout, KeepsOwn, HoldsLock, SameLock, Resource, LockedPcs,
                MakingPcs
  <2>3. Holds(q, intent, txn, unlocked, order, Settled)
    BY <2>1, LostIsNoted DEF CreateExternalCheckout, Ledger, RequestsHold, Holds, CheckoutHolds,
                NotificationHolds, CopyHolds, Purpose
  <2>4. req' = [req EXCEPT ![r] = q]
    BY <1>2 DEF Shape, TypeOK
  <2>. QED BY <2>2, <2>3, <2>4, QuietLedger DEF CreateExternalCheckout
<1>. QED BY <1>1, <1>2 DEF CreateExternalCheckout

\* The intent that gets its session was the active one of its obligation already.
LEMMA SaveCheckoutReadyLedger ==
  ASSUME Shape, Ledger, NEW r \in Requests, SaveCheckoutReady(r)
  PROVE  Ledger'
<1> DEFINE i == req[r].intent
           row == [intent[i] EXCEPT !.status = "checkout_ready",
                                    !.expiresOn = req[r].expiresOn]
<1>1. CASE UNCHANGED intent
  BY <1>1, FinishLedger DEF SaveCheckoutReady
<1>2. CASE /\ req[r].expiresOn > now
           /\ intent' = [intent EXCEPT ![i].status = "checkout_ready",
                                       ![i].expiresOn = req[r].expiresOn]
  <2>1. /\ i \in IntentIds /\ intent[i] \in IntentRow /\ intent[i].status = "requires_checkout"
    BY RowOfRequest DEF SaveCheckoutReady, WellFormed, CheckoutWellFormed, Shape, TypeOK,
                        Ledger, RequestsHold, Holds, CheckoutHolds
  <2>2. req[r].expiresOn # NoSession
    BY <1>2, RowOfRequest, BoundsAssumption DEF NoSession, Shape, TypeOK, Instants, RequestRow
  <2>3. /\ row.status = "checkout_ready" /\ row.proposal = intent[i].proposal
        /\ row.purpose = intent[i].purpose /\ row.expiresOn # NoSession
    BY <2>1, <2>2 DEF IntentRow
  <2>4. intent' = [intent EXCEPT ![i] = row]
    BY <1>2, <2>1 DEF Shape, TypeOK
  <2>5. IndexAdmits(i, row.proposal, row.purpose, row.status)
    <3>1. intent[i].proposal \in Proposals /\ intent[i].purpose \in Purposes
      BY <2>1 DEF Shape, IntentsWellFormed, IntentRow
    <3>2. i \in Of(intent[i].proposal, intent[i].purpose)
          /\ intent[i].status \in ActiveStatuses
      BY <2>1 DEF Of, ActiveStatuses
    <3>. QED BY <2>3, <3>1, <3>2, ActiveStays DEF Ledger
  <2>6. \A s \in Requests \ {r} : req[s].pc \in MakingPcs => req[s].intent # i
    BY IntentOfOneCheckout DEF SaveCheckoutReady, MakingPcs
  <2> HIDE DEF row
  <2>. QED BY <2>1, <2>3, <2>4, <2>5, <2>6, IdleHolds, IntentLedger
           DEF SaveCheckoutReady, Finish
<1>. QED BY <1>1, <1>2 DEF SaveCheckoutReady

\* A notification goes on only for a payment that is not recorded.
LEMMA LockNotificationLedger ==
  ASSUME Shape, Ledger, NEW r \in Requests, LockNotification(r)
  PROVE  Ledger'
<1>1. CASE Finish(r)
  BY <1>1, FinishLedger DEF LockNotification
<1>2. CASE txn[req[r].payment] = 0 /\ Continue(r, "apply")
  <2> DEFINE q == [req[r] EXCEPT !.pc = "apply"]
  <2>1. q.pc = "apply" /\ q.op = req[r].op /\ q.proposal = req[r].proposal
        /\ q.payment = req[r].payment /\ q.lost = req[r].lost
    BY RowOfRequest DEF RequestRow
  <2>2. KeepsOwn(r, q)
    BY <2>1 DEF LockNotification, KeepsOwn, HoldsLock, SameLock, Resource, MakingPcs
  <2>3. Holds(q, intent, txn, unlocked, order, Settled)
    BY <1>2, <2>1, LostIsNoted DEF Holds, CheckoutHolds, NotificationHolds, CopyHolds
  <2>4. req' = [req EXCEPT ![r] = q]
    BY <1>2 DEF Continue, Shape, TypeOK
  <2> HIDE DEF q
  <2>. QED BY <2>2, <2>3, <2>4, QuietLedger DEF LockNotification
<1>. QED BY <1>1, <1>2 DEF LockNotification

\* A verdict that approves nothing is only marked.
LEMMA ApplyVerdictLedger ==
  ASSUME Shape, Ledger, NEW r \in Requests, ApplyVerdict(r)
  PROVE  Ledger'
<1> DEFINE i == req[r].intent
           v == Visit(req[r].verdict, intent[i].purpose)
           q == [req[r] EXCEPT !.proposal = intent[i].proposal, !.pc = v]
<1>1. CASE Finish(r)
  BY <1>1, FinishLedger DEF ApplyVerdict
<1>2. CASE req' = [req EXCEPT ![r].proposal = intent[i].proposal, ![r].pc = v]
  <2>1. /\ q.pc = v /\ q.op = "webhook" /\ req[r].op = "webhook"
        /\ q.payment = req[r].payment /\ q.verdict = req[r].verdict /\ q.lost = req[r].lost
    BY RowOfRequest DEF ApplyVerdict, RequestRow, WellFormed, WebhookWellFormed
  <2>2. v \in {"mark", "accept", "settle"} /\ (v = "mark" => req[r].verdict # "approved")
    BY DEF Visit
  <2>3. KeepsOwn(r, q)
    BY <2>1, <2>2 DEF ApplyVerdict, KeepsOwn, HoldsLock, SameLock, Resource, LockedPcs, MakingPcs
  <2>4. Holds(q, intent, txn, unlocked, order, Settled)
    <3>1. /\ req[r].lost => req[r].payment \in unlocked
          /\ txn[req[r].payment] = 0 \/ req[r].payment \in unlocked
      BY <2>1 DEF ApplyVerdict, Ledger, RequestsHold, Holds, NotificationHolds
    <3>. QED BY <2>1, <2>2, <3>1 DEF Holds, CheckoutHolds, NotificationHolds, CopyHolds
  <2>5. req' = [req EXCEPT ![r] = q]
    BY <1>2 DEF Shape, TypeOK
  <2> HIDE DEF q
  <2>. QED BY <2>3, <2>4, <2>5, QuietLedger DEF ApplyVerdict
<1>. QED BY <1>1, <1>2 DEF ApplyVerdict

\* A verdict that approves nothing is saved when the index admits its status.
LEMMA SaveIntentUpdatedLedger ==
  ASSUME Shape, Ledger, NEW r \in Requests, SaveIntentUpdated(r)
  PROVE  Ledger'
<1> DEFINE i == req[r].intent
           row == [intent[i] EXCEPT !.status = StatusAfter(req[r].verdict)]
<1>1. CASE UNCHANGED intent
  BY <1>1, FinishLedger DEF SaveIntentUpdated
<1>2. CASE /\ IndexAdmits(i, req[r].proposal, intent[i].purpose, StatusAfter(req[r].verdict))
           /\ intent' = [intent EXCEPT ![i].status = StatusAfter(req[r].verdict)]
  <2>1. /\ i \in IntentIds /\ intent[i] \in IntentRow /\ req[r].op = "webhook"
        /\ req[r].proposal = intent[i].proposal
        /\ req[r].verdict \in PaymentStatuses \ {"none"}
    BY RowOfRequest DEF SaveIntentUpdated, WellFormed, WebhookWellFormed, WebhookPcs, Shape,
                        TypeOK, PaymentsWellFormed, RequestRow
  <2>2. req[r].verdict # "approved"
    BY DEF SaveIntentUpdated, Ledger, RequestsHold, Holds, NotificationHolds
  <2>3. /\ row.status = StatusAfter(req[r].verdict) /\ row.status \notin {"absent", "paid"}
        /\ row.status # "requires_checkout"
        /\ row.proposal = intent[i].proposal /\ row.purpose = intent[i].purpose
        /\ row.expiresOn = intent[i].expiresOn
    BY <2>1, <2>2 DEF IntentRow, StatusAfter, PaymentStatuses
  <2>4. intent' = [intent EXCEPT ![i] = row]
    BY <1>2, <2>1 DEF Shape, TypeOK
  <2>5. IndexAdmits(i, row.proposal, row.purpose, row.status)
    BY <1>2, <2>1, <2>3
  <2>6. \A s \in Requests \ {r} : req[s].pc \in MakingPcs => req[s].intent # i
    BY <2>1, IntentOfNotification
  <2> HIDE DEF row, i
  <2>7. UNCHANGED <<txn, order, notices, payment, unlocked>> /\ req' = [req EXCEPT ![r] = Idle]
    BY DEF SaveIntentUpdated, Finish
  <2>8. KeepsOwn(r, Idle) /\ Holds(Idle, intent', txn, unlocked, order, Settled)
    BY IdleHolds
  <2>. QED BY <2>1, <2>3, <2>4, <2>5, <2>6, <2>7, <2>8, IntentLedger
<1>. QED BY <1>1, <1>2 DEF SaveIntentUpdated

\* Accepting on a copy leaves the payment unrecorded.
LEMMA AcceptProposalLedger ==
  ASSUME Shape, Ledger, NEW r \in Requests, AcceptProposal(r)
  PROVE  Ledger'
<1>1. CASE Finish(r)
  BY <1>1, FinishLedger DEF AcceptProposal
<1>2. CASE Continue(r, "contract")
  <2> DEFINE q == [req[r] EXCEPT !.pc = "contract"]
  <2>1. q.pc = "contract" /\ q.op = req[r].op /\ q.proposal = req[r].proposal
        /\ q.payment = req[r].payment /\ q.lost = req[r].lost
    BY RowOfRequest DEF RequestRow
  <2>2. KeepsOwn(r, q) /\ Holds(q, intent, txn, unlocked, order, Settled)
    BY <2>1 DEF AcceptProposal, KeepsOwn, HoldsLock, SameLock, Resource, LockedPcs, MakingPcs,
                Ledger, RequestsHold, Holds, CheckoutHolds, NotificationHolds, CopyHolds
  <2>3. req' = [req EXCEPT ![r] = q]
    BY <1>2 DEF Continue, Shape, TypeOK
  <2>. QED BY <2>2, <2>3, QuietLedger DEF AcceptProposal
<1>. QED BY <1>1, <1>2 DEF AcceptProposal

\* The balance is registered on an order with a report, which is past scheduled.
LEMMA RegisterBalanceLedger ==
  ASSUME Shape, Ledger, NEW r \in Requests, RegisterBalance(r)
  PROVE  Ledger'
<1> DEFINE p == req[r].proposal
           q == [req[r] EXCEPT !.pc = "pay", !.order = WithPayment(order[p])]
<1>1. CASE Finish(r)
  BY <1>1, FinishLedger DEF RegisterBalance
<1>2. CASE /\ MayPayBalance(order[p])
           /\ req' = [req EXCEPT ![r].pc = "pay", ![r].order = WithPayment(order[p])]
  <2>1. p \in Proposals
    BY RowOfRequest DEF RegisterBalance, WellFormed, WebhookWellFormed, WebhookPcs
  <2>2. /\ order[p].status = "awaiting_payment"
        /\ WithPayment(order[p]).status = "paid" /\ WithPayment(order[p]).report # NoReport
    BY <1>2, <2>1 DEF MayPayBalance, Restorable, WithPayment, Shape, TypeOK, OrderRow
  <2>3. /\ q.pc = "pay" /\ q.op = req[r].op /\ q.proposal = p
        /\ q.payment = req[r].payment /\ q.lost = req[r].lost /\ q.order = WithPayment(order[p])
    BY RowOfRequest DEF RequestRow
  <2>4. KeepsOwn(r, q)
    BY <2>3 DEF RegisterBalance, KeepsOwn, HoldsLock, SameLock, Resource, LockedPcs, MakingPcs
  <2>5. Holds(q, intent, txn, unlocked, order, Settled)
    BY <2>2, <2>3 DEF RegisterBalance, Ledger, RequestsHold, Holds, CheckoutHolds,
                      NotificationHolds, CopyHolds
  <2>6. req' = [req EXCEPT ![r] = q]
    BY <1>2 DEF Shape, TypeOK
  <2> HIDE DEF q
  <2>. QED BY <2>4, <2>5, <2>6, QuietLedger DEF RegisterBalance
<1>. QED BY <1>1, <1>2 DEF RegisterBalance

\* A handler that saves a copy of a work order and ends.
LEMMA SaveOrderLedger ==
  ASSUME Shape, Ledger, NEW r \in Requests, req[r].pc \in {"report", "review"}, Finish(r),
         NEW b \in BOOLEAN,
         order' = [order EXCEPT ![req[r].proposal] = Saved(@, req[r].order, b)],
         UNCHANGED <<intent, txn, notices, payment, unlocked>>
  PROVE  Ledger'
<1> DEFINE p == req[r].proposal
           row == Saved(order[p], req[r].order, b)
<1>1. /\ p \in Proposals /\ req[r].order \in OrderRow /\ order[p] \in OrderRow
      /\ order[p].status # "none"
  BY RowOfRequest DEF WellFormed, OrderCopyWellFormed, RequestRow, Shape, TypeOK
<1>2. row.status = req[r].order.status /\ row.report = req[r].order.report
  BY <1>1 DEF Saved, OrderRow
<1>3. /\ row.report # NoReport /\ row.status \in {"awaiting_payment", "paid"}
      /\ row.status = "paid" => p \in Settled
  BY <1>2 DEF Ledger, RequestsHold, Holds, CopyHolds
<1>4. \A o \in Proposals : order'[o] = IF o = p THEN row ELSE order[o]
  BY <1>1 DEF Shape, TypeOK
<1>5. OthersKeep(r)
  BY <1>3, <1>4 DEF OthersKeep, ObligationsKept, TransactionsKept
<1>6. Settled' = Settled
  BY <1>5, SettledKept DEF OthersKeep
<1>7. LocksExclude' /\ IntentsApart' /\ RequestsHold'
  BY <1>5, IdleHolds, LedgerRequests DEF Ledger, Finish
<1>8. OrdersBacked'
  BY <1>3, <1>4, <1>6 DEF Ledger, OrdersBacked
<1>9. SessionsBehindPayments' /\ AppliedOnce'
  BY <1>5, AppliedKept DEF OthersKeep, Ledger, SessionsBehindPayments
<1>10. IntentsAgree'
  BY DEF Ledger, IntentsAgree, OneActiveIntent, PaidIntentIsBacked, Of
<1>. QED BY <1>7, <1>8, <1>9, <1>10 DEF Ledger

\* A saved report and a saved review.
LEMMA OrderLedger ==
  ASSUME Shape, Ledger, NEW r \in Requests, CommitReport(r) \/ CommitReview(r)
  PROVE  Ledger'
<1>1. CASE UNCHANGED order
  BY <1>1, FinishLedger DEF CommitReport, CommitReview
<1>2. CASE order' = [order EXCEPT ![req[r].proposal] = Saved(@, req[r].order, FALSE)]
  BY <1>2, SaveOrderLedger DEF CommitReport, CommitReview
<1>3. CASE order' = [order EXCEPT ![req[r].proposal] = Saved(@, req[r].order, TRUE)]
  BY <1>3, SaveOrderLedger DEF CommitReport, CommitReview
<1>. QED BY <1>1, <1>2, <1>3 DEF CommitReport, CommitReview

\* The units of work of both approvals record a payment for the obligation of its
\* intent, and no other.
LEMMA PaidPayments ==
  ASSUME Shape, Ledger, NEW r \in Requests, req[r].pc \in {"contract", "pay"},
         Record(req[r].payment, req[r].intent),
         intent' = [intent EXCEPT ![req[r].intent].status = "paid"]
  PROVE  \A z \in Payments, p \in Proposals, u \in Purposes :
           PaysFor(z, p, u)' <=>
             \/ PaysFor(z, p, u)
             \/ /\ z = req[r].payment /\ p = req[r].proposal
                /\ u = intent[req[r].intent].purpose
<1>1. PICK y \in Payments, i \in IntentIds :
      y = req[r].payment /\ i = req[r].intent /\ req[r].proposal = intent[i].proposal
  BY KnownPayment
<1>2. txn[y] = 0 \/ txn[y] = i
  BY <1>1, KnownPayment DEF Shape, PaymentsWellFormed
<1>3. \A z \in Payments : txn'[z] = IF z = y THEN i ELSE txn[z]
  BY <1>1 DEF Record, Shape, TypeOK
<1>4. \A j \in IntentIds :
        intent'[j].proposal = intent[j].proposal /\ intent'[j].purpose = intent[j].purpose
  BY ObligationKept
<1>5. \A z \in Payments \ {y}, p \in Proposals, u \in Purposes :
        PaysFor(z, p, u)' <=> PaysFor(z, p, u)
  BY <1>3, <1>4, PaysForKept
<1>6. \A p \in Proposals, u \in Purposes :
        /\ PaysFor(y, p, u) => p = intent[i].proposal /\ u = intent[i].purpose
        /\ PaysFor(y, p, u)' <=> p = intent[i].proposal /\ u = intent[i].purpose
  BY <1>2, <1>3, <1>4 DEF PaysFor, IntentIds
<1>. QED BY <1>1, <1>2, <1>5, <1>6

\* What the units of work of both approvals do to the intents and the transactions: a
\* payment that is recorded again is one of a notification that lost its lock.
LEMMA PaidLedger ==
  ASSUME Shape, Ledger, NEW r \in Requests, req[r].pc \in {"contract", "pay"},
         IndexAdmits(req[r].intent, req[r].proposal, intent[req[r].intent].purpose, "paid"),
         Record(req[r].payment, req[r].intent),
         intent' = [intent EXCEPT ![req[r].intent].status = "paid"],
         CountNotice(req[r].payment), Continue(r, "notify"), UNCHANGED <<payment, unlocked>>,
         req[r].pc = "contract" => txn[req[r].payment] = 0,
         \A p \in Proposals :
           order[p].status \notin {"none", "scheduled"} => order'[p].status # "scheduled"
  PROVE  /\ LocksExclude' /\ IntentsApart' /\ RequestsHold' /\ SessionsBehindPayments'
         /\ IntentsAgree' /\ AppliedOnce'
         /\ Settled' = IF req[r].pc = "pay" THEN Settled \cup {req[r].proposal} ELSE Settled
<1>1. PICK y \in Payments, i \in IntentIds :
      /\ y = req[r].payment /\ i = req[r].intent /\ intent[i] \in IntentRow
      /\ intent[i].status # "absent" /\ req[r].op = "webhook"
      /\ req[r].proposal \in Proposals /\ req[r].proposal = intent[i].proposal
      /\ intent[i].purpose = IF req[r].pc = "pay" THEN "service_balance" ELSE "booking_deposit"
  BY KnownPayment, RowOfRequest
     DEF WellFormed, WebhookWellFormed, WebhookPcs, Shape, TypeOK
<1> DEFINE row == [intent[i] EXCEPT !.status = "paid"]
           q == [req[r] EXCEPT !.pc = "notify"]
<1>2. /\ txn[y] = 0 \/ (y \in unlocked /\ req[r].pc = "pay")
      /\ txn[y] = 0 \/ txn[y] = i
  BY <1>1, KnownPayment
     DEF Ledger, RequestsHold, Holds, NotificationHolds, Shape, PaymentsWellFormed
<1>3. /\ row.status = "paid" /\ row.proposal = intent[i].proposal
      /\ row.purpose = intent[i].purpose /\ row.expiresOn = intent[i].expiresOn
  BY <1>1 DEF IntentRow
<1>4. intent' = [intent EXCEPT ![i] = row]
  BY <1>1 DEF Shape, TypeOK
<1>5. \A j \in IntentIds : intent'[j] = IF j = i THEN row ELSE intent[j]
  BY <1>1, <1>4 DEF Shape, TypeOK
<1>6. \A z \in Payments : txn'[z] = IF z = y THEN i ELSE txn[z]
  BY <1>1 DEF Record, Shape, TypeOK
<1>7. ObligationsKept /\ TransactionsKept
  BY <1>2, <1>3, <1>5, <1>6 DEF ObligationsKept, TransactionsKept
<1>8. OthersKeep(r)
  <2>1. ASSUME NEW s \in Requests \ {r}, req[s].pc \in MakingPcs
        PROVE  intent'[req[s].intent] = intent[req[s].intent]
    <3>1. req[s].intent \in IntentIds
      BY <2>1, RowOfRequest DEF WellFormed, CheckoutWellFormed, MakingPcs
    <3>2. req[s].intent # i
      BY <1>1, <2>1, IntentOfNotification
    <3>. QED BY <1>5, <3>1, <3>2
  <2>2. ASSUME NEW s \in Requests \ {r}, req[s].pc = "expire",
               intent[req[s].intent].status # "requires_checkout"
        PROVE  intent'[req[s].intent].status # "requires_checkout"
    <3>1. req[s].intent \in IntentIds
      BY <2>2, RowOfRequest DEF WellFormed, CheckoutWellFormed
    <3>. QED BY <1>3, <1>5, <2>2, <3>1
  <2>3. ASSUME NEW s \in Requests \ {r}, req[s].pc \in RecordingPcs
        PROVE  txn'[req[s].payment] = txn[req[s].payment] \/ req[s].payment \in unlocked
    <3>1. req[s].op = "webhook" /\ req[s].payment \in Payments
      BY <2>3, RowOfRequest DEF RecordingPcs, WebhookPcs, WellFormed, WebhookWellFormed
    <3>2. CASE req[r].lost \/ req[s].lost
      <4>1. y \in unlocked \/ req[s].payment \in unlocked
        BY <1>1, <3>1, <3>2, LostIsNoted
      <4>. QED BY <1>6, <3>1, <4>1
    <3>3. CASE ~req[r].lost /\ ~req[s].lost
      <4>1. HoldsLock(req[r]) /\ HoldsLock(req[s])
        BY <2>3, <3>3 DEF HoldsLock, LockedPcs, RecordingPcs
      <4>2. ~SameLock(req[r], req[s])
        BY <4>1 DEF Ledger, LocksExclude
      <4>3. req[s].payment # y
        BY <1>1, <3>1, <4>2 DEF SameLock, Resource
      <4>. QED BY <1>6, <3>1, <4>3
    <3>. QED BY <3>2, <3>3
  <2>. QED BY <1>7, <2>1, <2>2, <2>3 DEF OthersKeep
<1>9. LocksExclude' /\ IntentsApart' /\ RequestsHold'
  <2>1. q.pc = "notify" /\ q.op = req[r].op /\ q.payment = y /\ q.lost = req[r].lost
    BY <1>1, RowOfRequest DEF RequestRow
  <2>2. KeepsOwn(r, q)
    BY <1>1, <2>1 DEF KeepsOwn, HoldsLock, SameLock, Resource, LockedPcs, MakingPcs
  <2>3. Holds(q, intent', txn', unlocked', order', Settled')
    BY <1>1, <2>1, LostIsNoted DEF Holds, CheckoutHolds, NotificationHolds, CopyHolds
  <2>4. req' = [req EXCEPT ![r] = q]
    BY DEF Continue, Shape, TypeOK
  <2> HIDE DEF q
  <2>. QED BY <1>8, <2>2, <2>3, <2>4, LedgerRequests DEF Ledger
<1>10. SessionsBehindPayments'
  BY <1>3, <1>5, SessionsKept DEF Ledger
<1>11. IntentsAgree'
  <2>1. IndexAdmits(i, row.proposal, row.purpose, row.status)
    BY <1>1, <1>3
  <2>2. txn'[y] = i /\ row.status # "absent"
    BY <1>1, <1>3, <1>6
  <2> HIDE DEF row
  <2>. QED BY <1>1, <1>4, <1>7, <2>1, <2>2, AgreeStep DEF Ledger
<1>12. AppliedOnce'
  <2>1. notices \in [Payments -> 0..2] /\ AppliedOnce
    BY DEF Ledger, Shape, TypeOK
  <2>2. ASSUME NEW z \in Payments \ {y}
        PROVE  /\ notices'[z] = 0 <=> txn'[z] = 0
               /\ notices'[z] > 1 =>
                    z \in unlocked /\ intent'[txn'[z]].purpose = "service_balance"
    <3>1. notices'[z] = notices[z] /\ txn'[z] = txn[z]
      BY <1>1, <1>6, <2>1 DEF CountNotice
    <3>2. notices[z] > 1 => txn[z] \in IntentIds /\ intent[txn[z]].status # "absent"
      BY <2>1 DEF AppliedOnce, Shape, PaymentsWellFormed
    <3>. QED BY <1>7, <2>1, <3>1, <3>2 DEF AppliedOnce, ObligationsKept
  <2>3. /\ notices'[y] # 0 /\ txn'[y] = i
        /\ notices'[y] > 1 => notices[y] # 0
    BY <1>1, <1>6, <2>1 DEF CountNotice
  <2>4. notices'[y] > 1 => y \in unlocked /\ req[r].pc = "pay"
    BY <1>1, <1>2, <2>1, <2>3 DEF AppliedOnce
  <2>5. req[r].pc = "pay" => intent'[i].purpose = "service_balance"
    BY <1>1, <1>3, <1>5
  <2>6. i # 0
    BY <1>1 DEF IntentIds
  <2>. QED BY <2>2, <2>3, <2>4, <2>5, <2>6 DEF AppliedOnce
<1>13. Settled' = IF req[r].pc = "pay" THEN Settled \cup {req[r].proposal} ELSE Settled
  <2>1. ASSUME NEW p \in Proposals
        PROVE  p \in Settled' <=> p \in Settled \/ (p = req[r].proposal /\ req[r].pc = "pay")
    BY <1>1, PaidPayments DEF Settled, Purposes
  <2>2. Settled \subseteq Proposals /\ Settled' \subseteq Proposals
    BY DEF Settled
  <2>. QED BY <1>1, <2>1, <2>2
<1>. QED BY <1>9, <1>10, <1>11, <1>12, <1>13

\* A proposal without a work order has no deposit, so the payment that books it was not
\* recorded before, with or without a lock.
LEMMA FreshDeposit ==
  ASSUME Shape, BookedAtomically, NEW r \in Requests, req[r].pc = "contract",
         OrderInsertable(req[r].proposal)
  PROVE  txn[req[r].payment] = 0
<1>1. PICK y \in Payments, i \in IntentIds, p \in Proposals :
        /\ y = req[r].payment /\ i = req[r].intent /\ p = req[r].proposal
        /\ p = intent[i].proposal /\ intent[i].purpose = "booking_deposit"
        /\ txn[y] = 0 \/ txn[y] = i
  BY KnownPayment DEF Shape, PaymentsWellFormed
<1>2. ~PaysFor(y, p, "booking_deposit")
  BY <1>1 DEF BookedAtomically, OrderInsertable
<1>. QED BY <1>1, <1>2 DEF PaysFor

\* The deposit's unit of work makes the order of a proposal that had none.
LEMMA CommitBookingLedger ==
  ASSUME Shape, Booked, Ledger, NEW r \in Requests, CommitBooking(r)
  PROVE  Ledger'
<1>1. CASE Finish(r) /\ UNCHANGED <<proposal, intent, txn, order, notices>>
  BY <1>1, FinishLedger DEF CommitBooking
<1>2. CASE /\ OrderInsertable(req[r].proposal)
           /\ IndexAdmits(req[r].intent, req[r].proposal, "booking_deposit", "paid")
           /\ Record(req[r].payment, req[r].intent)
           /\ intent' = [intent EXCEPT ![req[r].intent].status = "paid"]
           /\ order' = [order EXCEPT ![req[r].proposal] = NewOrder]
           /\ CountNotice(req[r].payment) /\ Continue(r, "notify")
  <2>1. PICK p \in Proposals : p = req[r].proposal
    BY KnownPayment DEF CommitBooking
  <2>2. order[p].status = "none" /\ order' = [order EXCEPT ![p] = NewOrder]
    BY <1>2, <2>1 DEF OrderInsertable
  <2>3. \A o \in Proposals : order'[o] = IF o = p THEN NewOrder ELSE order[o]
    BY <2>2 DEF Shape, TypeOK
  <2>4. intent[req[r].intent].purpose = "booking_deposit"
    BY KnownPayment DEF CommitBooking
  <2>0. txn[req[r].payment] = 0
    BY <1>2, FreshDeposit DEF CommitBooking, Booked
  <2>5. /\ LocksExclude' /\ IntentsApart' /\ RequestsHold' /\ SessionsBehindPayments'
        /\ IntentsAgree' /\ AppliedOnce' /\ Settled' = Settled
    BY <1>2, <2>0, <2>2, <2>3, <2>4, PaidLedger DEF CommitBooking
  <2>6. OrdersBacked'
    BY <2>3, <2>5, NewOrderTyped DEF Ledger, OrdersBacked
  <2>. QED BY <2>5, <2>6 DEF Ledger
<1>. QED BY <1>1, <1>2 DEF CommitBooking

\* The balance's unit of work settles an order with its report.
LEMMA CommitBalanceLedger ==
  ASSUME Shape, Ledger, NEW r \in Requests, CommitBalance(r)
  PROVE  Ledger'
<1>1. CASE Finish(r) /\ UNCHANGED <<intent, txn, order, notices>>
  BY <1>1, FinishLedger DEF CommitBalance
<1>2. CASE /\ IndexAdmits(req[r].intent, req[r].proposal, "service_balance", "paid")
           /\ Record(req[r].payment, req[r].intent)
           /\ intent' = [intent EXCEPT ![req[r].intent].status = "paid"]
           /\ order' = [order EXCEPT ![req[r].proposal] = Saved(@, req[r].order, FALSE)]
           /\ CountNotice(req[r].payment) /\ Continue(r, "notify")
  <2> DEFINE row == Saved(order[req[r].proposal], req[r].order, FALSE)
  <2>1. PICK p \in Proposals : p = req[r].proposal
    BY KnownPayment DEF CommitBalance
  <2>2. /\ req[r].order \in OrderRow /\ order[p].status # "none"
        /\ req[r].order.status = "paid" /\ req[r].order.report # NoReport
    BY <2>1, RowOfRequest
       DEF CommitBalance, WellFormed, OrderCopyWellFormed, RequestRow, Ledger, RequestsHold,
           Holds, CopyHolds
  <2>3. row.status = "paid" /\ row.report # NoReport
    BY <2>2 DEF Saved, OrderRow
  <2>4. \A o \in Proposals : order'[o] = IF o = p THEN row ELSE order[o]
    BY <1>2, <2>1 DEF Shape, TypeOK
  <2>5. intent[req[r].intent].purpose = "service_balance"
    BY KnownPayment DEF CommitBalance
  <2>6. /\ LocksExclude' /\ IntentsApart' /\ RequestsHold' /\ SessionsBehindPayments'
        /\ IntentsAgree' /\ AppliedOnce' /\ Settled' = Settled \cup {p}
    BY <1>2, <2>1, <2>3, <2>4, <2>5, PaidLedger DEF CommitBalance
  <2>7. OrdersBacked'
    BY <2>3, <2>4, <2>6 DEF Ledger, OrdersBacked
  <2>. QED BY <2>6, <2>7 DEF Ledger
<1>. QED BY <1>1, <1>2 DEF CommitBalance

\* The payers: a payment begins through a session of its intent.
LEMMA EnvironmentLedger ==
  ASSUME Shape, Ledger, Environment
  PROVE  Ledger'
<1>1. UNCHANGED <<intent, txn, order, notices, req, unlocked>>
  BY DEF Environment, BeginPayment, DecidePayment, Tick
<1>2. SessionsBehindPayments'
  <2>1. ASSUME NEW y \in Payments, NEW i \in IntentIds, NEW v \in PaymentStatuses \ {"none"},
               BeginPayment(y, i, v)
        PROVE  SessionsBehindPayments'
    <3>1. intent[i].expiresOn # NoSession
      BY <2>1, BoundsAssumption DEF BeginPayment, NoSession, Shape, TypeOK, Instants
    <3>2. \A z \in Payments : payment'[z] = IF z = y THEN [intent |-> i, status |-> v]
                                           ELSE payment[z]
      BY <2>1 DEF BeginPayment, Shape, TypeOK
    <3>. QED BY <1>1, <3>1, <3>2 DEF Ledger, SessionsBehindPayments
  <2>2. ASSUME NEW y \in Payments, NEW v \in {"rejected", "approved"}, DecidePayment(y, v)
        PROVE  SessionsBehindPayments'
    <3>1. \A z \in Payments : /\ payment'[z].intent = payment[z].intent
                              /\ payment'[z].status # "none" <=> payment[z].status # "none"
      BY <2>2 DEF DecidePayment, Shape, TypeOK, PaymentRow
    <3>. QED BY <1>1, <3>1 DEF Ledger, SessionsBehindPayments
  <2>3. CASE Tick
    BY <2>3 DEF Tick, Ledger, SessionsBehindPayments
  <2>. QED BY <2>1, <2>2, <2>3 DEF Environment
<1>3. Settled' = Settled
  BY <1>1 DEF Settled, PaysFor
<1>4. LocksExclude' /\ IntentsApart' /\ RequestsHold' /\ OrdersBacked' /\ AppliedOnce'
  BY <1>1, <1>3 DEF Ledger, LocksExclude, IntentsApart, RequestsHold, OrdersBacked, AppliedOnce
<1>5. IntentsAgree'
  BY <1>1 DEF Ledger, IntentsAgree, OneActiveIntent, PaidIntentIsBacked, Of
<1>. QED BY <1>2, <1>4, <1>5 DEF Ledger

\* Every step of a request that is served keeps the ledger.
LEMMA WorkLedger ==
  ASSUME Shape, Booked, Ledger, NEW r \in Requests, Work(r)
  PROVE  Ledger'
<1>1. CASE Notify(r)
  BY <1>1, FinishLedger DEF Notify
<1>. QED BY <1>1, FindLatestIntentLedger, SaveExpiredLedger, CreateIntentLedger,
            CreateExternalCheckoutLedger, SaveCheckoutReadyLedger, ApplyVerdictLedger,
            SaveIntentUpdatedLedger, AcceptProposalLedger, CommitBookingLedger, RegisterBalanceLedger,
            CommitBalanceLedger, OrderLedger DEF Work

\* Empty tables and idle requests satisfy the ledger.
LEMMA InitLedger == Init => Ledger
<1> SUFFICES ASSUME Init PROVE Ledger
  OBVIOUS
<1>1. /\ \A i \in IntentIds : intent[i] = NoIntent
      /\ \A p \in Proposals : order[p] = NoOrder
      /\ \A y \in Payments : txn[y] = 0 /\ notices[y] = 0 /\ payment[y].status = "none"
      /\ \A r \in Requests : req[r] = Idle
  BY DEF Init
<1>2. LocksExclude /\ IntentsApart
  BY <1>1 DEF LocksExclude, HoldsLock, IntentsApart, MakingPcs, Idle, LockedPcs
<1>3. RequestsHold
  BY <1>1, IdleHolds DEF RequestsHold
<1>4. SessionsBehindPayments /\ AppliedOnce
  BY <1>1 DEF SessionsBehindPayments, AppliedOnce
<1>5. Settled = {}
  BY <1>1 DEF Settled, PaysFor, IntentIds
<1>6. OrdersBacked
  <2>1. NoOrder.status = "none"
    BY DEF NoOrder
  <2>. QED BY <1>1, <1>5, <2>1 DEF OrdersBacked
<1>7. IntentsAgree
  BY <1>1 DEF IntentsAgree, OneActiveIntent, PaidIntentIsBacked, Of, NoIntent
<1>. QED BY <1>2, <1>3, <1>4, <1>6, <1>7 DEF Ledger

-----------------------------------------------------------------------------
(* The invariant is inductive. *)

\* Empty tables, pending proposals and idle requests satisfy the invariant.
LEMMA InitIInv == Init => IInv
<1> SUFFICES ASSUME Init PROVE IInv
  OBVIOUS
<1>1. NoIntent \in IntentRow
  <2>1. NoSession \in 0..(MaxTime + CheckoutValidity)
    BY BoundsAssumption DEF NoSession
  <2>. QED BY <2>1 DEF NoIntent, IntentRow, IntentStatuses, Purposes
<1>2. /\ \A i \in IntentIds : intent[i] = NoIntent
      /\ \A p \in Proposals : order[p] = NoOrder /\ proposal[p] = "pending"
      /\ \A y \in Payments : txn[y] = 0 /\ payment[y].status = "none"
      /\ \A r \in Requests : req[r] = Idle
  BY DEF Init
<1>3. 0 \in 0..MaxIntents /\ 0 \in 0..MaxFailures /\ 1 \in Instants
  BY BoundsAssumption DEF Instants
<1>4. TypeOK
  <2>1. now \in Instants /\ failures \in 0..MaxFailures /\ unlocked \subseteq Payments
    BY <1>3 DEF Init
  <2>2. intent \in [IntentIds -> IntentRow]
    BY <1>1 DEF Init
  <2>3. order \in [Proposals -> OrderRow] /\ proposal \in [Proposals -> {"pending", "accepted"}]
    BY NoOrderTyped DEF Init
  <2>4. txn \in [Payments -> 0..MaxIntents] /\ notices \in [Payments -> 0..2]
    BY <1>3 DEF Init
  <2>5. payment \in [Payments -> PaymentRow]
    BY <1>3 DEF Init, PaymentRow, PaymentStatuses
  <2>6. req \in [Requests -> RequestRow]
    BY IdleTyped DEF Init
  <2>. QED BY <2>1, <2>2, <2>3, <2>4, <2>5, <2>6 DEF TypeOK
<1>5. IntentsWellFormed
  BY <1>2 DEF IntentsWellFormed, NoIntent
<1>6. PaymentsWellFormed
  BY <1>2 DEF PaymentsWellFormed
<1>7. RequestsWellFormed
  BY <1>2, IdleWellFormed DEF RequestsWellFormed
<1>8. \A y \in Payments, p \in Proposals : ~PaysFor(y, p, "booking_deposit")
  BY <1>2 DEF PaysFor, IntentIds
<1>9. BookedAtomically /\ OneDepositPerProposal
  BY <1>2, <1>8 DEF BookedAtomically, OneDepositPerProposal, NoOrder
<1>. QED BY <1>4, <1>5, <1>6, <1>7, <1>9, InitLedger DEF IInv, Shape

\* A step of request r that leaves the tables alone keeps the bookings.
LEMMA QuietSteps ==
  ASSUME NEW r \in Requests,
         Start(r) \/ Acquire(r) \/ FindLatestIntent(r) \/ CreateExternalCheckout(r)
           \/ ApplyVerdict(r) \/ LoseLock(r) \/ AcceptProposal(r) \/ RegisterBalance(r) \/ Notify(r) \/ CutShort(r)
  PROVE  UNCHANGED <<proposal, intent, txn, order>>
<1>1. Start(r) => UNCHANGED <<proposal, intent, txn, order>>
  BY DEF Start, StartBookingCheckout, StartBalanceCheckout, StartReview, StartReport,
         StartNotification
<1>2. Acquire(r) => UNCHANGED <<proposal, intent, txn, order>>
  BY DEF Acquire, LockCheckout, LockNotification
<1>. QED BY <1>1, <1>2 DEF FindLatestIntent, CreateExternalCheckout, ApplyVerdict,
                           AcceptProposal, RegisterBalance, Notify, CutShort, LoseLock

\* Every way a request starts keeps the shape.
LEMMA StartShape ==
  ASSUME Shape, NEW r \in Requests, Start(r)
  PROVE  Shape'
BY StartBookingCheckoutShape, StartBalanceCheckoutShape, StartReviewShape, StartReportShape,
   StartNotificationShape DEF Start

\* Every step of a request that is served keeps the shape.
LEMMA WorkShape ==
  ASSUME Shape, NEW r \in Requests, Work(r)
  PROVE  Shape'
<1>1. CASE Notify(r)
  BY <1>1, FinishShape DEF Notify
<1>. QED BY <1>1, FindLatestIntentShape, SaveExpiredShape, CreateIntentShape,
            CreateExternalCheckoutShape, SaveCheckoutReadyShape, ApplyVerdictShape,
            SaveIntentUpdatedShape, AcceptProposalShape, CommitBookingShape, RegisterBalanceShape,
            CommitBalanceShape, CommitReportShape, CommitReviewShape DEF Work

\* Every step of a request that is served keeps bookings whole and single.
LEMMA WorkBooked ==
  ASSUME Shape, Booked, NEW r \in Requests, Work(r)
  PROVE  Booked'
<1>1. CASE SaveExpired(r) \/ CreateIntent(r) \/ SaveCheckoutReady(r) \/ SaveIntentUpdated(r)
  BY <1>1, BookedIntentStep DEF SaveExpired, CreateIntent, SaveCheckoutReady, SaveIntentUpdated
<1>2. CASE FindLatestIntent(r) \/ CreateExternalCheckout(r) \/ ApplyVerdict(r) \/ AcceptProposal(r)
           \/ RegisterBalance(r) \/ Notify(r)
  BY <1>2, QuietSteps, BookedIntentStep
<1>. QED BY <1>1, <1>2, BookedCommitBooking, BookedCommitBalance, BookedOrderStep DEF Work

\* The clock and the processor touch neither bookings nor requests.
LEMMA EnvironmentStep ==
  ASSUME Shape, Booked, Environment
  PROVE  Shape' /\ Booked'
<1>1. Shape'
  BY BeginPaymentShape, DecidePaymentShape, TickShape DEF Environment
<1>2. UNCHANGED <<proposal, intent, txn, order>>
  BY DEF Environment, BeginPayment, DecidePayment, Tick
<1>. QED BY <1>1, <1>2, BookedIntentStep

\* Every step, whoever takes it, keeps the invariant.
LEMMA NextIInv == IInv /\ [Next]_vars => IInv'
<1> SUFFICES ASSUME IInv, [Next]_vars PROVE IInv'
  OBVIOUS
<1>1. Shape /\ Booked /\ Ledger
  BY DEF IInv, Booked
<1>2. ASSUME NEW r \in Requests, Start(r) \/ Acquire(r) \/ CutShort(r) \/ LoseLock(r)
      PROVE  Shape' /\ Booked' /\ Ledger'
  <2>1. Shape'
    BY <1>1, <1>2, StartShape, LockCheckoutShape, LockNotificationShape, CutShortShape,
       LoseLockShape
       DEF Acquire
  <2>2. Booked'
    BY <1>1, <1>2, QuietSteps, BookedIntentStep
  <2>3. CutShort(r) => Ledger'
    BY <1>1, FinishLedger DEF CutShort
  <2>4. Ledger'
    BY <1>1, <1>2, <2>3, StartLedger, LockCheckoutLedger, LockNotificationLedger,
       LoseLockLedger DEF Acquire
  <2>. QED BY <2>1, <2>2, <2>4
<1>3. ASSUME NEW r \in Requests, Work(r)
      PROVE  Shape' /\ Booked' /\ Ledger'
  BY <1>1, <1>3, WorkShape, WorkBooked, WorkLedger
<1>4. ASSUME Environment
      PROVE  Shape' /\ Booked' /\ Ledger'
  BY <1>1, <1>4, EnvironmentStep, EnvironmentLedger
<1>5. ASSUME UNCHANGED vars
      PROVE  Shape' /\ Booked' /\ Ledger'
  <2>1. Shape' /\ Booked'
    BY <1>1, <1>5 DEF vars, Shape, TypeOK, IntentsWellFormed, PaymentsWellFormed,
       RequestsWellFormed, Booked, BookedAtomically, OneDepositPerProposal, PaysFor
  <2>2. Settled' = Settled
    BY <1>5 DEF vars, Settled, PaysFor
  <2>3. IntentsAgree'
    BY <1>1, <1>5 DEF vars, Ledger, IntentsAgree, OneActiveIntent, PaidIntentIsBacked, Of
  <2>4. Ledger'
    BY <1>1, <1>5, <2>2, <2>3 DEF vars, Ledger, LocksExclude, IntentsApart, RequestsHold,
       SessionsBehindPayments, OrdersBacked, AppliedOnce
  <2>. QED BY <2>1, <2>4
<1>6. Shape' /\ Booked' /\ Ledger'
  BY <1>2, <1>3, <1>4, <1>5 DEF Next
<1>. QED BY <1>6 DEF IInv, Booked

\* The tables and all the requests in flight always satisfy the invariant: what a
\* handler of payment.Service or workorder.Service read is still there when it
\* writes, and still of the same proposal and purpose.
THEOREM Inductive == Spec => []IInv
BY InitIInv, NextIInv, PTL DEF Spec

-----------------------------------------------------------------------------
\* Whatever the requests, failures and notifications, every table and every
\* request of payment.Service and workorder.Service keeps to its type: the copies
\* the handlers write back, stale ones included, are rows of the tables.
THEOREM TypeCorrect == Spec => []TypeOK
<1>1. IInv => TypeOK
  BY DEF IInv, Shape
<1>. QED BY <1>1, Inductive, PTL

\* VisitBookingApproved books atomically: a proposal is accepted exactly when it
\* has a work order, and exactly when a deposit was recorded for it.  However many
\* payments are approved for it, and however their notifications interleave, it is
\* one deposit.
THEOREM BookedOnce == Spec => []BookedByOneDeposit
<1>1. IInv => BookedByOneDeposit
  BY DEF IInv, BookedByOneDeposit
<1>. QED BY <1>1, Inductive, PTL

\* The rows that VisitIntentUpdated, the checkouts and the units of work write from
\* copies never leave two active intents of one obligation, nor an intent that reads
\* as paid without its transaction: the index refuses the rows that would.
THEOREM IntentsAlwaysAgree == Spec => []IntentsAgree
<1>1. IInv => IntentsAgree
  BY DEF IInv, Ledger
<1>. QED BY <1>1, Inductive, PTL

\* A work order reads as paid only with a report and a recorded balance, whichever
\* of the stale copies of saveWithTx was written last; and a payment is applied once,
\* again only a balance's by a notification whose lock's connection broke (WithinLock).
THEOREM PaymentsAlwaysBacked == Spec => []PaymentsAreBacked
<1>1. IInv => PaymentsAreBacked
  <2>1. ASSUME IInv PROVE PaidOrderIsBacked
    BY <2>1 DEF IInv, Ledger, OrdersBacked, Settled, PaidOrderIsBacked
  <2>. QED BY <2>1 DEF IInv, Ledger, PaymentsAreBacked
<1>. QED BY <1>1, Inductive, PTL

-----------------------------------------------------------------------------
(* What a step does to the work orders. *)

\* The steps that save a work order: a new one for a proposal without one, or a copy
\* that has its report, which keeps the stored review.
LEMMA OrderWritten ==
  ASSUME IInv, [Next]_vars
  PROVE  \/ UNCHANGED order
         \/ \E r \in Requests :
              /\ CommitBooking(r) /\ order[req[r].proposal].status = "none"
              /\ order' = [order EXCEPT ![req[r].proposal] = NewOrder]
         \/ \E r \in Requests, b \in BOOLEAN :
              /\ CommitReport(r) \/ CommitReview(r) \/ CommitBalance(r)
              /\ order' = [order EXCEPT ![req[r].proposal] = Saved(@, req[r].order, b)]
<1>1. CASE Environment \/ UNCHANGED vars
  BY <1>1 DEF Environment, BeginPayment, DecidePayment, Tick, vars
<1>2. ASSUME NEW r \in Requests, Start(r) \/ Acquire(r) \/ CutShort(r) \/ LoseLock(r)
      PROVE  UNCHANGED order
  BY <1>2, QuietSteps
<1>3. ASSUME NEW r \in Requests, Work(r)
      PROVE  \/ UNCHANGED order
             \/ /\ CommitBooking(r) /\ order[req[r].proposal].status = "none"
                /\ order' = [order EXCEPT ![req[r].proposal] = NewOrder]
             \/ \E b \in BOOLEAN :
                  /\ CommitReport(r) \/ CommitReview(r) \/ CommitBalance(r)
                  /\ order' = [order EXCEPT ![req[r].proposal] = Saved(@, req[r].order, b)]
  <2>1. CASE SaveExpired(r) \/ CreateIntent(r) \/ SaveCheckoutReady(r) \/ SaveIntentUpdated(r)
    BY <2>1 DEF SaveExpired, CreateIntent, SaveCheckoutReady, SaveIntentUpdated
  <2>2. CASE FindLatestIntent(r) \/ CreateExternalCheckout(r) \/ ApplyVerdict(r) \/ AcceptProposal(r)
             \/ RegisterBalance(r) \/ Notify(r)
    BY <2>2, QuietSteps
  <2>3. CASE CommitBooking(r)
    BY <2>3 DEF CommitBooking, OrderInsertable
  <2>4. CASE CommitReport(r) \/ CommitReview(r) \/ CommitBalance(r)
    BY <2>4 DEF CommitReport, CommitReview, CommitBalance
  <2>. QED BY <1>3, <2>1, <2>2, <2>3, <2>4 DEF Work
<1>. QED BY <1>1, <1>2, <1>3 DEF Next

\* Whatever is saved of an order keeps its report and its review.
LEMMA EvidenceKept ==
  ASSUME IInv, [Next]_vars, NEW p \in Proposals
  PROVE  /\ order[p].report # NoReport => order'[p].report # NoReport
         /\ order[p].review => order'[p].review
<1>1. order \in [Proposals -> OrderRow] /\ (order[p].status = "none" => order[p] = NoOrder)
  BY DEF IInv, Shape, TypeOK, Ledger, OrdersBacked
<1>2. ASSUME NEW r \in Requests, order[req[r].proposal].status = "none",
             order' = [order EXCEPT ![req[r].proposal] = NewOrder]
      PROVE  order[p] = NoOrder \/ order'[p] = order[p]
  BY <1>1, <1>2
<1>3. ASSUME NEW r \in Requests, NEW b \in BOOLEAN,
             CommitReport(r) \/ CommitReview(r) \/ CommitBalance(r),
             order' = [order EXCEPT ![req[r].proposal] = Saved(@, req[r].order, b)]
      PROVE  \/ order'[p] = order[p]
             \/ order'[p].report # NoReport /\ (order[p].review => order'[p].review)
  <2>1. req[r].pc \in {"report", "review", "pay"}
    BY <1>3 DEF CommitReport, CommitReview, CommitBalance
  <2>2. req[r].order \in OrderRow /\ req[r].order.report # NoReport
    BY <2>1, RowOfRequest DEF IInv, Ledger, RequestsHold, Holds, CopyHolds, RequestRow
  <2>3. /\ Saved(order[p], req[r].order, b).report = req[r].order.report
        /\ Saved(order[p], req[r].order, b).review = (order[p].review \/ b)
    BY <1>1, <2>2 DEF Saved, OrderRow
  <2>. QED BY <1>1, <1>3, <2>2, <2>3
<1>4. NoOrder.report = NoReport /\ ~NoOrder.review
  BY DEF NoOrder
<1>. QED BY <1>2, <1>3, <1>4, OrderWritten

\* WorkOrderRepository.saveWithTx writes every column of a copy that may be steps
\* old: no order loses its completion report or its review to it.
THEOREM EvidenceAlwaysPersists == Spec => EvidencePersists
<1>1. IInv /\ [Next]_vars =>
        [\A p \in Proposals :
           /\ order[p].report # NoReport => order'[p].report # NoReport
           /\ order[p].review => order'[p].review]_vars
  BY EvidenceKept
<1>. QED BY <1>1, Inductive, PTL DEF Spec, EvidencePersists

-----------------------------------------------------------------------------
(* The handlers implement the abstract contract. *)

Deposits(p) == {y \in Payments : PaysFor(y, p, "booking_deposit")}

\* The phase of a proposal, by what its order and the transactions say.
LEMMA PhaseCases ==
  ASSUME IInv, NEW p \in Proposals
  PROVE  PhaseOf(p) = IF order[p].status = "none" THEN "offered"
                      ELSE IF p \in Settled THEN "settled"
                      ELSE IF order[p].status = "scheduled" THEN "booked" ELSE "reported"
BY DEF PhaseOf, Settled

\* A step after which the orders' statuses and what the payments pay for are the same.
LEMMA ContractStutters ==
  ASSUME \A p \in Proposals : PhaseOf(p)' = PhaseOf(p) /\ Deposits(p)' = Deposits(p)
  PROVE  UNCHANGED Contract!contract
<1>1. [p \in Proposals |-> PhaseOf(p)]' = [p \in Proposals |-> PhaseOf(p)]
  OBVIOUS
<1>2. [p \in Proposals |-> Deposits(p)]' = [p \in Proposals |-> Deposits(p)]
  OBVIOUS
<1>. QED BY <1>1, <1>2 DEF Contract!contract, Deposits

\* The steps that neither record a payment nor save a work order.
LEMMA ContractQuietStep ==
  ASSUME IInv, UNCHANGED <<order, txn>>,
         \/ UNCHANGED intent
         \/ \E r \in Requests : \/ SaveExpired(r) \/ CreateIntent(r) \/ SaveCheckoutReady(r)
                               \/ SaveIntentUpdated(r)
  PROVE  UNCHANGED Contract!contract
<1>1. \A y \in Payments, p \in Proposals, u \in Purposes : PaysFor(y, p, u)' <=> PaysFor(y, p, u)
  BY IntentStepsKeep, PaysForKept DEF IInv
<1>2. ASSUME NEW p \in Proposals PROVE PhaseOf(p)' = PhaseOf(p) /\ Deposits(p)' = Deposits(p)
  BY <1>1 DEF PhaseOf, Deposits, Purposes
<1>. QED BY <1>2, ContractStutters

\* The phases and deposits of the contract after a step that saves order p.
LEMMA ContractAt ==
  ASSUME NEW p \in Proposals, NEW f, NEW d,
         PhaseOf(p)' = f, Deposits(p)' = d,
         \A o \in Proposals \ {p} : PhaseOf(o)' = PhaseOf(o) /\ Deposits(o)' = Deposits(o)
  PROVE  /\ [o \in Proposals |-> PhaseOf(o)]' =
              [[o \in Proposals |-> PhaseOf(o)] EXCEPT ![p] = f]
         /\ [o \in Proposals |-> Deposits(o)]' =
              [[o \in Proposals |-> Deposits(o)] EXCEPT ![p] = d]
OBVIOUS

\* A saved report or review: the report of a booked service, or no news.
LEMMA ContractOrderStep ==
  ASSUME IInv, IInv', NEW r \in Requests, CommitReport(r) \/ CommitReview(r)
  PROVE  [Contract!Next]_(Contract!contract)
<1>1. PICK p \in Proposals : p = req[r].proposal
  BY RowOfRequest DEF CommitReport, CommitReview, IInv, WellFormed, OrderCopyWellFormed
<1>2. UNCHANGED <<intent, txn>>
  BY DEF CommitReport, CommitReview
<1>3. \A o \in Proposals : Deposits(o)' = Deposits(o) /\ (o \in Settled' <=> o \in Settled)
  BY <1>2 DEF Deposits, Settled, PaysFor
<1>4. CASE UNCHANGED order
  BY <1>2, <1>4, ContractQuietStep
<1>5. ASSUME NEW b \in BOOLEAN,
             order' = [order EXCEPT ![req[r].proposal] = Saved(@, req[r].order, b)]
      PROVE  [Contract!Next]_(Contract!contract)
  <2>1. /\ req[r].order \in OrderRow /\ order[p].status # "none"
        /\ CommitReport(r) => req[r].order.status = "awaiting_payment"
        /\ CommitReview(r) => p \in Settled /\ req[r].order.status = "paid"
    BY <1>1, RowOfRequest
       DEF CommitReport, CommitReview, IInv, Ledger, RequestsHold, Holds, CopyHolds,
           WellFormed, OrderCopyWellFormed, RequestRow
  <2>2. /\ order'[p].status = req[r].order.status
        /\ \A o \in Proposals \ {p} : order'[o] = order[o]
    BY <1>1, <1>5, <2>1 DEF Saved, OrderRow, IInv, Shape, TypeOK
  <2>3. \A o \in Proposals \ {p} : PhaseOf(o)' = PhaseOf(o)
    BY <1>2, <2>2 DEF PhaseOf, PaysFor
  <2>4. CASE p \in Settled
    <3>1. PhaseOf(p) = "settled" /\ PhaseOf(p)' = "settled"
      BY <1>3, <2>1, <2>2, <2>4, PhaseCases DEF PhaseOf, Settled
    <3>. QED BY <1>3, <2>3, <3>1, ContractStutters
  <2>5. CASE p \notin Settled
    <3>1. PhaseOf(p)' = "reported"
      BY <1>3, <2>1, <2>2, <2>5 DEF PhaseOf, Settled
    <3>2. PhaseOf(p) \in {"booked", "reported"}
      BY <2>1, <2>5, PhaseCases
    <3>3. CASE PhaseOf(p) = "reported"
      BY <1>3, <2>3, <3>1, <3>3, ContractStutters
    <3>4. CASE PhaseOf(p) = "booked"
      <4>1. /\ [o \in Proposals |-> PhaseOf(o)]' =
                 [[o \in Proposals |-> PhaseOf(o)] EXCEPT ![p] = "reported"]
            /\ [o \in Proposals |-> Deposits(o)]' = [o \in Proposals |-> Deposits(o)]
        BY <1>3, <2>3, <3>1
      <4>2. Contract!Report(p)
        BY <3>4, <4>1 DEF Contract!Report, Deposits
      <4>. QED BY <4>2 DEF Contract!Next
    <3>. QED BY <3>2, <3>3, <3>4
  <2>. QED BY <2>4, <2>5
<1>. QED BY <1>4, <1>5 DEF CommitReport, CommitReview

\* The balance's unit of work settles a reported service.
LEMMA ContractBalanceStep ==
  ASSUME IInv, IInv', NEW r \in Requests, CommitBalance(r)
  PROVE  [Contract!Next]_(Contract!contract)
<1>1. PICK p \in Proposals : p = req[r].proposal
  BY KnownPayment DEF CommitBalance, IInv
<1>2. CASE UNCHANGED <<intent, txn, order>>
  BY <1>2, ContractQuietStep
<1>3. CASE /\ Record(req[r].payment, req[r].intent)
           /\ intent' = [intent EXCEPT ![req[r].intent].status = "paid"]
           /\ order' = [order EXCEPT ![req[r].proposal] = Saved(@, req[r].order, FALSE)]
  <2>1. PICK y \in Payments :
          /\ y = req[r].payment
          /\ \A z \in Payments, o \in Proposals, u \in Purposes :
               PaysFor(z, o, u)' <=>
                 PaysFor(z, o, u) \/ (z = y /\ o = p /\ u = "service_balance")
    <3>1. req[r].payment \in Payments /\ intent[req[r].intent].purpose = "service_balance"
      BY KnownPayment DEF CommitBalance, IInv
    <3>2. Shape /\ Ledger /\ req[r].pc \in {"contract", "pay"}
      BY DEF CommitBalance, IInv
    <3>3. \A z \in Payments, o \in Proposals, u \in Purposes :
            PaysFor(z, o, u)' <=>
              PaysFor(z, o, u) \/ (z = req[r].payment /\ o = p /\ u = "service_balance")
      BY <1>1, <1>3, <3>1, <3>2, PaidPayments
    <3>. QED BY <3>1, <3>3
  <2>2. /\ order[p].status \notin {"none", "scheduled"} /\ order'[p].status = "paid"
        /\ \A o \in Proposals \ {p} : order'[o] = order[o]
    <3>1. /\ req[r].order \in OrderRow /\ req[r].order.status = "paid"
          /\ order[p].status \notin {"none", "scheduled"}
      BY <1>1, RowOfRequest
         DEF CommitBalance, IInv, Ledger, RequestsHold, Holds, CopyHolds, WellFormed,
             OrderCopyWellFormed, RequestRow
    <3>. QED BY <1>1, <1>3, <3>1 DEF Saved, OrderRow, IInv, Shape, TypeOK
  <2>3. \A o \in Proposals : Deposits(o)' = Deposits(o)
    BY <2>1 DEF Deposits, Purposes
  <2>4. \A o \in Proposals \ {p} : PhaseOf(o)' = PhaseOf(o)
    BY <2>1, <2>2 DEF PhaseOf, Purposes
  <2>5. PhaseOf(p)' = "settled"
    BY <2>1, <2>2 DEF PhaseOf, Purposes
  <2>6. PhaseOf(p) \in {"reported", "settled"}
    BY <2>2, PhaseCases
  <2>7. CASE PhaseOf(p) = "settled"
    BY <2>3, <2>4, <2>5, <2>7, ContractStutters
  <2>8. CASE PhaseOf(p) = "reported"
    <3>1. /\ [o \in Proposals |-> PhaseOf(o)]' =
               [[o \in Proposals |-> PhaseOf(o)] EXCEPT ![p] = "settled"]
          /\ [o \in Proposals |-> Deposits(o)]' = [o \in Proposals |-> Deposits(o)]
      BY <2>3, <2>4, <2>5
    <3>2. Contract!Settle(p)
      BY <2>8, <3>1 DEF Contract!Settle, Deposits
    <3>. QED BY <3>2 DEF Contract!Next
  <2>. QED BY <2>6, <2>7, <2>8
<1>. QED BY <1>2, <1>3 DEF CommitBalance

\* The deposit's unit of work books an offered proposal with a new payment.
LEMMA ContractBookingStep ==
  ASSUME IInv, IInv', NEW r \in Requests, CommitBooking(r)
  PROVE  [Contract!Next]_(Contract!contract)
<1>1. PICK p \in Proposals : p = req[r].proposal
  BY KnownPayment DEF CommitBooking, IInv
<1>2. CASE UNCHANGED <<intent, txn, order>>
  BY <1>2, ContractQuietStep
<1>3. CASE /\ OrderInsertable(req[r].proposal)
           /\ Record(req[r].payment, req[r].intent)
           /\ intent' = [intent EXCEPT ![req[r].intent].status = "paid"]
           /\ order' = [order EXCEPT ![req[r].proposal] = NewOrder]
  <2>1. PICK y \in Payments :
          /\ y = req[r].payment /\ txn[y] = 0
          /\ \A z \in Payments, o \in Proposals, u \in Purposes :
               PaysFor(z, o, u)' <=>
                 PaysFor(z, o, u) \/ (z = y /\ o = p /\ u = "booking_deposit")
    <3>1. req[r].payment \in Payments /\ intent[req[r].intent].purpose = "booking_deposit"
      BY KnownPayment DEF CommitBooking, IInv
    <3>2. Shape /\ Ledger /\ req[r].pc \in {"contract", "pay"}
      BY DEF CommitBooking, IInv
    <3>0. txn[req[r].payment] = 0
      BY <1>3, FreshDeposit DEF CommitBooking, IInv
    <3>3. /\ txn[req[r].payment] = 0
          /\ \A z \in Payments, o \in Proposals, u \in Purposes :
               PaysFor(z, o, u)' <=>
                 PaysFor(z, o, u) \/ (z = req[r].payment /\ o = p /\ u = "booking_deposit")
      BY <1>1, <1>3, <3>0, <3>1, <3>2, PaidPayments
    <3>. QED BY <3>1, <3>3
  <2>2. /\ order[p].status = "none" /\ order'[p].status = "scheduled"
        /\ \A o \in Proposals \ {p} : order'[o] = order[o]
    BY <1>1, <1>3, NewOrderTyped DEF OrderInsertable, IInv, Shape, TypeOK
  <2>3. \A z \in Payments : ~PaysFor(z, p, "booking_deposit")
    BY <2>2 DEF IInv, BookedAtomically
  <2>4. \A o \in Proposals : ~PaysFor(y, o, "booking_deposit")
    BY <2>1 DEF PaysFor, IntentIds
  <2>5. p \notin Settled
    BY <2>2 DEF IInv, Ledger, OrdersBacked
  <2>6. \A o \in Proposals : y \notin Deposits(o)
    BY <2>4 DEF Deposits
  <2>7. /\ Deposits(p)' = {y}
        /\ \A o \in Proposals \ {p} : Deposits(o)' = Deposits(o)
    BY <2>1, <2>3 DEF Deposits, Purposes
  <2>8. \A o \in Proposals \ {p} : PhaseOf(o)' = PhaseOf(o)
    BY <2>1, <2>2 DEF PhaseOf, Purposes
  <2>9. PhaseOf(p) = "offered" /\ PhaseOf(p)' = "booked"
    BY <2>1, <2>2, <2>5 DEF PhaseOf, Settled, Purposes
  <2>10. /\ [o \in Proposals |-> PhaseOf(o)]' =
              [[o \in Proposals |-> PhaseOf(o)] EXCEPT ![p] = "booked"]
         /\ [o \in Proposals |-> Deposits(o)]' =
              [[o \in Proposals |-> Deposits(o)] EXCEPT ![p] = {y}]
    BY <2>7, <2>8, <2>9, ContractAt
  <2>11. Contract!Book(p, y)
    BY <2>6, <2>9, <2>10 DEF Contract!Book, Deposits
  <2>. QED BY <2>11 DEF Contract!Next
<1>. QED BY <1>2, <1>3 DEF CommitBooking

\* Every step of the handlers is a step of the contract or none.
LEMMA ContractStep ==
  ASSUME IInv, IInv', [Next]_vars
  PROVE  [Contract!Next]_(Contract!contract)
<1>1. ASSUME NEW r \in Requests, Start(r) \/ Acquire(r) \/ CutShort(r) \/ LoseLock(r)
      PROVE  UNCHANGED Contract!contract
  BY <1>1, QuietSteps, ContractQuietStep
<1>2. ASSUME NEW r \in Requests, Work(r)
      PROVE  [Contract!Next]_(Contract!contract)
  <2>1. CASE SaveExpired(r) \/ CreateIntent(r) \/ SaveCheckoutReady(r) \/ SaveIntentUpdated(r)
    BY <2>1, ContractQuietStep DEF SaveExpired, CreateIntent, SaveCheckoutReady, SaveIntentUpdated
  <2>2. CASE FindLatestIntent(r) \/ CreateExternalCheckout(r) \/ ApplyVerdict(r) \/ AcceptProposal(r)
             \/ RegisterBalance(r) \/ Notify(r)
    BY <2>2, QuietSteps, ContractQuietStep
  <2>. QED BY <1>2, <2>1, <2>2, ContractBookingStep, ContractBalanceStep, ContractOrderStep
           DEF Work
<1>3. CASE Environment \/ UNCHANGED vars
  <2>1. UNCHANGED <<order, txn, intent>>
    BY <1>3 DEF Environment, BeginPayment, DecidePayment, Tick, vars
  <2>. QED BY <2>1, ContractQuietStep
<1>. QED BY <1>1, <1>2, <1>3 DEF Next

\* The handlers of payment.Service and workorder.Service implement BookingContract:
\* offered, booked by one deposit, reported, settled, and never back, whatever stale
\* row of a work order is saved in between.
THEOREM ContractImplemented == Spec => ImplementsContract
<1>1. Init => Contract!Init
  <2>1. ASSUME Init, NEW p \in Proposals PROVE PhaseOf(p) = "offered" /\ Deposits(p) = {}
    BY <2>1 DEF Init, PhaseOf, Deposits, PaysFor, NoOrder, IntentIds
  <2>. QED BY <2>1 DEF Contract!Init, Deposits
<1>2. IInv /\ IInv' /\ [Next]_vars => [Contract!Next]_(Contract!contract)
  BY ContractStep
<1>. QED BY <1>1, <1>2, Inductive, PTL DEF Spec, ImplementsContract, Contract!Spec

-----------------------------------------------------------------------------
(* The arithmetic of a booking *)

\* An amount is its whole part and its remainder, and so is its rounded share.
LEMMA Parts ==
  ASSUME NEW amount \in Nat
  PROVE  /\ amount \div BasisPoints \in Nat
         /\ amount % BasisPoints \in 0..BasisPoints - 1
         /\ amount = BasisPoints * (amount \div BasisPoints) + (amount % BasisPoints)
  BY DEF BasisPoints

\* The deposit is the exact fifth of the total rounded to the nearest cent, a half
\* upwards: splitting the amount before multiplying loses nothing (percentageOf).
THEOREM NearestCent ==
  ASSUME NEW amount \in Nat
  PROVE  /\ PercentageOf(amount) \in Nat
         /\ 2 * (BasisPoints * PercentageOf(amount) - DepositRate * amount) <= BasisPoints
         /\ 2 * (DepositRate * amount - BasisPoints * PercentageOf(amount)) < BasisPoints
<1> DEFINE w == amount \div BasisPoints
           r == amount % BasisPoints
           f == (r * DepositRate + BasisPoints \div 2) \div BasisPoints
<1>1. w \in Nat /\ r \in 0..BasisPoints - 1 /\ amount = BasisPoints * w + r
  BY Parts
<1>2. PercentageOf(amount) = w * DepositRate + f
  BY DEF PercentageOf
<1> HIDE DEF w, r
<1>3. /\ f \in Nat
      /\ 10000 * f <= 2000 * r + 5000
      /\ 2000 * r + 5000 < 10000 * f + 10000
  BY <1>1 DEF BasisPoints, DepositRate
<1> HIDE DEF f
<1> QED  BY <1>1, <1>2, <1>3 DEF BasisPoints, DepositRate

\* Every total of three cents or more that leaves room for the fee is accepted, and
\* one or two cents are not, for their deposit rounds to nothing (Calculate, validate).
THEOREM AcceptedTotals ==
  ASSUME NEW total \in Nat
  PROVE  Accepts(total) <=> total >= 3 /\ total <= MaxInt64 - PlatformFeeTotal
<1>1. /\ PercentageOf(total) \in Nat
      /\ 2 * (10000 * PercentageOf(total) - 2000 * total) <= 10000
      /\ 2 * (2000 * total - 10000 * PercentageOf(total)) < 10000
  BY NearestCent DEF BasisPoints, DepositRate
<1>2. PlatformFeeDueNow = 100000
  BY DEF PlatformFeeDueNow, PercentageOf, PlatformFeeTotal, BasisPoints, DepositRate
<1> QED  BY <1>1, <1>2 DEF Accepts, Calculable, Valid, PlatformFeeTotal

\* An accepted total leaves something to pay now and something to pay later, the two
\* make up the contract, and nothing that is computed exceeds the integers' width:
\* the balance's checkout never meets an order with nothing due (intent.go:90).
THEOREM TermsAddUp ==
  ASSUME NEW total \in Nat, Accepts(total)
  PROVE  LET t == Terms(total) IN
         /\ t.deposit \in 1..(total - 1)
         /\ t.remainingService \in 1..(total - 1)
         /\ t.amountDueNow + t.remainingAmountDue = t.contractTotal
         /\ t.contractTotal <= MaxInt64
         /\ (total \div BasisPoints) * DepositRate <= MaxInt64
         /\ (total % BasisPoints) * DepositRate + BasisPoints \div 2 <= MaxInt64
<1>1. total >= 3 /\ total <= MaxInt64 - PlatformFeeTotal
  BY AcceptedTotals
<1>2. /\ PercentageOf(total) \in Nat
      /\ 2 * (10000 * PercentageOf(total) - 2000 * total) <= 10000
      /\ 2 * (2000 * total - 10000 * PercentageOf(total)) < 10000
  BY NearestCent DEF BasisPoints, DepositRate
<1>3. PlatformFeeDueNow = 100000
  BY DEF PlatformFeeDueNow, PercentageOf, PlatformFeeTotal, BasisPoints, DepositRate
<1>4. MaxInt64 \in Nat /\ MaxInt64 >= 100000000
  BY WidthAssumption DEF BasisPoints
<1>5. PercentageOf(total) \in 1..(total - 1)
  BY <1>1, <1>2
<1>6. (total \div BasisPoints) * DepositRate <= MaxInt64
  BY <1>1, <1>4, Parts DEF BasisPoints, DepositRate, PlatformFeeTotal
<1>7. (total % BasisPoints) * DepositRate + BasisPoints \div 2 <= MaxInt64
  BY <1>4, Parts DEF BasisPoints, DepositRate
<1> DEFINE t == Terms(total)
<1>8. /\ t.deposit = PercentageOf(total)
      /\ t.remainingService = total - PercentageOf(total)
      /\ t.amountDueNow = PercentageOf(total) + 100000
      /\ t.remainingAmountDue = (total - PercentageOf(total)) + 400000
      /\ t.contractTotal = total + 500000
  BY <1>3 DEF Terms, PlatformFeeTotal
<1> HIDE DEF t
<1>9. /\ t.deposit \in 1..(total - 1)
      /\ t.remainingService \in 1..(total - 1)
      /\ t.amountDueNow + t.remainingAmountDue = t.contractTotal
      /\ t.contractTotal <= MaxInt64
  BY <1>1, <1>4, <1>5, <1>8 DEF PlatformFeeTotal
<1> QED  BY <1>6, <1>7, <1>9 DEF t
=============================================================================
