--------------------------- MODULE BookingPayments ---------------------------
(***************************************************************************)
(* From a pending service proposal to a paid work order: the handlers of   *)
(* payment.Service (checkouts and the processor's notifications) and of    *)
(* workorder.Service (completion report, review) over the PostgreSQL       *)
(* tables they share.                                                      *)
(*                                                                         *)
(* A handler runs in a request, a goroutine of some replica.  It reads a   *)
(* row, decides on the copy it holds and writes the whole row back in a    *)
(* later statement; only the advisory locks it takes and the constraints   *)
(* of the tables keep other requests out.  Each statement that reads or    *)
(* writes state another request can change is an action of its own, and    *)
(* req[r] is what request r holds in memory between two of them.           *)
(***************************************************************************)
EXTENDS Integers, FiniteSets, PaymentIntent, WorkOrder

CONSTANTS
  Proposals,        \* service proposals
  Payments,         \* payments at the external processor, by external id
  Requests,         \* requests the replicas can serve at the same time
  None,             \* no proposal, no payment
  MaxIntents,       \* bound: payment intents that can ever be made
  MaxTime,          \* bound: the last instant
  MaxFailures,      \* bound: requests that may be cut short or lose their lock
  CheckoutValidity, \* checkoutValidity (30 minutes), in ticks
  BookingDeadline,  \* booking_payment_deadline of every proposal
  ScheduledOn       \* scheduled_on of every proposal

ASSUME BoundsAssumption ==
  /\ MaxIntents \in Nat /\ MaxTime \in Nat \ {0} /\ MaxFailures \in Nat
  /\ CheckoutValidity \in Nat \ {0}
  /\ BookingDeadline \in Nat \ {0} /\ ScheduledOn \in Nat
  /\ BookingDeadline < ScheduledOn

ASSUME NoneAssumption == None \notin Proposals \cup Payments

VARIABLES
  now,       \* the clock
  proposal,  \* service_proposals.status
  intent,    \* payment_intents joined with payment_checkout_sessions
  txn,       \* payment_transactions: the intent a payment was recorded for, 0 if none
  order,     \* work_orders with completion report and review, by proposal
  notices,   \* notifications rows stored for a payment's approval, 2 for more
  payment,   \* the processor's payments
  req,       \* what each request is doing
  failures,  \* how many requests were cut short or lost their lock
  unlocked   \* history: payments with a notification that lost its lock

vars == <<now, proposal, intent, txn, order, notices, payment, req, failures, unlocked>>

IntentIds == 1..MaxIntents
Instants  == 1..MaxTime

----------------------------------------------------------------------------
(* Requests *)

\* pcs at which a request waits for its advisory lock or holds it.
LockedPcs   == {"latest", "expire", "create", "external", "ready",
                "apply", "mark", "accept", "contract", "settle", "pay", "notify"}
UnlockedPcs == {"idle", "lock", "report", "review"}

Operations == {"idle", "booking", "balance", "webhook", "report", "review"}

Idle == [op |-> "idle", pc |-> "idle", proposal |-> None, payment |-> None,
         verdict |-> "none", intent |-> 0, at |-> 0, expiresOn |-> 0, order |-> NoOrder,
         lost |-> FALSE]

\* The lock keys of lock.go: (namespace of the operation, resource).
Resource(q) == IF q.op = "webhook" THEN q.payment ELSE q.proposal
SameLock(a, b) == a.op = b.op /\ Resource(a) = Resource(b)

\* Mutant: no lock at all.
LockFree_Always(r) == TRUE

\* An operation runs under its lock until the transaction that holds it breaks.
HoldsLock(q) == q.pc \in LockedPcs /\ ~q.lost

\* pg_advisory_xact_lock returns once no other transaction holds the key.
LockFree(r) == \A s \in Requests \ {r} : HoldsLock(req[s]) => ~SameLock(req[s], req[r])

Purpose(q) == IF q.op = "balance" THEN "service_balance" ELSE "booking_deposit"

Finish(r)       == req' = [req EXCEPT ![r] = Idle]
Continue(r, pc) == req' = [req EXCEPT ![r].pc = pc]

----------------------------------------------------------------------------
(* payment_intents *)

NoIntent == [proposal |-> None, purpose |-> "booking_deposit", status |-> "absent",
             expiresOn |-> NoSession]

\* Intents get their ids in the order of created_on.
FreeIds == {i \in IntentIds : intent[i].status = "absent"}

Of(p, purpose) == {i \in IntentIds : /\ intent[i].status # "absent"
                                     /\ intent[i].proposal = p
                                     /\ intent[i].purpose = purpose}

\* FindLatestByProposalIDAndPurpose: ORDER BY created_on DESC LIMIT 1.
IsLatest(i, p, purpose) == i \in Of(p, purpose) /\ \A j \in Of(p, purpose) : j <= i

\* Mutant: no unique index.
IndexAdmits_Always(i, p, purpose, status) == TRUE

\* The partial unique index admits a row with this status for intent i.
IndexAdmits(i, p, purpose, status) ==
  status \in ActiveStatuses =>
    \A j \in Of(p, purpose) \ {i} : intent[j].status \notin ActiveStatuses

----------------------------------------------------------------------------
(* StartBookingCheckout and StartServiceBalanceCheckout *)

\* Up to the lock.  The proposal read here is the one the whole request uses.
StartBookingCheckout(r, p) ==
  /\ req[r].op = "idle"
  /\ proposal[p] = "pending" /\ now < BookingDeadline
  /\ req' = [req EXCEPT ![r] = [Idle EXCEPT !.op = "booking", !.pc = "lock", !.proposal = p]]
  /\ UNCHANGED <<now, proposal, intent, txn, order, notices, payment, failures, unlocked>>

StartBalanceCheckout(r, p) ==
  /\ req[r].op = "idle"
  /\ MayPayBalance(order[p]) /\ now >= ScheduledOn
  /\ req' = [req EXCEPT ![r] = [Idle EXCEPT !.op = "balance", !.pc = "lock", !.proposal = p]]
  /\ UNCHANGED <<now, proposal, intent, txn, order, notices, payment, failures, unlocked>>

\* Inside the lock a booking authorizes the proposal it read before; a balance
\* payment reads the work order again.
LockCheckout(r) ==
  /\ req[r].pc = "lock" /\ req[r].op \in {"booking", "balance"}
  /\ LockFree(r)
  /\ IF \/ req[r].op = "booking" /\ now < BookingDeadline
        \/ req[r].op = "balance" /\ MayPayBalance(order[req[r].proposal])
     THEN req' = [req EXCEPT ![r].pc = "latest", ![r].at = now]
     ELSE Finish(r)
  /\ UNCHANGED <<now, proposal, intent, txn, order, notices, payment, failures, unlocked>>

\* The latest intent decides: reuse its session or refuse (both end the
\* request), or make another one, after saving this one as expired.
FindLatestIntent(r) ==
  LET q == req[r] IN
  /\ q.pc = "latest"
  /\ \/ Of(q.proposal, Purpose(q)) = {} /\ Continue(r, "create")
     \/ \E i \in IntentIds :
          /\ IsLatest(i, q.proposal, Purpose(q))
          /\ LET decision == PrepareCheckout(intent[i], q.at) IN
             \/ decision \in {"reuse", "refuse"} /\ Finish(r)
             \/ /\ decision = "renew" /\ intent[i].status # "expired"
                /\ Continue(r, "create")
             \/ /\ \/ decision = "expire"
                   \/ decision = "renew" /\ intent[i].status = "expired"
                /\ req' = [req EXCEPT ![r].pc = "expire", ![r].intent = i]
  /\ UNCHANGED <<now, proposal, intent, txn, order, notices, payment, failures, unlocked>>

\* Save writes every column of the copy, whatever the row holds by now.
SaveExpired(r) ==
  /\ req[r].pc = "expire"
  /\ intent' = [intent EXCEPT ![req[r].intent].status = "expired"]
  /\ Continue(r, "create")
  /\ UNCHANGED <<now, proposal, txn, order, notices, payment, failures, unlocked>>

\* createCheckout up to the first Save.  The provider's account may be unable
\* to receive payments, and the index may refuse the row.
CreateIntent(r) ==
  LET q == req[r] IN
  /\ q.pc = "create"
  /\ \/ /\ Finish(r)
        /\ UNCHANGED intent
     \/ \E i \in FreeIds :
          /\ \A j \in FreeIds : i <= j
          /\ IndexAdmits(i, q.proposal, Purpose(q), "requires_checkout")
          /\ intent' = [intent EXCEPT ![i] = [NoIntent EXCEPT !.proposal = q.proposal,
                                                !.purpose = Purpose(q),
                                                !.status = "requires_checkout"]]
          /\ req' = [req EXCEPT ![r].pc = "external", ![r].intent = i]
  /\ UNCHANGED <<now, proposal, txn, order, notices, payment, failures, unlocked>>

\* BookingCheckoutPolicy.Expiration; a balance checkout has no deadline.
Expiration(q) ==
  IF q.op = "booking" /\ BookingDeadline < q.at + CheckoutValidity
  THEN BookingDeadline ELSE q.at + CheckoutValidity

\* The processor makes the preference, or the call fails.
CreateExternalCheckout(r) ==
  /\ req[r].pc = "external"
  /\ \/ Finish(r)
     \/ req' = [req EXCEPT ![r].pc = "ready", ![r].expiresOn = Expiration(req[r])]
  /\ UNCHANGED <<now, proposal, intent, txn, order, notices, payment, failures, unlocked>>

\* MarkCheckoutReady and the second Save.
SaveCheckoutReady(r) ==
  LET q == req[r] IN
  /\ q.pc = "ready"
  /\ IF q.expiresOn > now
     THEN intent' = [intent EXCEPT ![q.intent].status = "checkout_ready",
                                   ![q.intent].expiresOn = q.expiresOn]
     ELSE UNCHANGED intent
  /\ Finish(r)
  /\ UNCHANGED <<now, proposal, txn, order, notices, payment, failures, unlocked>>

----------------------------------------------------------------------------
(* ProcessPaymentNotification *)

\* Up to the lock: the processor is asked for the payment before the lock.
StartNotification(r, y) ==
  /\ req[r].op = "idle"
  /\ payment[y].status # "none"
  /\ req' = [req EXCEPT ![r] = [Idle EXCEPT !.op = "webhook", !.pc = "lock", !.payment = y,
                                  !.verdict = payment[y].status, !.intent = payment[y].intent]]
  /\ UNCHANGED <<now, proposal, intent, txn, order, notices, payment, failures, unlocked>>

\* PaymentOutcome.Accept: the visitor's method the outcome calls.
Visit(verdict, purpose) ==
  IF verdict # "approved" THEN "mark"
  ELSE IF purpose = "booking_deposit" THEN "accept" ELSE "settle"

\* Inside the lock: nothing for a recorded payment.
LockNotification(r) ==
  /\ req[r].pc = "lock" /\ req[r].op = "webhook"
  /\ LockFree(r)
  /\ IF txn[req[r].payment] # 0 THEN Finish(r) ELSE Continue(r, "apply")
  /\ UNCHANGED <<now, proposal, intent, txn, order, notices, payment, failures, unlocked>>

\* ApplyTo on the intent as it is read now, an error when its status does not
\* admit the verdict; then the visitor.
ApplyVerdict(r) ==
  LET q == req[r]
      row == intent[q.intent] IN
  /\ q.pc = "apply"
  /\ IF MayApply(q.verdict, row.status)
     THEN req' = [req EXCEPT ![r].proposal = row.proposal,
                                ![r].pc = Visit(q.verdict, row.purpose)]
     ELSE Finish(r)
  /\ UNCHANGED <<now, proposal, intent, txn, order, notices, payment, failures, unlocked>>

\* VisitIntentUpdated: Save of the copy, in a transaction of its own.
SaveIntentUpdated(r) ==
  LET q == req[r] IN
  /\ q.pc = "mark"
  /\ \/ /\ IndexAdmits(q.intent, q.proposal, intent[q.intent].purpose, StatusAfter(q.verdict))
        /\ intent' = [intent EXCEPT ![q.intent].status = StatusAfter(q.verdict)]
     \/ /\ ~IndexAdmits(q.intent, q.proposal, intent[q.intent].purpose, StatusAfter(q.verdict))
        /\ UNCHANGED intent
  /\ Finish(r)
  /\ UNCHANGED <<now, proposal, txn, order, notices, payment, failures, unlocked>>

\* VisitBookingApproved up to the unit of work: proposal.Accept on a fresh copy.
AcceptProposal(r) ==
  LET q == req[r] IN
  /\ q.pc = "accept"
  /\ IF proposal[q.proposal] = "pending" /\ now < ScheduledOn
     THEN Continue(r, "contract")
     ELSE Finish(r)
  /\ UNCHANGED <<now, proposal, intent, txn, order, notices, payment, failures, unlocked>>

\* Mutant: no unique constraint on work_orders.
OrderInsertable_Always(p) == TRUE

\* work_orders.service_proposal_id is UNIQUE and New is only ever inserted.
OrderInsertable(p) == order[p].status = "none"

CountNotice(y) == notices' = [notices EXCEPT ![y] = IF @ < 2 THEN @ + 1 ELSE @]

\* Mutant: the unit of work leaves the transaction out.
Record_Nothing(y, i) == UNCHANGED txn

\* SaveTransaction: an upsert by the payment's external id.
Record(y, i) == txn' = [txn EXCEPT ![y] = i]

\* Its unit of work: transaction, intent, proposal, work order, notification.
CommitBooking(r) ==
  LET q == req[r] IN
  /\ q.pc = "contract"
  /\ \/ /\ OrderInsertable(q.proposal)
        /\ IndexAdmits(q.intent, q.proposal, "booking_deposit", "paid")
        /\ Record(q.payment, q.intent)
        /\ intent' = [intent EXCEPT ![q.intent].status = "paid"]
        /\ proposal' = [proposal EXCEPT ![q.proposal] = "accepted"]
        /\ order' = [order EXCEPT ![q.proposal] = NewOrder]
        /\ CountNotice(q.payment)
        /\ Continue(r, "notify")
     \/ /\ \/ ~OrderInsertable(q.proposal)
           \/ ~IndexAdmits(q.intent, q.proposal, "booking_deposit", "paid")
        /\ Finish(r)
        /\ UNCHANGED <<proposal, intent, txn, order, notices>>
  /\ UNCHANGED <<now, payment, failures, unlocked>>

\* VisitServiceBalanceApproved up to the unit of work.
RegisterBalance(r) ==
  LET q == req[r] IN
  /\ q.pc = "settle"
  /\ IF MayPayBalance(order[q.proposal])
     THEN req' = [req EXCEPT ![r].pc = "pay", ![r].order = WithPayment(order[q.proposal])]
     ELSE Finish(r)
  /\ UNCHANGED <<now, proposal, intent, txn, order, notices, payment, failures, unlocked>>

\* Its unit of work: transaction, intent, work order, notification.
CommitBalance(r) ==
  LET q == req[r] IN
  /\ q.pc = "pay"
  /\ \/ /\ IndexAdmits(q.intent, q.proposal, "service_balance", "paid")
        /\ Record(q.payment, q.intent)
        /\ intent' = [intent EXCEPT ![q.intent].status = "paid"]
        /\ order' = [order EXCEPT ![q.proposal] = Saved(@, q.order, FALSE)]
        /\ CountNotice(q.payment)
        /\ Continue(r, "notify")
     \/ /\ ~IndexAdmits(q.intent, q.proposal, "service_balance", "paid")
        /\ Finish(r)
        /\ UNCHANGED <<intent, txn, order, notices>>
  /\ UNCHANGED <<now, proposal, payment, failures, unlocked>>

\* After the commit, still inside the lock: publish the notification, or fail to.
Notify(r) ==
  /\ req[r].pc = "notify"
  /\ Finish(r)
  /\ UNCHANGED <<now, proposal, intent, txn, order, notices, payment, failures, unlocked>>

----------------------------------------------------------------------------
(* ReportCompletion and CreateReview: no lock *)

StartReport(r, p, c) ==
  /\ req[r].op = "idle"
  /\ MayReport(order[p]) /\ now >= ScheduledOn
  /\ req' = [req EXCEPT ![r] = [Idle EXCEPT !.op = "report", !.pc = "report", !.proposal = p,
                                  !.order = WithReport(order[p], c)]]
  /\ UNCHANGED <<now, proposal, intent, txn, order, notices, payment, failures, unlocked>>

CommitReport(r) ==
  /\ req[r].pc = "report"
  /\ order' = [order EXCEPT ![req[r].proposal] = Saved(@, req[r].order, FALSE)]
  /\ Finish(r)
  /\ UNCHANGED <<now, proposal, intent, txn, notices, payment, failures, unlocked>>

StartReview(r, p) ==
  /\ req[r].op = "idle"
  /\ MayReview(order[p])
  /\ req' = [req EXCEPT ![r] = [Idle EXCEPT !.op = "review", !.pc = "review", !.proposal = p,
                                  !.order = order[p]]]
  /\ UNCHANGED <<now, proposal, intent, txn, order, notices, payment, failures, unlocked>>

\* The review is an INSERT: a second one breaks its primary key and rolls back.
CommitReview(r) ==
  LET q == req[r] IN
  /\ q.pc = "review"
  /\ IF order[q.proposal].review
     THEN UNCHANGED order
     ELSE order' = [order EXCEPT ![q.proposal] = Saved(@, q.order, TRUE)]
  /\ Finish(r)
  /\ UNCHANGED <<now, proposal, intent, txn, notices, payment, failures, unlocked>>

----------------------------------------------------------------------------
(* The environment *)

\* A payer pays through a session whose preference has not expired.
BeginPayment(y, i, verdict) ==
  /\ payment[y].status = "none"
  /\ intent[i].expiresOn > now
  /\ payment' = [payment EXCEPT ![y] = [intent |-> i, status |-> verdict]]
  /\ UNCHANGED <<now, proposal, intent, txn, order, notices, req, failures, unlocked>>

\* A payment in process is decided later, maybe after the preference expired.
DecidePayment(y, verdict) ==
  /\ payment[y].status = "processing"
  /\ payment' = [payment EXCEPT ![y].status = verdict]
  /\ UNCHANGED <<now, proposal, intent, txn, order, notices, req, failures, unlocked>>

\* A replica crashes, the caller goes away or a statement of the operation fails:
\* the request ends here and its advisory lock goes with its transaction.
CutShort(r) ==
  /\ req[r].op # "idle" /\ failures < MaxFailures
  /\ failures' = failures + 1
  /\ Finish(r)
  /\ UNCHANGED <<now, proposal, intent, txn, order, notices, payment, unlocked>>

\* The connection of the lock's transaction breaks.  PostgreSQL releases the lock,
\* and WithinLock notices only when it commits, after the operation.
LoseLock(r) ==
  /\ HoldsLock(req[r]) /\ failures < MaxFailures
  /\ failures' = failures + 1
  /\ req' = [req EXCEPT ![r].lost = TRUE]
  /\ unlocked' = unlocked \cup (IF req[r].op = "webhook" THEN {req[r].payment} ELSE {})
  /\ UNCHANGED <<now, proposal, intent, txn, order, notices, payment>>

Tick ==
  /\ now < MaxTime
  /\ now' = now + 1
  /\ UNCHANGED <<proposal, intent, txn, order, notices, payment, req, failures, unlocked>>

----------------------------------------------------------------------------
Init ==
  /\ now = 1
  /\ proposal = [p \in Proposals |-> "pending"]
  /\ intent = [i \in IntentIds |-> NoIntent]
  /\ txn = [y \in Payments |-> 0]
  /\ order = [p \in Proposals |-> NoOrder]
  /\ notices = [y \in Payments |-> 0]
  /\ payment = [y \in Payments |-> [intent |-> 0, status |-> "none"]]
  /\ req = [r \in Requests |-> Idle]
  /\ failures = 0
  /\ unlocked = {}

\* What a client, the processor or a provider asks for.
Start(r) ==
  \/ \E p \in Proposals : StartBookingCheckout(r, p) \/ StartBalanceCheckout(r, p)
                          \/ StartReview(r, p)
  \/ \E p \in Proposals, c \in Reports : StartReport(r, p, c)
  \/ \E y \in Payments : StartNotification(r, y)

Acquire(r) == LockCheckout(r) \/ LockNotification(r)

Work(r) ==
  \/ FindLatestIntent(r) \/ SaveExpired(r) \/ CreateIntent(r)
  \/ CreateExternalCheckout(r) \/ SaveCheckoutReady(r)
  \/ ApplyVerdict(r) \/ SaveIntentUpdated(r) \/ AcceptProposal(r) \/ CommitBooking(r)
  \/ RegisterBalance(r) \/ CommitBalance(r) \/ Notify(r)
  \/ CommitReport(r) \/ CommitReview(r)

Environment ==
  \/ \E y \in Payments, i \in IntentIds, v \in PaymentStatuses \ {"none"} : BeginPayment(y, i, v)
  \/ \E y \in Payments, v \in {"rejected", "approved"} : DecidePayment(y, v)
  \/ Tick

Next ==
  \/ \E r \in Requests : Start(r) \/ Acquire(r) \/ Work(r) \/ CutShort(r) \/ LoseLock(r)
  \/ Environment

Spec == Init /\ [][Next]_vars

\* A request that is served goes on to its end: a waiter gets its advisory lock
\* because PostgreSQL queues the waiters of a lock.
Fairness == \A r \in Requests : WF_vars(Work(r)) /\ SF_vars(Acquire(r))

\* The processor repeats a notification until it is answered with success.
Redelivery == \A y \in Payments : SF_vars(\E r \in Requests : StartNotification(r, y))

FairSpec == Spec /\ Fairness /\ Redelivery

----------------------------------------------------------------------------
(* Properties *)

RequestRow == [op : Operations, pc : LockedPcs \cup UnlockedPcs,
               proposal : Proposals \cup {None}, payment : Payments \cup {None},
               verdict : PaymentStatuses, intent : 0..MaxIntents, at : 0..MaxTime,
               expiresOn : 0..(MaxTime + CheckoutValidity), order : OrderRow,
               lost : BOOLEAN]

IntentRow == [proposal : Proposals \cup {None}, purpose : Purposes, status : IntentStatuses,
              expiresOn : 0..(MaxTime + CheckoutValidity)]

PaymentRow == [intent : 0..MaxIntents, status : PaymentStatuses]

\* Every table and every request keeps to its type.
TypeOK ==
  /\ now \in Instants
  /\ proposal \in [Proposals -> {"pending", "accepted"}]
  /\ intent \in [IntentIds -> IntentRow]
  /\ txn \in [Payments -> 0..MaxIntents]
  /\ order \in [Proposals -> OrderRow]
  /\ notices \in [Payments -> 0..2]
  /\ payment \in [Payments -> PaymentRow]
  /\ req \in [Requests -> RequestRow]
  /\ failures \in 0..MaxFailures
  /\ unlocked \subseteq Payments

\* y was recorded as an approved payment for this obligation of proposal p.
PaysFor(y, p, purpose) ==
  /\ txn[y] \in IntentIds
  /\ intent[txn[y]].proposal = p /\ intent[txn[y]].purpose = purpose

\* BookingContract's state: an order whose balance was recorded is settled, even
\* while a stale report makes its row read otherwise.
PhaseOf(p) ==
  IF order[p].status = "none" THEN "offered"
  ELSE IF \E y \in Payments : PaysFor(y, p, "service_balance") THEN "settled"
  ELSE IF order[p].status = "scheduled" THEN "booked" ELSE "reported"

Contract == INSTANCE BookingContract WITH
  phase <- [p \in Proposals |-> PhaseOf(p)],
  deposit <- [p \in Proposals |-> {y \in Payments : PaysFor(y, p, "booking_deposit")}]

\* The handlers implement the abstract contract.
ImplementsContract == Contract!Spec

\* A proposal is accepted exactly when it has a work order, and exactly when a
\* deposit was recorded for it: no crash and no race between two payments of
\* the same checkout leaves one of the three without the others.
BookedAtomically ==
  \A p \in Proposals :
    /\ proposal[p] = "accepted" <=> order[p].status # "none"
    /\ order[p].status # "none" <=> \E y \in Payments : PaysFor(y, p, "booking_deposit")

\* A proposal is booked with one deposit: when two payments are approved for it
\* at the same time, under different advisory locks, only one is recorded.
OneDepositPerProposal ==
  \A p \in Proposals : \A y, z \in Payments :
    PaysFor(y, p, "booking_deposit") /\ PaysFor(z, p, "booking_deposit") => y = z

\* Accepted proposal, work order and a single deposit come together.
BookedByOneDeposit == BookedAtomically /\ OneDepositPerProposal

\* A proposal never has two live intents for the same obligation, whatever
\* stale copies the checkouts and the notifications write back.
OneActiveIntent ==
  \A p \in Proposals, u \in Purposes : \A i, j \in Of(p, u) :
    intent[i].status \in ActiveStatuses /\ intent[j].status \in ActiveStatuses => i = j

\* An intent reads as paid only after a payment was recorded for it.
PaidIntentIsBacked ==
  \A i \in IntentIds : intent[i].status = "paid" => \E y \in Payments : txn[y] = i

\* However stale the copies that are written, the intents of an obligation agree
\* with one another and with the transactions.
IntentsAgree == OneActiveIntent /\ PaidIntentIsBacked

\* A work order reads as paid only with the provider's report and a recorded
\* payment of the balance.
PaidOrderIsBacked ==
  \A p \in Proposals : order[p].status = "paid" =>
    /\ order[p].report # NoReport
    /\ \E y \in Payments : PaysFor(y, p, "service_balance")

\* However often a notification of a payment is delivered, by however many
\* replicas, the payment is applied once: one notification row if and only if
\* there is a transaction.  A notification that lost its lock may apply a balance
\* a second time, but never a deposit.
AppliedOnce ==
  \A y \in Payments :
    /\ notices[y] = 0 <=> txn[y] = 0
    /\ notices[y] > 1 => y \in unlocked /\ intent[txn[y]].purpose = "service_balance"

\* What is recorded of payments agrees with what they were for.
PaymentsAreBacked == PaidOrderIsBacked /\ AppliedOnce

\* Saving a work order never loses its evidence: once there is a completion
\* report there always is one, and a review stays.
EvidencePersists ==
  [][\A p \in Proposals :
       /\ order[p].report # NoReport => order'[p].report # NoReport
       /\ order[p].review => order'[p].review]_vars

\* An approved deposit is recorded in the end, whatever fails on the way, unless
\* its intent is closed before (rejected or expired), another payment books the
\* proposal, or the service's time comes.
ApprovedIsRecorded ==
  \A y \in Payments : payment[y].status = "approved" ~>
    \/ txn[y] # 0
    \/ \E i \in IntentIds : /\ i = payment[y].intent
                              /\ \/ intent[i].status \in {"rejected", "expired"}
                                 \/ proposal[intent[i].proposal] = "accepted"
    \/ now >= ScheduledOn
=============================================================================
