------------------------------ MODULE WorkOrder ------------------------------
(***************************************************************************)
(* The work order aggregate (domain/work_order/state.go, work_order.go and *)
(* restore_factory.go) over its row, with the columns the state classes    *)
(* are made of: the status, the completion report, paid_on and the review. *)
(***************************************************************************)
EXTENDS Naturals
CONSTANTS
  Reports,   \* completion reports a provider may submit
  NoReport   \* no row in work_order_completion_reports

ASSUME NoReportAssumption == NoReport \notin Reports

OrderStatuses == {"none", "scheduled", "awaiting_payment", "paid"}

OrderRow == [status : OrderStatuses, report : Reports \cup {NoReport},
             paidOn : BOOLEAN, review : BOOLEAN]

\* No row for this proposal.
NoOrder == [status |-> "none", report |-> NoReport, paidOn |-> FALSE, review |-> FALSE]

\* workorder.New: the initial state is scheduledState.
NewOrder == [NoOrder EXCEPT !.status = "scheduled"]

\* RestoreFactory.Restore refuses every other combination of columns.
Restorable(row) ==
  \/ row.status = "scheduled" /\ row.report = NoReport /\ ~row.paidOn /\ ~row.review
  \/ row.status = "awaiting_payment" /\ row.report # NoReport /\ ~row.review
  \/ row.status = "paid" /\ row.report # NoReport /\ row.paidOn

\* scheduledState.reportCompletion and its refusals in the other states.
MayReport(row) == Restorable(row) /\ row.status = "scheduled"
WithReport(row, report) == [row EXCEPT !.status = "awaiting_payment", !.report = report,
                                       !.paidOn = FALSE]

\* authorizeBalanceCheckout, registerApprovedBalancePayment.
MayPayBalance(row) == Restorable(row) /\ row.status = "awaiting_payment"
\* Mutant: the paid state is built without the report.
WithPayment_NoReport(row) == [NewOrder EXCEPT !.status = "paid", !.paidOn = TRUE]
WithPayment(row) == [row EXCEPT !.status = "paid", !.paidOn = TRUE]

\* paidState.addReview.
MayReview(row) == Restorable(row) /\ row.status = "paid" /\ ~row.review
WithReview(row) == [row EXCEPT !.review = TRUE]

\* WorkOrderRepository.saveWithTx on an existing order: every column but the
\* review's is overwritten with the aggregate's; a review row is only ever
\* inserted, by the aggregate that carries a new one.
Saved(stored, aggregate, newReview) ==
  [aggregate EXCEPT !.review = stored.review \/ newReview]
=============================================================================
