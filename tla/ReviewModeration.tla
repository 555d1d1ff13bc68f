---------------------------- MODULE ReviewModeration ----------------------------
(***************************************************************************)
(* The moderation of one review: AdminReviewService.Get and Moderate by     *)
(* operators, ReportReviewService.Report by the provider it is about, and   *)
(* the unit of work, which locks the review's row and reads it again.       *)
(* Reviews share nothing.                                                   *)
(***************************************************************************)
EXTENDS Integers, Sequences, FiniteSets

CONSTANTS
  Moderators,    \* requests about the review that run at once
  MaxDecisions   \* bound: decisions about it

ASSUME ModerationAssumption == MaxDecisions \in Nat

VARIABLES
  review,     \* its row in work_order_reviews; hiding is the decision it is hidden by
  report,     \* its row in review_reports: there is one at most
  decisions,  \* review_decisions, in the order of their ids
  moderating, \* what each request is doing
  unseen      \* history: reports that were stored while the review was hidden

rvars == <<review, report, decisions, moderating, unseen>>

Actions == {"hide", "unhide", "dismiss_reports"}

\* What was posted: the version it expects and whether it names the report.
NoInput == [action |-> "hide", expected |-> 0, reported |-> FALSE]
NewReview == [visible |-> TRUE, version |-> 1, hiding |-> 0]
Resting(pc) == [pc |-> pc, input |-> NoInput, read |-> NewReview, report |-> "none", shown |-> 0]

----------------------------------------------------------------------------
(* An operator looks and decides *)

\* FindByID: review, report and decisions in one snapshot; the access is audited.
ReadDetail(m) ==
  /\ moderating[m] = Resting("idle")
  /\ moderating' = [moderating EXCEPT ![m] =
       [Resting("shown") EXCEPT !.read = review, !.report = report, !.shown = Len(decisions)]]
  /\ UNCHANGED <<review, report, decisions, unseen>>

\* Normalize: what each action may name.
IsWellFormed(input) ==
  /\ input.action = "unhide" => ~input.reported
  /\ input.action = "dismiss_reports" => input.reported

\* The operator posts a decision about the version and the report that were shown.
Post(m, action, reported) ==
  LET input == [action |-> action, expected |-> moderating[m].read.version, reported |-> reported] IN
  /\ moderating[m].pc = "shown"
  /\ reported => moderating[m].report # "none"
  /\ IsWellFormed(input)
  /\ moderating' = [moderating EXCEPT ![m] =
       [Resting("posted") EXCEPT !.input = input, !.shown = moderating[m].shown]]
  /\ UNCHANGED <<review, report, decisions, unseen>>

----------------------------------------------------------------------------
(* The unit of work *)

Holds(m) == moderating[m].pc \in {"deciding", "reporting"}

\* Mutant: the row is read without a lock.
IsUnlocked_Always == TRUE
\* SELECT ... FOR UPDATE waits for the transaction that holds the row.
IsUnlocked == \A m \in Moderators : ~Holds(m)

\* Mutant: the version is not compared.
IsSameVersion_Always(input, r) == TRUE
IsSameVersion(input, r) == r.version = input.expected

\* Review.Moderate.
MayDecide(input, r, status) ==
  /\ IsSameVersion(input, r)
  /\ input.reported => status = "pending"
  /\ input.action = "unhide" => ~r.visible /\ r.hiding > 0
  /\ input.action = "hide" => r.visible \/ input.reported

\* FindReview and FindReport in the transaction; what is refused rolls back.
LockReview(m) ==
  /\ moderating[m].pc = "posted" /\ IsUnlocked
  /\ moderating' = [moderating EXCEPT ![m] =
       IF MayDecide(@.input, review, report)
         THEN [@ EXCEPT !.pc = "deciding", !.read = review, !.report = report]
         ELSE Resting("idle")]
  /\ UNCHANGED <<review, report, decisions, unseen>>

\* The decision that Moderate returns.
DecisionOf(m) ==
  LET input == moderating[m].input IN
  [action   |-> input.action,
   reported |-> input.reported,
   previous |-> IF input.action = "unhide" THEN moderating[m].read.hiding ELSE 0,
   shown    |-> moderating[m].shown]

\* Mutant: a review that is hidden again keeps its first hiding decision.
Hiding_First(r, action, id) ==
  CASE action = "hide" /\ r.hiding = 0 -> id [] action = "unhide" -> 0 [] OTHER -> r.hiding
Hiding(r, action, id) ==
  CASE action = "hide" -> id [] action = "unhide" -> 0 [] OTHER -> r.hiding

\* Moderate and AssociateDecision.
Moderated(r, action, id) ==
  [visible |-> IF action = "dismiss_reports" THEN r.visible ELSE action = "unhide",
   version |-> r.version + 1,
   hiding  |-> Hiding(r, action, id)]

\* Uphold and Dismiss.
Settled(action) == IF action = "hide" THEN "upheld" ELSE "dismissed"

\* Decision, review, report and audit event are committed together.
CommitDecision(m) ==
  LET input == moderating[m].input IN
  /\ moderating[m].pc = "deciding"
  /\ Len(decisions) < MaxDecisions
  /\ decisions' = Append(decisions, DecisionOf(m))
  /\ review' = Moderated(moderating[m].read, input.action, Len(decisions) + 1)
  /\ report' = IF input.reported THEN Settled(input.action) ELSE report
  /\ moderating' = [moderating EXCEPT ![m] = Resting("idle")]
  /\ UNCHANGED unseen

\* ReportReviewService.Report up to its insert.
LockForReport(m) ==
  /\ moderating[m] = Resting("idle") /\ IsUnlocked
  /\ review.visible /\ report = "none"
  /\ moderating' = [moderating EXCEPT ![m] = [Resting("reporting") EXCEPT !.read = review]]
  /\ UNCHANGED <<review, report, decisions, unseen>>

\* The unique constraint admits one report of a review.
CommitReport(m) ==
  /\ moderating[m].pc = "reporting" /\ report = "none"
  /\ report' = "pending"
  /\ unseen' = unseen + (IF review.visible THEN 0 ELSE 1)
  /\ moderating' = [moderating EXCEPT ![m] = Resting("idle")]
  /\ UNCHANGED <<review, decisions>>

\* The operator leaves, a statement or the commit fails, or the process dies: the
\* transaction is rolled back.
AbandonReview(m) ==
  /\ moderating[m] # Resting("idle")
  /\ moderating' = [moderating EXCEPT ![m] = Resting("idle")]
  /\ UNCHANGED <<review, report, decisions, unseen>>

ModerationInit ==
  /\ review = NewReview /\ report = "none" /\ decisions = <<>>
  /\ moderating = [m \in Moderators |-> Resting("idle")]
  /\ unseen = 0

ModerationNext ==
  \E m \in Moderators :
    \/ ReadDetail(m)
    \/ \E action \in Actions, reported \in BOOLEAN : Post(m, action, reported)
    \/ LockReview(m) \/ CommitDecision(m)
    \/ LockForReport(m) \/ CommitReport(m)
    \/ AbandonReview(m)

ModerationSpec == ModerationInit /\ [][ModerationNext]_rvars

----------------------------------------------------------------------------
(* Properties *)

\* Decision i hides the review after the first k: the last hide, unless the review was
\* shown again after it.
Hides(history, i, k) ==
  /\ history[i].action = "hide"
  /\ \A j \in (i + 1)..k : history[j].action = "dismiss_reports"
HidingAfter(history, k) ==
  IF \E i \in 1..k : Hides(history, i, k) THEN CHOOSE i \in 1..k : Hides(history, i, k) ELSE 0

\* Each decision was taken by an operator who had been shown all the earlier ones.
EachWasInformed == \A k \in 1..Len(decisions) : decisions[k].shown = k - 1

\* What is hidden, and by which decision, is what the recorded decisions say; an
\* unhide names the decision that it undoes.
HidingIsRecorded ==
  /\ review.version = Len(decisions) + 1
  /\ review.hiding = HidingAfter(decisions, Len(decisions))
  /\ review.visible <=> review.hiding = 0
  /\ \A k \in 1..Len(decisions) :
       decisions[k].action = "unhide" =>
         decisions[k].previous = HidingAfter(decisions, k - 1) /\ decisions[k].previous > 0

\* A report is settled by one decision, and reads as that decision did.
ReportIsSettledOnce ==
  LET settling == {k \in 1..Len(decisions) : decisions[k].reported} IN
  /\ \A i, k \in settling : i = k
  /\ report \in {"none", "pending"} <=> settling = {}
  /\ \A k \in settling : report = Settled(decisions[k].action)

\* Operators and the provider act on one review at once, from pages they opened
\* before: the decisions that are stored make up one history, in which each was taken
\* knowing the others, and no report was stored of a review that was hidden.
ModerationIsInformed ==
  EachWasInformed /\ HidingIsRecorded /\ ReportIsSettledOnce /\ unseen = 0
=============================================================================
