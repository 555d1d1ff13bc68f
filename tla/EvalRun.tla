------------------------------- MODULE EvalRun -------------------------------
(***************************************************************************)
(* One live run of the chatbot evaluations: evals.runConcurrent with its   *)
(* lanes, the request a lane sends through limitedTransport, the campaign's *)
(* budget guard and the journal that the coordinator alone writes.         *)
(*                                                                         *)
(* A slot is one trial of one case.  BuildPlan admits a plan only when all *)
(* its retries fit the request limit, so the counters of that limit never  *)
(* refuse and are left out; so is the pacing of lanes.                     *)
(***************************************************************************)
EXTENDS Integers, Sequences, FiniteSets, SequencesExt

CONSTANTS
  LaneCount,    \* project lanes, one per key
  Concurrency,  \* limits.Concurrency
  Plans,        \* plans: slots, retries, and whether a campaign's guard watches them
  Reserve       \* what the guard reserves for a request

ASSUME ConstantsAssumption ==
  /\ Plans \subseteq [slots: Nat \ {0}, retries: Nat, guarded: BOOLEAN]
  /\ \A p \in Plans : p.guarded => p.retries = 0
  /\ Reserve \in Nat \ {0}
  /\ LaneCount \in Nat \ {0} /\ Concurrency \in 2..LaneCount  \* one is runner.go's own loop

Lanes == 1..LaneCount

VARIABLES
  plan,         \* the run's plan
  coordinator,  \* "top" of its loop, "waiting" for an event, "finished" or "failed"
  next,         \* slots handed out
  available,    \* free lanes, oldest first
  lane,         \* what each lane does
  stopped,      \* stopReason is set
  writable,     \* there is no journalErr
  dispatchStopped, cancelled,  \* the flag of the lanes; the run's context is over
  journal,      \* attempts.jsonl, slot by slot
  guard,        \* CampaignBudgetGuard
  sent, billed  \* history: requests that left, and what they may have cost

Slots == plan.slots

vars == <<plan, coordinator, next, available, lane, stopped, writable, dispatchStopped,
          cancelled, journal, guard, sent, billed>>

\* What may become of an attempt: without a request,
Undispatched == {"cancelled", "dispatch_stopped", "budget_exhausted", "timed_out_unsent"}
Unsent == Undispatched \cup {"asset_error"}
\* or with one: a response with or without its usage, one whose usage is beyond the
\* bounds, one that cannot be read, no response (503 or a timeout), another failure
\* of the provider or the network, or its refusal.
Answers == {"executed", "unmetered", "overrun", "malformed", "unavailable", "failed", "rate_limited", "refused"}

\* classifyExecutionError.
Stops == {"dispatch_stopped", "budget_exhausted", "overrun", "refused"}
Retryable == {"unavailable", "failed", "timed_out_unsent"}
StatusOf(outcome) ==
  CASE outcome \in {"executed", "unmetered"} -> "executed"
    [] outcome = "asset_error" -> "asset_error"
    [] outcome \in Undispatched -> "not_executed"
    [] OTHER -> "execution_error"

\* The most a request may have cost, known or not.
CostOf(outcome) ==
  CASE outcome \in {"executed", "malformed"} -> 1
    [] outcome \in {"unmetered", "unavailable", "failed"} -> Reserve
    [] outcome = "overrun" -> Reserve + 1
    [] OTHER -> 0

Entry(retry, outcome) == [retry |-> retry, outcome |-> outcome]

Ceiling == Slots * Reserve  \* the least that PreflightCampaignBudget admits
NewGuard == [spent |-> 0, exhausted |-> FALSE]

IdleLane == [pc |-> "idle", slot |-> 0, retry |-> 0, outcome |-> "none"]
Busy == {l \in Lanes : lane[l].pc \notin {"idle", "stopped"}}

----------------------------------------------------------------------------
(* The coordinator *)

\* How many slots the top of the loop hands out.
Dispatched ==
  IF stopped \/ cancelled THEN 0
  ELSE Min({Slots - next, Len(available), Concurrency - Cardinality(Busy)})

\* Mutant: only a run without slots left is over.
IsOver_NoSlotsLeft == Busy = {} /\ (next = Slots \/ stopped \/ cancelled)
IsOver == Busy = {} /\ Dispatched = 0

HandedOut(l) == {k \in 1..Dispatched : available[k] = l}

\* The top of the loop, when lanes are or will be at work.
Dispatch ==
  /\ coordinator = "top" /\ ~IsOver
  /\ stopped' = (stopped \/ cancelled)
  /\ lane' = [l \in Lanes |->
       IF HandedOut(l) = {} THEN lane[l]
       ELSE [IdleLane EXCEPT !.pc = "ready", !.slot = next + Min(HandedOut(l))]]
  /\ next' = next + Dispatched
  /\ available' = SubSeq(available, Dispatched + 1, Len(available))
  /\ coordinator' = "waiting"
  /\ UNCHANGED <<plan, writable, dispatchStopped, cancelled, journal, guard, sent, billed>>

\* Mutant: a slot keeps its last attempt only.
Journaled_LastOnly(slot, e) == [journal EXCEPT ![slot] = <<e>>]
\* Journal.Append.
Journaled(slot, e) == [journal EXCEPT ![slot] = Append(journal[slot], e)]

\* An attempt's event: it is written, or the journal fails for good, and acknowledged.
Take(l) ==
  /\ coordinator = "waiting" /\ lane[l].pc = "reported"
  /\ \E written \in IF writable THEN BOOLEAN ELSE {FALSE} :
       /\ journal' = IF written THEN Journaled(lane[l].slot, Entry(lane[l].retry, lane[l].outcome)) ELSE journal
       /\ writable' = written
       /\ cancelled' = (cancelled \/ ~written)
       /\ stopped' = (stopped \/ ~written \/ lane[l].outcome \in Stops)
  /\ dispatchStopped' = (dispatchStopped \/ lane[l].outcome \in Stops)
  /\ lane' = [lane EXCEPT ![l] = [lane[l] EXCEPT !.pc = "acknowledged"]]
  /\ coordinator' = "top"
  /\ UNCHANGED <<plan, next, available, guard, sent, billed>>

\* A lane's last event of a slot.
TakeFinished(l) ==
  /\ coordinator = "waiting" /\ lane[l].pc = "finished"
  /\ LET leaves == lane[l].outcome = "rate_limited" IN
       /\ lane' = [lane EXCEPT ![l] = [IdleLane EXCEPT !.pc = IF leaves THEN "stopped" ELSE "idle"]]
       /\ available' = IF leaves THEN available ELSE Append(available, l)
  /\ coordinator' = "top"
  /\ UNCHANGED <<plan, next, stopped, writable, dispatchStopped, cancelled, journal, guard, sent, billed>>

\* Mutant: slots that were not handed out stay out of the journal.
ClosedTo_Omitted(m) == journal
\* Slots that were not handed out are written as not_executed, up to slot m.
ClosedTo(m) == [slot \in 1..Slots |-> IF slot \in (next + 1)..m THEN <<Entry(0, "cancelled")>> ELSE journal[slot]]

\* The loop is over: what is left is not_executed, the run is finished and its
\* journal hashed, unless the journal fails, or failed before.
Finish ==
  /\ coordinator = "top" /\ IsOver
  /\ \/ /\ writable
        /\ journal' = ClosedTo(Slots) /\ coordinator' = "finished"
     \/ /\ \E m \in IF writable THEN next..Slots ELSE {next} : journal' = ClosedTo(m)
        /\ coordinator' = "failed"
  /\ cancelled' = TRUE
  /\ UNCHANGED <<plan, next, available, lane, stopped, writable, dispatchStopped, guard, sent, billed>>

\* limits.GlobalTimeout, or the operator's interrupt.
TimeOutRun ==
  /\ coordinator \in {"top", "waiting"} /\ ~cancelled
  /\ cancelled' = TRUE
  /\ UNCHANGED <<plan, coordinator, next, available, lane, stopped, writable, dispatchStopped,
                 journal, guard, sent, billed>>

----------------------------------------------------------------------------
(* A lane *)

Report(l, outcome) ==
  lane' = [lane EXCEPT ![l] = [lane[l] EXCEPT !.pc = "reported", !.outcome = outcome]]

\* The checks before an attempt.
Begin(l) ==
  /\ lane[l].pc = "ready"
  /\ IF cancelled THEN Report(l, "cancelled")
     ELSE IF dispatchStopped THEN Report(l, "dispatch_stopped")
     ELSE lane' = [lane EXCEPT ![l] = [lane[l] EXCEPT !.pc = "calling"]]
  /\ UNCHANGED <<plan, coordinator, next, available, stopped, writable, dispatchStopped, cancelled,
                 journal, guard, sent, billed>>

\* Mutant: a guard that was exhausted still admits requests.
Admits_Exhausted == plan.guarded => guard.spent + Reserve <= Ceiling
\* Reserve, at once before the request.
Admits == plan.guarded => ~guard.exhausted /\ guard.spent + Reserve <= Ceiling

\* The attempt ends before its request: its context or the run's is over, the guard
\* refuses, or its input cannot be built.
Refuse(l) ==
  /\ lane[l].pc = "calling"
  /\ \/ cancelled /\ Report(l, "cancelled")
     \/ ~Admits /\ Report(l, "budget_exhausted")
     \/ Report(l, "timed_out_unsent")
     \/ Report(l, "asset_error")
  /\ UNCHANGED <<plan, coordinator, next, available, stopped, writable, dispatchStopped, cancelled,
                 journal, guard, sent, billed>>

\* RoundTrip.
Send(l) ==
  /\ lane[l].pc = "calling" /\ ~cancelled /\ Admits
  /\ guard' = IF plan.guarded THEN [guard EXCEPT !.spent = guard.spent + Reserve] ELSE guard
  /\ lane' = [lane EXCEPT ![l] = [lane[l] EXCEPT !.pc = "sent"]]
  /\ sent' = sent + 1
  /\ UNCHANGED <<plan, coordinator, next, available, stopped, writable, dispatchStopped, cancelled,
                 journal, billed>>

\* Mutant: unknown usage costs nothing.
Settled_UnknownIsFree(outcome) ==
  IF outcome \in {"executed", "malformed"} THEN [guard EXCEPT !.spent = guard.spent - Reserve + CostOf(outcome)]
  ELSE IF outcome = "overrun" THEN [guard EXCEPT !.exhausted = TRUE]
  ELSE [guard EXCEPT !.spent = guard.spent - Reserve]
\* RecordObserved, RecordUnknown: the reservation stays where usage is not known.
Settled(outcome) ==
  IF outcome \in {"executed", "malformed"} THEN [guard EXCEPT !.spent = guard.spent - Reserve + CostOf(outcome)]
  ELSE IF outcome = "overrun" THEN [guard EXCEPT !.exhausted = TRUE]
  ELSE guard

\* The answer, or its absence.  Without a guard nothing tells an overrun.
Answer(l) ==
  /\ lane[l].pc = "sent"
  /\ \E outcome \in IF plan.guarded THEN Answers ELSE Answers \ {"overrun"} :
       /\ Report(l, outcome)
       /\ guard' = IF plan.guarded THEN Settled(outcome) ELSE guard
       /\ billed' = billed + CostOf(outcome)
  /\ UNCHANGED <<plan, coordinator, next, available, stopped, writable, dispatchStopped, cancelled, journal, sent>>

\* runLane's conditions for another attempt.
Retries(l) ==
  /\ lane[l].retry < plan.retries
  /\ ~cancelled /\ ~dispatchStopped
  /\ lane[l].outcome \in Retryable

\* After the acknowledgement: another attempt, or the slot is finished.
Decide(l) ==
  /\ lane[l].pc = "acknowledged"
  /\ lane' = [lane EXCEPT ![l] =
       IF Retries(l) THEN [lane[l] EXCEPT !.pc = "ready", !.retry = lane[l].retry + 1, !.outcome = "none"]
       ELSE [lane[l] EXCEPT !.pc = "finished"]]
  /\ UNCHANGED <<plan, coordinator, next, available, stopped, writable, dispatchStopped, cancelled,
                 journal, guard, sent, billed>>

----------------------------------------------------------------------------
RunInit ==
  /\ plan \in Plans
  /\ coordinator = "top" /\ next = 0
  /\ available = [i \in Lanes |-> i]
  /\ lane = [l \in Lanes |-> IdleLane]
  /\ stopped = FALSE /\ writable = TRUE /\ dispatchStopped = FALSE /\ cancelled = FALSE
  /\ journal = [slot \in 1..Slots |-> <<>>] /\ guard = NewGuard /\ sent = 0 /\ billed = 0

RunNext ==
  \/ Dispatch \/ Finish \/ TimeOutRun
  \/ \E l \in Lanes :
       \/ Take(l) \/ TakeFinished(l)
       \/ Begin(l) \/ Refuse(l) \/ Send(l) \/ Answer(l) \/ Decide(l)

Spec == RunInit /\ [][RunNext]_vars

\* Every step but a timeout or a failure is taken: attempts have their own timeout.
RunFairness ==
  /\ WF_vars(Dispatch) /\ WF_vars(Finish)
  /\ \A l \in Lanes :
       /\ WF_vars(Begin(l)) /\ WF_vars(Refuse(l) \/ Send(l)) /\ WF_vars(Answer(l)) /\ WF_vars(Decide(l))
       /\ WF_vars(Take(l)) /\ WF_vars(TakeFinished(l))

----------------------------------------------------------------------------
(* Replay *)

\* validateRun's view of a journal: every slot is there, and its retries are numbered
\* from 0 and each follows an execution_error.
IsChain(attempts) ==
  \A k \in 1..Len(attempts) :
    /\ attempts[k].retry = k - 1
    /\ k > 1 => StatusOf(attempts[k - 1].outcome) = "execution_error"
IsReplayable(log) == \A slot \in 1..Slots : log[slot] # <<>> /\ IsChain(log[slot])

----------------------------------------------------------------------------
(* Properties *)

\* What evals/README.md says of replay: it evaluates the saved answers of a run, here of
\* one that finished.  A lane that repeats an attempt whose time was up before its request
\* left writes a journal that replay refuses.
FinishedRunReplays == coordinator = "finished" => IsReplayable(journal)

\* That is the only journal of a finished run that is refused.
RepeatedUnsent ==
  \E slot \in 1..Slots : \E k \in 1..(Len(journal[slot]) - 1) : journal[slot][k].outcome = "timed_out_unsent"
RefusedIfRepeatedUnsent == coordinator = "finished" => (IsReplayable(journal) <=> ~RepeatedUnsent)

\* While the journal can be written, a request is in it, or is the last one of a lane
\* that does nothing else: no more than one per lane is lost when the process dies.
Unrecorded == {l \in Lanes : lane[l].pc = "sent" \/ (lane[l].pc = "reported" /\ lane[l].outcome \in Answers)}
Recorded == UNION {{slot} \X {k \in DOMAIN journal[slot] : journal[slot][k].outcome \in Answers} : slot \in 1..Slots}
RequestsAreRecorded ==
  writable => sent = Cardinality(Unrecorded) + Cardinality(Recorded)

\* Unless an answer was beyond the bounds, the guard accounts for all that the requests
\* may have cost, those under way included, and for no more than its ceiling.
SpendIsCovered ==
  plan.guarded /\ ~guard.exhausted =>
    /\ billed + Reserve * Cardinality({l \in Lanes : lane[l].pc = "sent"}) <= guard.spent
    /\ guard.spent <= Ceiling

\* Once an answer was beyond the bounds no lane sends anything, not even one that had
\* passed the checks of its attempt.
NothingAfterOverrun == [][guard.exhausted => sent' = sent]_vars

\* A run ends, whatever stops its lanes.
RunEnds == <>(coordinator \in {"finished", "failed"})
=============================================================================
