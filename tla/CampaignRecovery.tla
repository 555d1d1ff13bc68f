----------------------------- MODULE CampaignRecovery -----------------------------
(***************************************************************************)
(* Recovery of a finished campaign run (cmd/evals campaign-recover): slots *)
(* whose last attempt got no response are asked again, within the campaign's *)
(* ceiling, and the answers are laid over the journal, which stays as it is. *)
(* The run is EvalRun's; a campaign's other runs add slots of the same kind. *)
(***************************************************************************)
EXTENDS EvalRun

CONSTANTS
  MaxPerSlot,   \* max_attempts_per_original_slot, the original included
  MaxTotal,     \* max_recovery_attempts_total
  HardCeiling   \* the campaign's ceiling, in the units of Reserve

ASSUME RecoveryAssumption ==
  /\ MaxPerSlot \in 2..5 /\ MaxTotal \in Nat \ {0} /\ HardCeiling \in Nat
  /\ \A p \in Plans : p.guarded => p.slots * Reserve <= HardCeiling

VARIABLES
  recovery,  \* stage, slot being asked and its next attempt
  overlay,   \* recovery attempts of each slot
  spending,  \* the recovery's own CampaignBudgetGuard
  recoveryBilled  \* history: what the recovery's requests may have cost

rvars == <<recovery, overlay, spending, recoveryBilled>>
allVars == <<vars, rvars>>

NoRecovery == [stage |-> "none", slot |-> 0, number |-> 0]

\* Mutant: a content that cannot be read is asked for again.
IsTransient_Malformed(outcome) == outcome \in {"unavailable", "malformed"}
\* RecoverableNoResponse: a request was sent and nothing came back in time.
IsTransient(outcome) == outcome = "unavailable"

\* collectRecoveryCandidates.
Terminal(slot) == Last(journal[slot]).outcome
Targets == {slot \in 1..Slots : IsTransient(Terminal(slot))}

\* The targets after the current one, in the order of their keys.
Later == {slot \in Targets : recovery.slot < slot}

\* campaignRecoveryAttemptLimits: attempts are the same for every slot.
PerSlot == Min({MaxTotal \div Cardinality(Targets), MaxPerSlot - 1})

\* A run with a transient failure has no complete usage: all it reserved is spent.
Prior == Slots * Reserve
IsAffordable == Prior + Cardinality(Targets) * PerSlot * Reserve <= HardCeiling

\* prepareCampaignRecovery, from a campaign whose run finished and whose evidence
\* was written.
Prepare ==
  /\ coordinator = "finished" /\ plan.guarded /\ recovery.stage = "none"
  /\ Targets # {}
  /\ PerSlot > 0 /\ IsAffordable
  /\ recovery' = [stage |-> "dispatching", slot |-> Min(Targets), number |-> 1]
  /\ UNCHANGED <<vars, overlay, spending, recoveryBilled>>

\* Where the loop goes after an attempt that sent its request.
After(outcome) ==
  IF outcome \in Stops \cup {"rate_limited"} THEN [recovery EXCEPT !.stage = "ended"]
  ELSE IF IsTransient(outcome) /\ recovery.number < PerSlot THEN [recovery EXCEPT !.number = recovery.number + 1]
  ELSE IF Later # {} THEN [recovery EXCEPT !.slot = Min(Later), !.number = 1]
  ELSE [recovery EXCEPT !.stage = "ended"]

RecoverySettled(outcome) ==
  LET reserved == spending.spent + Reserve IN
  [spent |-> IF outcome \in {"executed", "malformed"} THEN reserved - Reserve + CostOf(outcome) ELSE reserved,
   exhausted |-> outcome = "overrun"]

\* One attempt of the current target: its request, its answer and its own file.  When
\* the file cannot be written, or the process dies, the recovery has failed.
Ask ==
  /\ recovery.stage = "dispatching"
  /\ ~spending.exhausted /\ spending.spent + Reserve <= HardCeiling - Prior
  /\ \E outcome \in Answers :
       /\ spending' = RecoverySettled(outcome)
       /\ recoveryBilled' = recoveryBilled + CostOf(outcome)
       /\ \/ /\ overlay' = [overlay EXCEPT ![recovery.slot] =
                  Append(overlay[recovery.slot], [number |-> recovery.number, outcome |-> outcome])]
             /\ recovery' = After(outcome)
          \/ /\ recovery' = [recovery EXCEPT !.stage = "failed"]
             /\ UNCHANGED overlay
  /\ UNCHANGED vars

\* The dispatch stops before a request: the context is over, or the attempt is
\* refused without one.  What was answered so far is kept.
StopDispatch ==
  /\ recovery.stage = "dispatching"
  /\ recovery' = [recovery EXCEPT !.stage = "ended"]
  /\ UNCHANGED <<vars, overlay, spending, recoveryBilled>>

\* ValidateRecovery, on an overlay of the journal.
IsAccepted ==
  \A slot \in 1..Slots :
    /\ overlay[slot] # <<>> => slot \in Targets
    /\ \A k \in 1..Len(overlay[slot]) :
         /\ overlay[slot][k].number = k /\ k <= PerSlot
         /\ k < Len(overlay[slot]) => IsTransient(overlay[slot][k].outcome)

\* finalizeRecoveryEvidence: the overlay is validated and written once.
Finalize ==
  /\ recovery.stage = "ended"
  /\ recovery' = [recovery EXCEPT !.stage = IF IsAccepted THEN "written" ELSE "failed"]
  /\ UNCHANGED <<vars, overlay, spending, recoveryBilled>>

\* EffectiveRecoveryAttempts: the first answer, or the last failure.
Executed(slot) == {k \in 1..Len(overlay[slot]) : StatusOf(overlay[slot][k].outcome) = "executed"}
Effective(slot) ==
  IF overlay[slot] = <<>> \/ ~IsTransient(Terminal(slot)) THEN Terminal(slot)
  ELSE IF Executed(slot) # {} THEN overlay[slot][Min(Executed(slot))].outcome
  ELSE Last(overlay[slot]).outcome

----------------------------------------------------------------------------
Init ==
  /\ RunInit
  /\ recovery = NoRecovery /\ spending = NewGuard /\ recoveryBilled = 0
  /\ overlay = [slot \in 1..Slots |-> <<>>]

Next ==
  \/ RunNext /\ UNCHANGED rvars
  \/ Prepare \/ Ask \/ StopDispatch \/ Finalize

CampaignSpec == Init /\ [][Next]_allVars /\ RunFairness

----------------------------------------------------------------------------
(* Properties *)

\* Whatever stops a recovery, its own validator accepts what it has recorded.
RecordedIsAccepted == recovery.stage # "none" => IsAccepted

\* The provider's content is asked for until it comes and never again, neither by the
\* run's retries nor by a recovery, and the one that came is the effective one.
WithContent == {"executed", "unmetered", "malformed", "overrun"}
Contents(slot) ==
  {<<"run", k>> : k \in {j \in 1..Len(journal[slot]) : journal[slot][j].outcome \in WithContent}} \cup
  {<<"recovery", k>> : k \in {j \in 1..Len(overlay[slot]) : overlay[slot][j].outcome \in WithContent}}
ContentIsFinal ==
  \A slot \in 1..Slots :
    /\ Cardinality(Contents(slot)) <= 1
    /\ recovery.stage = "written" /\ Contents(slot) # {} => Effective(slot) \in WithContent

\* A campaign's run, whose plan has no retries, can be replayed when it finished, however
\* its lanes stopped.  (A run that failed is refused as incomplete.)
CampaignRunReplays == coordinator = "finished" /\ plan.guarded => IsReplayable(journal)

\* The evidence of a campaign is what its readers accept: the journal of its finished run
\* can be replayed, the overlay of its recovery is valid, and there is one content of each
\* slot.  Of the finished runs with retries, replay refuses those that repeated an attempt
\* that sent nothing, and no other.
CampaignEvidenceIsAccepted ==
  CampaignRunReplays /\ RefusedIfRepeatedUnsent /\ RecordedIsAccepted /\ ContentIsFinal

\* The run and its recovery together stay under the campaign's ceiling, unless an
\* answer was beyond the bounds.
CampaignStaysUnderCeiling ==
  plan.guarded /\ ~guard.exhausted /\ ~spending.exhausted => billed + recoveryBilled <= HardCeiling

\* A recovery makes no more requests than its addendum allows in all.
Recoveries == UNION {{slot} \X DOMAIN overlay[slot] : slot \in 1..Slots}
RecoveryIsCapped == Cardinality(Recoveries) <= MaxTotal

\* What was asked for never costs more than what was set aside for it: the lanes' guard
\* covers its requests, and run and recovery keep to ceiling and cap.
BudgetHolds == SpendIsCovered /\ CampaignStaysUnderCeiling /\ RecoveryIsCapped

\* Every request that left is recorded, so that a crash loses one of a lane at most, and
\* paid for under the ceilings.
RequestsAreAccounted == RequestsAreRecorded /\ BudgetHolds
=============================================================================
