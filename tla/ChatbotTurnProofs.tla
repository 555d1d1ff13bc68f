-------------------------- MODULE ChatbotTurnProofs --------------------------
(***************************************************************************)
(* Proofs about ChatbotTurn for any number of turns and any times.  While  *)
(* no turn overruns its interval, the processing flag excludes overlapping *)
(* turns, and under it the context never goes back and the newest version  *)
(* of the assessment is the current one; that the versions form a chain    *)
(* needs no such condition.                                                *)
(***************************************************************************)
EXTENDS ChatbotTurn, TLAPS

\* What the steps need to know of the types; TypeOK bounds them besides.
CopyRecords ==
  [pc: Pcs, startedOn: Nat, exchanges: Nat, summarized: Nat, current: Nat,
   reply: Replies, unsaved: Unsaved]

Types ==
  /\ now \in Nat \ {0} /\ flag \in Nat
  /\ exchanges \in Nat /\ summarized \in Nat /\ current \in Nat
  /\ turn \in [Turns -> CopyRecords]

Started(t) == turn[t].pc # "idle"

\* A started turn began at an instant before now and has not overrun.
InTime == \A t \in Turns : Started(t) =>
  /\ 0 < turn[t].startedOn /\ turn[t].startedOn < now
  /\ now <= turn[t].startedOn + StaleAfter

\* The start identifies the turn.
DistinctStarts == \A t, u \in Turns :
  Started(t) /\ Started(u) /\ turn[t].startedOn = turn[u].startedOn => t = u

\* The flag is the running turn's.
FlagIsOwn == \A t \in Turns : Running(t) => flag = turn[t].startedOn

Exclusion == InTime /\ DistinctStarts /\ FlagIsOwn

\* Nothing has summarised more exchanges than it holds, and none are lost.
SummaryIsOfStored ==
  /\ summarized <= exchanges
  /\ \A t \in Turns :
       turn[t].summarized <= turn[t].exchanges /\ turn[t].exchanges <= exchanges

\* The running turn's copy has summarised at least what the row has.
CopyIsAhead == \A t \in Turns : Running(t) => summarized <= turn[t].summarized

IInv ==
  /\ Types
  /\ late \/ Exclusion
  /\ SummaryIsOfStored
  /\ late \/ stale \/ CopyIsAhead

\* Every step keeps the types.
LEMMA TypesStep ==
  ASSUME Types, [Next]_vars
  PROVE  Types'
<1> USE ConstantsAssumption DEF Types, CopyRecords, Pcs, Replies, Unsaved, Idle, NotProcessing, End, Continue
<1>0. CASE UNCHANGED vars
  BY <1>0 DEF vars
<1>1. CASE Tick
  BY <1>1 DEF Tick, Advance
<1>2. ASSUME NEW t \in Turns, StartProcessing(t) PROVE Types'
  BY <1>2 DEF StartProcessing, Advance
<1>3. ASSUME NEW t \in Turns, Acquire(t) PROVE Types'
  BY <1>3 DEF Acquire
<1>4. ASSUME NEW t \in Turns, Summarize(t) PROVE Types'
  BY <1>4 DEF Summarize
<1>5. ASSUME NEW t \in Turns, SaveSummary(t) PROVE Types'
  BY <1>5 DEF SaveSummary
<1>6. ASSUME NEW t \in Turns, Answer(t) PROVE Types'
  BY <1>6 DEF Answer
<1>7. ASSUME NEW t \in Turns, Save(t) PROVE Types'
  BY <1>7 DEF Save, StoreTurn, KeepAssessment, ReplaceAssessment, WriteBack
<1>8. ASSUME NEW t \in Turns, SaveFails(t) PROVE Types'
  <2>1. PICK unsaved \in {"turn", "rolledBack"} :
          turn' = [turn EXCEPT ![t].pc = "finish", ![t].unsaved = unsaved]
    BY <1>8 DEF SaveFails
  <2>2. UNCHANGED <<now, flag, exchanges, summarized, current>>
    BY <1>8 DEF SaveFails
  <2>3. [turn[t] EXCEPT !.pc = "finish", !.unsaved = unsaved] \in CopyRecords
    OBVIOUS
  <2>4. QED
    BY <2>1, <2>2, <2>3
<1>9. ASSUME NEW t \in Turns, FinishProcessing(t) PROVE Types'
  BY <1>9 DEF FinishProcessing, StoreTurn, KeepAssessment, ReplaceAssessment, WriteBack
<1>10. ASSUME NEW t \in Turns, Crash(t) PROVE Types'
  BY <1>10 DEF Crash
<1>11. QED
  BY <1>0, <1>1, <1>2, <1>3, <1>4, <1>5, <1>6, <1>7, <1>8, <1>9, <1>10 DEF Next

\* While turns keep to their interval, an update the condition admits finds no
\* other turn running: its flag would be neither NULL, nor the updater's, nor stale.
LEMMA AdmittedAlone ==
  ASSUME Types, Exclusion, NEW t \in Turns, Started(t), FlagAdmits(t),
         NEW u \in Turns, Running(u)
  PROVE  u = t
<1>1. Started(u) /\ flag = turn[u].startedOn
  BY DEF Exclusion, FlagIsOwn, Running, Started
<1>2. turn[t].startedOn < now /\ now <= flag + StaleAfter /\ flag > 0
  BY <1>1 DEF Exclusion, InTime
<1>3. turn[t].startedOn \in Nat
  BY DEF Types, CopyRecords
<1>4. flag = turn[t].startedOn
  BY <1>2, <1>3, ConstantsAssumption DEF FlagAdmits, NotProcessing, Types
<1>5. QED
  BY <1>1, <1>4 DEF Exclusion, DistinctStarts

\* The same of a turn that is running itself.
LEMMA RunningAlone ==
  ASSUME Exclusion, NEW t \in Turns, Running(t), NEW u \in Turns, Running(u)
  PROVE  u = t
BY DEF Exclusion, FlagIsOwn, DistinctStarts, Running, Started

\* Every step keeps the exclusion, until a turn overruns.
LEMMA ExclusionStep ==
  ASSUME Types, Types', Exclusion, [Next]_vars, ~late'
  PROVE  Exclusion'
<1> USE DEF NotProcessing, Idle, Started, Running, Types, CopyRecords
<1>0. CASE UNCHANGED vars
  BY <1>0 DEF vars, Exclusion, InTime, DistinctStarts, FlagIsOwn
<1>1. CASE Tick
  <2>1. turn' = turn /\ flag' = flag /\ now' = now + 1
    BY <1>1 DEF Tick, Advance
  <2>2. \A t \in Turns : ~Overruns(t, now')
    BY <1>1 DEF Tick, Advance
  <2>3. InTime'
    BY <2>1, <2>2, ConstantsAssumption DEF Overruns, Exclusion, InTime
  <2>4. DistinctStarts' /\ FlagIsOwn'
    BY <2>1 DEF Exclusion, DistinctStarts, FlagIsOwn
  <2>5. QED
    BY <2>3, <2>4 DEF Exclusion
<1>2. ASSUME NEW t \in Turns, StartProcessing(t) PROVE Exclusion'
  <2>1. /\ turn'[t].pc = "acquire" /\ turn'[t].startedOn = now
        /\ \A u \in Turns \ {t} : turn'[u] = turn[u]
    BY <1>2 DEF StartProcessing
  <2>2. flag' = flag /\ now' = now + 1 /\ ~Started(t)
    BY <1>2 DEF StartProcessing, Advance
  <2>3. \A u \in Turns : ~Overruns(u, now')
    BY <1>2 DEF StartProcessing, Advance
  <2>4. InTime'
    BY <2>1, <2>2, <2>3, ConstantsAssumption DEF Overruns, Exclusion, InTime
  <2>5. DistinctStarts'
    BY <2>1 DEF Exclusion, InTime, DistinctStarts
  <2>6. FlagIsOwn'
    BY <2>1, <2>2 DEF Exclusion, FlagIsOwn
  <2>7. QED
    BY <2>4, <2>5, <2>6 DEF Exclusion
<1>3. ASSUME NEW t \in Turns, Acquire(t) PROVE Exclusion'
  <2>1. CASE FlagAdmits(t) /\ flag' = turn[t].startedOn
    <3>1. \A u \in Turns : Running(u) => u = t
      BY <1>3, <2>1, AdmittedAlone DEF Acquire
    <3>2. QED
      BY <1>3, <2>1, <3>1 DEF Acquire, Continue, End, Exclusion, InTime, DistinctStarts, FlagIsOwn
  <2>2. CASE End(t) /\ flag' = flag
    BY <1>3, <2>2 DEF Acquire, End, Exclusion, InTime, DistinctStarts, FlagIsOwn
  <2>3. QED
    BY <1>3, <2>1, <2>2 DEF Acquire
<1>4. ASSUME NEW t \in Turns, Summarize(t) PROVE Exclusion'
  BY <1>4 DEF Summarize, Continue, Exclusion, InTime, DistinctStarts, FlagIsOwn
<1>5. ASSUME NEW t \in Turns, SaveSummary(t) PROVE Exclusion'
  BY <1>5 DEF SaveSummary, Continue, Exclusion, InTime, DistinctStarts, FlagIsOwn
<1>6. ASSUME NEW t \in Turns, Answer(t) PROVE Exclusion'
  BY <1>6 DEF Answer, Continue, Exclusion, InTime, DistinctStarts, FlagIsOwn
<1>7. ASSUME NEW t \in Turns, Save(t) PROVE Exclusion'
  <2>1. \A u \in Turns : Running(u) => u = t
    BY <1>7, RunningAlone DEF Save
  <2>2. QED
    BY <1>7, <2>1 DEF Save, End, Exclusion, InTime, DistinctStarts, FlagIsOwn
<1>8. ASSUME NEW t \in Turns, SaveFails(t) PROVE Exclusion'
  BY <1>8 DEF SaveFails, Exclusion, InTime, DistinctStarts, FlagIsOwn
<1>9. ASSUME NEW t \in Turns, FinishProcessing(t) PROVE Exclusion'
  <2>1. \A u \in Turns : Running(u) => u = t
    BY <1>9, RunningAlone DEF FinishProcessing
  <2>2. QED
    BY <1>9, <2>1 DEF FinishProcessing, End, Exclusion, InTime, DistinctStarts, FlagIsOwn
<1>10. ASSUME NEW t \in Turns, Crash(t) PROVE Exclusion'
  BY <1>10 DEF Crash, End, Exclusion, InTime, DistinctStarts, FlagIsOwn
<1>11. QED
  BY <1>0, <1>1, <1>2, <1>3, <1>4, <1>5, <1>6, <1>7, <1>8, <1>9, <1>10 DEF Next

\* Every step keeps the bounds on what was summarised.
LEMMA SummaryStep ==
  ASSUME Types, SummaryIsOfStored, [Next]_vars
  PROVE  SummaryIsOfStored'
<1> USE DEF Types, CopyRecords, SummaryIsOfStored, Idle, End, Continue
<1>0. CASE UNCHANGED vars
  BY <1>0 DEF vars
<1>1. CASE Tick
  BY <1>1 DEF Tick
<1>2. ASSUME NEW t \in Turns, StartProcessing(t) PROVE SummaryIsOfStored'
  BY <1>2 DEF StartProcessing
<1>3. ASSUME NEW t \in Turns, Acquire(t) PROVE SummaryIsOfStored'
  BY <1>3 DEF Acquire
<1>4. ASSUME NEW t \in Turns, Summarize(t) PROVE SummaryIsOfStored'
  BY <1>4 DEF Summarize
<1>5. ASSUME NEW t \in Turns, SaveSummary(t) PROVE SummaryIsOfStored'
  BY <1>5 DEF SaveSummary
<1>6. ASSUME NEW t \in Turns, Answer(t) PROVE SummaryIsOfStored'
  BY <1>6 DEF Answer
<1>7. ASSUME NEW t \in Turns, Save(t) PROVE SummaryIsOfStored'
  BY <1>7 DEF Save, StoreTurn, WriteBack
<1>8. ASSUME NEW t \in Turns, SaveFails(t) PROVE SummaryIsOfStored'
  BY <1>8 DEF SaveFails
<1>9. ASSUME NEW t \in Turns, FinishProcessing(t) PROVE SummaryIsOfStored'
  BY <1>9 DEF FinishProcessing, StoreTurn, WriteBack
<1>10. ASSUME NEW t \in Turns, Crash(t) PROVE SummaryIsOfStored'
  BY <1>10 DEF Crash
<1>11. QED
  BY <1>0, <1>1, <1>2, <1>3, <1>4, <1>5, <1>6, <1>7, <1>8, <1>9, <1>10 DEF Next

\* A step that starts no outdated copy keeps the running turn's copy ahead of the
\* row, and takes the row forward.
LEMMA AheadStep ==
  ASSUME Types, Exclusion, SummaryIsOfStored, CopyIsAhead, [Next]_vars, ~stale'
  PROVE  CopyIsAhead' /\ summarized' >= summarized
<1> USE DEF Types, CopyRecords, CopyIsAhead, Running, Idle, End, Continue
<1>0. CASE UNCHANGED vars
  BY <1>0 DEF vars
<1>1. CASE Tick
  BY <1>1 DEF Tick
<1>2. ASSUME NEW t \in Turns, StartProcessing(t) PROVE CopyIsAhead' /\ summarized' >= summarized
  BY <1>2 DEF StartProcessing
<1>3. ASSUME NEW t \in Turns, Acquire(t) PROVE CopyIsAhead' /\ summarized' >= summarized
  <2>1. CASE ~FlagAdmits(t)
    BY <1>3, <2>1 DEF Acquire
  <2>2. CASE FlagAdmits(t)
    <3>1. summarized' = turn[t].summarized /\ turn[t].summarized = summarized
      BY <1>3, <2>2 DEF Acquire, Outdated
    <3>2. QED
      BY <1>3, <2>2, <3>1 DEF Acquire
  <2>3. QED
    BY <2>1, <2>2
<1>4. ASSUME NEW t \in Turns, Summarize(t) PROVE CopyIsAhead' /\ summarized' >= summarized
  BY <1>4 DEF Summarize, SummaryIsOfStored
<1>5. ASSUME NEW t \in Turns, SaveSummary(t) PROVE CopyIsAhead' /\ summarized' >= summarized
  <2>1. \A u \in Turns : Running(u) => u = t
    BY <1>5, RunningAlone DEF SaveSummary
  <2>2. QED
    BY <1>5, <2>1 DEF SaveSummary
<1>6. ASSUME NEW t \in Turns, Answer(t) PROVE CopyIsAhead' /\ summarized' >= summarized
  BY <1>6 DEF Answer
<1>7. ASSUME NEW t \in Turns, Save(t) PROVE CopyIsAhead' /\ summarized' >= summarized
  <2>1. \A u \in Turns : Running(u) => u = t
    BY <1>7, RunningAlone DEF Save
  <2>2. QED
    BY <1>7, <2>1 DEF Save, StoreTurn, WriteBack
<1>8. ASSUME NEW t \in Turns, SaveFails(t) PROVE CopyIsAhead' /\ summarized' >= summarized
  BY <1>8 DEF SaveFails
<1>9. ASSUME NEW t \in Turns, FinishProcessing(t) PROVE CopyIsAhead' /\ summarized' >= summarized
  <2>1. \A u \in Turns : Running(u) => u = t
    BY <1>9, RunningAlone DEF FinishProcessing
  <2>2. QED
    BY <1>9, <2>1 DEF FinishProcessing, StoreTurn, WriteBack
<1>10. ASSUME NEW t \in Turns, Crash(t) PROVE CopyIsAhead' /\ summarized' >= summarized
  BY <1>10 DEF Crash
<1>11. QED
  BY <1>0, <1>1, <1>2, <1>3, <1>4, <1>5, <1>6, <1>7, <1>8, <1>9, <1>10 DEF Next

\* No step forgets that a turn overran or started with an outdated copy.
LEMMA HistoryStep ==
  ASSUME [Next]_vars
  PROVE  (late => late') /\ (stale => stale')
<1>1. CASE UNCHANGED vars
  BY <1>1 DEF vars
<1>2. CASE Tick
  BY <1>2 DEF Tick, Advance
<1>3. ASSUME NEW t \in Turns, StartProcessing(t) PROVE (late => late') /\ (stale => stale')
  BY <1>3 DEF StartProcessing, Advance
<1>4. ASSUME NEW t \in Turns, Acquire(t) PROVE (late => late') /\ (stale => stale')
  <2>1. late' = late
    BY <1>4 DEF Acquire
  <2>2. CASE ~FlagAdmits(t)
    BY <1>4, <2>1, <2>2 DEF Acquire
  <2>3. CASE FlagAdmits(t)
    <3>1. stale' = (stale \/ Outdated(t))
      BY <1>4, <2>3 DEF Acquire
    <3>2. QED
      BY <2>1, <3>1, Zenon
  <2>4. QED
    BY <2>2, <2>3
<1>5. ASSUME NEW t \in Turns,
             \/ Summarize(t) \/ SaveSummary(t) \/ Answer(t) \/ Save(t) \/ SaveFails(t)
             \/ FinishProcessing(t) \/ Crash(t)
      PROVE  (late => late') /\ (stale => stale')
  <2>1. UNCHANGED <<late, stale>>
    BY <1>5 DEF Summarize, SaveSummary, Answer, Save, SaveFails, FinishProcessing, Crash
  <2>2. QED
    BY <2>1
<1>6. QED
  BY <1>1, <1>2, <1>3, <1>4, <1>5 DEF Next

\* The invariant holds initially.
LEMMA InitIInv == Init => IInv
BY ConstantsAssumption
DEF Init, IInv, Types, CopyRecords, Exclusion, InTime, DistinctStarts, FlagIsOwn, CopyIsAhead,
    SummaryIsOfStored, Started, Running, Idle, NotProcessing, Pcs, Replies, Unsaved

\* Every step keeps it.
LEMMA NextIInv == IInv /\ [Next]_vars => IInv'
<1> SUFFICES ASSUME IInv, [Next]_vars PROVE IInv'
  OBVIOUS
<1>1. Types' /\ SummaryIsOfStored'
  BY TypesStep, SummaryStep DEF IInv
<1>2. (late => late') /\ (stale => stale')
  BY HistoryStep
<1>3. late' \/ Exclusion'
  BY <1>1, <1>2, ExclusionStep DEF IInv
<1>4. late' \/ stale' \/ CopyIsAhead'
  BY <1>2, AheadStep DEF IInv
<1>5. QED
  BY <1>1, <1>3, <1>4 DEF IInv

\* At no time do two turns of the conversation run, unless one overran.
THEOREM NoOverlap == Spec => []OneTurnAtATime
<1>1. IInv => OneTurnAtATime
  BY RunningAlone DEF IInv, OneTurnAtATime
<1>2. QED
  BY InitIInv, NextIInv, <1>1, PTL DEF Spec

\* No save takes the context back, unless a turn overran or its copy was outdated.
THEOREM ContextAdvances == Spec => SummaryAdvances
<1>1. IInv /\ [Next]_vars => [late' \/ stale' \/ summarized' >= summarized]_vars
  BY HistoryStep, AheadStep DEF IInv
<1>2. QED
  BY InitIInv, NextIInv, <1>1, PTL DEF Spec, SummaryAdvances

----------------------------------------------------------------------------
\* What a turn holds is bounded by its start, and what the row holds by the clock:
\* a turn makes one version at most.
Limits ==
  /\ now <= MaxTime /\ flag < now /\ current <= now
  /\ assessments \in [Versions -> Nat]
  /\ crashes \in Nat /\ crashes <= MaxCrashes
  /\ \A t \in Turns : turn[t].startedOn < now /\ turn[t].current <= turn[t].startedOn

\* Storing a turn keeps the versions within the instants.
LEMMA StoreLimits ==
  ASSUME Types, Limits, NEW t \in Turns, StoreTurn(t)
  PROVE  current' <= now /\ flag' = 0 /\ assessments' \in [Versions -> Nat]
<1>1. turn[t].current <= turn[t].startedOn /\ turn[t].startedOn < now
      /\ turn[t].current \in Nat /\ turn[t].startedOn \in Nat /\ now \in Nat
  BY DEF Types, CopyRecords, Limits
<1>2. flag' = 0
  BY DEF StoreTurn, WriteBack, NotProcessing
<1>3. CASE KeepAssessment(t)
  BY <1>1, <1>2, <1>3 DEF KeepAssessment, Limits
<1>4. CASE ReplaceAssessment(t)
  <2>1. current' = turn[t].current + 1
    BY <1>4 DEF ReplaceAssessment
  <2>2. turn[t].current + 1 \in Versions => assessments[turn[t].current + 1] \in Nat
    BY DEF Limits
  <2>3. assessments' \in [Versions -> Nat]
    <3> DEFINE v == turn[t].current + 1
    <3>1. assessments' = [assessments EXCEPT ![v] = assessments[v] + 1]
      BY <1>4 DEF ReplaceAssessment
    <3>2. v \in Versions => assessments[v] + 1 \in Nat
      BY <2>2
    <3> HIDE DEF v
    <3>3. QED
      BY <3>1, <3>2 DEF Limits
  <2>4. QED
    BY <1>1, <1>2, <2>1, <2>3
<1>5. QED
  BY <1>3, <1>4 DEF StoreTurn

\* Every step keeps the limits.
LEMMA LimitsStep ==
  ASSUME Types, Limits, [Next]_vars
  PROVE  Limits'
<1> USE ConstantsAssumption DEF Types, CopyRecords, Limits, End, Continue, Idle, NotProcessing
<1>0. CASE UNCHANGED vars
  BY <1>0 DEF vars
<1>1. CASE Tick
  BY <1>1 DEF Tick, Advance
<1>2. ASSUME NEW t \in Turns, StartProcessing(t) PROVE Limits'
  BY <1>2 DEF StartProcessing, Advance
<1>3. ASSUME NEW t \in Turns, Acquire(t) PROVE Limits'
  BY <1>3 DEF Acquire
<1>4. ASSUME NEW t \in Turns, Summarize(t) PROVE Limits'
  BY <1>4 DEF Summarize
<1>5. ASSUME NEW t \in Turns, SaveSummary(t) PROVE Limits'
  BY <1>5 DEF SaveSummary
<1>6. ASSUME NEW t \in Turns, Answer(t) PROVE Limits'
  BY <1>6 DEF Answer
<1>7. ASSUME NEW t \in Turns, Save(t) PROVE Limits'
  <2>1. UNCHANGED <<now, crashes>> /\ turn' = [turn EXCEPT ![t] = Idle]
    BY <1>7 DEF Save
  <2>2. current' <= now /\ flag' = 0 /\ assessments' \in [Versions -> Nat]
    BY <1>7, StoreLimits DEF Save
  <2>3. QED
    BY <2>1, <2>2
<1>8. ASSUME NEW t \in Turns, SaveFails(t) PROVE Limits'
  BY <1>8 DEF SaveFails
<1>9. ASSUME NEW t \in Turns, FinishProcessing(t) PROVE Limits'
  <2>1. UNCHANGED <<now, crashes>> /\ turn' = [turn EXCEPT ![t] = Idle]
    BY <1>9 DEF FinishProcessing
  <2>2. current' <= now /\ flag' < now /\ assessments' \in [Versions -> Nat]
    <3>1. CASE StoreTurn(t)
      BY <3>1, StoreLimits
    <3>2. CASE ~StoreTurn(t)
      BY <1>9, <3>2 DEF FinishProcessing, WriteBack
    <3>3. QED
      BY <3>1, <3>2
  <2>3. QED
    BY <2>1, <2>2
<1>10. ASSUME NEW t \in Turns, Crash(t) PROVE Limits'
  BY <1>10 DEF Crash
<1>11. QED
  BY <1>0, <1>1, <1>2, <1>3, <1>4, <1>5, <1>6, <1>7, <1>8, <1>9, <1>10 DEF Next

\* The two histories are flags.
Flags == late \in BOOLEAN /\ stale \in BOOLEAN

LEMMA FlagsStep ==
  ASSUME Flags, [Next]_vars
  PROVE  Flags'
<1>1. CASE UNCHANGED vars
  BY <1>1 DEF Flags, vars
<1>2. ASSUME Advance PROVE late' \in BOOLEAN
  BY <1>2, Zenon DEF Advance
<1>3. CASE Tick
  BY <1>2, <1>3 DEF Tick, Flags
<1>4. ASSUME NEW t \in Turns, StartProcessing(t) PROVE Flags'
  BY <1>2, <1>4 DEF StartProcessing, Flags
<1>5. ASSUME NEW t \in Turns, Acquire(t) PROVE Flags'
  <2>1. late' = late
    BY <1>5 DEF Acquire
  <2>2. CASE ~FlagAdmits(t)
    BY <1>5, <2>1, <2>2 DEF Acquire, Flags
  <2>3. CASE FlagAdmits(t)
    <3>1. stale' = (stale \/ Outdated(t))
      BY <1>5, <2>3 DEF Acquire
    <3>2. QED
      BY <2>1, <3>1, Zenon DEF Flags
  <2>4. QED
    BY <2>2, <2>3
<1>6. ASSUME NEW t \in Turns,
             \/ Summarize(t) \/ SaveSummary(t) \/ Answer(t) \/ Save(t) \/ SaveFails(t)
             \/ FinishProcessing(t) \/ Crash(t)
      PROVE  Flags'
  BY <1>6 DEF Flags, Summarize, SaveSummary, Answer, Save, SaveFails, FinishProcessing, Crash
<1>7. QED
  BY <1>1, <1>3, <1>4, <1>5, <1>6 DEF Next

\* The conversation's rows and what the turns hold keep to their types; in
\* particular no turn makes a version beyond the number of turns.
THEOREM TurnTypes == Spec => []TypeOK
<1>1. Init => Limits
  BY ConstantsAssumption DEF Init, Limits, Idle, NotProcessing, Versions
<1>2. Init => Flags
  BY DEF Init, Flags
<1>3. IInv /\ Limits /\ [Next]_vars => Limits'
  BY LimitsStep DEF IInv
<1>4. Flags /\ [Next]_vars => Flags'
  BY FlagsStep
<1>5. IInv /\ Limits /\ Flags => TypeOK
  <2> SUFFICES ASSUME IInv, Limits, Flags PROVE TypeOK
    OBVIOUS
  <2>1. Types
    BY DEF IInv
  <2>2. turn \in [Turns -> TurnRecords]
    <3>1. ASSUME NEW t \in Turns PROVE turn[t] \in TurnRecords
      <4>1. turn[t] \in CopyRecords
        BY <2>1 DEF Types
      <4>2. turn[t].startedOn <= MaxTime /\ turn[t].current <= MaxTime
        BY <2>1, <4>1, ConstantsAssumption DEF Types, CopyRecords, Limits
      <4>3. turn[t].startedOn \in 0..MaxTime /\ turn[t].current \in 0..MaxTime
        BY <4>1, <4>2, ConstantsAssumption DEF CopyRecords
      <4>4. QED
        BY <4>1, <4>3, ConstantsAssumption
        DEF CopyRecords, TurnRecords, Instants, Versions, NotProcessing
    <3>2. QED
      BY <2>1, <3>1 DEF Types
  <2>3. now \in Instants /\ flag \in Instants \cup {NotProcessing} /\ current \in Versions \cup {0}
    BY <2>1, ConstantsAssumption DEF Types, Limits, Instants, Versions, NotProcessing
  <2>4. exchanges \in Nat /\ summarized \in Nat /\ crashes \in 0..MaxCrashes
    BY <2>1, ConstantsAssumption DEF Types, Limits
  <2>5. assessments \in [Versions -> Nat] /\ late \in BOOLEAN /\ stale \in BOOLEAN
    BY DEF Limits, Flags
  <2>6. QED
    BY <2>2, <2>3, <2>4, <2>5, Zenon DEF TypeOK
<1>6. QED
  BY InitIInv, NextIInv, <1>1, <1>2, <1>3, <1>4, <1>5, PTL DEF Spec

----------------------------------------------------------------------------
(* The versions of the assessment *)

\* The assessment a copy points to was stored; what a copy takes for the current one
\* may be old, but never one that was rolled back.
CopiesAreStored ==
  \A t \in Turns : turn[t].current # 0 => assessments[turn[t].current] = 1

Chain == AssessmentsInOrder /\ CopiesAreStored

\* No version is beyond the current one, and the running turn read that one.
Newest ==
  /\ \A v \in Versions : assessments[v] > 0 => v <= current
  /\ \A t \in Turns : Running(t) => turn[t].current = current

\* Storing a turn adds the version after the one its copy read, when it is free, or
\* points to that one.
LEMMA StoreChain ==
  ASSUME Types, Limits, Chain, NEW t \in Turns, Running(t), StoreTurn(t)
  PROVE  /\ AssessmentsInOrder'
         /\ \A v \in Versions : assessments[v] = 1 => assessments'[v] = 1
         /\ Newest => \A v \in Versions : assessments'[v] > 0 => v <= current'
<1> DEFINE c == turn[t].current
<1>1. /\ c \in Nat /\ c + 1 \in Versions /\ (c # 0 => c \in Versions)
  BY ConstantsAssumption DEF Types, CopyRecords, Limits, Versions
<1>2. c # 0 => assessments[c] = 1
  BY DEF Chain, CopiesAreStored
<1>3. CASE KeepAssessment(t)
  <2>1. current' = c /\ assessments' = assessments
    BY <1>3 DEF KeepAssessment
  <2>. QED BY <1>2, <2>1 DEF Chain, AssessmentsInOrder, Newest
<1>4. CASE ReplaceAssessment(t)
  <2>1. assessments[c + 1] = 0 /\ current' = c + 1
    BY <1>4 DEF ReplaceAssessment, VersionIsFree
  <2>2. \A v \in Versions : assessments'[v] = IF v = c + 1 THEN 1 ELSE assessments[v]
    BY <1>1, <1>4, <2>1 DEF ReplaceAssessment, Limits
  <2>3. AssessmentsInOrder'
    <3>1. \A v \in Versions : assessments'[v] <= 1
      BY <2>2 DEF Chain, AssessmentsInOrder
    <3>2. ASSUME NEW v \in Versions, assessments'[v] = 1, v > 1 PROVE assessments'[v - 1] = 1
      <4>1. v - 1 \in Versions /\ v \in Nat
        BY <3>2, ConstantsAssumption DEF Versions
      <4>2. CASE v = c + 1
        BY <1>1, <1>2, <2>2, <3>2, <4>1, <4>2
      <4>3. CASE v # c + 1
        BY <2>2, <3>2, <4>1, <4>3 DEF Chain, AssessmentsInOrder
      <4>. QED BY <4>2, <4>3
    <3>3. assessments'[current'] = 1
      BY <1>1, <2>1, <2>2
    <3>. QED BY <3>1, <3>2, <3>3 DEF AssessmentsInOrder
  <2>4. Newest => \A v \in Versions : assessments'[v] > 0 => v <= current'
    BY <1>1, <2>1, <2>2, ConstantsAssumption DEF Newest, Versions, Types
  <2>. QED BY <2>2, <2>3, <2>4
<1>. QED BY <1>3, <1>4 DEF StoreTurn

\* Every step keeps the chain, whatever turns overlap.
LEMMA ChainStep ==
  ASSUME Types, Limits, Chain, [Next]_vars
  PROVE  Chain'
<1>1. CASE UNCHANGED vars \/ Tick
  BY <1>1 DEF vars, Tick, Chain, AssessmentsInOrder, CopiesAreStored
<1>2. ASSUME NEW t \in Turns, StartProcessing(t) PROVE Chain'
  BY <1>2 DEF StartProcessing, Types, Chain, AssessmentsInOrder, CopiesAreStored
<1>3. ASSUME NEW t \in Turns,
             Acquire(t) \/ Summarize(t) \/ SaveSummary(t) \/ Answer(t) \/ SaveFails(t) \/ Crash(t)
      PROVE  Chain'
  <2>1. UNCHANGED <<assessments, current>>
    BY <1>3 DEF Acquire, Summarize, SaveSummary, Answer, SaveFails, Crash
  <2>2. \A u \in Turns : turn'[u].current \in {turn[u].current, 0}
    BY <1>3 DEF Acquire, Summarize, SaveSummary, Answer, SaveFails, Crash, End, Continue, Idle,
                Types, CopyRecords
  <2>. QED BY <2>1, <2>2 DEF Chain, AssessmentsInOrder, CopiesAreStored
<1>4. ASSUME NEW t \in Turns, Save(t) \/ FinishProcessing(t)
      PROVE  Chain'
  <2>1. Running(t) /\ End(t)
    BY <1>4 DEF Save, FinishProcessing, Running
  <2>2. \A u \in Turns : turn'[u].current \in {turn[u].current, 0} /\ turn[u].current \in Nat
    BY <2>1 DEF End, Idle, Types, CopyRecords
  <2>3. /\ AssessmentsInOrder'
        /\ \A v \in Versions : assessments[v] = 1 => assessments'[v] = 1
    <3>1. CASE StoreTurn(t)
      BY <2>1, <3>1, StoreChain
    <3>2. CASE ~StoreTurn(t)
      <4>1. assessments' = assessments /\ current' \in {current, turn[t].current}
        BY <1>4, <3>2 DEF Save, FinishProcessing
      <4>. QED BY <4>1 DEF Chain, AssessmentsInOrder, CopiesAreStored
    <3>. QED BY <3>1, <3>2
  <2>4. \A u \in Turns : turn[u].current # 0 => turn[u].current \in Versions
    BY ConstantsAssumption DEF Types, CopyRecords, Limits, Versions
  <2>. QED BY <2>2, <2>3, <2>4 DEF Chain, CopiesAreStored
<1>. QED BY <1>1, <1>2, <1>3, <1>4 DEF Next

\* Every step keeps the newest version current, while no turn overran and none took
\* the flag with a copy older than the row: the one running turn extends the chain.
LEMMA NewestStep ==
  ASSUME Types, Limits, Chain, Exclusion, Newest, [Next]_vars, ~stale'
  PROVE  Newest'
<1> USE DEF Types, CopyRecords
<1>1. CASE UNCHANGED vars \/ Tick
  BY <1>1 DEF vars, Tick, Newest, Running
<1>2. ASSUME NEW t \in Turns, StartProcessing(t) PROVE Newest'
  BY <1>2 DEF StartProcessing, Newest, Running
<1>3. ASSUME NEW t \in Turns, Acquire(t) PROVE Newest'
  <2>1. UNCHANGED <<assessments, current>>
    BY <1>3 DEF Acquire
  <2>2. CASE ~FlagAdmits(t)
    BY <1>3, <2>1, <2>2 DEF Acquire, End, Idle, Newest, Running
  <2>3. CASE FlagAdmits(t)
    <3>1. turn[t].current = current
      BY <1>3, <2>3 DEF Acquire, Outdated
    <3>. QED BY <1>3, <2>1, <2>3, <3>1 DEF Acquire, Continue, Newest, Running
  <2>. QED BY <2>2, <2>3
<1>4. ASSUME NEW t \in Turns, Summarize(t) \/ SaveSummary(t) \/ Answer(t) \/ SaveFails(t) \/ Crash(t)
      PROVE  Newest'
  <2>1. UNCHANGED <<assessments, current>>
    BY <1>4 DEF Summarize, SaveSummary, Answer, SaveFails, Crash
  <2>2. \A u \in Turns : Running(u)' => Running(u) /\ turn'[u].current = turn[u].current
    BY <1>4 DEF Summarize, SaveSummary, Answer, SaveFails, Crash, End, Continue, Idle, Running
  <2>. QED BY <2>1, <2>2 DEF Newest
<1>5. ASSUME NEW t \in Turns, Save(t) \/ FinishProcessing(t)
      PROVE  Newest'
  <2>1. Running(t) /\ End(t)
    BY <1>5 DEF Save, FinishProcessing, Running
  <2>2. \A u \in Turns : ~Running(u)'
    <3>1. \A u \in Turns : Running(u) => u = t
      BY <2>1, RunningAlone
    <3>. QED BY <2>1, <3>1 DEF End, Idle, Running
  <2>3. \A v \in Versions : assessments'[v] > 0 => v <= current'
    <3>1. CASE StoreTurn(t)
      BY <2>1, <3>1, StoreChain
    <3>2. CASE ~StoreTurn(t)
      <4>1. assessments' = assessments /\ current' \in {current, turn[t].current}
        BY <1>5, <3>2 DEF Save, FinishProcessing
      <4>. QED BY <2>1, <4>1 DEF Newest
    <3>. QED BY <3>1, <3>2
  <2>. QED BY <2>2, <2>3 DEF Newest
<1>. QED BY <1>1, <1>2, <1>3, <1>4, <1>5 DEF Next

\* The unique constraint on a conversation's versions, and copies that point to what
\* was stored, keep the assessments in one chain whatever turns overlap; and while none
\* does, the conversation points to its end, so that the next turn can extend it.
THEOREM AssessmentsAlwaysStand == Spec => []AssessmentsStand
<1>1. Init => Limits
  BY ConstantsAssumption DEF Init, Limits, Idle, NotProcessing, Versions
<1>2. Init => Chain /\ Newest
  BY ConstantsAssumption
  DEF Init, Chain, AssessmentsInOrder, CopiesAreStored, Newest, Running, Idle, Versions
<1>3. IInv /\ Limits /\ [Next]_vars => Limits'
  BY LimitsStep DEF IInv
<1>4. IInv /\ Limits /\ Chain /\ [Next]_vars => Chain'
  BY ChainStep DEF IInv
<1>5. IInv /\ Limits /\ Chain /\ (late \/ stale \/ Newest) /\ [Next]_vars
        => late' \/ stale' \/ Newest'
  BY HistoryStep, NewestStep DEF IInv
<1>6. Chain /\ (late \/ stale \/ Newest) => AssessmentsStand
  BY DEF Chain, Newest, AssessmentsStand, NewestIsCurrent
<1>. QED BY InitIInv, NextIInv, <1>1, <1>2, <1>3, <1>4, <1>5, <1>6, PTL DEF Spec
=============================================================================
