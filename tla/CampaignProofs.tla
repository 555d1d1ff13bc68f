--------------------------- MODULE CampaignProofs ---------------------------
(***************************************************************************)
(* Proofs about EvalRun and CampaignRecovery for every number of lanes,    *)
(* every plan and every ceiling: the inductive invariant of a run and of   *)
(* its recovery, and from it that the evidence they leave is accepted,     *)
(* that every request is recorded and paid for, and that none leaves once  *)
(* an answer was beyond the bounds.                                        *)
(***************************************************************************)
EXTENDS CampaignRecovery, FiniteSetTheorems, TLAPS

Outcomes == Unsent \cup Answers
LanePcs == {"idle", "ready", "calling", "sent", "reported", "acknowledged", "finished", "stopped"}
LaneRecords == [pc : LanePcs, slot : Nat, retry : Nat, outcome : Outcomes \cup {"none"}]
Attempts == [retry : Nat, outcome : Outcomes]
Recoverable == [number : Nat, outcome : Answers]

RunTypes ==
  /\ plan \in Plans
  /\ coordinator \in {"top", "waiting", "finished", "failed"}
  /\ next \in 0..Slots
  /\ available \in Seq(Lanes)
  /\ lane \in [Lanes -> LaneRecords]
  /\ stopped \in BOOLEAN /\ writable \in BOOLEAN /\ dispatchStopped \in BOOLEAN /\ cancelled \in BOOLEAN
  /\ journal \in [1..Slots -> Seq(Attempts)]
  /\ guard \in [spent : Int, exhausted : BOOLEAN]
  /\ sent \in Nat /\ billed \in Nat

\* A lane is free or at work on a slot of its own that was handed out, and no more
\* lanes are at work than the run allows.
LanesHeld ==
  /\ Cardinality(Busy) <= Concurrency
  /\ \A i, j \in 1..Len(available) : available[i] = available[j] => i = j
  /\ \A i \in 1..Len(available) : lane[available[i]].pc = "idle"
  /\ \A l \in Busy : lane[l].slot \in 1..next /\ lane[l].retry <= plan.retries
  /\ \A l \in Lanes : lane[l].pc \in {"reported", "acknowledged", "finished"} => lane[l].outcome \in Outcomes
  /\ \A l, m \in Busy : lane[l].slot = lane[m].slot => l = m
  /\ coordinator \in {"finished", "failed"} => Busy = {}

\* Where a lane at work is in the log of its slot.
Position(l) ==
  LET log == journal[lane[l].slot] IN
  IF lane[l].pc \in {"acknowledged", "finished"}
    THEN Len(log) = lane[l].retry + 1 /\ log[Len(log)].outcome = lane[l].outcome
    ELSE Len(log) = lane[l].retry /\ (Len(log) > 0 => log[Len(log)].outcome \in Retryable)

\* A slot's log is a chain of retries; while the journal can be written it is as long as
\* its lane says, and a slot whose lane went on is in it.
IsLog(log) ==
  \A k \in 1..Len(log) :
    log[k].retry = k - 1 /\ (k < Len(log) => log[k].outcome \in Retryable)
JournalKept ==
  /\ \A slot \in 1..Slots : IsLog(journal[slot])
  /\ coordinator \in {"top", "waiting"} => \A slot \in 1..Slots : slot > next => journal[slot] = <<>>
  /\ writable => \A l \in Busy : Position(l)
  /\ writable => \A slot \in 1..next : (\A l \in Busy : lane[l].slot # slot) => journal[slot] # <<>>
  /\ coordinator = "finished" => \A slot \in 1..Slots : journal[slot] # <<>>

\* A slot is not repeated more often than the plan says.
RetriesKept == \A slot \in 1..Slots : \A k \in 1..Len(journal[slot]) : journal[slot][k].retry <= plan.retries

\* A plan without a guard exhausts none.
GuardKept == ~plan.guarded => ~guard.exhausted

\* There are as many requests as lanes and journal account for.
RequestsKept == IsFiniteSet(Recorded) /\ RequestsAreRecorded

Run == RunTypes /\ LanesHeld /\ JournalKept /\ RetriesKept /\ GuardKept /\ RequestsKept /\ SpendIsCovered

RecoveryTypes ==
  /\ recovery \in [stage : {"none", "dispatching", "ended", "written", "failed"}, slot : Nat, number : Nat]
  /\ overlay \in [1..Slots -> Seq(Recoverable)]
  /\ spending \in [spent : Int, exhausted : BOOLEAN]
  /\ recoveryBilled \in Nat

\* A recovery begins after its run, and asks one target after the other.
RecoveryKept ==
  /\ recovery.stage = "none" =>
       /\ \A slot \in 1..Slots : overlay[slot] = <<>>
       /\ recoveryBilled = 0 /\ spending = NewGuard
  /\ recovery.stage # "none" => coordinator = "finished" /\ plan.guarded /\ Targets # {} /\ IsAccepted
  /\ recovery.stage = "dispatching" =>
       /\ recovery.slot \in Targets /\ recovery.number \in 1..PerSlot
       /\ Len(overlay[recovery.slot]) = recovery.number - 1
       /\ \A k \in 1..Len(overlay[recovery.slot]) : IsTransient(overlay[recovery.slot][k].outcome)
       /\ \A slot \in 1..Slots : slot > recovery.slot => overlay[slot] = <<>>

\* What a recovery's guard holds covers its requests and fits what the run has left.
SpendingKept ==
  plan.guarded /\ ~spending.exhausted =>
    recoveryBilled <= spending.spent /\ spending.spent <= HardCeiling - Prior

IInv == Run /\ RecoveryTypes /\ RecoveryKept /\ SpendingKept

----------------------------------------------------------------------------
(* Numbers and finite sets *)

Less == {ss \in Nat \X Nat : ss[1] < ss[2]}

LEMMA LessIsWellFounded == IsWellFoundedOn(Less, Nat)
<1>1. OpToRel(<, Nat) = {ss \in Nat \X Nat : ss[1] < ss[2]}
  BY DEF OpToRel
<1> QED  BY <1>1, NatLessThanWellFounded DEF Less

\* The least of some numbers is one of them.
LEMMA MinIsLeast ==
  ASSUME NEW S \in SUBSET Nat, S # {}
  PROVE  Min(S) \in S /\ \A x \in S : Min(S) <= x
<1>1. \E s \in S : \A t \in S : ~(<<t, s>> \in Less)
  BY WFMin, LessIsWellFounded
<1>2. \A s, t \in Nat : ~(<<t, s>> \in Less) => s <= t
  BY DEF Less
<1>3. \E s \in S : \A t \in S : s <= t
  BY <1>1, <1>2
<1> QED  BY <1>3 DEF Min

LEMMA LanesAreFinite ==
  ASSUME NEW S \in SUBSET Lanes
  PROVE  IsFiniteSet(S) /\ Cardinality(S) \in Nat
<1>1. IsFiniteSet(Lanes)
  BY ConstantsAssumption, FS_Interval DEF Lanes
<1> QED  BY <1>1, FS_Subset, FS_CardinalityType

\* The elements of k different places are at most k.
LEMMA ImageBound ==
  ASSUME NEW k \in Nat, NEW S, NEW f \in [1..k -> S], \A x \in S : \E i \in 1..k : f[i] = x
  PROVE  IsFiniteSet(S) /\ Cardinality(S) <= k
<1>1. f \in Surjection(1..k, S)
  BY DEF Surjection
<1>2. IsFiniteSet(1..k) /\ Cardinality(1..k) = k
  BY FS_Interval
<1> QED  BY <1>1, <1>2, FS_Surjection

----------------------------------------------------------------------------
(* The steps of a run *)

RunVars == <<plan, next, available, lane, coordinator, journal>>

\* A step of one lane, or the coordinator's answer to its event.
Moves(l) == Begin(l) \/ Refuse(l) \/ Send(l) \/ Answer(l) \/ Decide(l) \/ Take(l)

\* A lane that moves stays at work on its slot.
LEMMA MoveFacts ==
  ASSUME RunTypes, NEW l \in Lanes, Moves(l)
  PROVE  /\ l \in Busy
         /\ lane'[l] \in LaneRecords /\ lane'[l].slot = lane[l].slot
         /\ lane'[l].pc \notin {"idle", "stopped"}
         /\ lane' \in [Lanes -> LaneRecords] /\ \A m \in Lanes \ {l} : lane'[m] = lane[m]
         /\ Busy' = Busy
         /\ UNCHANGED <<plan, next, available>>
         /\ UNCHANGED coordinator \/ (coordinator' = "top" /\ coordinator = "waiting")
         /\ \/ lane'[l].retry = lane[l].retry
            \/ lane'[l].retry = lane[l].retry + 1 /\ lane[l].retry < plan.retries
         /\ lane'[l].pc \in {"reported", "acknowledged", "finished"} =>
              lane'[l].outcome \in Outcomes
              \/ (lane[l].pc \in {"reported", "acknowledged"} /\ lane'[l].outcome = lane[l].outcome)
<1>0. lane[l] \in LaneRecords /\ lane \in [Lanes -> LaneRecords] /\ plan.retries \in Nat
  BY ConstantsAssumption DEF RunTypes
<1>1. ASSUME NEW o \in Outcomes, NEW pc \in LanePcs
      PROVE  [lane[l] EXCEPT !.pc = pc, !.outcome = o] \in LaneRecords
  BY <1>0 DEF LaneRecords
<1>2. \E new \in LaneRecords :
        /\ lane' = [lane EXCEPT ![l] = new]
        /\ new.slot = lane[l].slot /\ new.pc \notin {"idle", "stopped"}
        /\ new.retry = lane[l].retry \/ (new.retry = lane[l].retry + 1 /\ lane[l].retry < plan.retries)
        /\ new.pc \in {"reported", "acknowledged", "finished"} =>
              new.outcome \in Outcomes
              \/ (lane[l].pc \in {"reported", "acknowledged"} /\ new.outcome = lane[l].outcome)
  <2>1. ASSUME NEW o \in Outcomes, Report(l, o)
        PROVE  \E new \in LaneRecords :
                 /\ lane' = [lane EXCEPT ![l] = new]
                 /\ new.slot = lane[l].slot /\ new.pc \notin {"idle", "stopped"}
                 /\ new.retry = lane[l].retry /\ new.outcome \in Outcomes
    <3> DEFINE new == [lane[l] EXCEPT !.pc = "reported", !.outcome = o]
    <3>1. new \in LaneRecords /\ new.slot = lane[l].slot /\ new.pc = "reported" /\ new.retry = lane[l].retry
          /\ new.outcome = o
      BY <1>0 DEF LaneRecords, LanePcs
    <3>2. lane' = [lane EXCEPT ![l] = new]
      BY <2>1 DEF Report
    <3> HIDE DEF new
    <3> QED  BY <3>1, <3>2
  <2>2. ASSUME NEW pc \in {"calling", "sent", "acknowledged", "finished"},
               lane' = [lane EXCEPT ![l] = [lane[l] EXCEPT !.pc = pc]],
               pc \in {"acknowledged", "finished"} => lane[l].pc \in {"reported", "acknowledged"}
        PROVE  \E new \in LaneRecords :
                 /\ lane' = [lane EXCEPT ![l] = new]
                 /\ new.slot = lane[l].slot /\ new.pc \notin {"idle", "stopped"}
                 /\ new.retry = lane[l].retry
                 /\ new.pc \in {"reported", "acknowledged", "finished"} =>
                      lane[l].pc \in {"reported", "acknowledged"} /\ new.outcome = lane[l].outcome
    <3> DEFINE new == [lane[l] EXCEPT !.pc = pc]
    <3>0. pc \in LanePcs
      BY DEF LanePcs
    <3>1. new \in LaneRecords /\ new.slot = lane[l].slot /\ new.pc = pc /\ new.retry = lane[l].retry
          /\ new.outcome = lane[l].outcome
      BY <1>0, <3>0 DEF LaneRecords
    <3>2. lane' = [lane EXCEPT ![l] = new]
      BY <2>2
    <3> HIDE DEF new
    <3> QED  BY <2>2, <3>1, <3>2
  <2>3. CASE Begin(l)
    <3>1. {"cancelled", "dispatch_stopped"} \subseteq Outcomes
      BY DEF Outcomes, Unsent, Undispatched
    <3> QED  BY <2>1, <2>2, <2>3, <3>1 DEF Begin
  <2>4. CASE Refuse(l)
    <3>1. {"cancelled", "budget_exhausted", "timed_out_unsent", "asset_error"} \subseteq Outcomes
      BY DEF Outcomes, Unsent, Undispatched
    <3> QED  BY <2>1, <2>4, <3>1 DEF Refuse
  <2>5. CASE Send(l)
    BY <2>2, <2>5 DEF Send
  <2>6. CASE Answer(l)
    <3>1. \E o \in Answers : Report(l, o)
      BY <2>6 DEF Answer
    <3> QED  BY <2>1, <3>1 DEF Outcomes
  <2>7. CASE Take(l)
    BY <2>2, <2>7 DEF Take
  <2>8. CASE Decide(l) /\ ~Retries(l)
    BY <2>2, <2>8 DEF Decide
  <2>9. CASE Decide(l) /\ Retries(l)
    <3> DEFINE new == [lane[l] EXCEPT !.pc = "ready", !.retry = lane[l].retry + 1, !.outcome = "none"]
    <3>0. "ready" \in LanePcs /\ lane[l].retry + 1 \in Nat
      BY <1>0 DEF LaneRecords, LanePcs
    <3>1. new \in LaneRecords /\ new.slot = lane[l].slot /\ new.pc = "ready" /\ new.retry = lane[l].retry + 1
      BY <1>0, <3>0 DEF LaneRecords
    <3>2. lane' = [lane EXCEPT ![l] = new] /\ lane[l].retry < plan.retries
      BY <2>9 DEF Decide, Retries
    <3> HIDE DEF new
    <3> QED  BY <3>1, <3>2
  <2> QED  BY <2>3, <2>4, <2>5, <2>6, <2>7, <2>8, <2>9 DEF Moves
<1>3. l \in Busy
  BY DEF Moves, Begin, Refuse, Send, Answer, Decide, Take, Busy
<1>4. lane'[l] \in LaneRecords /\ lane' \in [Lanes -> LaneRecords] /\ \A m \in Lanes \ {l} : lane'[m] = lane[m]
  BY <1>0, <1>2
<1>5. lane'[l].pc \notin {"idle", "stopped"}
  BY <1>0, <1>2
<1>6. Busy' = Busy
  BY <1>3, <1>4, <1>5 DEF Busy
<1>7. /\ UNCHANGED <<plan, next, available>>
      /\ UNCHANGED coordinator \/ (coordinator' = "top" /\ coordinator = "waiting")
  BY DEF Moves, Begin, Refuse, Send, Answer, Decide, Take
<1>8. QED
  BY <1>0, <1>2, <1>3, <1>4, <1>5, <1>6, <1>7

\* As many slots are handed out as there are slots left, free lanes and places.
LEMMA DispatchedBounds ==
  ASSUME RunTypes, LanesHeld
  PROVE  /\ Dispatched \in Nat /\ Dispatched <= Slots - next /\ Dispatched <= Len(available)
         /\ Dispatched <= Concurrency - Cardinality(Busy)
<1>1. Slots \in Nat /\ next \in Nat /\ next <= Slots /\ Len(available) \in Nat /\ Concurrency \in Nat
  BY ConstantsAssumption DEF RunTypes, Slots
<1>2. Cardinality(Busy) \in Nat /\ Cardinality(Busy) <= Concurrency
  BY LanesAreFinite DEF Busy, LanesHeld
<1> DEFINE S == {Slots - next, Len(available), Concurrency - Cardinality(Busy)}
<1>3. S \in SUBSET Nat /\ S # {}
  BY <1>1, <1>2
<1>4. Min(S) \in S /\ \A x \in S : Min(S) <= x
  <2> HIDE DEF S
  <2> QED  BY <1>3, MinIsLeast
<1>5. Dispatched = 0 \/ Dispatched = Min(S)
  BY DEF Dispatched
<1> QED
  BY <1>1, <1>2, <1>3, <1>4, <1>5

\* Each lane that is handed a slot is handed one of its own.
LEMMA DispatchFacts ==
  ASSUME RunTypes, LanesHeld, Dispatch
  PROVE  LET D == Dispatched
             H == {available[k] : k \in 1..D} IN
         /\ D \in Nat /\ D <= Slots - next /\ D <= Len(available)
         /\ D <= Concurrency - Cardinality(Busy)
         /\ next' = next + D /\ plan' = plan /\ coordinator' = "waiting" /\ coordinator = "top"
         /\ available' = SubSeq(available, D + 1, Len(available))
         /\ H \subseteq Lanes /\ \A l \in H : lane[l].pc = "idle"
         /\ lane' \in [Lanes -> LaneRecords]
         /\ \A l \in Lanes \ H : lane'[l] = lane[l]
         /\ \A k \in 1..D : lane'[available[k]] = [pc |-> "ready", slot |-> next + k, retry |-> 0, outcome |-> "none"]
         /\ Busy' = Busy \cup H
<1> DEFINE D == Dispatched
           H == {available[k] : k \in 1..D}
<1>1. /\ D \in Nat /\ D <= Slots - next /\ D <= Len(available)
      /\ D <= Concurrency - Cardinality(Busy)
  BY DispatchedBounds
<1>2. /\ next' = next + D /\ plan' = plan /\ coordinator' = "waiting" /\ coordinator = "top"
      /\ available' = SubSeq(available, D + 1, Len(available))
      /\ lane' = [l \in Lanes |->
           IF HandedOut(l) = {} THEN lane[l]
           ELSE [IdleLane EXCEPT !.pc = "ready", !.slot = next + Min(HandedOut(l))]]
  BY DEF Dispatch
<1>3. Len(available) \in Nat /\ next \in Nat /\ \A k \in 1..Len(available) : available[k] \in Lanes
  BY ConstantsAssumption DEF RunTypes, Slots
<1>4. \A l : HandedOut(l) = {k \in 1..D : available[k] = l}
  BY DEF HandedOut
<1> HIDE DEF D
<1>5. H \subseteq Lanes /\ \A l \in H : lane[l].pc = "idle"
  BY <1>1, <1>3 DEF LanesHeld
<1>6. \A l \in Lanes \ H : lane'[l] = lane[l]
  BY <1>2, <1>4
<1>7. ASSUME NEW k \in 1..D
      PROVE  lane'[available[k]] = [pc |-> "ready", slot |-> next + k, retry |-> 0, outcome |-> "none"]
  <2>1. \A j \in 1..D : available[j] = available[k] => j = k
    BY <1>1, <1>3 DEF LanesHeld
  <2>2. HandedOut(available[k]) = {k}
    BY <1>4, <2>1
  <2>3. Min({k}) = k
    BY <1>1, MinIsLeast
  <2>4. available[k] \in Lanes
    BY <1>1, <1>3
  <2>5. lane'[available[k]] = [IdleLane EXCEPT !.pc = "ready", !.slot = next + k]
    BY <1>2, <2>2, <2>3, <2>4
  <2> QED  BY <2>5 DEF IdleLane
<1>8. lane' \in [Lanes -> LaneRecords]
  <2>1. \A l \in Lanes : lane'[l] \in LaneRecords
    <3> SUFFICES ASSUME NEW l \in Lanes PROVE lane'[l] \in LaneRecords
      OBVIOUS
    <3>1. CASE l \notin H
      BY <1>6, <3>1 DEF RunTypes
    <3>2. CASE l \in H
      <4>1. PICK k \in 1..D : available[k] = l
        BY <3>2
      <4>2. lane'[l] = [pc |-> "ready", slot |-> next + k, retry |-> 0, outcome |-> "none"]
        BY <1>7, <4>1
      <4> QED  BY <1>1, <1>3, <4>2 DEF LaneRecords, LanePcs
    <3> QED  BY <3>1, <3>2
  <2> QED  BY <1>2, <2>1
<1>9. Busy' = Busy \cup H
  <2>1. \A l \in H : l \in Lanes /\ lane'[l].pc = "ready"
    <3>1. ASSUME NEW k \in 1..D PROVE lane'[available[k]].pc = "ready"
      <4>1. lane'[available[k]] = [pc |-> "ready", slot |-> next + k, retry |-> 0, outcome |-> "none"]
        BY <1>7
      <4> QED  BY <4>1
    <3> QED  BY <1>5, <3>1
  <2> HIDE DEF H
  <2> QED  BY <1>5, <1>6, <2>1 DEF Busy
<1> HIDE DEF H
<1>10. QED
  BY <1>1, <1>2, <1>5, <1>6, <1>7, <1>8, <1>9 DEF D, H

\* A run that ends writes the slots it did not hand out, or some of them.
LEMMA FinishFacts ==
  ASSUME RunTypes, Finish
  PROVE  /\ coordinator = "top" /\ Busy = {}
         /\ \E m \in next..Slots : journal' = ClosedTo(m)
         /\ \/ coordinator' = "finished" /\ writable /\ journal' = ClosedTo(Slots)
            \/ coordinator' = "failed"
         /\ UNCHANGED <<plan, next, available, lane, stopped, writable, dispatchStopped, guard, sent, billed>>
<1>1. Slots \in Nat /\ next \in Nat /\ next <= Slots
  BY ConstantsAssumption DEF RunTypes, Slots
<1>2. Slots \in next..Slots /\ next \in next..Slots
  BY <1>1
<1> QED  BY <1>2 DEF Finish, IsOver

\* An event the coordinator takes is written, or nothing is written ever after.
LEMMA TakeFacts ==
  ASSUME RunTypes, LanesHeld, NEW l \in Lanes, Take(l)
  PROVE  LET slot == lane[l].slot
             e == Entry(lane[l].retry, lane[l].outcome) IN
         /\ slot \in 1..Slots /\ e \in Attempts
         /\ lane[l].pc = "reported" /\ lane[l].outcome \in Outcomes
         /\ lane' = [lane EXCEPT ![l] = [lane[l] EXCEPT !.pc = "acknowledged"]]
         /\ \/ writable /\ writable' /\ journal' = [journal EXCEPT ![slot] = Append(journal[slot], e)]
            \/ ~writable' /\ journal' = journal
         /\ UNCHANGED <<guard, sent, billed>>
<1>1. l \in Busy /\ lane[l].pc = "reported" /\ lane[l] \in LaneRecords
  BY DEF Take, Busy, RunTypes
<1>2. next \in 0..Slots /\ Slots \in Nat
  BY ConstantsAssumption DEF RunTypes, Slots
<1>3. lane[l].slot \in 1..Slots /\ lane[l].outcome \in Outcomes
  BY <1>1, <1>2 DEF LanesHeld
<1>4. Entry(lane[l].retry, lane[l].outcome) \in Attempts
  BY <1>1, <1>3 DEF Entry, Attempts, LaneRecords
<1>5. PICK written \in BOOLEAN :
        /\ written => writable
        /\ writable' = written
        /\ journal' = IF written THEN Journaled(lane[l].slot, Entry(lane[l].retry, lane[l].outcome)) ELSE journal
  BY DEF Take, RunTypes
<1>6. CASE written = TRUE
  BY <1>1, <1>3, <1>4, <1>5, <1>6 DEF Take, Journaled
<1>7. CASE written = FALSE
  BY <1>1, <1>3, <1>4, <1>5, <1>7 DEF Take
<1> QED  BY <1>6, <1>7

LEMMA RunTypesStep == RunTypes /\ LanesHeld /\ [RunNext]_vars => RunTypes'
<1> USE ConstantsAssumption
<1> SUFFICES ASSUME RunTypes, LanesHeld, [RunNext]_vars PROVE RunTypes'
  OBVIOUS
<1>0. Slots \in Nat /\ next \in 0..Slots /\ plan \in Plans /\ Reserve \in Nat
  BY DEF RunTypes, Slots
<1>1. ASSUME NEW l \in Lanes, Moves(l) PROVE RunTypes'
  <2>1. lane' \in [Lanes -> LaneRecords] /\ UNCHANGED <<plan, next, available>> /\ Slots' = Slots
        /\ (UNCHANGED coordinator \/ coordinator' = "top")
    BY <1>1, MoveFacts DEF Slots
  <2>2. journal' \in [1..Slots -> Seq(Attempts)]
    <3>1. CASE Take(l)
      <4>1. PICK slot \in 1..Slots, e \in Attempts :
              journal' = journal \/ journal' = [journal EXCEPT ![slot] = Append(journal[slot], e)]
        BY <3>1, TakeFacts
      <4>2. Append(journal[slot], e) \in Seq(Attempts)
        BY DEF RunTypes
      <4> QED  BY <4>1, <4>2 DEF RunTypes
    <3>2. CASE ~Take(l)
      BY <1>1, <3>2 DEF Moves, Begin, Refuse, Send, Answer, Decide, RunTypes
    <3> QED  BY <3>1, <3>2
  <2>3. /\ stopped' \in BOOLEAN /\ writable' \in BOOLEAN /\ dispatchStopped' \in BOOLEAN /\ cancelled' \in BOOLEAN
    BY <1>1 DEF Moves, Begin, Refuse, Send, Answer, Decide, Take, RunTypes
  <2>4. \A o : CostOf(o) \in Nat
    BY <1>0 DEF CostOf
  <2>5. guard' \in [spent : Int, exhausted : BOOLEAN]
    <3>1. CASE Send(l)
      BY <1>0, <3>1 DEF Send, RunTypes
    <3>2. CASE Answer(l)
      <4>1. ASSUME NEW o PROVE Settled(o) \in [spent : Int, exhausted : BOOLEAN]
        <5>1. guard.spent - Reserve + CostOf(o) \in Int /\ guard \in [spent : Int, exhausted : BOOLEAN]
          BY <1>0, <2>4 DEF RunTypes
        <5> QED  BY <5>1 DEF Settled
      <4> QED  BY <3>2, <4>1 DEF Answer, RunTypes
    <3> QED  BY <1>1, <3>1, <3>2 DEF Moves, Begin, Refuse, Decide, Take, RunTypes
  <2>6. sent' \in Nat /\ billed' \in Nat
    <3>1. sent' = sent \/ sent' = sent + 1
      BY <1>1 DEF Moves, Begin, Refuse, Send, Answer, Decide, Take
    <3>2. billed' = billed \/ \E o : billed' = billed + CostOf(o)
      BY <1>1 DEF Moves, Begin, Refuse, Send, Answer, Decide, Take
    <3> QED  BY <2>4, <3>1, <3>2 DEF RunTypes
  <2> QED  BY <2>1, <2>2, <2>3, <2>5, <2>6 DEF RunTypes
<1>2. CASE Dispatch
  <2> DEFINE D == Dispatched
  <2>1. /\ D \in Nat /\ D <= Slots - next /\ D <= Len(available)
        /\ next' = next + D /\ plan' = plan /\ coordinator' = "waiting"
        /\ available' = SubSeq(available, D + 1, Len(available))
        /\ lane' \in [Lanes -> LaneRecords]
    BY <1>2, DispatchFacts
  <2> HIDE DEF D
  <2>2. available' \in Seq(Lanes)
    BY <2>1 DEF RunTypes
  <2>3. next' \in 0..Slots /\ Slots' = Slots
    BY <1>0, <2>1 DEF Slots
  <2>4. /\ stopped' \in BOOLEAN
        /\ UNCHANGED <<writable, dispatchStopped, cancelled, journal, guard, sent, billed>>
    BY <1>2 DEF Dispatch
  <2> QED  BY <2>1, <2>2, <2>3, <2>4 DEF RunTypes
<1>3. CASE Finish
  <2>1. PICK m \in next..Slots : journal' = ClosedTo(m)
    BY <1>3, FinishFacts
  <2>2. Entry(0, "cancelled") \in Attempts
    BY DEF Entry, Attempts, Outcomes, Unsent, Undispatched
  <2>3. journal' \in [1..Slots -> Seq(Attempts)]
    BY <2>1, <2>2 DEF ClosedTo, RunTypes
  <2>4. /\ coordinator' \in {"finished", "failed"} /\ cancelled' = TRUE
        /\ UNCHANGED <<plan, next, available, lane, stopped, writable, dispatchStopped, guard, sent, billed>>
    BY <1>3, FinishFacts DEF Finish
  <2>5. Slots' = Slots
    BY <2>4 DEF Slots
  <2> QED  BY <2>3, <2>4, <2>5 DEF RunTypes
<1>4. ASSUME NEW l \in Lanes, TakeFinished(l) PROVE RunTypes'
  <2> DEFINE new == [IdleLane EXCEPT !.pc = IF lane[l].outcome = "rate_limited" THEN "stopped" ELSE "idle"]
  <2>1. new \in LaneRecords
    BY DEF IdleLane, LaneRecords, LanePcs
  <2>2. lane' = [lane EXCEPT ![l] = new]
    BY <1>4 DEF TakeFinished
  <2> HIDE DEF new
  <2>3. lane' \in [Lanes -> LaneRecords]
    BY <2>1, <2>2 DEF RunTypes
  <2>4. available' \in Seq(Lanes)
    BY <1>4 DEF TakeFinished, RunTypes
  <2>5. /\ coordinator' = "top"
        /\ UNCHANGED <<plan, next, stopped, writable, dispatchStopped, cancelled, journal, guard, sent, billed>>
    BY <1>4 DEF TakeFinished
  <2>6. Slots' = Slots
    BY <2>5 DEF Slots
  <2> QED  BY <2>3, <2>4, <2>5, <2>6 DEF RunTypes
<1>5. CASE TimeOutRun
  <2>1. Slots' = Slots
    BY <1>5 DEF TimeOutRun, Slots
  <2> QED  BY <1>5, <2>1 DEF TimeOutRun, RunTypes
<1>6. CASE UNCHANGED vars
  <2>1. Slots' = Slots
    BY <1>6 DEF vars, Slots
  <2> QED  BY <1>6, <2>1 DEF vars, RunTypes
<1>7. QED
  BY <1>1, <1>2, <1>3, <1>4, <1>5, <1>6 DEF RunNext, Moves

\* A lane hands back its slot and is free, unless its key was refused.
LEMMA FreeFacts ==
  ASSUME RunTypes, LanesHeld, NEW l \in Lanes, TakeFinished(l)
  PROVE  /\ l \in Busy /\ Busy' = Busy \ {l} /\ lane[l].pc = "finished"
         /\ lane'[l].pc \in {"idle", "stopped"} /\ \A m \in Lanes \ {l} : lane'[m] = lane[m]
         /\ \/ available' = Append(available, l) /\ lane'[l].pc = "idle"
            \/ available' = available
         /\ coordinator = "waiting" /\ coordinator' = "top"
         /\ UNCHANGED <<plan, next, stopped, writable, dispatchStopped, cancelled, journal, guard, sent, billed>>
<1> DEFINE pc == IF lane[l].outcome = "rate_limited" THEN "stopped" ELSE "idle"
<1>1. lane' = [lane EXCEPT ![l] = [IdleLane EXCEPT !.pc = pc]] /\ lane[l].pc = "finished"
  BY DEF TakeFinished
<1>2. [IdleLane EXCEPT !.pc = pc].pc = pc
  BY DEF IdleLane
<1>3. lane'[l].pc = pc /\ \A m \in Lanes \ {l} : lane'[m] = lane[m]
  BY <1>1, <1>2 DEF RunTypes
<1>4. \/ available' = Append(available, l) /\ pc = "idle"
      \/ available' = available /\ pc = "stopped"
  BY DEF TakeFinished
<1> HIDE DEF pc
<1>5. l \in Busy /\ Busy' = Busy \ {l}
  BY <1>1, <1>3, <1>4 DEF Busy
<1>6. QED
  BY <1>1, <1>3, <1>4, <1>5 DEF TakeFinished

LEMMA LanesStep == RunTypes /\ LanesHeld /\ [RunNext]_vars => LanesHeld'
<1> USE ConstantsAssumption
<1> SUFFICES ASSUME RunTypes, LanesHeld, [RunNext]_vars PROVE LanesHeld'
  OBVIOUS
<1>0. /\ Slots \in Nat /\ next \in 0..Slots /\ plan.retries \in Nat
      /\ Len(available) \in Nat /\ \A i \in 1..Len(available) : available[i] \in Lanes
      /\ Busy \subseteq Lanes
  BY DEF RunTypes, Slots, Busy
<1>1. ASSUME NEW l \in Lanes, Moves(l) PROVE LanesHeld'
  <2>1. /\ l \in Busy /\ Busy' = Busy /\ UNCHANGED <<plan, next, available>>
        /\ \A m \in Lanes \ {l} : lane'[m] = lane[m]
        /\ lane'[l].slot = lane[l].slot
        /\ \/ lane'[l].retry = lane[l].retry
           \/ lane'[l].retry = lane[l].retry + 1 /\ lane[l].retry < plan.retries
        /\ UNCHANGED coordinator \/ coordinator' = "top"
    BY <1>1, MoveFacts
  <2>2. Cardinality(Busy') <= Concurrency
    BY <2>1 DEF LanesHeld
  <2>3. \A i \in 1..Len(available) : available[i] # l
    BY <2>1 DEF LanesHeld, Busy
  <2>4. \A i \in 1..Len(available') : lane'[available'[i]].pc = "idle"
    BY <1>0, <2>1, <2>3 DEF LanesHeld
  <2>5. \A m \in Busy' : lane'[m].slot \in 1..next' /\ lane'[m].retry <= plan'.retries
    <3> SUFFICES ASSUME NEW m \in Busy PROVE lane'[m].slot \in 1..next /\ lane'[m].retry <= plan.retries
      BY <2>1
    <3>1. lane[m].slot \in 1..next /\ lane[m].retry <= plan.retries /\ lane[m].retry \in Nat
      BY <1>0 DEF LanesHeld, RunTypes, LaneRecords
    <3>2. CASE m = l
      BY <1>0, <2>1, <3>1, <3>2
    <3>3. CASE m # l
      BY <1>0, <2>1, <3>1, <3>3
    <3> QED  BY <3>2, <3>3
  <2>6. \A m \in Lanes : lane'[m].pc \in {"reported", "acknowledged", "finished"} => lane'[m].outcome \in Outcomes
    <3>1. lane'[l].pc \in {"reported", "acknowledged", "finished"} => lane'[l].outcome \in Outcomes
      BY <1>1, MoveFacts DEF LanesHeld
    <3> QED  BY <2>1, <3>1 DEF LanesHeld
  <2>7. \A m, n \in Busy' : lane'[m].slot = lane'[n].slot => m = n
    <3>1. \A m \in Busy : lane'[m].slot = lane[m].slot
      BY <1>0, <2>1
    <3> QED  BY <2>1, <3>1 DEF LanesHeld
  <2>8. coordinator' \notin {"finished", "failed"}
    BY <2>1 DEF LanesHeld
  <2>9. \A i, j \in 1..Len(available') : available'[i] = available'[j] => i = j
    BY <2>1 DEF LanesHeld
  <2> QED  BY <2>2, <2>4, <2>5, <2>6, <2>7, <2>8, <2>9 DEF LanesHeld
<1>2. CASE Dispatch
  <2> DEFINE D == Dispatched
             H == {available[k] : k \in 1..D}
  <2>1. /\ D \in Nat /\ D <= Slots - next /\ D <= Len(available)
        /\ D <= Concurrency - Cardinality(Busy)
        /\ next' = next + D /\ plan' = plan /\ coordinator' = "waiting"
        /\ available' = SubSeq(available, D + 1, Len(available))
        /\ H \subseteq Lanes /\ \A l \in H : lane[l].pc = "idle"
        /\ \A l \in Lanes \ H : lane'[l] = lane[l]
        /\ \A k \in 1..D : lane'[available[k]] = [pc |-> "ready", slot |-> next + k, retry |-> 0, outcome |-> "none"]
        /\ Busy' = Busy \cup H
    BY <1>2, DispatchFacts
  <2> HIDE DEF D
  <2>2. \A l \in H : \E k \in 1..D : available[k] = l /\ lane'[l].pc = "ready" /\ lane'[l].slot = next + k /\ lane'[l].retry = 0
    <3> SUFFICES ASSUME NEW l \in H
                 PROVE  \E k \in 1..D : available[k] = l /\ lane'[l].pc = "ready" /\ lane'[l].slot = next + k /\ lane'[l].retry = 0
      OBVIOUS
    <3>1. PICK k \in 1..D : available[k] = l
      OBVIOUS
    <3>2. lane'[l] = [pc |-> "ready", slot |-> next + k, retry |-> 0, outcome |-> "none"]
      BY <2>1, <3>1
    <3> QED  BY <3>1, <3>2
  <2>3. IsFiniteSet(H) /\ Cardinality(H) <= D
    <3> DEFINE f == [k \in 1..D |-> available[k]]
    <3>1. f \in [1..D -> H] /\ \A x \in H : \E i \in 1..D : f[i] = x
      OBVIOUS
    <3> HIDE DEF f, H
    <3> QED  BY <2>1, <3>1, ImageBound
  <2>4. /\ \A i \in 1..Len(available') : available'[i] = available[D + i] /\ D + i \in 1..Len(available)
        /\ Len(available') = Len(available) - D
    BY <1>0, <2>1 DEF RunTypes
  <2>5. \A i \in 1..Len(available') : available'[i] \in Lanes /\ available'[i] \notin H
    <3> SUFFICES ASSUME NEW i \in 1..Len(available'), NEW k \in 1..D, available[k] = available'[i] PROVE FALSE
      BY <1>0, <2>4
    <3>1. k \in 1..Len(available) /\ D + i \in 1..Len(available) /\ available[k] = available[D + i]
      BY <1>0, <2>1, <2>4
    <3>2. \A m, n \in 1..Len(available) : available[m] = available[n] => m = n
      BY DEF LanesHeld
    <3>3. k = D + i
      BY <3>1, <3>2, Zenon
    <3> QED  BY <2>1, <2>4, <3>3
  <2> HIDE DEF H
  <2>6. Cardinality(Busy') <= Concurrency
    <3>1. IsFiniteSet(Busy) /\ Cardinality(Busy) \in Nat /\ Cardinality(Busy \cap H) \in Nat /\ Cardinality(H) \in Nat
      BY <1>0, <2>1, LanesAreFinite
    <3>2. Cardinality(Busy \cup H) = Cardinality(Busy) + Cardinality(H) - Cardinality(Busy \cap H)
      BY <2>3, <3>1, FS_Union
    <3> QED  BY <2>1, <2>3, <3>1, <3>2
  <2>7. \A i, j \in 1..Len(available') : available'[i] = available'[j] => i = j
    <3> SUFFICES ASSUME NEW i \in 1..Len(available'), NEW j \in 1..Len(available'), available'[i] = available'[j]
                 PROVE  i = j
      OBVIOUS
    <3>1. D + i = D + j
      BY <2>4 DEF LanesHeld
    <3> QED  BY <2>1, <2>4, <3>1
  <2>8. \A i \in 1..Len(available') : lane'[available'[i]].pc = "idle"
    BY <2>1, <2>4, <2>5 DEF LanesHeld
  <2>9. \A l \in Busy : l \notin H /\ lane'[l] = lane[l] /\ lane[l].slot \in 1..next /\ lane[l].retry <= plan.retries
    BY <1>0, <2>1 DEF Busy, LanesHeld
  <2>10. \A l \in Busy' : lane'[l].slot \in 1..next' /\ lane'[l].retry <= plan'.retries
    <3> SUFFICES ASSUME NEW l \in Busy' PROVE lane'[l].slot \in 1..next' /\ lane'[l].retry <= plan.retries
      BY <2>1
    <3>1. CASE l \in Busy
      BY <1>0, <2>1, <2>9, <3>1
    <3>2. CASE l \in H
      BY <1>0, <2>1, <2>2, <3>2
    <3> QED  BY <2>1, <3>1, <3>2
  <2>11. \A l \in Lanes : lane'[l].pc \in {"reported", "acknowledged", "finished"} => lane'[l].outcome \in Outcomes
    BY <2>1, <2>2 DEF LanesHeld
  <2>12. \A l, m \in Busy' : lane'[l].slot = lane'[m].slot => l = m
    <3>1. ASSUME NEW l \in Busy, NEW m \in H PROVE lane'[l].slot # lane'[m].slot
      BY <1>0, <2>2, <2>9
    <3>2. \A l, m \in Busy : lane'[l].slot = lane'[m].slot => l = m
      BY <2>9 DEF LanesHeld
    <3>3. \A l, m \in H : lane'[l].slot = lane'[m].slot => l = m
      <4> SUFFICES ASSUME NEW l \in H, NEW m \in H, lane'[l].slot = lane'[m].slot PROVE l = m
        OBVIOUS
      <4>1. PICK j \in 1..D : available[j] = l /\ lane'[l].slot = next + j
        BY <2>2
      <4>2. PICK k \in 1..D : available[k] = m /\ lane'[m].slot = next + k
        BY <2>2
      <4>3. next + j = next + k
        BY <4>1, <4>2
      <4>4. j \in Nat /\ k \in Nat /\ next \in Nat
        BY <1>0, <2>1
      <4>5. j = k
        BY <4>3, <4>4
      <4> QED  BY <4>1, <4>2, <4>5
    <3> QED  BY <2>1, <3>1, <3>2, <3>3
  <2> QED  BY <2>1, <2>6, <2>7, <2>8, <2>10, <2>11, <2>12 DEF LanesHeld
<1>3. CASE Finish
  <2>1. Busy = {} /\ UNCHANGED <<plan, next, available, lane>>
    BY <1>3, FinishFacts
  <2>2. Busy' = Busy
    BY <2>1 DEF Busy
  <2> QED  BY <2>1, <2>2 DEF LanesHeld
<1>4. ASSUME NEW l \in Lanes, TakeFinished(l) PROVE LanesHeld'
  <2>1. /\ l \in Busy /\ Busy' = Busy \ {l}
        /\ lane'[l].pc \in {"idle", "stopped"} /\ \A m \in Lanes \ {l} : lane'[m] = lane[m]
        /\ \/ available' = Append(available, l) /\ lane'[l].pc = "idle"
           \/ available' = available
        /\ coordinator' = "top" /\ UNCHANGED <<plan, next>>
    BY <1>4, FreeFacts
  <2>2. Cardinality(Busy') <= Concurrency
    <3>1. Cardinality(Busy') = Cardinality(Busy) - 1 /\ Cardinality(Busy) \in Nat
      BY <1>0, <2>1, LanesAreFinite, FS_RemoveElement
    <3> QED  BY <3>1 DEF LanesHeld
  <2>3. \A i \in 1..Len(available) : available[i] # l
    BY <2>1 DEF LanesHeld, Busy
  <2>4. /\ \A i, j \in 1..Len(available') : available'[i] = available'[j] => i = j
        /\ \A i \in 1..Len(available') : lane'[available'[i]].pc = "idle"
    <3>1. CASE available' = available
      BY <1>0, <2>1, <2>3, <3>1 DEF LanesHeld
    <3>2. CASE available' = Append(available, l) /\ lane'[l].pc = "idle"
      <4>1. /\ Len(available') = Len(available) + 1 /\ available'[Len(available) + 1] = l
            /\ \A i \in 1..Len(available) : available'[i] = available[i]
        BY <3>2 DEF RunTypes
      <4>2. \A i \in 1..Len(available') : i \in 1..Len(available) \/ i = Len(available) + 1
        BY <1>0, <4>1
      <4> QED  BY <1>0, <2>1, <2>3, <3>2, <4>1, <4>2 DEF LanesHeld
    <3> QED  BY <2>1, <3>1, <3>2
  <2>5. \A m \in Busy' : m \in Busy /\ lane'[m] = lane[m]
    BY <1>0, <2>1
  <2>6. \A m \in Lanes : lane'[m].pc \in {"reported", "acknowledged", "finished"} => lane'[m].outcome \in Outcomes
    BY <2>1 DEF LanesHeld
  <2> QED  BY <2>1, <2>2, <2>4, <2>5, <2>6 DEF LanesHeld
<1>5. CASE TimeOutRun \/ UNCHANGED vars
  <2>1. UNCHANGED <<plan, next, available, lane, coordinator>>
    BY <1>5 DEF TimeOutRun, vars
  <2>2. Busy' = Busy
    BY <2>1 DEF Busy
  <2> QED  BY <2>1, <2>2 DEF LanesHeld
<1>6. QED
  BY <1>1, <1>2, <1>3, <1>4, <1>5 DEF RunNext, Moves

\* A lane that moves and reports no attempt keeps its place in the log.
LEMMA QuietPosition ==
  ASSUME RunTypes, LanesHeld, NEW l \in Lanes, Moves(l), ~Take(l), Position(l)
  PROVE  Position(l)' /\ UNCHANGED <<journal, writable>>
<1>0. lane[l] \in LaneRecords /\ lane \in [Lanes -> LaneRecords]
  BY DEF RunTypes
<1>1. UNCHANGED <<journal, writable>>
  BY DEF Moves, Begin, Refuse, Send, Answer, Decide
<1>2. ASSUME NEW new,
             lane' = [lane EXCEPT ![l] = new], new.slot = lane[l].slot, new.retry = lane[l].retry,
             \/ lane[l].pc \notin {"acknowledged", "finished"} /\ new.pc \notin {"acknowledged", "finished"}
             \/ lane[l].pc = "acknowledged" /\ new.pc = "finished" /\ new.outcome = lane[l].outcome
      PROVE  Position(l)'
  <2>1. lane'[l] = new
    BY <1>0, <1>2
  <2> QED  BY <1>1, <1>2, <2>1 DEF Position
<1>3. ASSUME NEW o, lane[l].pc \notin {"acknowledged", "finished"}, Report(l, o) PROVE Position(l)'
  <2> DEFINE new == [lane[l] EXCEPT !.pc = "reported", !.outcome = o]
  <2>1. new.slot = lane[l].slot /\ new.retry = lane[l].retry /\ new.pc = "reported"
    BY <1>0 DEF LaneRecords
  <2>2. lane' = [lane EXCEPT ![l] = new]
    BY <1>3 DEF Report
  <2> HIDE DEF new
  <2> QED  BY <1>2, <1>3, <2>1, <2>2
<1>4. ASSUME NEW pc \in {"calling", "sent", "finished"},
             lane' = [lane EXCEPT ![l] = [lane[l] EXCEPT !.pc = pc]],
             IF pc = "finished" THEN lane[l].pc = "acknowledged" ELSE lane[l].pc \notin {"acknowledged", "finished"}
      PROVE  Position(l)'
  <2> DEFINE new == [lane[l] EXCEPT !.pc = pc]
  <2>1. new.slot = lane[l].slot /\ new.retry = lane[l].retry /\ new.pc = pc /\ new.outcome = lane[l].outcome
    BY <1>0 DEF LaneRecords
  <2>2. lane' = [lane EXCEPT ![l] = new]
    BY <1>4
  <2> HIDE DEF new
  <2> QED  BY <1>2, <1>4, <2>1, <2>2
<1>5. CASE Begin(l)
  BY <1>3, <1>4, <1>5 DEF Begin
<1>6. CASE Refuse(l)
  BY <1>3, <1>6 DEF Refuse
<1>7. CASE Send(l)
  BY <1>4, <1>7 DEF Send
<1>8. CASE Answer(l)
  BY <1>3, <1>8 DEF Answer
<1>9. CASE Decide(l) /\ ~Retries(l)
  BY <1>4, <1>9 DEF Decide
<1>10. CASE Decide(l) /\ Retries(l)
  <2> DEFINE new == [lane[l] EXCEPT !.pc = "ready", !.retry = lane[l].retry + 1, !.outcome = "none"]
  <2>1. new.slot = lane[l].slot /\ new.retry = lane[l].retry + 1 /\ new.pc = "ready"
    BY <1>0 DEF LaneRecords
  <2>2. lane' = [lane EXCEPT ![l] = new] /\ lane[l].pc = "acknowledged" /\ lane[l].outcome \in Retryable
    BY <1>10 DEF Decide, Retries
  <2> HIDE DEF new
  <2>3. lane'[l] = new
    BY <1>0, <2>2
  <2>4. /\ Len(journal[lane[l].slot]) = lane[l].retry + 1
        /\ journal[lane[l].slot][Len(journal[lane[l].slot])].outcome = lane[l].outcome
    BY <2>2 DEF Position
  <2> QED  BY <1>1, <2>1, <2>2, <2>3, <2>4 DEF Position
<1>11. QED
  BY <1>1, <1>5, <1>6, <1>7, <1>8, <1>9, <1>10 DEF Moves

\* A chain of retries is longer by one after an attempt that may be repeated.
LEMMA LogGrows ==
  ASSUME NEW log \in Seq(Attempts), IsLog(log), NEW o \in Outcomes,
         Len(log) > 0 => log[Len(log)].outcome \in Retryable
  PROVE  IsLog(Append(log, Entry(Len(log), o)))
<1> DEFINE new == Append(log, Entry(Len(log), o))
<1>1. /\ Len(log) \in Nat /\ Len(new) = Len(log) + 1 /\ new[Len(log) + 1] = Entry(Len(log), o)
      /\ \A k \in 1..Len(log) : new[k] = log[k]
  BY DEF Attempts, Entry
<1> HIDE DEF new
<1>2. ASSUME NEW k \in 1..Len(new)
      PROVE  new[k].retry = k - 1 /\ (k < Len(new) => new[k].outcome \in Retryable)
  <2>1. CASE k = Len(log) + 1
    <3>1. new[k].retry = Len(log)
      BY <1>1, <2>1 DEF Entry
    <3> QED  BY <1>1, <2>1, <3>1
  <2>2. CASE k \in 1..Len(log)
    <3>1. new[k] = log[k] /\ log[k].retry = k - 1 /\ (k < Len(log) => log[k].outcome \in Retryable)
      BY <1>1, <2>2 DEF IsLog
    <3>2. k = Len(log) => log[k].outcome \in Retryable
      BY <2>2
    <3> QED  BY <1>1, <2>2, <3>1, <3>2
  <2> QED  BY <1>1, <2>1, <2>2
<1> QED
  BY <1>2 DEF IsLog, new

LEMMA JournalStep == RunTypes /\ LanesHeld /\ JournalKept /\ [RunNext]_vars => JournalKept'
<1> USE ConstantsAssumption
<1> SUFFICES ASSUME RunTypes, LanesHeld, JournalKept, [RunNext]_vars PROVE JournalKept'
  OBVIOUS
<1>0. /\ Slots \in Nat /\ next \in 0..Slots /\ Busy \subseteq Lanes
      /\ \A l \in Busy : lane[l].slot \in 1..Slots
      /\ \A slot \in 1..Slots : journal[slot] \in Seq(Attempts)
  BY DEF RunTypes, Slots, Busy, LanesHeld
<1>1. ASSUME NEW l \in Lanes, Moves(l), ~Take(l) PROVE JournalKept'
  <2>1. /\ l \in Busy /\ Busy' = Busy /\ UNCHANGED <<plan, next, available>>
        /\ \A m \in Lanes \ {l} : lane'[m] = lane[m]
        /\ lane'[l].slot = lane[l].slot
        /\ UNCHANGED coordinator \/ (coordinator' = "top" /\ coordinator = "waiting")
    BY <1>1, MoveFacts
  <2>2. UNCHANGED <<journal, writable>>
    BY <1>1 DEF Moves, Begin, Refuse, Send, Answer, Decide
  <2>3. Slots' = Slots
    BY <2>1 DEF Slots
  <2>4. writable' => \A m \in Busy' : Position(m)'
    <3> SUFFICES ASSUME writable, NEW m \in Busy PROVE Position(m)'
      BY <2>1, <2>2
    <3>1. Position(m)
      BY DEF JournalKept
    <3>2. CASE m = l
      BY <1>1, <3>1, <3>2, QuietPosition
    <3>3. CASE m # l
      BY <1>0, <2>1, <2>2, <3>1, <3>3 DEF Position
    <3> QED  BY <3>2, <3>3
  <2>5. \A m \in Busy : lane'[m].slot = lane[m].slot
    BY <1>0, <2>1
  <2> QED  BY <2>1, <2>2, <2>3, <2>4, <2>5 DEF JournalKept, IsLog
<1>2. ASSUME NEW l \in Lanes, Take(l) PROVE JournalKept'
  <2>1. /\ l \in Busy /\ Busy' = Busy /\ UNCHANGED <<plan, next, available>>
        /\ \A m \in Lanes \ {l} : lane'[m] = lane[m]
        /\ lane'[l].slot = lane[l].slot
    BY <1>2, MoveFacts DEF Moves
  <2> DEFINE slot == lane[l].slot
             e == Entry(lane[l].retry, lane[l].outcome)
  <2>2. /\ slot \in 1..Slots /\ e \in Attempts
        /\ lane[l].pc = "reported" /\ lane[l].outcome \in Outcomes
        /\ lane' = [lane EXCEPT ![l] = [lane[l] EXCEPT !.pc = "acknowledged"]]
        /\ \/ writable /\ writable' /\ journal' = [journal EXCEPT ![slot] = Append(journal[slot], e)]
           \/ ~writable' /\ journal' = journal
    BY <1>2, TakeFacts
  <2>3. coordinator = "waiting" /\ coordinator' = "top" /\ Slots' = Slots
    BY <1>2, <2>1 DEF Take, Slots
  <2>4. CASE ~writable' /\ journal' = journal
    BY <2>1, <2>3, <2>4 DEF JournalKept, IsLog
  <2>5. CASE writable /\ writable' /\ journal' = [journal EXCEPT ![slot] = Append(journal[slot], e)]
    <3>1. Position(l)
      BY <2>1, <2>5 DEF JournalKept
    <3>2. /\ Len(journal[slot]) = lane[l].retry
          /\ Len(journal[slot]) > 0 => journal[slot][Len(journal[slot])].outcome \in Retryable
      BY <2>2, <3>1 DEF Position
    <3>3. e = Entry(Len(journal[slot]), lane[l].outcome)
      BY <3>2
    <3>4. journal'[slot] = Append(journal[slot], e) /\ \A s \in 1..Slots : s # slot => journal'[s] = journal[s]
      BY <2>2, <2>5 DEF RunTypes
    <3>5. IsLog(journal'[slot])
      BY <1>0, <2>2, <3>2, <3>3, <3>4, LogGrows DEF JournalKept
    <3>6. \A s \in 1..Slots' : IsLog(journal[s])'
      <4> SUFFICES ASSUME NEW s \in 1..Slots PROVE IsLog(journal'[s])
        BY <2>3 DEF IsLog
      <4>1. IsLog(journal[s])
        BY DEF JournalKept
      <4> QED  BY <3>4, <3>5, <4>1
    <3>7. /\ Len(journal'[slot]) = Len(journal[slot]) + 1 /\ journal'[slot][Len(journal[slot]) + 1] = e
          /\ Len(journal[slot]) \in Nat
      BY <1>0, <2>2, <3>4
    <3>8. lane'[l].pc = "acknowledged" /\ lane'[l].retry = lane[l].retry /\ lane'[l].outcome = lane[l].outcome
      BY <2>2 DEF RunTypes, LaneRecords
    <3>9. Position(l)'
      BY <2>1, <3>2, <3>7, <3>8 DEF Position, Entry
    <3>10. \A m \in Busy' : Position(m)'
      <4> SUFFICES ASSUME NEW m \in Busy, m # l PROVE Position(m)'
        BY <2>1, <3>9
      <4>1. lane[m].slot \in 1..Slots /\ lane[m].slot # slot /\ lane'[m] = lane[m] /\ Position(m)
        BY <1>0, <2>1, <2>5 DEF LanesHeld, JournalKept
      <4>2. journal'[lane[m].slot] = journal[lane[m].slot]
        BY <3>4, <4>1
      <4> QED  BY <4>1, <4>2 DEF Position
    <3>11. \A s \in 1..Slots : s > next => journal'[s] = <<>>
      <4>1. slot \in 1..next
        BY <2>1 DEF LanesHeld
      <4> QED  BY <1>0, <2>3, <3>4, <4>1 DEF JournalKept
    <3>12. \A s \in 1..next' : (\A m \in Busy' : lane'[m].slot # s) => journal'[s] # <<>>
      <4> SUFFICES ASSUME NEW s \in 1..next, \A m \in Busy : lane'[m].slot # s PROVE journal'[s] # <<>>
        BY <2>1
      <4>1. \A m \in Busy : lane'[m].slot = lane[m].slot
        BY <1>0, <2>1
      <4>2. s # slot /\ journal[s] # <<>>
        BY <2>1, <2>5, <4>1 DEF JournalKept
      <4> QED  BY <1>0, <3>4, <4>2
    <3> QED  BY <2>1, <2>3, <3>6, <3>10, <3>11, <3>12 DEF JournalKept
  <2> QED  BY <2>2, <2>4, <2>5
<1>3. CASE Dispatch
  <2> DEFINE D == Dispatched
             H == {available[k] : k \in 1..D}
  <2>1. /\ D \in Nat /\ D <= Slots - next
        /\ next' = next + D /\ plan' = plan /\ coordinator' = "waiting" /\ coordinator = "top"
        /\ H \subseteq Lanes /\ \A l \in H : lane[l].pc = "idle"
        /\ \A l \in Lanes \ H : lane'[l] = lane[l]
        /\ \A k \in 1..D : lane'[available[k]] = [pc |-> "ready", slot |-> next + k, retry |-> 0, outcome |-> "none"]
        /\ Busy' = Busy \cup H
    BY <1>3, DispatchFacts
  <2> HIDE DEF D
  <2>2. UNCHANGED <<journal, writable>> /\ Slots' = Slots
    BY <1>3, <2>1 DEF Dispatch, Slots
  <2>3. \A s \in 1..Slots : s > next => journal[s] = <<>>
    BY <2>1 DEF JournalKept
  <2>4. \A l \in Busy : l \notin H /\ lane'[l] = lane[l]
    BY <1>0, <2>1 DEF Busy
  <2>5. ASSUME NEW k \in 1..D, NEW l, l = available[k] PROVE Position(l)'
    <3>1. lane'[l] = [pc |-> "ready", slot |-> next + k, retry |-> 0, outcome |-> "none"]
      BY <2>1, <2>5
    <3>2. next + k \in 1..Slots /\ next + k > next
      BY <1>0, <2>1
    <3>3. journal'[next + k] = <<>>
      BY <2>2, <2>3, <3>2
    <3> QED  BY <3>1, <3>3 DEF Position
  <2>6. writable' => \A l \in Busy' : Position(l)'
    <3> SUFFICES ASSUME writable, NEW l \in Busy' PROVE Position(l)'
      BY <2>2
    <3>1. CASE l \in Busy
      BY <2>2, <2>4, <3>1 DEF JournalKept, Position
    <3>2. CASE l \in H
      <4>1. PICK k \in 1..D : l = available[k]
        BY <3>2
      <4> QED  BY <2>5, <4>1
    <3> QED  BY <2>1, <3>1, <3>2
  <2>7. writable' => \A s \in 1..next' : (\A l \in Busy' : lane'[l].slot # s) => journal'[s] # <<>>
    <3> SUFFICES ASSUME writable, NEW s \in 1..next', \A l \in Busy' : lane'[l].slot # s PROVE journal[s] # <<>>
      BY <2>2
    <3>1. CASE s \in 1..next
      <4>1. \A l \in Busy : lane[l].slot # s
        BY <2>1, <2>4
      <4> QED  BY <3>1, <4>1 DEF JournalKept
    <3>2. CASE s \notin 1..next
      <4>1. s - next \in 1..D /\ next + (s - next) = s
        BY <1>0, <2>1, <3>2
      <4>2. PICK k \in 1..D : next + k = s
        BY <4>1
      <4>3. lane'[available[k]].slot = s
        <5>1. lane'[available[k]] = [pc |-> "ready", slot |-> next + k, retry |-> 0, outcome |-> "none"]
          BY <2>1
        <5> QED  BY <4>2, <5>1
      <4> QED  BY <2>1, <4>3
    <3> QED  BY <3>1, <3>2
  <2>8. \A s \in 1..Slots : s > next' => journal[s] = <<>>
    BY <1>0, <2>1, <2>3
  <2> HIDE DEF H
  <2> QED  BY <2>1, <2>2, <2>6, <2>7, <2>8 DEF JournalKept, IsLog
<1>4. CASE Finish
  <2>1. /\ coordinator = "top" /\ Busy = {}
        /\ \/ coordinator' = "finished" /\ writable /\ journal' = ClosedTo(Slots)
           \/ coordinator' = "failed"
        /\ UNCHANGED <<plan, next, available, lane, writable>>
    BY <1>4, FinishFacts
  <2>2. PICK m \in next..Slots : journal' = ClosedTo(m)
    BY <1>4, FinishFacts
  <2>3. Busy' = {} /\ Slots' = Slots
    BY <2>1 DEF Busy, Slots
  <2>4. ASSUME NEW s \in 1..Slots
        PROVE  journal'[s] = IF s \in (next + 1)..m THEN <<Entry(0, "cancelled")>> ELSE journal[s]
    BY <2>2 DEF ClosedTo
  <2>5. IsLog(<<Entry(0, "cancelled")>>)
    BY DEF IsLog, Entry
  <2>6. \A s \in 1..Slots' : IsLog(journal[s])'
    <3> SUFFICES ASSUME NEW s \in 1..Slots PROVE IsLog(journal'[s])
      BY <2>3 DEF IsLog
    <3>1. IsLog(journal[s])
      BY DEF JournalKept
    <3> QED  BY <2>4, <2>5, <3>1
  <2>7. \A s \in 1..next : journal'[s] = journal[s]
    BY <1>0, <2>4
  <2>8. writable => \A s \in 1..next : journal[s] # <<>>
    BY <2>1 DEF JournalKept
  <2>9. coordinator' = "finished" => \A s \in 1..Slots' : journal'[s] # <<>>
    <3> SUFFICES ASSUME writable, journal' = ClosedTo(Slots), NEW s \in 1..Slots PROVE journal'[s] # <<>>
      BY <2>1, <2>3
    <3>1. CASE s \in 1..next
      BY <2>7, <2>8, <3>1
    <3>2. CASE s \in (next + 1)..Slots
      <4>1. journal'[s] = <<Entry(0, "cancelled")>>
        BY <3>2 DEF ClosedTo
      <4> QED  BY <4>1
    <3> QED  BY <1>0, <3>1, <3>2
  <2> QED  BY <2>1, <2>3, <2>6, <2>7, <2>8, <2>9 DEF JournalKept
<1>5. ASSUME NEW l \in Lanes, TakeFinished(l) PROVE JournalKept'
  <2>1. /\ l \in Busy /\ Busy' = Busy \ {l} /\ lane[l].pc = "finished"
        /\ \A m \in Lanes \ {l} : lane'[m] = lane[m]
        /\ coordinator = "waiting" /\ coordinator' = "top" /\ UNCHANGED <<plan, next, writable, journal>>
    BY <1>5, FreeFacts
  <2>2. Slots' = Slots
    BY <2>1 DEF Slots
  <2>3. \A m \in Busy' : m \in Busy /\ lane'[m] = lane[m]
    BY <1>0, <2>1
  <2>4. writable => journal[lane[l].slot] # <<>>
    <3> SUFFICES ASSUME writable PROVE journal[lane[l].slot] # <<>>
      OBVIOUS
    <3>1. Len(journal[lane[l].slot]) = lane[l].retry + 1 /\ lane[l].retry \in Nat
      BY <2>1 DEF JournalKept, Position, RunTypes, LaneRecords
    <3> QED  BY <3>1
  <2>5. writable' => \A s \in 1..next' : (\A m \in Busy' : lane'[m].slot # s) => journal'[s] # <<>>
    <3> SUFFICES ASSUME writable, NEW s \in 1..next, \A m \in Busy' : lane'[m].slot # s PROVE journal[s] # <<>>
      BY <2>1
    <3>1. \A m \in Busy : m = l \/ lane[m].slot # s
      BY <1>0, <2>1, <2>3
    <3> QED  BY <2>4, <3>1 DEF JournalKept
  <2>6. writable' => \A m \in Busy' : Position(m)'
    BY <2>1, <2>3 DEF JournalKept, Position
  <2> QED  BY <2>1, <2>2, <2>5, <2>6 DEF JournalKept, IsLog
<1>6. CASE TimeOutRun \/ UNCHANGED vars
  <2>1. UNCHANGED <<plan, next, lane, coordinator, journal, writable>>
    BY <1>6 DEF TimeOutRun, vars
  <2>2. Busy' = Busy /\ Slots' = Slots
    BY <2>1 DEF Busy, Slots
  <2> QED  BY <2>1, <2>2 DEF JournalKept, Position, IsLog
<1>7. QED
  BY <1>1, <1>2, <1>3, <1>4, <1>5, <1>6 DEF RunNext, Moves

----------------------------------------------------------------------------
(* What was sent is recorded and paid for *)

Sending == {l \in Lanes : lane[l].pc = "sent"}

\* Nothing that stops an attempt before its request is an answer to one.
LEMMA UnsentIsNoAnswer == Unsent \cap Answers = {} /\ "cancelled" \in Unsent
  BY DEF Unsent, Undispatched, Answers

\* A lane's own steps, but its request and the answer, send nothing.
LEMMA QuietMove ==
  ASSUME RunTypes, NEW l \in Lanes, Begin(l) \/ Refuse(l) \/ Decide(l)
  PROVE  Unrecorded' = Unrecorded /\ Sending' = Sending
<1>0. lane[l] \in LaneRecords /\ lane \in [Lanes -> LaneRecords]
  BY DEF RunTypes
<1>1. ASSUME NEW new, lane' = [lane EXCEPT ![l] = new],
             lane[l].pc \in {"ready", "calling", "acknowledged"},
             new.pc \in {"ready", "calling", "finished"} \/ (new.pc = "reported" /\ new.outcome \in Unsent)
      PROVE  Unrecorded' = Unrecorded /\ Sending' = Sending
  <2>1. lane'[l] = new /\ \A m \in Lanes \ {l} : lane'[m] = lane[m]
    BY <1>0, <1>1
  <2>2. Sending' = Sending
    BY <1>1, <2>1 DEF Sending
  <2>3. l \notin Unrecorded /\ l \notin Unrecorded'
    BY <1>1, <2>1, UnsentIsNoAnswer DEF Unrecorded
  <2>4. Unrecorded' = Unrecorded
    BY <2>1, <2>3 DEF Unrecorded
  <2> QED  BY <2>2, <2>4
<1>2. ASSUME NEW o \in Unsent, lane[l].pc \in {"ready", "calling"}, Report(l, o)
      PROVE  Unrecorded' = Unrecorded /\ Sending' = Sending
  <2> DEFINE new == [lane[l] EXCEPT !.pc = "reported", !.outcome = o]
  <2>1. new.pc = "reported" /\ new.outcome = o
    BY <1>0 DEF LaneRecords
  <2>2. lane' = [lane EXCEPT ![l] = new]
    BY <1>2 DEF Report
  <2> HIDE DEF new
  <2> QED  BY <1>1, <1>2, <2>1, <2>2
<1>3. {"cancelled", "dispatch_stopped", "budget_exhausted", "timed_out_unsent", "asset_error"} \subseteq Unsent
  BY DEF Unsent, Undispatched
<1>4. CASE Begin(l)
  <2>1. [lane[l] EXCEPT !.pc = "calling"].pc = "calling"
    BY <1>0 DEF LaneRecords
  <2> QED  BY <1>1, <1>2, <1>3, <1>4, <2>1 DEF Begin
<1>5. CASE Refuse(l)
  BY <1>2, <1>3, <1>5 DEF Refuse
<1>6. CASE Decide(l)
  <2>1. /\ [lane[l] EXCEPT !.pc = "ready", !.retry = lane[l].retry + 1, !.outcome = "none"].pc = "ready"
        /\ [lane[l] EXCEPT !.pc = "finished"].pc = "finished"
    BY <1>0 DEF LaneRecords
  <2> QED  BY <1>1, <1>6, <2>1 DEF Decide
<1>7. QED
  BY <1>4, <1>5, <1>6

LEMMA SendMove ==
  ASSUME RunTypes, NEW l \in Lanes, Send(l)
  PROVE  /\ l \notin Unrecorded /\ Unrecorded' = Unrecorded \cup {l}
         /\ l \notin Sending /\ Sending' = Sending \cup {l}
<1> DEFINE new == [lane[l] EXCEPT !.pc = "sent"]
<1>1. lane[l] \in LaneRecords /\ lane' = [lane EXCEPT ![l] = new] /\ lane[l].pc = "calling"
  BY DEF Send, RunTypes
<1>2. new.pc = "sent"
  BY <1>1 DEF LaneRecords
<1> HIDE DEF new
<1>3. lane'[l] = new /\ \A m \in Lanes \ {l} : lane'[m] = lane[m]
  BY <1>1 DEF RunTypes
<1> QED  BY <1>1, <1>2, <1>3 DEF Unrecorded, Sending

LEMMA AnswerMove ==
  ASSUME RunTypes, NEW l \in Lanes, Answer(l)
  PROVE  /\ Unrecorded' = Unrecorded
         /\ l \in Sending /\ Sending' = Sending \ {l}
<1>1. PICK o \in Answers : Report(l, o)
  BY DEF Answer
<1> DEFINE new == [lane[l] EXCEPT !.pc = "reported", !.outcome = o]
<1>2. lane[l] \in LaneRecords /\ lane' = [lane EXCEPT ![l] = new] /\ lane[l].pc = "sent"
  BY <1>1 DEF Answer, RunTypes, Report
<1>3. new.pc = "reported" /\ new.outcome \in Answers
  BY <1>2 DEF LaneRecords
<1> HIDE DEF new
<1>4. lane'[l] = new /\ \A m \in Lanes \ {l} : lane'[m] = lane[m]
  BY <1>2 DEF RunTypes
<1>5. Sending' = Sending \ {l} /\ l \in Sending
  BY <1>2, <1>3, <1>4 DEF Sending
<1>6. l \in Unrecorded /\ l \in Unrecorded'
  BY <1>2, <1>3, <1>4 DEF Unrecorded
<1>7. Unrecorded' = Unrecorded
  BY <1>4, <1>6 DEF Unrecorded
<1> QED  BY <1>5, <1>7

LEMMA TakeMove ==
  ASSUME RunTypes, NEW l \in Lanes, Take(l)
  PROVE  /\ Unrecorded' = Unrecorded \ {l} /\ (l \in Unrecorded <=> lane[l].outcome \in Answers)
         /\ Sending' = Sending
<1> DEFINE new == [lane[l] EXCEPT !.pc = "acknowledged"]
<1>1. lane[l] \in LaneRecords /\ lane' = [lane EXCEPT ![l] = new] /\ lane[l].pc = "reported"
  BY DEF Take, RunTypes
<1>2. new.pc = "acknowledged"
  BY <1>1 DEF LaneRecords
<1> HIDE DEF new
<1>3. lane'[l] = new /\ \A m \in Lanes \ {l} : lane'[m] = lane[m]
  BY <1>1 DEF RunTypes
<1> QED  BY <1>1, <1>2, <1>3 DEF Unrecorded, Sending

\* The coordinator's other steps leave every request where it is.
LEMMA CoordinatorMove ==
  ASSUME RunTypes, LanesHeld,
         Dispatch \/ Finish \/ TimeOutRun \/ UNCHANGED vars \/ \E l \in Lanes : TakeFinished(l)
  PROVE  Unrecorded' = Unrecorded /\ Sending' = Sending
<1>1. CASE UNCHANGED lane
  BY <1>1 DEF Unrecorded, Sending
<1>2. ASSUME NEW l \in Lanes, TakeFinished(l) PROVE Unrecorded' = Unrecorded /\ Sending' = Sending
  <2>1. /\ lane[l].pc = "finished" /\ lane'[l].pc \in {"idle", "stopped"}
        /\ \A m \in Lanes \ {l} : lane'[m] = lane[m]
    BY <1>2, FreeFacts
  <2> QED  BY <2>1 DEF Unrecorded, Sending
<1>3. CASE Dispatch
  <2> DEFINE D == Dispatched
             H == {available[k] : k \in 1..D}
  <2>1. /\ \A l \in H : lane[l].pc = "idle"
        /\ \A l \in Lanes \ H : lane'[l] = lane[l]
        /\ \A k \in 1..D : lane'[available[k]] = [pc |-> "ready", slot |-> next + k, retry |-> 0, outcome |-> "none"]
    BY <1>3, DispatchFacts
  <2>2. ASSUME NEW l \in H PROVE lane'[l].pc = "ready"
    <3> HIDE DEF D
    <3>1. PICK k \in 1..D : available[k] = l
      BY <2>2
    <3>2. lane'[l] = [pc |-> "ready", slot |-> next + k, retry |-> 0, outcome |-> "none"]
      BY <2>1, <3>1
    <3> QED  BY <3>2
  <2> HIDE DEF H
  <2>3. \A l \in Lanes : lane'[l] = lane[l] \/ (lane[l].pc = "idle" /\ lane'[l].pc = "ready")
    BY <2>1, <2>2
  <2> QED  BY <2>3 DEF Unrecorded, Sending
<1>4. QED
  BY <1>1, <1>2, <1>3 DEF Finish, TimeOutRun, vars

LEMMA InRecorded ==
  ASSUME NEW x
  PROVE  x \in Recorded <=> \E s \in 1..Slots : \E k \in DOMAIN journal[s] :
                              x = <<s, k>> /\ journal[s][k].outcome \in Answers
  BY DEF Recorded

LEMMA RequestsStep ==
  RunTypes /\ LanesHeld /\ JournalKept /\ RequestsKept /\ [RunNext]_vars => RequestsKept'
<1> SUFFICES ASSUME RunTypes, LanesHeld, JournalKept, RequestsKept, [RunNext]_vars PROVE RequestsKept'
  OBVIOUS
<1>0. /\ IsFiniteSet(Unrecorded) /\ Cardinality(Unrecorded) \in Nat
      /\ IsFiniteSet(Recorded) /\ Cardinality(Recorded) \in Nat
      /\ writable => sent = Cardinality(Unrecorded) + Cardinality(Recorded)
      /\ sent \in Nat
  <2>1. Unrecorded \subseteq Lanes
    BY DEF Unrecorded
  <2> QED  BY <2>1, LanesAreFinite, FS_CardinalityType DEF RequestsKept, RequestsAreRecorded, RunTypes
<1>1. ASSUME UNCHANGED <<plan, journal>> PROVE Recorded' = Recorded
  BY <1>1 DEF Recorded, Slots
<1>2. ASSUME NEW l \in Lanes, Begin(l) \/ Refuse(l) \/ Decide(l) PROVE RequestsKept'
  <2>1. UNCHANGED <<plan, journal, sent, writable>>
    BY <1>2 DEF Begin, Refuse, Decide
  <2>2. Recorded' = Recorded /\ Unrecorded' = Unrecorded
    BY <1>1, <1>2, <2>1, QuietMove
  <2> QED  BY <1>0, <2>1, <2>2 DEF RequestsKept, RequestsAreRecorded
<1>3. ASSUME NEW l \in Lanes, Send(l) PROVE RequestsKept'
  <2>1. UNCHANGED <<plan, journal, writable>> /\ sent' = sent + 1
    BY <1>3 DEF Send
  <2>2. Recorded' = Recorded
    BY <1>1, <2>1
  <2>3. Cardinality(Unrecorded') = Cardinality(Unrecorded) + 1
    BY <1>0, <1>3, SendMove, FS_AddElement
  <2> QED  BY <1>0, <2>1, <2>2, <2>3 DEF RequestsKept, RequestsAreRecorded
<1>4. ASSUME NEW l \in Lanes, Answer(l) PROVE RequestsKept'
  <2>1. UNCHANGED <<plan, journal, sent, writable>>
    BY <1>4 DEF Answer
  <2>2. Recorded' = Recorded /\ Unrecorded' = Unrecorded
    BY <1>1, <1>4, <2>1, AnswerMove
  <2> QED  BY <1>0, <2>1, <2>2 DEF RequestsKept, RequestsAreRecorded
<1>5. ASSUME NEW l \in Lanes, Take(l) PROVE RequestsKept'
  <2> DEFINE slot == lane[l].slot
             e == Entry(lane[l].retry, lane[l].outcome)
  <2>1. /\ slot \in 1..Slots /\ e \in Attempts
        /\ \/ writable /\ writable' /\ journal' = [journal EXCEPT ![slot] = Append(journal[slot], e)]
           \/ ~writable' /\ journal' = journal
        /\ UNCHANGED sent
    BY <1>5, TakeFacts
  <2>2. UNCHANGED plan
    BY <1>5 DEF Take
  <2>3. CASE ~writable' /\ journal' = journal
    BY <1>0, <1>1, <2>2, <2>3 DEF RequestsKept, RequestsAreRecorded
  <2>4. CASE writable /\ writable' /\ journal' = [journal EXCEPT ![slot] = Append(journal[slot], e)]
    <3> DEFINE x == <<slot, Len(journal[slot]) + 1>>
    <3>1. journal[slot] \in Seq(Attempts) /\ journal'[slot] = Append(journal[slot], e)
          /\ Slots' = Slots /\ \A s \in 1..Slots : s # slot => journal'[s] = journal[s]
      BY <2>1, <2>2, <2>4 DEF RunTypes, Slots
    <3>2. /\ Len(journal[slot]) \in Nat /\ DOMAIN journal[slot] = 1..Len(journal[slot])
          /\ DOMAIN journal'[slot] = 1..(Len(journal[slot]) + 1)
          /\ journal'[slot][Len(journal[slot]) + 1] = e
          /\ \A k \in 1..Len(journal[slot]) : journal'[slot][k] = journal[slot][k]
      BY <2>1, <3>1
    <3>3. e.outcome = lane[l].outcome
      BY DEF Entry
    <3> HIDE DEF e
    <3>4. \A s \in 1..Slots : \A k : s # slot \/ k # Len(journal[slot]) + 1 =>
            ((k \in DOMAIN journal'[s] <=> k \in DOMAIN journal[s])
             /\ (k \in DOMAIN journal[s] => journal'[s][k] = journal[s][k]))
      BY <3>1, <3>2
    <3>5. x \notin Recorded
      BY <2>1, <3>2, InRecorded
    <3>6. x \in Recorded' <=> lane[l].outcome \in Answers
      <4>1. x \in Recorded' <=> \E s \in 1..Slots' : \E k \in DOMAIN journal'[s] :
                                  x = <<s, k>> /\ journal'[s][k].outcome \in Answers
        BY DEF Recorded
      <4>2. x \in Recorded' <=> journal'[slot][Len(journal[slot]) + 1].outcome \in Answers
        BY <2>1, <3>1, <3>2, <4>1
      <4> QED  BY <3>2, <3>3, <4>2
    <3>7. \A y : y # x => (y \in Recorded' <=> y \in Recorded)
      <4> SUFFICES ASSUME NEW y, y # x PROVE y \in Recorded' <=> y \in Recorded
        OBVIOUS
      <4>1. y \in Recorded' <=> \E s \in 1..Slots : \E k \in DOMAIN journal'[s] :
                                  y = <<s, k>> /\ journal'[s][k].outcome \in Answers
        BY <3>1 DEF Recorded
      <4> QED  BY <3>4, <4>1, InRecorded
    <3>8. Unrecorded' = Unrecorded \ {l} /\ (l \in Unrecorded <=> lane[l].outcome \in Answers)
      BY <1>5, TakeMove
    <3> HIDE DEF x
    <3>9. CASE lane[l].outcome \in Answers
      <4>1. Recorded' = Recorded \cup {x}
        BY <3>6, <3>7, <3>9
      <4>2. IsFiniteSet(Recorded') /\ Cardinality(Recorded') = Cardinality(Recorded) + 1
        BY <1>0, <3>5, <4>1, FS_AddElement
      <4>3. Cardinality(Unrecorded') = Cardinality(Unrecorded) - 1
        BY <1>0, <3>8, <3>9, FS_RemoveElement
      <4> QED  BY <1>0, <2>1, <2>4, <4>2, <4>3 DEF RequestsKept, RequestsAreRecorded
    <3>10. CASE lane[l].outcome \notin Answers
      <4>1. Recorded' = Recorded
        BY <3>5, <3>6, <3>7, <3>10
      <4>2. Unrecorded' = Unrecorded
        BY <3>8, <3>10
      <4> QED  BY <1>0, <2>1, <2>4, <4>1, <4>2 DEF RequestsKept, RequestsAreRecorded
    <3> QED  BY <3>9, <3>10
  <2> QED  BY <2>1, <2>3, <2>4
<1>6. CASE Finish
  <2>1. /\ coordinator = "top" /\ UNCHANGED <<plan, writable, sent>>
        /\ \E m \in next..Slots : journal' = ClosedTo(m)
    BY <1>6, FinishFacts
  <2>2. PICK m \in next..Slots : journal' = ClosedTo(m)
    BY <2>1
  <2>3. ASSUME NEW s \in 1..Slots
        PROVE  \/ journal'[s] = journal[s]
               \/ journal[s] = <<>> /\ journal'[s] = <<Entry(0, "cancelled")>>
    <3>1. s \in (next + 1)..m => journal[s] = <<>>
      BY <2>1, ConstantsAssumption DEF JournalKept, RunTypes, Slots
    <3> QED  BY <2>2, <3>1 DEF ClosedTo
  <2>4. \A k \in DOMAIN <<Entry(0, "cancelled")>> : <<Entry(0, "cancelled")>>[k].outcome \notin Answers
    BY UnsentIsNoAnswer DEF Entry
  <2>5. ASSUME NEW s \in 1..Slots
        PROVE  {k \in DOMAIN journal'[s] : journal'[s][k].outcome \in Answers}
                 = {k \in DOMAIN journal[s] : journal[s][k].outcome \in Answers}
    <3>1. CASE journal'[s] = journal[s]
      BY <3>1
    <3>2. CASE journal[s] = <<>> /\ journal'[s] = <<Entry(0, "cancelled")>>
      <4>1. {k \in DOMAIN journal'[s] : journal'[s][k].outcome \in Answers} = {}
        BY <2>4, <3>2
      <4>2. {k \in DOMAIN journal[s] : journal[s][k].outcome \in Answers} = {}
        BY <3>2
      <4> QED  BY <4>1, <4>2
    <3> QED  BY <2>3, <3>1, <3>2
  <2>6. Recorded' = Recorded
    <3>1. Slots' = Slots
      BY <2>1 DEF Slots
    <3> QED  BY <2>5, <3>1 DEF Recorded
  <2> QED  BY <1>0, <1>6, <2>1, <2>6, CoordinatorMove DEF RequestsKept, RequestsAreRecorded
<1>7. CASE Dispatch \/ TimeOutRun \/ UNCHANGED vars \/ \E l \in Lanes : TakeFinished(l)
  <2>1. UNCHANGED <<plan, journal, sent, writable>>
    BY <1>7 DEF Dispatch, TimeOutRun, vars, TakeFinished
  <2>2. Recorded' = Recorded /\ Unrecorded' = Unrecorded
    BY <1>1, <1>7, <2>1, CoordinatorMove
  <2> QED  BY <1>0, <2>1, <2>2 DEF RequestsKept, RequestsAreRecorded
<1>8. QED
  BY <1>2, <1>3, <1>4, <1>5, <1>6, <1>7 DEF RunNext

LEMMA Distributes ==
  ASSUME NEW r \in Nat, NEW n \in Nat
  PROVE  r * n \in Nat /\ r * (n + 1) = r * n + r
  OBVIOUS

\* An attempt is journaled with its lane's retry.
LEMMA RetriesStep == RunTypes /\ LanesHeld /\ RetriesKept /\ [RunNext]_vars => RetriesKept'
<1> USE ConstantsAssumption
<1> SUFFICES ASSUME RunTypes, LanesHeld, RetriesKept, [RunNext]_vars PROVE RetriesKept'
  OBVIOUS
<1>0. /\ Slots \in Nat /\ plan.retries \in Nat /\ plan' = plan /\ Slots' = Slots
      /\ \A s \in 1..Slots : journal[s] \in Seq(Attempts)
  <2>1. plan' = plan
    BY DEF RunNext, vars, Dispatch, Finish, TimeOutRun, Take, TakeFinished, Begin, Refuse, Send, Answer, Decide
  <2> QED  BY <2>1 DEF RunTypes, Slots
<1>1. ASSUME NEW l \in Lanes, Take(l) PROVE RetriesKept'
  <2> DEFINE slot == lane[l].slot
             e == Entry(lane[l].retry, lane[l].outcome)
  <2>1. /\ slot \in 1..Slots /\ e \in Attempts
        /\ \/ journal' = [journal EXCEPT ![slot] = Append(journal[slot], e)]
           \/ journal' = journal
    BY <1>1, TakeFacts
  <2>2. e.retry <= plan.retries
    BY <1>1 DEF LanesHeld, Busy, Take, Entry
  <2> HIDE DEF slot, e
  <2>3. ASSUME NEW s \in 1..Slots, NEW k \in 1..Len(journal'[s]) PROVE journal'[s][k].retry <= plan.retries
    <3>1. CASE journal'[s] = journal[s]
      BY <2>3, <3>1 DEF RetriesKept
    <3>2. CASE s = slot /\ journal'[s] = Append(journal[s], e)
      <4>1. k \in 1..Len(journal[s]) \/ journal'[s][k] = e
        BY <1>0, <2>1, <2>3, <3>2
      <4>2. k \in 1..Len(journal[s]) => journal'[s][k] = journal[s][k]
        BY <1>0, <2>1, <3>2
      <4> QED  BY <2>2, <4>1, <4>2 DEF RetriesKept
    <3> QED  BY <2>1, <3>1, <3>2 DEF RunTypes
  <2> QED  BY <1>0, <2>3 DEF RetriesKept
<1>2. CASE Finish
  <2>1. PICK m \in next..Slots : journal' = ClosedTo(m)
    BY <1>2, FinishFacts
  <2>2. ASSUME NEW s \in 1..Slots, NEW k \in 1..Len(journal'[s]) PROVE journal'[s][k].retry <= plan.retries
    <3>1. journal'[s] = <<Entry(0, "cancelled")>> \/ journal'[s] = journal[s]
      BY <2>1 DEF ClosedTo
    <3>2. CASE journal'[s] = <<Entry(0, "cancelled")>>
      <4>1. k = 1
        BY <2>2, <3>2
      <4> QED  BY <1>0, <3>2, <4>1 DEF Entry
    <3>3. CASE journal'[s] = journal[s]
      BY <2>2, <3>3 DEF RetriesKept
    <3> QED  BY <3>1, <3>2, <3>3
  <2> QED  BY <1>0, <2>2 DEF RetriesKept
<1>3. CASE UNCHANGED journal
  BY <1>0, <1>3 DEF RetriesKept
<1> QED
  BY <1>1, <1>2, <1>3 DEF RunNext, vars, Dispatch, TimeOutRun, TakeFinished, Begin, Refuse, Send, Answer, Decide

\* A plan without a guard never exhausts it.
LEMMA GuardStep == RunTypes /\ GuardKept /\ [RunNext]_vars => GuardKept'
<1> SUFFICES ASSUME RunTypes, GuardKept, [RunNext]_vars PROVE GuardKept'
  OBVIOUS
<1>1. UNCHANGED plan
  BY DEF RunNext, Dispatch, Finish, TimeOutRun, Take, TakeFinished, Begin, Refuse, Send, Answer, Decide, vars
<1>2. plan.guarded \/ UNCHANGED guard
  BY DEF RunNext, Dispatch, Finish, TimeOutRun, Take, TakeFinished, Begin, Refuse, Send, Answer, Decide, vars
<1> QED  BY <1>1, <1>2 DEF GuardKept

LEMMA CostIsBounded ==
  ASSUME NEW o \in Answers
  PROVE  /\ CostOf(o) \in Nat
         /\ o # "overrun" => CostOf(o) <= Reserve
         /\ o \in {"executed", "malformed"} => CostOf(o) = 1
  BY ConstantsAssumption DEF CostOf, Answers

LEMMA SpendStep == RunTypes /\ LanesHeld /\ SpendIsCovered /\ [RunNext]_vars => SpendIsCovered'
<1> USE ConstantsAssumption
<1> SUFFICES ASSUME RunTypes, LanesHeld, SpendIsCovered, [RunNext]_vars,
                    plan'.guarded, ~guard'.exhausted
             PROVE  /\ billed' + Reserve * Cardinality(Sending') <= guard'.spent
                    /\ guard'.spent <= Slots' * Reserve
  BY DEF SpendIsCovered, Sending, Ceiling
<1> DEFINE n == Cardinality(Sending)
<1>0. /\ Sending \subseteq Lanes /\ IsFiniteSet(Sending) /\ n \in Nat
      /\ Slots \in Nat /\ Reserve \in Nat /\ Reserve > 0 /\ billed \in Nat /\ guard.spent \in Int
      /\ guard \in [spent : Int, exhausted : BOOLEAN]
      /\ Slots * Reserve \in Nat
  <2>1. Sending \subseteq Lanes
    BY DEF Sending
  <2> QED  BY <2>1, LanesAreFinite DEF RunTypes, Slots
<1>1. UNCHANGED plan /\ Slots' = Slots
  BY DEF RunNext, Dispatch, Finish, TimeOutRun, Take, TakeFinished, Begin, Refuse, Send, Answer, Decide, vars, Slots
<1>2. ASSUME ~guard.exhausted
      PROVE  billed + Reserve * n <= guard.spent /\ guard.spent <= Slots * Reserve
  BY <1>1, <1>2 DEF SpendIsCovered, Sending, Ceiling
<1> HIDE DEF n
<1>3. Reserve * n \in Nat
  BY <1>0
<1>4. ASSUME NEW l \in Lanes, Send(l)
      PROVE  billed' + Reserve * Cardinality(Sending') <= guard'.spent /\ guard'.spent <= Slots * Reserve
  <2>1. /\ guard' = [guard EXCEPT !.spent = guard.spent + Reserve] /\ billed' = billed
        /\ ~guard.exhausted /\ guard.spent + Reserve <= Slots * Reserve
    BY <1>1, <1>4 DEF Send, Admits, Ceiling
  <2>2. Cardinality(Sending') = n + 1
    BY <1>0, <1>4, SendMove, FS_AddElement DEF n
  <2>3. Reserve * (n + 1) = Reserve * n + Reserve
    BY <1>0, Distributes
  <2>4. guard'.spent = guard.spent + Reserve
    BY <1>0, <2>1
  <2>5. billed + Reserve * n <= guard.spent
    BY <1>2, <2>1
  <2> QED  BY <1>0, <1>3, <2>1, <2>2, <2>3, <2>4, <2>5
<1>5. ASSUME NEW l \in Lanes, Answer(l)
      PROVE  billed' + Reserve * Cardinality(Sending') <= guard'.spent /\ guard'.spent <= Slots * Reserve
  <2>1. PICK o \in Answers : guard' = Settled(o) /\ billed' = billed + CostOf(o)
    BY <1>1, <1>5 DEF Answer
  <2>2. o # "overrun" /\ ~guard.exhausted
    BY <1>0, <2>1 DEF Settled
  <2>3. /\ CostOf(o) \in Nat /\ CostOf(o) <= Reserve
        /\ o \in {"executed", "malformed"} => CostOf(o) = 1
    BY <2>2, CostIsBounded
  <2>4. \/ guard'.spent = guard.spent /\ o \notin {"executed", "malformed"}
        \/ guard'.spent = guard.spent - Reserve + CostOf(o)
    BY <1>0, <2>1, <2>2 DEF Settled
  <2>5. Cardinality(Sending') = n - 1 /\ n - 1 \in Nat
    <3>1. Cardinality(Sending') = n - 1
      BY <1>0, <1>5, AnswerMove, FS_RemoveElement DEF n
    <3>2. Sending' \subseteq Lanes
      BY <1>0, <1>5, AnswerMove
    <3> QED  BY <3>1, <3>2, LanesAreFinite
  <2>6. Reserve * n = Reserve * (n - 1) + Reserve /\ Reserve * (n - 1) \in Nat
    <3> DEFINE j == n - 1
    <3>1. j \in Nat /\ n = j + 1
      BY <1>0, <2>5
    <3> HIDE DEF j
    <3>2. Reserve * n = Reserve * j + Reserve /\ Reserve * j \in Nat
      BY <1>0, <3>1, Distributes
    <3> QED  BY <3>2 DEF j
  <2>7. billed + Reserve * n <= guard.spent /\ guard.spent <= Slots * Reserve
    BY <1>2, <2>2
  <2>8. billed' + Reserve * (n - 1) <= guard'.spent
    BY <1>0, <1>3, <2>1, <2>3, <2>4, <2>6, <2>7
  <2>9. guard'.spent <= Slots * Reserve
    BY <1>0, <2>3, <2>4, <2>7
  <2> QED  BY <2>5, <2>8, <2>9
<1>6. ASSUME Sending' = Sending, UNCHANGED <<guard, billed>>
      PROVE  billed' + Reserve * Cardinality(Sending') <= guard'.spent /\ guard'.spent <= Slots * Reserve
  BY <1>2, <1>6 DEF n
<1>7. ASSUME NEW l \in Lanes, Begin(l) \/ Refuse(l) \/ Decide(l) \/ Take(l)
      PROVE  Sending' = Sending /\ UNCHANGED <<guard, billed>>
  <2>1. UNCHANGED <<guard, billed>>
    BY <1>7 DEF Begin, Refuse, Decide, Take
  <2> QED  BY <1>7, <2>1, QuietMove, TakeMove
<1>8. ASSUME Dispatch \/ Finish \/ TimeOutRun \/ UNCHANGED vars \/ \E l \in Lanes : TakeFinished(l)
      PROVE  Sending' = Sending /\ UNCHANGED <<guard, billed>>
  <2>1. UNCHANGED <<guard, billed>>
    BY <1>8 DEF Dispatch, Finish, TimeOutRun, vars, TakeFinished
  <2> QED  BY <1>8, <2>1, CoordinatorMove
<1>9. QED
  BY <1>1, <1>4, <1>5, <1>6, <1>7, <1>8 DEF RunNext

LEMMA RunStep == Run /\ [RunNext]_vars => Run'
  BY RunTypesStep, LanesStep, JournalStep, RetriesStep, GuardStep, RequestsStep, SpendStep DEF Run

LEMMA RunBegins == RunInit => Run
<1> USE ConstantsAssumption
<1> SUFFICES ASSUME RunInit PROVE Run
  OBVIOUS
<1>1. /\ Slots \in Nat /\ plan \in Plans /\ next = 0 /\ lane = [l \in Lanes |-> IdleLane]
      /\ available = [i \in Lanes |-> i] /\ coordinator = "top" /\ journal = [s \in 1..Slots |-> <<>>]
      /\ guard = NewGuard /\ sent = 0 /\ billed = 0
  BY DEF RunInit, Slots
<1>2. \A l \in Lanes : lane[l] = IdleLane
  BY <1>1
<1>3. IdleLane.pc = "idle"
  BY DEF IdleLane
<1>4. Busy = {} /\ Unrecorded = {} /\ Sending = {}
  BY <1>2, <1>3 DEF Busy, Unrecorded, Sending
<1>5. available \in Seq(Lanes) /\ Len(available) = LaneCount /\ \A i \in 1..LaneCount : available[i] = i
  BY <1>1 DEF Lanes
<1>6. RunTypes
  <2>1. IdleLane \in LaneRecords
    BY DEF IdleLane, LaneRecords, LanePcs
  <2>2. NewGuard \in [spent : Int, exhausted : BOOLEAN]
    BY DEF NewGuard
  <2>3. <<>> \in Seq(Attempts)
    OBVIOUS
  <2>4. lane \in [Lanes -> LaneRecords] /\ journal \in [1..Slots -> Seq(Attempts)] /\ next \in 0..Slots
    BY <1>1, <2>1, <2>3
  <2>5. stopped \in BOOLEAN /\ writable \in BOOLEAN /\ dispatchStopped \in BOOLEAN /\ cancelled \in BOOLEAN
    BY DEF RunInit
  <2> QED  BY <1>1, <1>5, <2>2, <2>4, <2>5 DEF RunTypes
<1>7. LanesHeld
  <2>1. Cardinality(Busy) <= Concurrency
    BY <1>4, FS_EmptySet
  <2>2. \A i \in 1..Len(available) : lane[available[i]].pc = "idle"
    BY <1>2, <1>3, <1>5 DEF Lanes
  <2> QED  BY <1>1, <1>2, <1>3, <1>4, <1>5, <2>1, <2>2 DEF LanesHeld
<1>8. JournalKept
  <2>1. IsLog(<<>>)
    BY DEF IsLog
  <2> QED  BY <1>1, <1>4, <2>1 DEF JournalKept
<1>8a. RetriesKept
  BY <1>1 DEF RetriesKept
<1>9. Recorded = {}
  <2>1. \A s \in 1..Slots : {k \in DOMAIN journal[s] : journal[s][k].outcome \in Answers} = {}
    BY <1>1
  <2> QED  BY <2>1 DEF Recorded
<1>10. RequestsKept
  BY <1>1, <1>4, <1>9, FS_EmptySet DEF RequestsKept, RequestsAreRecorded
<1>11. GuardKept /\ ~guard.exhausted /\ guard.spent = 0
  BY <1>1 DEF GuardKept, NewGuard
<1>12. SpendIsCovered
  <2>1. Cardinality(Sending) = 0 /\ Reserve * 0 = 0 /\ 0 <= Slots * Reserve
    BY <1>1, <1>4, FS_EmptySet
  <2> QED  BY <1>1, <1>11, <2>1 DEF SpendIsCovered, Sending, Ceiling
<1> QED
  BY <1>6, <1>7, <1>8, <1>8a, <1>10, <1>11, <1>12 DEF Run

\* What a run of any plan leaves can be replayed when it finished, unless an attempt was
\* repeated that sent nothing.
LEMMA RunReplays == Run => RefusedIfRepeatedUnsent
<1> SUFFICES ASSUME Run, coordinator = "finished" PROVE IsReplayable(journal) <=> ~RepeatedUnsent
  BY DEF RefusedIfRepeatedUnsent
<1>1. \A s \in 1..Slots : IsLog(journal[s]) /\ journal[s] # <<>> /\ journal[s] \in Seq(Attempts)
  BY DEF Run, JournalKept, RunTypes
<1>2. ASSUME NEW s \in 1..Slots, NEW k \in 1..Len(journal[s]), k > 1
      PROVE  ~RepeatedUnsent => StatusOf(journal[s][k - 1].outcome) = "execution_error"
  <2> SUFFICES ASSUME ~RepeatedUnsent PROVE StatusOf(journal[s][k - 1].outcome) = "execution_error"
    OBVIOUS
  <2>1. Len(journal[s]) \in Nat /\ k - 1 \in 1..Len(journal[s]) /\ k - 1 < Len(journal[s])
    BY <1>1, <1>2
  <2>2. journal[s][k - 1].outcome \in Retryable
    BY <1>1, <2>1 DEF IsLog
  <2>3. journal[s][k - 1].outcome # "timed_out_unsent"
    BY <2>1 DEF RepeatedUnsent
  <2> QED  BY <2>2, <2>3 DEF Retryable, StatusOf, Undispatched
<1>3. ~RepeatedUnsent => \A s \in 1..Slots : IsChain(journal[s])
  BY <1>1, <1>2 DEF IsChain, IsLog
<1>4. ASSUME RepeatedUnsent, IsReplayable(journal) PROVE FALSE
  <2>1. PICK s \in 1..Slots : \E k \in 1..(Len(journal[s]) - 1) : journal[s][k].outcome = "timed_out_unsent"
    BY <1>4 DEF RepeatedUnsent
  <2>2. PICK k \in 1..(Len(journal[s]) - 1) : journal[s][k].outcome = "timed_out_unsent"
    BY <2>1
  <2>3. k + 1 \in 1..Len(journal[s]) /\ k + 1 > 1 /\ (k + 1) - 1 = k
    BY <1>1
  <2>4. StatusOf(journal[s][k].outcome) = "execution_error"
    BY <1>4, <2>3 DEF IsReplayable, IsChain
  <2> QED  BY <2>2, <2>4 DEF StatusOf, Undispatched
<1> QED  BY <1>1, <1>3, <1>4 DEF IsReplayable

\* A plan without retries repeats nothing, so that what its run leaves can be replayed.
LEMMA CampaignReplays == Run => CampaignRunReplays
<1> SUFFICES ASSUME Run, coordinator = "finished", plan.guarded PROVE IsReplayable(journal)
  BY DEF CampaignRunReplays
<1>1. plan.retries = 0
  BY ConstantsAssumption DEF Run, RunTypes
<1>2. ASSUME RepeatedUnsent PROVE FALSE
  <2>1. PICK s \in 1..Slots : \E k \in 1..(Len(journal[s]) - 1) : journal[s][k].outcome = "timed_out_unsent"
    BY <1>2 DEF RepeatedUnsent
  <2>2. Len(journal[s]) \in Nat
    BY DEF Run, RunTypes
  <2>3. 2 \in 1..Len(journal[s])
    BY <2>1, <2>2
  <2>4. journal[s][2].retry = 2 - 1
    BY <2>3 DEF Run, JournalKept, IsLog
  <2>5. journal[s][2].retry <= 0
    BY <1>1, <2>3 DEF Run, RetriesKept
  <2> QED  BY <2>4, <2>5
<1> QED  BY <1>2, RunReplays DEF RefusedIfRepeatedUnsent

\* A finished run does nothing more.
LEMMA FinishedStays ==
  Run /\ coordinator = "finished" /\ [RunNext]_vars => UNCHANGED vars
<1> SUFFICES ASSUME Run, coordinator = "finished", RunNext PROVE FALSE
  OBVIOUS
<1>1. Busy = {}
  BY DEF Run, LanesHeld
<1>2. \A l \in Lanes : ~Moves(l)
  BY <1>1, MoveFacts DEF Run
<1>3. \A l \in Lanes : ~TakeFinished(l)
  BY DEF TakeFinished
<1> QED  BY <1>2, <1>3 DEF RunNext, Moves, Dispatch, Finish, TimeOutRun

----------------------------------------------------------------------------
(* A run's recovery *)

LEMMA TargetsAreSlots ==
  ASSUME RunTypes
  PROVE  /\ Targets \subseteq 1..Slots /\ Targets \subseteq Nat /\ Slots \in Nat
         /\ IsFiniteSet(Targets) /\ Cardinality(Targets) \in Nat
         /\ Targets # {} => Cardinality(Targets) > 0
<1>1. Slots \in Nat /\ Targets \subseteq 1..Slots
  BY ConstantsAssumption DEF RunTypes, Slots, Targets
<1>2. IsFiniteSet(1..Slots)
  BY <1>1, FS_Interval
<1>3. IsFiniteSet(Targets)
  BY <1>1, <1>2, FS_Subset
<1>4. Cardinality(Targets) \in Nat /\ (Cardinality(Targets) = 0 <=> Targets = {})
  BY <1>3, FS_CardinalityType, FS_EmptySet
<1>5. Targets \subseteq Nat
  <2>1. 1..Slots \subseteq Nat
    BY <1>1
  <2> QED  BY <1>1, <2>1
<1>6. Targets # {} => Cardinality(Targets) > 0
  BY <1>4
<1> QED  BY <1>1, <1>3, <1>4, <1>5, <1>6

LEMMA Quotient ==
  ASSUME NEW a \in Nat, NEW b \in Nat, b > 0
  PROVE  a \div b \in Nat /\ b * (a \div b) <= a
  BY Z3

LEMMA Monotone ==
  ASSUME NEW b \in Nat, NEW x \in Nat, NEW y \in Nat, x <= y
  PROVE  b * x \in Nat /\ b * x <= b * y
  BY Z3

\* A slot's share fits the addendum's cap as often as there are targets.
LEMMA SharesFit ==
  ASSUME RunTypes, Targets # {}
  PROVE  PerSlot \in Nat /\ Cardinality(Targets) * PerSlot <= MaxTotal
<1> DEFINE b == Cardinality(Targets)
           q == MaxTotal \div b
           S == {q, MaxPerSlot - 1}
<1>1. b \in Nat /\ b > 0 /\ MaxTotal \in Nat /\ MaxPerSlot - 1 \in Nat
  BY TargetsAreSlots, RecoveryAssumption
<1>2. q \in Nat /\ b * q <= MaxTotal
  <2> HIDE DEF b
  <2> QED  BY <1>1, Quotient
<1>3. PerSlot = Min(S)
  BY DEF PerSlot
<1> HIDE DEF b, q
<1>4. S \in SUBSET Nat /\ S # {} /\ q \in S
  BY <1>1, <1>2
<1> HIDE DEF S
<1>5. PerSlot \in Nat /\ PerSlot <= q
  BY <1>3, <1>4, MinIsLeast
<1>6. b * PerSlot \in Nat /\ b * PerSlot <= b * q
  BY <1>1, <1>2, <1>5, Monotone
<1>7. b * q \in Nat
  BY <1>1, <1>2, Monotone
<1> QED
  BY <1>1, <1>2, <1>5, <1>6, <1>7 DEF b

\* What a recovery rests on does not change once it began.
LEMMA RecoveryFrame ==
  ASSUME UNCHANGED vars
  PROVE  UNCHANGED <<Slots, Targets, PerSlot, Prior>>
<1>1. Slots' = Slots
  BY DEF vars, Slots
<1>2. Targets' = Targets
  BY <1>1 DEF vars, Targets, Terminal
<1> QED
  BY <1>1, <1>2 DEF PerSlot, Prior

\* One attempt of the current target.
LEMMA AskFacts ==
  ASSUME IInv, Ask
  PROVE  /\ UNCHANGED vars /\ recovery.stage = "dispatching"
         /\ \E o \in Answers :
              /\ spending' = RecoverySettled(o)
              /\ recoveryBilled' = recoveryBilled + CostOf(o)
              /\ \/ /\ overlay' = [overlay EXCEPT ![recovery.slot] =
                         Append(overlay[recovery.slot], [number |-> recovery.number, outcome |-> o])]
                    /\ recovery' = After(o)
                 \/ /\ recovery' = [recovery EXCEPT !.stage = "failed"]
                    /\ overlay' = overlay
         /\ ~spending.exhausted /\ spending.spent + Reserve <= HardCeiling - Prior
  BY DEF Ask

LEMMA AfterFacts ==
  ASSUME IInv, recovery.stage = "dispatching", NEW o \in Answers
  PROVE  \/ After(o) = [recovery EXCEPT !.stage = "ended"]
         \/ /\ After(o) = [recovery EXCEPT !.number = recovery.number + 1]
            /\ IsTransient(o) /\ recovery.number < PerSlot
         \/ \E t \in Targets : recovery.slot < t /\ After(o) = [recovery EXCEPT !.slot = t, !.number = 1]
<1>1. Later \in SUBSET Nat
  BY TargetsAreSlots DEF IInv, Run, Later
<1>2. Later # {} => Min(Later) \in Later
  BY <1>1, MinIsLeast
<1>3. Later # {} => Min(Later) \in Targets /\ recovery.slot < Min(Later)
  BY <1>2 DEF Later
<1> QED  BY <1>3 DEF After

LEMMA RecoveryTypesStep == IInv /\ [Next]_allVars => RecoveryTypes'
<1> SUFFICES ASSUME IInv, [Next]_allVars PROVE RecoveryTypes'
  OBVIOUS
<1>0. /\ RecoveryTypes /\ Slots \in Nat /\ Slots' = Slots /\ RunTypes
      /\ \A t \in Targets : t \in 1..Slots
  <2>1. UNCHANGED plan
    BY DEF Next, RunNext, Dispatch, Finish, TimeOutRun, Take, TakeFinished, Begin, Refuse, Send, Answer, Decide,
           Prepare, Ask, StopDispatch, Finalize, vars, allVars
  <2> QED  BY <2>1, TargetsAreSlots DEF IInv, Run, Slots
<1>1. CASE UNCHANGED rvars
  BY <1>0, <1>1 DEF rvars, RecoveryTypes
<1>2. CASE Prepare
  <2>1. Min(Targets) \in Nat
    BY <1>0, <1>2, TargetsAreSlots, MinIsLeast DEF Prepare
  <2> QED  BY <1>0, <1>2, <2>1 DEF Prepare, RecoveryTypes
<1>3. CASE StopDispatch \/ Finalize
  BY <1>0, <1>3 DEF StopDispatch, Finalize, RecoveryTypes
<1>4. CASE Ask
  <2>1. PICK o \in Answers :
          /\ spending' = RecoverySettled(o)
          /\ recoveryBilled' = recoveryBilled + CostOf(o)
          /\ \/ /\ overlay' = [overlay EXCEPT ![recovery.slot] =
                     Append(overlay[recovery.slot], [number |-> recovery.number, outcome |-> o])]
                /\ recovery' = After(o)
             \/ /\ recovery' = [recovery EXCEPT !.stage = "failed"]
                /\ overlay' = overlay
    BY <1>4, AskFacts
  <2>2. recovery.stage = "dispatching" /\ recovery.slot \in Targets /\ recovery.slot \in 1..Slots
    BY <1>0, <1>4 DEF Ask, IInv, RecoveryKept
  <2>3. recovery' \in [stage : {"none", "dispatching", "ended", "written", "failed"}, slot : Nat, number : Nat]
    <3>1. After(o) \in [stage : {"none", "dispatching", "ended", "written", "failed"}, slot : Nat, number : Nat]
      <4> DEFINE Records == [stage : {"none", "dispatching", "ended", "written", "failed"}, slot : Nat, number : Nat]
      <4>1. recovery \in Records /\ Targets \subseteq Nat
        BY <1>0, TargetsAreSlots DEF RecoveryTypes
      <4>2. [recovery EXCEPT !.stage = "ended"] \in Records
        BY <4>1
      <4>3. [recovery EXCEPT !.number = recovery.number + 1] \in Records
        BY <4>1
      <4>4. \A t \in Targets : [recovery EXCEPT !.slot = t, !.number = 1] \in Records
        BY <4>1
      <4> HIDE DEF Records
      <4>5. After(o) \in Records
        BY <2>2, <4>2, <4>3, <4>4, AfterFacts
      <4> QED  BY <4>5 DEF Records
    <3> QED  BY <1>0, <2>1, <3>1 DEF RecoveryTypes
  <2>4. overlay' \in [1..Slots -> Seq(Recoverable)]
    <3>1. [number |-> recovery.number, outcome |-> o] \in Recoverable
      BY <1>0 DEF RecoveryTypes, Recoverable
    <3>2. Append(overlay[recovery.slot], [number |-> recovery.number, outcome |-> o]) \in Seq(Recoverable)
      BY <1>0, <2>2, <3>1 DEF RecoveryTypes
    <3> QED  BY <1>0, <2>1, <2>2, <3>2 DEF RecoveryTypes
  <2>5. CostOf(o) \in Nat /\ Reserve \in Nat
    BY CostIsBounded, ConstantsAssumption
  <2>6. spending' \in [spent : Int, exhausted : BOOLEAN]
    BY <1>0, <2>1, <2>5 DEF RecoverySettled, RecoveryTypes
  <2> QED  BY <1>0, <2>1, <2>3, <2>4, <2>5, <2>6 DEF RecoveryTypes
<1>5. QED
  BY <1>1, <1>2, <1>3, <1>4 DEF Next, allVars, rvars

\* The attempts a recovery has written are those its validator takes.
LEMMA AskAccepted ==
  ASSUME IInv, Ask
  PROVE  RecoveryKept'
<1>0. RunTypes /\ RecoveryTypes /\ RecoveryKept
  BY DEF IInv, Run
<1>1. UNCHANGED vars /\ recovery.stage = "dispatching"
  BY AskFacts
<1>2. UNCHANGED <<Slots, Targets, PerSlot>>
  BY <1>1, RecoveryFrame
<1> DEFINE t == recovery.slot
           n == recovery.number
           log == overlay[t]
<1>3. /\ coordinator = "finished" /\ plan.guarded /\ Targets # {} /\ IsAccepted
      /\ t \in Targets /\ n \in 1..PerSlot /\ Len(log) = n - 1
      /\ \A k \in 1..Len(log) : IsTransient(log[k].outcome)
      /\ \A slot \in 1..Slots : slot > t => overlay[slot] = <<>>
  BY <1>0, <1>1 DEF RecoveryKept
<1>4. PerSlot \in Nat /\ t \in 1..Slots /\ Slots \in Nat /\ Targets \subseteq 1..Slots /\ n \in Nat /\ log \in Seq(Recoverable)
  BY <1>0, <1>3, SharesFit, TargetsAreSlots DEF RecoveryTypes
<1>5. PICK o \in Answers :
        \/ /\ overlay' = [overlay EXCEPT ![t] = Append(log, [number |-> n, outcome |-> o])]
           /\ recovery' = After(o)
        \/ /\ recovery' = [recovery EXCEPT !.stage = "failed"]
           /\ overlay' = overlay
  BY AskFacts
<1>6. recovery' = [recovery EXCEPT !.stage = "failed"] => recovery'.stage = "failed"
  BY <1>0 DEF RecoveryTypes
<1>7. CASE recovery' = [recovery EXCEPT !.stage = "failed"] /\ overlay' = overlay
  <2>1. IsAccepted'
    BY <1>2, <1>3, <1>7 DEF IsAccepted
  <2> QED  BY <1>1, <1>2, <1>3, <1>6, <1>7, <2>1 DEF RecoveryKept, vars
<1>8. CASE /\ overlay' = [overlay EXCEPT ![t] = Append(log, [number |-> n, outcome |-> o])]
           /\ recovery' = After(o)
  <2> DEFINE e == [number |-> n, outcome |-> o]
  <2>1. /\ overlay'[t] = Append(log, e) /\ \A slot \in 1..Slots : slot # t => overlay'[slot] = overlay[slot]
        /\ e \in Recoverable /\ e.number = n /\ e.outcome = o
    BY <1>0, <1>4, <1>8 DEF RecoveryTypes, Recoverable
  <2> HIDE DEF e
  <2>2. /\ Len(overlay'[t]) = n /\ overlay'[t][n] = e
        /\ \A k \in 1..(n - 1) : overlay'[t][k] = log[k]
    BY <1>3, <1>4, <2>1
  <2>3. IsAccepted'
    <3>1. ASSUME NEW slot \in 1..Slots, slot # t
          PROVE  /\ overlay'[slot] # <<>> => slot \in Targets
                 /\ \A k \in 1..Len(overlay'[slot]) :
                      /\ overlay'[slot][k].number = k /\ k <= PerSlot
                      /\ k < Len(overlay'[slot]) => IsTransient(overlay'[slot][k].outcome)
      <4>1. overlay'[slot] = overlay[slot]
        BY <2>1, <3>1
      <4> QED  BY <1>3, <4>1 DEF IsAccepted
    <3>2. ASSUME NEW k \in 1..n
          PROVE  /\ overlay'[t][k].number = k /\ k <= PerSlot
                 /\ k < n => IsTransient(overlay'[t][k].outcome)
      <4>1. CASE k = n
        BY <1>3, <1>4, <2>1, <2>2, <4>1
      <4>2. CASE k \in 1..(n - 1)
        <5>1. k \in 1..Len(log) /\ overlay'[t][k] = log[k]
          BY <1>3, <2>2, <4>2
        <5>2. log[k].number = k /\ k <= PerSlot /\ IsTransient(log[k].outcome)
          BY <1>3, <1>4, <5>1 DEF IsAccepted
        <5> QED  BY <5>1, <5>2
      <4> QED  BY <1>4, <4>1, <4>2
    <3> HIDE DEF t, n
    <3> QED  BY <1>2, <1>3, <2>2, <3>1, <3>2 DEF IsAccepted
  <2>4. \A slot \in 1..Slots : slot > t => overlay'[slot] = <<>>
    BY <1>3, <1>4, <2>1
  <2>5. IsTransient(o) => \A k \in 1..n : IsTransient(overlay'[t][k].outcome)
    <3> SUFFICES ASSUME IsTransient(o), NEW k \in 1..n PROVE IsTransient(overlay'[t][k].outcome)
      OBVIOUS
    <3>1. CASE k = n
      BY <2>1, <2>2, <3>1
    <3>2. CASE k \in 1..(n - 1)
      BY <1>3, <2>2, <3>2
    <3> QED  BY <1>4, <3>1, <3>2
  <2>6. CASE After(o) = [recovery EXCEPT !.stage = "ended"]
    <3>1. recovery'.stage = "ended"
      BY <1>0, <1>8, <2>6 DEF RecoveryTypes
    <3> QED  BY <1>1, <1>2, <1>3, <2>3, <3>1 DEF RecoveryKept, vars
  <2>7. CASE After(o) = [recovery EXCEPT !.number = n + 1] /\ IsTransient(o) /\ n < PerSlot
    <3>1. recovery'.stage = "dispatching" /\ recovery'.slot = t /\ recovery'.number = n + 1
      BY <1>0, <1>1, <1>8, <2>7 DEF RecoveryTypes
    <3>2. n + 1 \in 1..PerSlot /\ Len(overlay'[t]) = (n + 1) - 1
      BY <1>4, <2>2, <2>7
    <3>3. \A k \in 1..Len(overlay'[t]) : IsTransient(overlay'[t][k].outcome)
      BY <2>2, <2>5, <2>7
    <3> HIDE DEF t, n
    <3> QED  BY <1>1, <1>2, <1>3, <2>3, <2>4, <3>1, <3>2, <3>3 DEF RecoveryKept, vars
  <2>8. ASSUME NEW u \in Targets, t < u, After(o) = [recovery EXCEPT !.slot = u, !.number = 1] PROVE RecoveryKept'
    <3>1. recovery'.stage = "dispatching" /\ recovery'.slot = u /\ recovery'.number = 1
      BY <1>0, <1>1, <1>8, <2>8 DEF RecoveryTypes
    <3>2. u \in 1..Slots /\ 1 \in 1..PerSlot
      BY <1>3, <1>4
    <3>3. overlay'[u] = <<>> /\ \A slot \in 1..Slots : slot > u => overlay'[slot] = <<>>
      BY <1>4, <2>4, <2>8, <3>2
    <3>4. Len(overlay'[u]) = 1 - 1 /\ \A k \in 1..Len(overlay'[u]) : IsTransient(overlay'[u][k].outcome)
      BY <3>3
    <3> HIDE DEF t, n
    <3> QED  BY <1>1, <1>2, <1>3, <2>3, <3>1, <3>2, <3>3, <3>4 DEF RecoveryKept, vars
  <2> QED  BY <1>1, <2>6, <2>7, <2>8, AfterFacts
<1>9. QED
  BY <1>5, <1>7, <1>8

LEMMA RecoveryKeptStep == IInv /\ [Next]_allVars => RecoveryKept'
<1> SUFFICES ASSUME IInv, [Next]_allVars PROVE RecoveryKept'
  OBVIOUS
<1>0. Run /\ RunTypes /\ RecoveryTypes /\ RecoveryKept
  BY DEF IInv, Run
<1>1. CASE UNCHANGED allVars
  <2>1. UNCHANGED vars /\ UNCHANGED rvars
    BY <1>1 DEF allVars
  <2>2. UNCHANGED <<Slots, Targets, PerSlot>>
    BY <2>1, RecoveryFrame
  <2> QED  BY <1>0, <2>1, <2>2 DEF RecoveryKept, IsAccepted, rvars, vars
<1>2. CASE RunNext /\ UNCHANGED rvars
  <2>1. CASE recovery.stage = "none"
    <3>1. Slots' = Slots
      BY <1>2 DEF RunNext, Dispatch, Finish, TimeOutRun, Take, TakeFinished, Begin, Refuse, Send, Answer, Decide, Slots
    <3> QED  BY <1>0, <1>2, <2>1, <3>1 DEF RecoveryKept, rvars
  <2>2. CASE recovery.stage # "none"
    <3>1. UNCHANGED vars
      BY <1>0, <1>2, <2>2, FinishedStays DEF RecoveryKept
    <3> QED  BY <1>1, <1>2, <3>1 DEF allVars
  <2> QED  BY <2>1, <2>2
<1>3. CASE Prepare
  <2>1. UNCHANGED <<vars, overlay, spending, recoveryBilled>>
        /\ recovery' = [stage |-> "dispatching", slot |-> Min(Targets), number |-> 1]
        /\ coordinator = "finished" /\ plan.guarded /\ Targets # {} /\ PerSlot > 0 /\ recovery.stage = "none"
    BY <1>3 DEF Prepare
  <2>2. UNCHANGED <<Slots, Targets, PerSlot>> /\ UNCHANGED vars
    BY <2>1, RecoveryFrame
  <2>3. Min(Targets) \in Targets /\ 1 \in 1..PerSlot
    BY <1>0, <2>1, TargetsAreSlots, SharesFit, MinIsLeast
  <2>4. \A slot \in 1..Slots' : overlay'[slot] = <<>>
    BY <1>0, <2>1, <2>2 DEF RecoveryKept
  <2>5. IsAccepted'
    BY <2>4 DEF IsAccepted
  <2>6. recovery'.stage = "dispatching" /\ recovery'.slot = Min(Targets) /\ recovery'.number = 1
    BY <2>1
  <2>7. Min(Targets) \in 1..Slots'
    BY <1>0, <2>2, <2>3, TargetsAreSlots
  <2>8. Len(overlay'[recovery'.slot]) = recovery'.number - 1
        /\ \A k \in 1..Len(overlay'[recovery'.slot]) : IsTransient(overlay'[recovery'.slot][k].outcome)
    BY <2>4, <2>6, <2>7
  <2> QED  BY <2>1, <2>2, <2>3, <2>4, <2>5, <2>6, <2>8 DEF RecoveryKept, vars
<1>4. CASE Ask
  BY <1>4, AskAccepted
<1>5. CASE StopDispatch \/ Finalize
  <2>1. UNCHANGED <<vars, overlay, spending, recoveryBilled>> /\ recovery.stage # "none"
        /\ recovery'.stage \in {"ended", "written", "failed"}
    BY <1>0, <1>5 DEF StopDispatch, Finalize, RecoveryTypes
  <2>2. UNCHANGED <<Slots, Targets, PerSlot>> /\ UNCHANGED vars
    BY <2>1, RecoveryFrame
  <2>3. IsAccepted'
    BY <1>0, <2>1, <2>2 DEF RecoveryKept, IsAccepted
  <2> QED  BY <1>0, <2>1, <2>2, <2>3 DEF RecoveryKept, vars
<1>6. QED
  BY <1>1, <1>2, <1>3, <1>4, <1>5 DEF Next

\* What the recovery's guard holds after an answer.
LEMMA SettledFacts ==
  ASSUME NEW o, NEW kept, NEW settled, kept = spending.spent + Reserve, settled = kept - Reserve + CostOf(o)
  PROVE  /\ RecoverySettled(o).exhausted <=> o = "overrun"
         /\ RecoverySettled(o).spent \in {kept, settled}
<1>1. RecoverySettled(o) =
        [spent |-> IF o \in {"executed", "malformed"} THEN settled ELSE kept, exhausted |-> o = "overrun"]
  BY Zenon DEF RecoverySettled
<1> DEFINE s == IF o \in {"executed", "malformed"} THEN settled ELSE kept
           e == o = "overrun"
<1>2. RecoverySettled(o) = [spent |-> s, exhausted |-> e]
  BY <1>1
<1> HIDE DEF s, e
<1>3. RecoverySettled(o).exhausted = e /\ RecoverySettled(o).spent = s
  BY <1>2
<1>4. s \in {kept, settled}
  BY DEF s
<1>5. e <=> o = "overrun"
  BY DEF e
<1> QED  BY <1>3, <1>4, <1>5

LEMMA SpendingStep == IInv /\ [Next]_allVars => SpendingKept'
<1> SUFFICES ASSUME IInv, [Next]_allVars PROVE SpendingKept'
  OBVIOUS
<1>0. /\ UNCHANGED plan /\ Prior' = Prior /\ Prior \in Int /\ HardCeiling \in Nat /\ Reserve \in Nat
      /\ RecoveryTypes /\ SpendingKept
  <2>1. UNCHANGED plan
    BY DEF Next, RunNext, Dispatch, Finish, TimeOutRun, Take, TakeFinished, Begin, Refuse, Send, Answer, Decide,
           Prepare, Ask, StopDispatch, Finalize, vars, allVars
  <2>2. Slots \in Nat
    BY TargetsAreSlots DEF IInv, Run
  <2> QED  BY <2>1, <2>2, ConstantsAssumption, RecoveryAssumption DEF Prior, Slots, IInv
<1>1. CASE UNCHANGED <<spending, recoveryBilled>>
  BY <1>0, <1>1 DEF SpendingKept
<1>2. CASE Ask
  <2>1. PICK o \in Answers : spending' = RecoverySettled(o) /\ recoveryBilled' = recoveryBilled + CostOf(o)
    BY <1>2, AskFacts
  <2>2. ~spending.exhausted /\ spending.spent + Reserve <= HardCeiling - Prior
    BY <1>2, AskFacts
  <2>3. CostOf(o) \in Nat /\ (o # "overrun" => CostOf(o) <= Reserve)
    BY CostIsBounded
  <2>4. /\ spending'.exhausted <=> o = "overrun"
        /\ spending'.spent \in {spending.spent + Reserve, spending.spent + CostOf(o)}
    <3>1. PICK kept, settled : kept = spending.spent + Reserve /\ settled = kept - Reserve + CostOf(o)
      OBVIOUS
    <3>2. /\ spending'.exhausted <=> o = "overrun"
          /\ spending'.spent \in {kept, settled}
      BY <2>1, <3>1, SettledFacts
    <3>3. kept \in Int /\ settled = spending.spent + CostOf(o)
      BY <1>0, <2>3, <3>1 DEF RecoveryTypes
    <3> QED  BY <3>1, <3>2, <3>3
  <2>5. spending.spent \in Int /\ recoveryBilled \in Nat
    BY <1>0 DEF RecoveryTypes
  <2>6. CASE plan.guarded /\ o # "overrun"
    <3>1. recoveryBilled <= spending.spent /\ spending.spent <= HardCeiling - Prior
      BY <1>0, <2>2, <2>6 DEF SpendingKept
    <3>2. recoveryBilled' <= spending'.spent /\ spending'.spent <= HardCeiling - Prior
      BY <1>0, <2>1, <2>2, <2>3, <2>4, <2>5, <2>6, <3>1
    <3> QED  BY <1>0, <3>2 DEF SpendingKept
  <2>7. CASE ~plan.guarded \/ o = "overrun"
    BY <1>0, <2>4, <2>7 DEF SpendingKept
  <2> QED  BY <2>6, <2>7
<1>3. QED
  BY <1>1, <1>2 DEF Next, Prepare, StopDispatch, Finalize, rvars, allVars

LEMMA CampaignStep == IInv /\ [Next]_allVars => IInv'
<1> SUFFICES ASSUME IInv, [Next]_allVars PROVE IInv'
  OBVIOUS
<1>1. [RunNext]_vars
  BY DEF Next, Prepare, Ask, StopDispatch, Finalize, allVars
<1>2. Run'
  BY <1>1, RunStep DEF IInv
<1> QED
  BY <1>2, RecoveryTypesStep, RecoveryKeptStep, SpendingStep DEF IInv

LEMMA CampaignBegins == Init => IInv
<1> SUFFICES ASSUME Init PROVE IInv
  OBVIOUS
<1>1. Run /\ RunTypes
  BY RunBegins DEF Init, Run
<1>2. RecoveryTypes
  BY DEF Init, RecoveryTypes, NoRecovery, NewGuard
<1>3. RecoveryKept
  BY DEF Init, RecoveryKept, NoRecovery
<1>4. SpendingKept
  <2>1. plan.guarded => Prior <= HardCeiling
    BY <1>1, RecoveryAssumption DEF RunTypes, Prior, Slots
  <2>2. Prior \in Int /\ HardCeiling \in Nat
    BY <1>1, TargetsAreSlots, ConstantsAssumption, RecoveryAssumption DEF Prior
  <2> QED  BY <2>1, <2>2 DEF Init, SpendingKept, NewGuard
<1> QED
  BY <1>1, <1>2, <1>3, <1>4 DEF IInv

\* A run's lanes, journal and guard agree with one another, and its recovery with its
\* journal (runConcurrent, CampaignBudgetGuard, campaign-recover).
THEOREM CampaignInvariant == CampaignSpec => []IInv
  BY CampaignBegins, CampaignStep, PTL DEF CampaignSpec

----------------------------------------------------------------------------
(* What the runs check *)

LEMMA AtMostOne ==
  ASSUME NEW S, \A c, d \in S : c = d
  PROVE  Cardinality(S) <= 1
<1>1. CASE S = {}
  BY <1>1, FS_EmptySet
<1>2. CASE S # {}
  <2>1. PICK c : S = {c}
    BY <1>2
  <2>2. Cardinality({c}) = 1
    BY FS_Singleton
  <2> QED  BY <2>1, <2>2
<1> QED  BY <1>1, <1>2

\* A content ends the attempts of the run and those of the recovery, and a slot whose
\* run got one is not recovered.
LEMMA ContentEndsASlot ==
  ASSUME IInv, NEW slot \in 1..Slots
  PROVE  /\ \A k \in 1..Len(journal[slot]) : journal[slot][k].outcome \in WithContent =>
              k = Len(journal[slot]) /\ overlay[slot] = <<>>
         /\ \A k \in 1..Len(overlay[slot]) : overlay[slot][k].outcome \in WithContent =>
              k = Len(overlay[slot]) /\ overlay[slot] # <<>> /\ slot \in Targets
<1>1. journal[slot] \in Seq(Attempts) /\ overlay[slot] \in Seq(Recoverable) /\ IsLog(journal[slot])
  BY DEF IInv, Run, RunTypes, RecoveryTypes, JournalKept
<1>2. overlay[slot] # <<>> =>
        /\ slot \in Targets
        /\ \A k \in 1..Len(overlay[slot]) : k < Len(overlay[slot]) => IsTransient(overlay[slot][k].outcome)
  BY DEF IInv, RecoveryKept, IsAccepted
<1>3. ASSUME NEW k \in 1..Len(journal[slot]), journal[slot][k].outcome \in WithContent
      PROVE  k = Len(journal[slot]) /\ overlay[slot] = <<>>
  <2>1. k = Len(journal[slot])
    <3>1. Len(journal[slot]) \in Nat
      BY <1>1
    <3>2. ~(k < Len(journal[slot]))
      BY <1>1, <1>3 DEF IsLog, Retryable, WithContent
    <3> QED  BY <3>1, <3>2
  <2>2. Terminal(slot) = journal[slot][k].outcome
    BY <2>1 DEF Terminal, Last
  <2> QED  BY <1>2, <1>3, <2>1, <2>2 DEF Targets, IsTransient, WithContent
<1>4. ASSUME NEW k \in 1..Len(overlay[slot]), overlay[slot][k].outcome \in WithContent
      PROVE  k = Len(overlay[slot]) /\ overlay[slot] # <<>> /\ slot \in Targets
  <2>1. overlay[slot] # <<>> /\ Len(overlay[slot]) \in Nat
    BY <1>1
  <2>2. ~(k < Len(overlay[slot]))
    BY <1>2, <1>4, <2>1 DEF IsTransient, WithContent
  <2> QED  BY <1>2, <2>1, <2>2
<1> QED  BY <1>3, <1>4

LEMMA OneContent ==
  ASSUME IInv, NEW slot \in 1..Slots
  PROVE  Cardinality(Contents(slot)) <= 1
<1>1. \A c \in Contents(slot) :
        \/ /\ c = <<"run", Len(journal[slot])>>
           /\ overlay[slot] = <<>>
        \/ /\ c = <<"recovery", Len(overlay[slot])>>
           /\ overlay[slot] # <<>>
  BY ContentEndsASlot DEF Contents
<1>2. \A c, d \in Contents(slot) : c = d
  BY <1>1
<1> QED  BY <1>2, AtMostOne

LEMMA ContentIsEffective ==
  ASSUME IInv, NEW slot \in 1..Slots, Contents(slot) # {}
  PROVE  Effective(slot) \in WithContent
<1>1. \/ \E k \in 1..Len(journal[slot]) : journal[slot][k].outcome \in WithContent
      \/ \E k \in 1..Len(overlay[slot]) : overlay[slot][k].outcome \in WithContent
  BY DEF Contents
<1>2. ASSUME NEW k \in 1..Len(journal[slot]), journal[slot][k].outcome \in WithContent
      PROVE  Effective(slot) \in WithContent
  <2>1. k = Len(journal[slot]) /\ overlay[slot] = <<>>
    BY <1>2, ContentEndsASlot
  <2> QED  BY <1>2, <2>1 DEF Effective, Terminal, Last
<1>3. ASSUME NEW k \in 1..Len(overlay[slot]), overlay[slot][k].outcome \in WithContent
      PROVE  Effective(slot) \in WithContent
  <2>1. k = Len(overlay[slot]) /\ overlay[slot] # <<>> /\ slot \in Targets
    BY <1>3, ContentEndsASlot
  <2>2. IsTransient(Terminal(slot))
    BY <2>1 DEF Targets
  <2>3. recovery.stage # "none" /\ IsAccepted
    BY <2>1 DEF IInv, RecoveryKept
  <2>4. \A i \in Executed(slot) : i = k
    <3> SUFFICES ASSUME NEW i \in Executed(slot), i # k PROVE FALSE
      OBVIOUS
    <3>1. i \in 1..Len(overlay[slot]) /\ StatusOf(overlay[slot][i].outcome) = "executed"
      BY DEF Executed
    <3>2. Len(overlay[slot]) \in Nat
      BY DEF IInv, RecoveryTypes
    <3>3. IsTransient(overlay[slot][i].outcome)
      BY <2>1, <2>3, <3>1, <3>2 DEF IsAccepted
    <3> QED  BY <3>1, <3>3 DEF StatusOf, IsTransient, Undispatched
  <2>5. CASE Executed(slot) # {}
    <3>1. Executed(slot) \in SUBSET Nat
      BY DEF Executed, IInv, RecoveryTypes
    <3>2. Min(Executed(slot)) = k
      BY <2>4, <2>5, <3>1, MinIsLeast
    <3> QED  BY <1>3, <2>1, <2>2, <2>5, <3>2 DEF Effective
  <2>6. CASE Executed(slot) = {}
    BY <1>3, <2>1, <2>2, <2>6 DEF Effective, Last
  <2> QED  BY <2>5, <2>6
<1> QED  BY <1>1, <1>2, <1>3

\* However the lanes of a campaign's run stopped, its journal can be replayed once it
\* finished; the validator of a recovery accepts its overlay, however the recovery stopped;
\* and of each slot there is one content at most, which is the effective one (validateRun,
\* ValidateRecovery and EffectiveRecoveryAttempts).  A finished run with retries is refused
\* exactly when it repeated an attempt that sent nothing.
THEOREM CampaignEvidenceAccepted == CampaignSpec => []CampaignEvidenceIsAccepted
<1>1. IInv => CampaignEvidenceIsAccepted
  <2> SUFFICES ASSUME IInv PROVE CampaignEvidenceIsAccepted
    OBVIOUS
  <2>1. CampaignRunReplays /\ RefusedIfRepeatedUnsent
    BY RunReplays, CampaignReplays DEF IInv
  <2>2. RecordedIsAccepted
    BY DEF IInv, RecoveryKept, RecordedIsAccepted
  <2>3. ContentIsFinal
    BY OneContent, ContentIsEffective DEF ContentIsFinal
  <2> QED  BY <2>1, <2>2, <2>3 DEF CampaignEvidenceIsAccepted
<1> QED  BY <1>1, CampaignInvariant, PTL

\* The requests of a recovery are at most as many as its targets have shares.
LEMMA RecoveriesAreCapped == IInv => RecoveryIsCapped
<1> SUFFICES ASSUME IInv PROVE RecoveryIsCapped
  OBVIOUS
<1>1. MaxTotal \in Nat /\ \A slot \in 1..Slots : overlay[slot] \in Seq(Recoverable)
  BY RecoveryAssumption DEF IInv, RecoveryTypes
<1>2. CASE recovery.stage = "none"
  <2>1. Recoveries = {}
    BY <1>2 DEF Recoveries, IInv, RecoveryKept
  <2> QED  BY <1>1, <2>1, FS_EmptySet DEF RecoveryIsCapped
<1>3. CASE recovery.stage # "none"
  <2>1. Targets # {} /\ IsAccepted /\ RunTypes
    BY <1>3 DEF IInv, RecoveryKept, Run
  <2>2. IsFiniteSet(Targets) /\ Cardinality(Targets) \in Nat
    BY <2>1, TargetsAreSlots
  <2>3. PerSlot \in Nat /\ Cardinality(Targets) * PerSlot <= MaxTotal
    BY <2>1, SharesFit
  <2>4. IsFiniteSet(1..PerSlot) /\ Cardinality(1..PerSlot) = PerSlot
    BY <2>3, FS_Interval
  <2>5. IsFiniteSet(Targets \X (1..PerSlot))
        /\ Cardinality(Targets \X (1..PerSlot)) = Cardinality(Targets) * PerSlot
    BY <2>2, <2>4, FS_Product
  <2>6. Recoveries \subseteq Targets \X (1..PerSlot)
    <3> SUFFICES ASSUME NEW slot \in 1..Slots, NEW k \in DOMAIN overlay[slot]
                 PROVE  slot \in Targets /\ k \in 1..PerSlot
      BY DEF Recoveries
    <3>1. k \in 1..Len(overlay[slot]) /\ overlay[slot] # <<>>
      BY <1>1
    <3> QED  BY <2>1, <2>3, <3>1 DEF IsAccepted
  <2>7. Cardinality(Recoveries) <= Cardinality(Targets) * PerSlot /\ Cardinality(Recoveries) \in Nat
    BY <2>5, <2>6, FS_Subset, FS_CardinalityType
  <2>8. Cardinality(Targets) * PerSlot \in Nat
    BY <2>2, <2>3, Monotone
  <2> QED  BY <1>1, <2>3, <2>7, <2>8 DEF RecoveryIsCapped
<1> QED  BY <1>2, <1>3

\* What a run spent is within what its recovery takes it to have spent.
LEMMA CeilingIsKept == IInv => CampaignStaysUnderCeiling
<1> SUFFICES ASSUME IInv, plan.guarded, ~guard.exhausted, ~spending.exhausted
             PROVE  billed + recoveryBilled <= HardCeiling
  BY DEF CampaignStaysUnderCeiling
<1> DEFINE away == {l \in Lanes : lane[l].pc = "sent"}
<1>1. away \in SUBSET Lanes
  OBVIOUS
<1>2. billed + Reserve * Cardinality(away) <= guard.spent /\ guard.spent <= Ceiling
  BY DEF IInv, Run, SpendIsCovered
<1> HIDE DEF away
<1>3. Cardinality(away) \in Nat /\ Reserve \in Nat
  BY <1>1, LanesAreFinite, ConstantsAssumption
<1>4. Reserve * Cardinality(away) \in Nat
  BY <1>3, Monotone
<1>5. billed \in Nat /\ guard.spent \in Int /\ recoveryBilled \in Nat /\ spending.spent \in Int
  BY DEF IInv, Run, RunTypes, RecoveryTypes
<1>6. Ceiling = Prior /\ Prior \in Nat
  <2>1. Slots \in Nat
    BY TargetsAreSlots DEF IInv, Run
  <2>2. Slots * Reserve \in Nat
    BY <1>3, <2>1, Monotone
  <2> QED  BY <2>2 DEF Ceiling, Prior
<1>7. recoveryBilled <= spending.spent /\ spending.spent <= HardCeiling - Prior
  BY DEF IInv, SpendingKept
<1>8. HardCeiling \in Nat
  BY RecoveryAssumption
<1>9. billed <= Prior
  BY <1>2, <1>4, <1>5, <1>6
<1> QED
  BY <1>5, <1>6, <1>7, <1>8, <1>9

\* Whatever the lanes, plans and ceilings: every request that left is recorded, but for
\* one of each lane (journal.go, runLane), and what the requests of the run and of its
\* recovery may have cost stays under guard, ceiling and cap (CampaignBudgetGuard,
\* campaignRecoveryAttemptLimits).
THEOREM RequestsAccounted == CampaignSpec => []RequestsAreAccounted
<1>1. IInv => RequestsAreAccounted
  BY RecoveriesAreCapped, CeilingIsKept
     DEF RequestsAreAccounted, BudgetHolds, IInv, Run, RequestsKept
<1> QED  BY <1>1, CampaignInvariant, PTL

\* Once the usage of an answer was beyond the bounds, no lane sends another request, not
\* even one that had passed the checks of its attempt before (CampaignBudgetGuard.Reserve).
THEOREM NothingLeavesAfterOverrun == CampaignSpec => NothingAfterOverrun
<1>1. IInv /\ [Next]_allVars => [guard.exhausted => sent' = sent]_vars
  <2> SUFFICES ASSUME IInv, [Next]_allVars, guard.exhausted PROVE sent' = sent
    OBVIOUS
  <2>1. plan.guarded
    BY DEF IInv, Run, GuardKept
  <2>2. ASSUME NEW l \in Lanes, Send(l) PROVE FALSE
    BY <2>1, <2>2 DEF Send, Admits
  <2> QED
    BY <2>2 DEF Next, RunNext, Dispatch, Finish, TimeOutRun, Take, TakeFinished, Begin, Refuse, Answer, Decide,
                Prepare, Ask, StopDispatch, Finalize, vars, allVars
<1> QED  BY <1>1, CampaignInvariant, PTL DEF CampaignSpec, NothingAfterOverrun
=============================================================================
