----------------------------- MODULE ChatbotTurn -----------------------------
(***************************************************************************)
(* The turns of one chatbot conversation: conversation.Service.            *)
(* ContinueChatbotConversation over chatbot_conversations, messages and    *)
(* problem_assessments.                                                    *)
(*                                                                         *)
(* A turn reads the whole conversation, sets processing_started_on with a  *)
(* conditional update, asks the language model, which may take any time,   *)
(* and saves its copy.  Another turn may take over from one that started   *)
(* more than ChatbotProcessingStaleAfter ago, whether it died or not; the  *)
(* saves that end a turn do not ask whether the flag is still its own.     *)
(***************************************************************************)
EXTENDS Integers, FiniteSets

CONSTANTS
  Turns,        \* goroutines of the replicas that can serve a turn
  StaleAfter,   \* ChatbotProcessingStaleAfter, in ticks
  RecentLimit,  \* ChatbotRecentMessageLimit, in exchanges
  MaxTime,      \* bound: the last instant
  MaxCrashes    \* bound: turns that may die with their process

ASSUME ConstantsAssumption ==
  /\ StaleAfter \in Nat \ {0} /\ RecentLimit \in Nat \ {0}
  /\ MaxTime \in Nat \ {0} /\ MaxCrashes \in Nat

VARIABLES
  now,         \* the clock
  flag,        \* processing_started_on, NotProcessing if NULL
  exchanges,   \* how many pairs of a consumer's message and a reply are stored
  summarized,  \* last_summarized_message_id, in exchanges
  assessments, \* how many rows of problem_assessments each version has
  current,     \* version of current_assessment_id, 0 if NULL
  turn,        \* what each turn is doing
  late,        \* history: a turn once ran beyond StaleAfter
  stale,       \* history: a turn once took the flag with an outdated copy
  crashes      \* how many turns died

vars == <<now, flag, exchanges, summarized, assessments, current, turn, late, stale, crashes>>

NotProcessing == 0
Instants == 1..MaxTime
Versions == 1..MaxTime      \* each turn, hence each instant, makes one at most

Replies == {"unchanged", "replace"}
Pcs == {"idle", "acquire", "summarize", "saveSummary", "answer", "save", "finish"}

\* What a failed turn leaves in its copy for the deferred save: nothing; the turn,
\* which no transaction has tried to insert; or rows with ids that were rolled back.
Unsaved == {"none", "turn", "rolledBack"}

Idle == [pc |-> "idle", startedOn |-> NotProcessing, exchanges |-> 0, summarized |-> 0,
         current |-> 0, reply |-> "unchanged", unsaved |-> "none"]

\* pcs at which a turn has taken the flag and is not over.
Running(t) == turn[t].pc \in {"summarize", "saveSummary", "answer", "save", "finish"}

Overruns(t, at) == turn[t].pc # "idle" /\ at > turn[t].startedOn + StaleAfter

Continue(t, pc) == turn' = [turn EXCEPT ![t].pc = pc]
End(t) == turn' = [turn EXCEPT ![t] = Idle]

\* Time passes: from here on some turn may have overrun.
Advance == /\ now < MaxTime
           /\ now' = now + 1
           /\ late' = (late \/ \E t \in Turns : Overruns(t, now + 1))

----------------------------------------------------------------------------
\* FindByID and StartProcessing on the copy.  Every turn starts at an instant
\* of its own: timestamps have microseconds.
StartProcessing(t) ==
  /\ turn[t].pc = "idle"
  /\ flag = NotProcessing \/ flag + StaleAfter <= now
  /\ Advance
  /\ turn' = [turn EXCEPT ![t] =
       [pc |-> "acquire", startedOn |-> now, exchanges |-> exchanges, summarized |-> summarized,
        current |-> current, reply |-> "unchanged", unsaved |-> "none"]]
  /\ UNCHANGED <<flag, exchanges, summarized, assessments, current, stale, crashes>>

\* Mutant: only the copy is checked.
FlagAdmits_Always(t) == TRUE

\* The condition of startChatbotProcessingWithTx.
FlagAdmits(t) ==
  \/ flag = NotProcessing
  \/ flag = turn[t].startedOn
  \/ flag < turn[t].startedOn - StaleAfter

\* ShouldSummarizeContext.
MustSummarize(t) == turn[t].exchanges - turn[t].summarized >= RecentLimit

\* Another turn was saved since t read its copy.
Outdated(t) ==
  \/ turn[t].exchanges # exchanges
  \/ turn[t].summarized # summarized
  \/ turn[t].current # current

\* The first save of the turn: flag and context, or the turn is refused.
Acquire(t) ==
  /\ turn[t].pc = "acquire"
  /\ \/ /\ FlagAdmits(t)
        /\ flag' = turn[t].startedOn
        /\ summarized' = turn[t].summarized
        /\ stale' = (stale \/ Outdated(t))
        /\ Continue(t, IF MustSummarize(t) THEN "summarize" ELSE "answer")
     \/ /\ ~FlagAdmits(t)
        /\ End(t)
        /\ UNCHANGED <<flag, summarized, stale>>
  /\ UNCHANGED <<now, exchanges, assessments, current, late, crashes>>

\* The model summarises what is pending in the copy, or fails.
Summarize(t) ==
  /\ turn[t].pc = "summarize"
  /\ \/ turn' = [turn EXCEPT ![t].pc = "saveSummary",
                             ![t].summarized = turn[t].exchanges]
     \/ Continue(t, "finish")
  /\ UNCHANGED <<now, flag, exchanges, summarized, assessments, current, late, stale, crashes>>

\* The summary is saved under the condition of the first save, or the turn fails.
SaveSummary(t) ==
  /\ turn[t].pc = "saveSummary"
  /\ \/ /\ FlagAdmits(t)
        /\ flag' = turn[t].startedOn
        /\ summarized' = turn[t].summarized
        /\ Continue(t, "answer")
     \/ /\ Continue(t, "finish")
        /\ UNCHANGED <<flag, summarized>>
  /\ UNCHANGED <<now, exchanges, assessments, current, late, stale, crashes>>

\* The model's reply; or it fails; or AddTurn is followed by an error of
\* ApplyResponse, which leaves the exchange in the copy and the assessment as it was.
Answer(t) ==
  /\ turn[t].pc = "answer"
  /\ \/ \E reply \in Replies :
          turn' = [turn EXCEPT ![t].pc = "save", ![t].reply = reply]
     \/ Continue(t, "finish")
     \/ turn' = [turn EXCEPT ![t].pc = "finish", ![t].unsaved = "turn"]
  /\ UNCHANGED <<now, flag, exchanges, summarized, assessments, current, late, stale, crashes>>

\* Mutant: no unique constraint on (chatbot_conversation_id, version).
VersionIsFree_Always(v) == TRUE
VersionIsFree(v) == assessments[v] = 0

\* saveCurrentAssessmentWithTx of a copy that keeps its assessment.
KeepAssessment(t) ==
  /\ turn[t].reply = "unchanged"
  /\ current' = turn[t].current
  /\ UNCHANGED assessments

\* The same of a copy whose reply made the version after the one it had read.
ReplaceAssessment(t) ==
  /\ turn[t].reply = "replace"
  /\ LET v == turn[t].current + 1 IN
     /\ VersionIsFree(v)
     /\ assessments' = [assessments EXCEPT ![v] = @ + 1]
     /\ current' = v

\* Mutant: the context is dropped.
WriteBack_NoContext(t) ==
  /\ flag' = NotProcessing
  /\ summarized' = 0

\* Flag and context, as every save that ends a turn writes them: whoever holds the flag.
WriteBack(t) ==
  /\ flag' = NotProcessing
  /\ summarized' = turn[t].summarized

\* The transaction that stores a turn: its exchange, its assessment, the row.
StoreTurn(t) ==
  /\ exchanges' = exchanges + 1
  /\ KeepAssessment(t) \/ ReplaceAssessment(t)
  /\ WriteBack(t)

\* saveChatbotTurn.
Save(t) ==
  /\ turn[t].pc = "save"
  /\ StoreTurn(t)
  /\ End(t)
  /\ UNCHANGED <<now, late, stale, crashes>>

\* It fails.  Either nothing had been inserted (the request was cancelled) and the
\* copy is as it was; or its rows were rolled back (another turn stored that version,
\* the commit fails) and their ids stay in the copy.
SaveFails(t) ==
  /\ turn[t].pc = "save"
  /\ \E unsaved \in {"turn", "rolledBack"} :
       turn' = [turn EXCEPT ![t].pc = "finish", ![t].unsaved = unsaved]
  /\ UNCHANGED <<now, flag, exchanges, summarized, assessments, current, late, stale, crashes>>

\* The deferred finishChatbotProcessing of a turn that failed saves what the copy
\* holds; its error is dropped.  Messages with an id are not inserted again, so that
\* those that were rolled back are lost and no new assessment can refer to them.
FinishProcessing(t) ==
  /\ turn[t].pc = "finish"
  /\ \/ /\ \/ turn[t].unsaved = "none"
           \/ turn[t].unsaved = "rolledBack" /\ turn[t].reply = "unchanged"
        /\ current' = turn[t].current
        /\ WriteBack(t)
        /\ UNCHANGED <<exchanges, assessments>>
     \/ turn[t].unsaved = "turn" /\ StoreTurn(t)
     \/ UNCHANGED <<flag, exchanges, summarized, assessments, current>>
  /\ End(t)
  /\ UNCHANGED <<now, late, stale, crashes>>

\* The process of a turn dies: the deferred call does not run.
Crash(t) ==
  /\ turn[t].pc # "idle" /\ crashes < MaxCrashes
  /\ crashes' = crashes + 1
  /\ End(t)
  /\ UNCHANGED <<now, flag, exchanges, summarized, assessments, current, late, stale>>

Tick ==
  /\ Advance
  /\ UNCHANGED <<flag, exchanges, summarized, assessments, current, turn, stale, crashes>>

\* CreateChatbotConversation: the first exchange, with an assessment or without.
Init ==
  /\ now = 1 /\ flag = NotProcessing
  /\ exchanges = 1 /\ summarized = 0
  /\ current \in {0, 1}
  /\ assessments = [v \in Versions |-> IF v <= current THEN 1 ELSE 0]
  /\ turn = [t \in Turns |-> Idle]
  /\ late = FALSE /\ stale = FALSE /\ crashes = 0

Next ==
  \/ Tick
  \/ \E t \in Turns :
       \/ StartProcessing(t)
       \/ Acquire(t)
       \/ Summarize(t)
       \/ SaveSummary(t)
       \/ Answer(t)
       \/ Save(t)
       \/ SaveFails(t)
       \/ FinishProcessing(t)
       \/ Crash(t)

Spec == Init /\ [][Next]_vars

----------------------------------------------------------------------------
(* Properties *)

TurnRecords ==
  [pc: Pcs, startedOn: Instants \cup {NotProcessing}, exchanges: Nat, summarized: Nat,
   current: Versions \cup {0}, reply: Replies, unsaved: Unsaved]

\* Types of the conversation's rows and of what the turns hold.
TypeOK ==
  /\ now \in Instants
  /\ flag \in Instants \cup {NotProcessing}
  /\ exchanges \in Nat /\ summarized \in Nat
  /\ assessments \in [Versions -> Nat]
  /\ current \in Versions \cup {0}
  /\ turn \in [Turns -> TurnRecords]
  /\ late \in BOOLEAN /\ stale \in BOOLEAN
  /\ crashes \in 0..MaxCrashes

\* Unless a turn once overran ChatbotProcessingStaleAfter, no two turns run at the
\* same time, though starts race, saves repeat the condition and processes die.
OneTurnAtATime ==
  late \/ \A t, u \in Turns : Running(t) /\ Running(u) => t = u

\* Whatever turns overlap, each version of the assessment is stored once, on top
\* of the version before it, and the current one is one of them.
AssessmentsInOrder ==
  /\ \A v \in Versions : assessments[v] <= 1
  /\ \A v \in Versions : assessments[v] = 1 /\ v > 1 => assessments[v - 1] = 1
  /\ current # 0 => assessments[current] = 1

\* Unless a turn overran or took the flag with a copy older than the row, the
\* newest assessment is the current one, so that the next turn can replace it.
NewestIsCurrent ==
  late \/ stale \/ \A v \in Versions : assessments[v] > 0 => v <= current

\* The assessments form one chain that the conversation points to the end of.
AssessmentsStand == AssessmentsInOrder /\ NewestIsCurrent

\* Unless a turn overran or took the flag with an outdated copy, no save takes the context back to an older summary.
SummaryAdvances == [][late' \/ stale' \/ summarized' >= summarized]_vars
=============================================================================
