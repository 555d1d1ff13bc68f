----------------------------- MODULE JobRequests -----------------------------
(***************************************************************************)
(* Job requests and the work conversation each one opens: jobrequest.      *)
(* Service (creation, acceptance) and the participants' messages of        *)
(* conversation.Service, over the tables job_requests, conversations,      *)
(* work_conversations, messages and notifications.                         *)
(*                                                                         *)
(* A call is one HTTP request being served.  It reads rows in statements   *)
(* of their own, decides on its copies and writes later; each statement    *)
(* that touches what another call can change is an action, and call[c] is  *)
(* what call c remembers in between.  A request and its conversation are   *)
(* inserted together and share an id here.                                 *)
(***************************************************************************)
EXTENDS Integers, FiniteSets

CONSTANTS
  Ids,          \* bound: job requests that can ever be saved
  Pairs,        \* (consumer, provider) pairs
  Calls,        \* calls the replicas can serve at the same time
  None,         \* no pair, no id
  Limit,        \* PendingConsumerMessageLimit
  MaxSent,      \* bound: no message is begun once its sender stored that many
  MaxFailures   \* bound: calls that may be cut short

ASSUME ConstantsAssumption ==
  /\ Limit \in Nat \ {0} /\ MaxSent \in Nat /\ MaxFailures \in Nat
  /\ None \notin Ids \cup Pairs
  /\ IsFiniteSet(Calls)

VARIABLES
  request,      \* job_requests: pair and status of each id
  conversation, \* conversations.status of each id
  sent,         \* messages stored in each conversation, by sender_role
  announced,    \* ids whose notification to the provider is stored
  activated,    \* history: ids whose conversation was ever saved as active
  call,         \* what each call is doing
  failures      \* how many calls were cut short

vars == <<request, conversation, sent, announced, activated, call, failures>>

Roles == {"consumer", "provider"}

RequestStatuses      == {"absent", "pending", "accepted"}
OpenStatuses         == {"pending", "accepted"}
ConversationStatuses == {"absent", "pending", "active"}

NoRequest == [pair |-> None, status |-> "absent"]

NewRequest(pair) == [pair |-> pair, status |-> "pending"]

Steps == {"idle", "save", "announce", "convert", "activate", "accept", "count", "send"}

Holding(step, pair, i, role, status) ==
  [step |-> step, pair |-> pair, id |-> i, role |-> role, status |-> status]

Idle == Holding("idle", None, None, "consumer", "absent")

Begin(c, fields) == call[c].step = "idle" /\ call' = [call EXCEPT ![c] = fields]
Continue(c, step) == call' = [call EXCEPT ![c].step = step]
Finish(c) == call' = [call EXCEPT ![c] = Idle]

OpenBetween(pair) == \E i \in Ids : request[i].pair = pair /\ request[i].status \in OpenStatuses

\* Mutant: no unique constraint.
PairIsFree_Always(pair) == TRUE

\* The unique constraints over (consumer_id, provider_id) admit a new row.
PairIsFree(pair) == ~OpenBetween(pair)

----------------------------------------------------------------------------
(* Create and CreateFromChatbotAssessment *)

\* Up to ensureNoOpenJobRequest.  The checks on users, images and assessment
\* read nothing a call of this module changes.
StartCreate(c, pair) ==
  /\ ~OpenBetween(pair)
  /\ Begin(c, Holding("save", pair, None, "consumer", "absent"))
  /\ UNCHANGED <<request, conversation, sent, announced, activated, failures>>

\* The creation's transaction: conversation, work conversation and request.
SaveWithConversation(c, i) ==
  /\ call[c].step = "save"
  /\ request[i] = NoRequest
  /\ PairIsFree(call[c].pair)
  /\ request' = [request EXCEPT ![i] = NewRequest(call[c].pair)]
  /\ conversation' = [conversation EXCEPT ![i] = "pending"]
  /\ call' = [call EXCEPT ![c] = [@ EXCEPT !.step = "announce", !.id = i]]
  /\ UNCHANGED <<sent, announced, activated, failures>>

\* The transaction rolls back: the pair has an open request by now, or the
\* provider's category, read in the transaction, is disabled.
RefuseSave(c) ==
  /\ call[c].step = "save"
  /\ Finish(c)
  /\ UNCHANGED <<request, conversation, sent, announced, activated, failures>>

\* notificationRepository.Save.
Announce(c) ==
  /\ call[c].step = "announce"
  /\ announced' = announced \cup {call[c].id}
  /\ Finish(c)
  /\ UNCHANGED <<request, conversation, sent, activated, failures>>

----------------------------------------------------------------------------
(* Accept *)

\* FindByID and JobRequest.Accept on the copy, by the request's own provider.
StartAccept(c, i) ==
  /\ request[i].status = "pending"
  /\ Begin(c, Holding("convert", None, i, "consumer", "absent"))
  /\ UNCHANGED <<request, conversation, sent, announced, activated, failures>>

\* Mutant: the request's status is saved and the conversation never is.
Activate_Skipped(c) ==
  /\ call[c].step = "convert"
  /\ IF conversation[call[c].id] = "pending" THEN Continue(c, "accept") ELSE Finish(c)
  /\ UNCHANGED <<request, conversation, sent, announced, activated, failures>>

\* FindByID of the conversation and Conversation.Activate on the copy.
Activate(c) ==
  /\ call[c].step = "convert"
  /\ IF conversation[call[c].id] = "pending" THEN Continue(c, "activate") ELSE Finish(c)
  /\ UNCHANGED <<request, conversation, sent, announced, activated, failures>>

\* Mutant: the call ends with the conversation's save.
SaveActivated_Last(c) ==
  /\ call[c].step = "activate"
  /\ conversation' = [conversation EXCEPT ![call[c].id] = "active"]
  /\ activated' = activated \cup {call[c].id}
  /\ Finish(c)
  /\ UNCHANGED <<request, sent, announced, failures>>

\* SaveConversation of the activated copy.
SaveActivated(c) ==
  /\ call[c].step = "activate"
  /\ conversation' = [conversation EXCEPT ![call[c].id] = "active"]
  /\ activated' = activated \cup {call[c].id}
  /\ Continue(c, "accept")
  /\ UNCHANGED <<request, sent, announced, failures>>

\* SaveStatus, a statement of its own.
SaveStatus(c) ==
  /\ call[c].step = "accept"
  /\ request' = [request EXCEPT ![call[c].id].status = "accepted"]
  /\ Finish(c)
  /\ UNCHANGED <<conversation, sent, announced, activated, failures>>

----------------------------------------------------------------------------
(* SendMessage, by a participant *)

\* While a conversation is pending only the consumer's messages are counted;
\* the provider's are refused.
MayCount(role) == role = "consumer"

\* FindByID of the conversation; its status is the one the whole call uses.
StartMessage(c, i, role) ==
  /\ sent[i][role] < MaxSent
  /\ \/ /\ conversation[i] = "active"
        /\ Begin(c, Holding("send", None, i, role, "active"))
     \/ /\ conversation[i] = "pending" /\ MayCount(role)
        /\ Begin(c, Holding("count", None, i, role, "pending"))
  /\ UNCHANGED <<request, conversation, sent, announced, activated, failures>>

\* Mutant: off by one.
BelowLimit_Inclusive(n) == n <= Limit
BelowLimit(n) == n < Limit

\* CountMessagesBySenderRole and the comparison with the limit.
CountMessages(c) ==
  /\ call[c].step = "count"
  /\ IF BelowLimit(sent[call[c].id]["consumer"]) THEN Continue(c, "send") ELSE Finish(c)
  /\ UNCHANGED <<request, conversation, sent, announced, activated, failures>>

\* SaveConversation of the copy with the new message: it also writes the
\* status the copy has.
SaveMessage(c) ==
  /\ call[c].step = "send"
  /\ conversation' = [conversation EXCEPT ![call[c].id] = call[c].status]
  /\ sent' = [sent EXCEPT ![call[c].id][call[c].role] = @ + 1]
  /\ Finish(c)
  /\ UNCHANGED <<request, announced, activated, failures>>

----------------------------------------------------------------------------
\* A call ends early: a statement fails, the client leaves, the replica dies.
CutShort(c) ==
  /\ call[c].step # "idle"
  /\ failures < MaxFailures
  /\ failures' = failures + 1
  /\ Finish(c)
  /\ UNCHANGED <<request, conversation, sent, announced, activated>>

Init ==
  /\ request = [i \in Ids |-> NoRequest]
  /\ conversation = [i \in Ids |-> "absent"]
  /\ sent = [i \in Ids |-> [r \in Roles |-> 0]]
  /\ announced = {}
  /\ activated = {}
  /\ call = [c \in Calls |-> Idle]
  /\ failures = 0

\* A begun call's next statement.
Step(c) ==
  \/ \E i \in Ids : SaveWithConversation(c, i)
  \/ RefuseSave(c)
  \/ Announce(c)
  \/ Activate(c)
  \/ SaveActivated(c)
  \/ SaveStatus(c)
  \/ CountMessages(c)
  \/ SaveMessage(c)

Next ==
  \E c \in Calls :
    \/ \E pair \in Pairs : StartCreate(c, pair)
    \/ \E i \in Ids : StartAccept(c, i)
    \/ \E i \in Ids, role \in Roles : StartMessage(c, i, role)
    \/ Step(c)
    \/ CutShort(c)

Spec == Init /\ [][Next]_vars

\* A goroutine goes on with its call, and the provider asks again for the
\* acceptance of a request that still reads as pending.
Fairness ==
  /\ \A c \in Calls : WF_vars(Step(c))
  /\ \A i \in Ids : SF_vars(\E c \in Calls : StartAccept(c, i))

FairSpec == Spec /\ Fairness

----------------------------------------------------------------------------
(* Properties *)

CallRecords == [step: Steps, pair: Pairs \cup {None}, id: Ids \cup {None},
                role: Roles, status: ConversationStatuses]

\* Types of the tables and of what the calls hold.
TypeOK ==
  /\ request \in [Ids -> [pair: Pairs \cup {None}, status: RequestStatuses]]
  /\ conversation \in [Ids -> ConversationStatuses]
  /\ sent \in [Ids -> [Roles -> Nat]]
  /\ announced \subseteq Ids
  /\ activated \subseteq Ids
  /\ call \in [Calls -> CallRecords]
  /\ failures \in 0..MaxFailures

\* A consumer and a provider have at most one open request, although two
\* creations may both have passed ensureNoOpenJobRequest before either saved.
OneOpenRequest ==
  \A i, j \in Ids :
    /\ request[i].status \in OpenStatuses /\ request[j].status \in OpenStatuses
    /\ request[i].pair = request[j].pair
    => i = j

\* A request is accepted only once its conversation was saved as active:
\* wherever acceptance is cut, no request is accepted with a chat never opened.
AcceptedWasActivated ==
  \A i \in Ids : request[i].status = "accepted" => i \in activated

\* No message of the provider is stored in a conversation that was never
\* activated, whatever its call had read.
ProviderWaits ==
  \A i \in Ids : sent[i]["provider"] > 0 => i \in activated

\* Before the provider's acceptance opened the conversation neither the request
\* reads as accepted nor has the provider written.
NothingBeforeActivation == AcceptedWasActivated /\ ProviderWaits

\* The consumer's messages in a conversation that was never activated exceed the
\* limit by no more than the other calls that had counted at the same time.
OvershootIsBounded ==
  \A i \in Ids : i \notin activated => sent[i]["consumer"] < Limit + Cardinality(Calls)

\* Without failures, a request whose provider keeps accepting it is accepted,
\* though concurrent acceptances refuse each other and messages undo activations.
AcceptanceCompletes ==
  \A i \in Ids : request[i].status = "pending" ~> request[i].status = "accepted"
=============================================================================
