-------------------------- MODULE JobRequestsProofs --------------------------
(***************************************************************************)
(* Proofs about JobRequests: its types and its safety invariants for every *)
(* number of requests, pairs and calls.  And about what every call passes  *)
(* through, the pools and locks of AdvisoryLockPool, whatever their sizes. *)
(***************************************************************************)
EXTENDS JobRequests, AdvisoryLockPool, FiniteSetTheorems, TLAPS

StepsWithRequest == {"announce", "convert", "activate", "accept", "count", "send"}

\* What a call remembers is backed by the tables.
CallBacked(c) ==
  /\ call[c].step = "save" => call[c].pair \in Pairs
  /\ call[c].step \in StepsWithRequest =>
       /\ call[c].id \in Ids
       /\ request[call[c].id].status \in OpenStatuses
  /\ call[c].step = "accept" => call[c].id \in activated
  /\ call[c].step = "count" => call[c].role = "consumer" /\ call[c].status = "pending"
  /\ call[c].step = "send" => call[c].status \in {"pending", "active"}
  /\ call[c].step = "send" /\ call[c].id \notin activated =>
       call[c].role = "consumer" /\ call[c].status = "pending"

CallsBacked == \A c \in Calls : CallBacked(c)

\* A conversation exists with its request, and an active one was activated.
ConversationsBacked ==
  \A i \in Ids :
    /\ conversation[i] # "absent" => request[i].status \in OpenStatuses
    /\ conversation[i] = "active" => i \in activated

\* Calls whose count was below the limit and that have not stored their message.
Senders(i) == {c \in Calls : call[c].step = "send" /\ call[c].id = i}

\* Stored and authorised messages of a conversation that was never activated.
SendersBounded ==
  \A i \in Ids : i \notin activated =>
    sent[i]["consumer"] + Cardinality(Senders(i)) < Limit + Cardinality(Calls)

IInv ==
  /\ TypeOK
  /\ CallsBacked
  /\ ConversationsBacked
  /\ OneOpenRequest
  /\ AcceptedWasActivated
  /\ ProviderWaits
  /\ SendersBounded

\* Every step keeps the types.
LEMMA TypeStep ==
  ASSUME TypeOK, CallsBacked, [Next]_vars
  PROVE  TypeOK'
<1> USE DEF TypeOK, CallRecords, Steps, Roles, RequestStatuses, ConversationStatuses, Idle, Holding, CallsBacked, CallBacked, StepsWithRequest, OpenStatuses
<1>0. CASE UNCHANGED vars
  BY <1>0 DEF vars
<1>1. ASSUME NEW c \in Calls, NEW pair \in Pairs, StartCreate(c, pair)
      PROVE  TypeOK'
  BY <1>1 DEF StartCreate, Begin
<1>2. ASSUME NEW c \in Calls, NEW i \in Ids, SaveWithConversation(c, i)
      PROVE  TypeOK'
  <2>1. request' \in [Ids -> [pair: Pairs \cup {None}, status: RequestStatuses]]
    BY <1>2 DEF SaveWithConversation, NewRequest
  <2>2. conversation' \in [Ids -> ConversationStatuses]
    BY <1>2 DEF SaveWithConversation
  <2>3. [call[c] EXCEPT !.step = "announce", !.id = i] \in CallRecords
    <3>1. call[c] \in CallRecords
      OBVIOUS
    <3> QED
      BY <3>1
  <2>4. call' \in [Calls -> CallRecords]
    BY <1>2, <2>3 DEF SaveWithConversation
  <2> QED
    BY <1>2, <2>1, <2>2, <2>4 DEF SaveWithConversation
<1>3. ASSUME NEW c \in Calls, RefuseSave(c)
      PROVE  TypeOK'
  BY <1>3 DEF RefuseSave, Finish
<1>4. ASSUME NEW c \in Calls, Announce(c)
      PROVE  TypeOK'
  BY <1>4 DEF Announce, Finish
<1>5. ASSUME NEW c \in Calls, NEW i \in Ids, StartAccept(c, i)
      PROVE  TypeOK'
  BY <1>5 DEF StartAccept, Begin
<1>6. ASSUME NEW c \in Calls, Activate(c)
      PROVE  TypeOK'
  <2>1. Idle \in CallRecords /\ [call[c] EXCEPT !.step = "activate"] \in CallRecords
    <3>1. call[c] \in CallRecords
      OBVIOUS
    <3> QED
      BY <3>1
  <2>2. call' \in [Calls -> CallRecords]
    <3>1. CASE call' = [call EXCEPT ![c].step = "activate"]
      BY <2>1, <3>1
    <3>2. CASE call' = [call EXCEPT ![c] = Idle]
      BY <2>1, <3>2
    <3> QED
      BY <1>6, <3>1, <3>2 DEF Activate, Continue, Finish
  <2> QED
    BY <1>6, <2>2 DEF Activate
<1>7. ASSUME NEW c \in Calls, SaveActivated(c)
      PROVE  TypeOK'
  <2>1. call[c].id \in Ids
    BY <1>7 DEF SaveActivated
  <2>2. conversation' \in [Ids -> ConversationStatuses] /\ activated' \subseteq Ids
    BY <1>7, <2>1 DEF SaveActivated
  <2>3. call' \in [Calls -> CallRecords]
    BY <1>7 DEF SaveActivated, Continue
  <2> QED
    BY <1>7, <2>2, <2>3 DEF SaveActivated
<1>8. ASSUME NEW c \in Calls, SaveStatus(c)
      PROVE  TypeOK'
  <2>1. request' \in [Ids -> [pair: Pairs \cup {None}, status: RequestStatuses]]
    BY <1>8 DEF SaveStatus
  <2>2. call' \in [Calls -> CallRecords]
    BY <1>8 DEF SaveStatus, Finish
  <2> QED
    BY <1>8, <2>1, <2>2 DEF SaveStatus
<1>9. ASSUME NEW c \in Calls, NEW i \in Ids, NEW role \in Roles, StartMessage(c, i, role)
      PROVE  TypeOK'
  <2>1. PICK q \in CallRecords : call' = [call EXCEPT ![c] = q]
    <3>1. CASE conversation[i] = "active"
      BY <1>9, <3>1 DEF StartMessage, Begin
    <3>2. CASE conversation[i] = "pending"
      BY <1>9, <3>2 DEF StartMessage, Begin
    <3> QED
      BY <1>9, <3>1, <3>2 DEF StartMessage
  <2>2. call' \in [Calls -> CallRecords]
    BY <2>1
  <2> QED
    BY <1>9, <2>2 DEF StartMessage
<1>10. ASSUME NEW c \in Calls, CountMessages(c)
      PROVE  TypeOK'
  <2>1. Idle \in CallRecords /\ [call[c] EXCEPT !.step = "send"] \in CallRecords
    <3>1. call[c] \in CallRecords
      OBVIOUS
    <3> QED
      BY <3>1
  <2>2. call' \in [Calls -> CallRecords]
    <3>1. CASE call' = [call EXCEPT ![c].step = "send"]
      BY <2>1, <3>1
    <3>2. CASE call' = [call EXCEPT ![c] = Idle]
      BY <2>1, <3>2
    <3> QED
      BY <1>10, <3>1, <3>2 DEF CountMessages, Continue, Finish
  <2> QED
    BY <1>10, <2>2 DEF CountMessages
<1>11. ASSUME NEW c \in Calls, SaveMessage(c)
      PROVE  TypeOK'
  BY <1>11 DEF SaveMessage, Finish
<1>12. ASSUME NEW c \in Calls, CutShort(c)
      PROVE  TypeOK'
  <2>1. failures' \in 0..MaxFailures
    BY <1>12, ConstantsAssumption DEF CutShort
  <2>2. call' \in [Calls -> CallRecords]
    BY <1>12 DEF CutShort, Finish
  <2> QED
    BY <1>12, <2>1, <2>2 DEF CutShort
<1> QED
  BY <1>0, <1>1, <1>2, <1>3, <1>4, <1>5, <1>6, <1>7, <1>8, <1>9, <1>10, <1>11, <1>12 DEF Next, Step

\* Every step keeps what the calls remember backed.
LEMMA CallsStep ==
  ASSUME TypeOK, CallsBacked, ConversationsBacked, [Next]_vars
  PROVE  CallsBacked'
<1> USE DEF TypeOK, CallRecords, Steps, Roles, RequestStatuses, ConversationStatuses, Idle, Holding, CallsBacked, CallBacked, StepsWithRequest, OpenStatuses, ConversationsBacked
<1>0. CASE UNCHANGED vars
  BY <1>0 DEF vars
<1>1. ASSUME NEW c \in Calls, NEW pair \in Pairs, StartCreate(c, pair)
      PROVE  CallsBacked'
  <2>1. call' = [call EXCEPT ![c] = Holding("save", pair, None, "consumer", "absent")]
    BY <1>1 DEF StartCreate, Begin
  <2>2. request' = request /\ activated' = activated
    BY <1>1 DEF StartCreate
  <2> QED
    BY <2>1, <2>2
<1>2. ASSUME NEW c \in Calls, NEW i \in Ids, SaveWithConversation(c, i)
      PROVE  CallsBacked'
  BY <1>2 DEF SaveWithConversation, NewRequest, PairIsFree, OpenBetween, NoRequest
<1>3. ASSUME NEW c \in Calls, RefuseSave(c)
      PROVE  CallsBacked'
  BY <1>3 DEF RefuseSave, Finish
<1>4. ASSUME NEW c \in Calls, Announce(c)
      PROVE  CallsBacked'
  BY <1>4 DEF Announce, Finish
<1>5. ASSUME NEW c \in Calls, NEW i \in Ids, StartAccept(c, i)
      PROVE  CallsBacked'
  BY <1>5 DEF StartAccept, Begin
<1>6. ASSUME NEW c \in Calls, Activate(c)
      PROVE  CallsBacked'
  <2>1. CASE conversation[call[c].id] = "pending"
    BY <1>6, <2>1 DEF Activate, Continue
  <2>2. CASE conversation[call[c].id] # "pending"
    BY <1>6, <2>2 DEF Activate, Finish
  <2> QED
    BY <2>1, <2>2
<1>7. ASSUME NEW c \in Calls, SaveActivated(c)
      PROVE  CallsBacked'
  BY <1>7 DEF SaveActivated, Continue
<1>8. ASSUME NEW c \in Calls, SaveStatus(c)
      PROVE  CallsBacked'
  BY <1>8 DEF SaveStatus, Finish
<1>9. ASSUME NEW c \in Calls, NEW i \in Ids, NEW role \in Roles, StartMessage(c, i, role)
      PROVE  CallsBacked'
  <2>1. CASE conversation[i] = "active"
    <3>1. call' = [call EXCEPT ![c] = [step |-> "send", pair |-> None, id |-> i,
                                       role |-> role, status |-> "active"]]
      BY <1>9, <2>1 DEF StartMessage, Begin
    <3>2. call'[c] = [step |-> "send", pair |-> None, id |-> i, role |-> role, status |-> "active"]
      BY <3>1
    <3>3. \A d \in Calls \ {c} : call'[d] = call[d]
      BY <3>1
    <3>4. request' = request /\ activated' = activated
      BY <1>9 DEF StartMessage
    <3>5. i \in activated /\ request[i].status \in {"pending", "accepted"}
      BY <2>1
    <3> SUFFICES ASSUME NEW d \in Calls PROVE CallBacked(d)'
      BY Zenon DEF CallsBacked
    <3>6. CASE d # c
      BY <3>3, <3>4, <3>6
    <3>7. CASE d = c
      BY <3>2, <3>4, <3>5, <3>7
    <3> QED
      BY <3>6, <3>7
  <2>2. CASE conversation[i] = "pending"
    <3>1. call' = [call EXCEPT ![c] = [step |-> "count", pair |-> None, id |-> i,
                                       role |-> role, status |-> "pending"]]
      BY <1>9, <2>2 DEF StartMessage, Begin
    <3>2. role = "consumer"
      BY <1>9, <2>2 DEF StartMessage, MayCount
    <3>3. call'[c] = [step |-> "count", pair |-> None, id |-> i, role |-> role, status |-> "pending"]
      BY <3>1
    <3>4. \A d \in Calls \ {c} : call'[d] = call[d]
      BY <3>1
    <3>5. request' = request /\ activated' = activated
      BY <1>9 DEF StartMessage
    <3>6. request[i].status \in {"pending", "accepted"}
      BY <2>2
    <3> SUFFICES ASSUME NEW d \in Calls PROVE CallBacked(d)'
      BY Zenon DEF CallsBacked
    <3>7. CASE d # c
      BY <3>4, <3>5, <3>7
    <3>8. CASE d = c
      BY <3>2, <3>3, <3>5, <3>6, <3>8
    <3> QED
      BY <3>7, <3>8
  <2> QED
    BY <1>9, <2>1, <2>2 DEF StartMessage
<1>10. ASSUME NEW c \in Calls, CountMessages(c)
      PROVE  CallsBacked'
  <2>1. CASE call' = [call EXCEPT ![c].step = "send"]
    BY <1>10, <2>1 DEF CountMessages
  <2>2. CASE call' = [call EXCEPT ![c] = Idle]
    BY <1>10, <2>2 DEF CountMessages
  <2> QED
    BY <1>10, <2>1, <2>2 DEF CountMessages, Continue, Finish
<1>11. ASSUME NEW c \in Calls, SaveMessage(c)
      PROVE  CallsBacked'
  BY <1>11 DEF SaveMessage, Finish
<1>12. ASSUME NEW c \in Calls, CutShort(c)
      PROVE  CallsBacked'
  BY <1>12 DEF CutShort, Finish
<1> QED
  BY <1>0, <1>1, <1>2, <1>3, <1>4, <1>5, <1>6, <1>7, <1>8, <1>9, <1>10, <1>11, <1>12 DEF Next, Step

\* Every step keeps the conversations backed.
LEMMA ConversationsStep ==
  ASSUME TypeOK, CallsBacked, ConversationsBacked, [Next]_vars
  PROVE  ConversationsBacked'
<1> USE DEF TypeOK, CallRecords, Steps, Roles, RequestStatuses, ConversationStatuses, Idle, Holding, CallsBacked, CallBacked, StepsWithRequest, OpenStatuses, ConversationsBacked
<1>0. CASE UNCHANGED vars
  BY <1>0 DEF vars
<1>1. ASSUME NEW c \in Calls, NEW pair \in Pairs, StartCreate(c, pair)
      PROVE  ConversationsBacked'
  BY <1>1 DEF StartCreate, Begin
<1>2. ASSUME NEW c \in Calls, NEW i \in Ids, SaveWithConversation(c, i)
      PROVE  ConversationsBacked'
  BY <1>2 DEF SaveWithConversation, NewRequest, PairIsFree, OpenBetween, NoRequest
<1>3. ASSUME NEW c \in Calls, RefuseSave(c)
      PROVE  ConversationsBacked'
  BY <1>3 DEF RefuseSave, Finish
<1>4. ASSUME NEW c \in Calls, Announce(c)
      PROVE  ConversationsBacked'
  BY <1>4 DEF Announce, Finish
<1>5. ASSUME NEW c \in Calls, NEW i \in Ids, StartAccept(c, i)
      PROVE  ConversationsBacked'
  BY <1>5 DEF StartAccept, Begin
<1>6. ASSUME NEW c \in Calls, Activate(c)
      PROVE  ConversationsBacked'
  BY <1>6 DEF Activate, Continue, Finish
<1>7. ASSUME NEW c \in Calls, SaveActivated(c)
      PROVE  ConversationsBacked'
  BY <1>7 DEF SaveActivated, Continue
<1>8. ASSUME NEW c \in Calls, SaveStatus(c)
      PROVE  ConversationsBacked'
  BY <1>8 DEF SaveStatus, Finish
<1>9. ASSUME NEW c \in Calls, NEW i \in Ids, NEW role \in Roles, StartMessage(c, i, role)
      PROVE  ConversationsBacked'
  BY <1>9 DEF StartMessage, Begin, MayCount
<1>10. ASSUME NEW c \in Calls, CountMessages(c)
      PROVE  ConversationsBacked'
  BY <1>10 DEF CountMessages, BelowLimit, Continue, Finish
<1>11. ASSUME NEW c \in Calls, SaveMessage(c)
      PROVE  ConversationsBacked'
  BY <1>11 DEF SaveMessage, Finish
<1>12. ASSUME NEW c \in Calls, CutShort(c)
      PROVE  ConversationsBacked'
  BY <1>12 DEF CutShort, Finish
<1> QED
  BY <1>0, <1>1, <1>2, <1>3, <1>4, <1>5, <1>6, <1>7, <1>8, <1>9, <1>10, <1>11, <1>12 DEF Next, Step

\* The unique constraints keep one open request per pair.
LEMMA OneOpenStep ==
  ASSUME TypeOK, CallsBacked, OneOpenRequest, [Next]_vars
  PROVE  OneOpenRequest'
<1> USE DEF TypeOK, CallRecords, Steps, Roles, RequestStatuses, ConversationStatuses, Idle, Holding, CallsBacked, CallBacked, StepsWithRequest, OpenStatuses, OneOpenRequest
<1>0. CASE UNCHANGED vars
  BY <1>0 DEF vars
<1>1. ASSUME NEW c \in Calls, NEW pair \in Pairs, StartCreate(c, pair)
      PROVE  OneOpenRequest'
  BY <1>1 DEF StartCreate, Begin
<1>2. ASSUME NEW c \in Calls, NEW i \in Ids, SaveWithConversation(c, i)
      PROVE  OneOpenRequest'
  BY <1>2 DEF SaveWithConversation, NewRequest, PairIsFree, OpenBetween, NoRequest
<1>3. ASSUME NEW c \in Calls, RefuseSave(c)
      PROVE  OneOpenRequest'
  BY <1>3 DEF RefuseSave, Finish
<1>4. ASSUME NEW c \in Calls, Announce(c)
      PROVE  OneOpenRequest'
  BY <1>4 DEF Announce, Finish
<1>5. ASSUME NEW c \in Calls, NEW i \in Ids, StartAccept(c, i)
      PROVE  OneOpenRequest'
  BY <1>5 DEF StartAccept, Begin
<1>6. ASSUME NEW c \in Calls, Activate(c)
      PROVE  OneOpenRequest'
  BY <1>6 DEF Activate, Continue, Finish
<1>7. ASSUME NEW c \in Calls, SaveActivated(c)
      PROVE  OneOpenRequest'
  BY <1>7 DEF SaveActivated, Continue
<1>8. ASSUME NEW c \in Calls, SaveStatus(c)
      PROVE  OneOpenRequest'
  BY <1>8 DEF SaveStatus, Finish
<1>9. ASSUME NEW c \in Calls, NEW i \in Ids, NEW role \in Roles, StartMessage(c, i, role)
      PROVE  OneOpenRequest'
  BY <1>9 DEF StartMessage, Begin, MayCount
<1>10. ASSUME NEW c \in Calls, CountMessages(c)
      PROVE  OneOpenRequest'
  BY <1>10 DEF CountMessages, BelowLimit, Continue, Finish
<1>11. ASSUME NEW c \in Calls, SaveMessage(c)
      PROVE  OneOpenRequest'
  BY <1>11 DEF SaveMessage, Finish
<1>12. ASSUME NEW c \in Calls, CutShort(c)
      PROVE  OneOpenRequest'
  BY <1>12 DEF CutShort, Finish
<1> QED
  BY <1>0, <1>1, <1>2, <1>3, <1>4, <1>5, <1>6, <1>7, <1>8, <1>9, <1>10, <1>11, <1>12 DEF Next, Step

\* A request becomes accepted only after its activation.
LEMMA AcceptedStep ==
  ASSUME TypeOK, CallsBacked, AcceptedWasActivated, [Next]_vars
  PROVE  AcceptedWasActivated'
<1> USE DEF TypeOK, CallRecords, Steps, Roles, RequestStatuses, ConversationStatuses, Idle, Holding, CallsBacked, CallBacked, StepsWithRequest, OpenStatuses, AcceptedWasActivated
<1>0. CASE UNCHANGED vars
  BY <1>0 DEF vars
<1>1. ASSUME NEW c \in Calls, NEW pair \in Pairs, StartCreate(c, pair)
      PROVE  AcceptedWasActivated'
  BY <1>1 DEF StartCreate, Begin
<1>2. ASSUME NEW c \in Calls, NEW i \in Ids, SaveWithConversation(c, i)
      PROVE  AcceptedWasActivated'
  BY <1>2 DEF SaveWithConversation, NewRequest, PairIsFree, OpenBetween, NoRequest
<1>3. ASSUME NEW c \in Calls, RefuseSave(c)
      PROVE  AcceptedWasActivated'
  BY <1>3 DEF RefuseSave, Finish
<1>4. ASSUME NEW c \in Calls, Announce(c)
      PROVE  AcceptedWasActivated'
  BY <1>4 DEF Announce, Finish
<1>5. ASSUME NEW c \in Calls, NEW i \in Ids, StartAccept(c, i)
      PROVE  AcceptedWasActivated'
  BY <1>5 DEF StartAccept, Begin
<1>6. ASSUME NEW c \in Calls, Activate(c)
      PROVE  AcceptedWasActivated'
  BY <1>6 DEF Activate, Continue, Finish
<1>7. ASSUME NEW c \in Calls, SaveActivated(c)
      PROVE  AcceptedWasActivated'
  BY <1>7 DEF SaveActivated, Continue
<1>8. ASSUME NEW c \in Calls, SaveStatus(c)
      PROVE  AcceptedWasActivated'
  BY <1>8 DEF SaveStatus, Finish
<1>9. ASSUME NEW c \in Calls, NEW i \in Ids, NEW role \in Roles, StartMessage(c, i, role)
      PROVE  AcceptedWasActivated'
  BY <1>9 DEF StartMessage, Begin, MayCount
<1>10. ASSUME NEW c \in Calls, CountMessages(c)
      PROVE  AcceptedWasActivated'
  BY <1>10 DEF CountMessages, BelowLimit, Continue, Finish
<1>11. ASSUME NEW c \in Calls, SaveMessage(c)
      PROVE  AcceptedWasActivated'
  BY <1>11 DEF SaveMessage, Finish
<1>12. ASSUME NEW c \in Calls, CutShort(c)
      PROVE  AcceptedWasActivated'
  BY <1>12 DEF CutShort, Finish
<1> QED
  BY <1>0, <1>1, <1>2, <1>3, <1>4, <1>5, <1>6, <1>7, <1>8, <1>9, <1>10, <1>11, <1>12 DEF Next, Step

\* A provider's message is stored only after the activation.
LEMMA ProviderStep ==
  ASSUME TypeOK, CallsBacked, ProviderWaits, [Next]_vars
  PROVE  ProviderWaits'
<1> USE DEF TypeOK, CallRecords, Steps, Roles, RequestStatuses, ConversationStatuses, Idle, Holding, CallsBacked, CallBacked, StepsWithRequest, OpenStatuses, ProviderWaits
<1>0. CASE UNCHANGED vars
  BY <1>0 DEF vars
<1>1. ASSUME NEW c \in Calls, NEW pair \in Pairs, StartCreate(c, pair)
      PROVE  ProviderWaits'
  BY <1>1 DEF StartCreate, Begin
<1>2. ASSUME NEW c \in Calls, NEW i \in Ids, SaveWithConversation(c, i)
      PROVE  ProviderWaits'
  BY <1>2 DEF SaveWithConversation, NewRequest, PairIsFree, OpenBetween, NoRequest
<1>3. ASSUME NEW c \in Calls, RefuseSave(c)
      PROVE  ProviderWaits'
  BY <1>3 DEF RefuseSave, Finish
<1>4. ASSUME NEW c \in Calls, Announce(c)
      PROVE  ProviderWaits'
  BY <1>4 DEF Announce, Finish
<1>5. ASSUME NEW c \in Calls, NEW i \in Ids, StartAccept(c, i)
      PROVE  ProviderWaits'
  BY <1>5 DEF StartAccept, Begin
<1>6. ASSUME NEW c \in Calls, Activate(c)
      PROVE  ProviderWaits'
  BY <1>6 DEF Activate, Continue, Finish
<1>7. ASSUME NEW c \in Calls, SaveActivated(c)
      PROVE  ProviderWaits'
  BY <1>7 DEF SaveActivated, Continue
<1>8. ASSUME NEW c \in Calls, SaveStatus(c)
      PROVE  ProviderWaits'
  BY <1>8 DEF SaveStatus, Finish
<1>9. ASSUME NEW c \in Calls, NEW i \in Ids, NEW role \in Roles, StartMessage(c, i, role)
      PROVE  ProviderWaits'
  BY <1>9 DEF StartMessage, Begin, MayCount
<1>10. ASSUME NEW c \in Calls, CountMessages(c)
      PROVE  ProviderWaits'
  BY <1>10 DEF CountMessages, BelowLimit, Continue, Finish
<1>11. ASSUME NEW c \in Calls, SaveMessage(c)
      PROVE  ProviderWaits'
  BY <1>11 DEF SaveMessage, Finish
<1>12. ASSUME NEW c \in Calls, CutShort(c)
      PROVE  ProviderWaits'
  BY <1>12 DEF CutShort, Finish
<1> QED
  BY <1>0, <1>1, <1>2, <1>3, <1>4, <1>5, <1>6, <1>7, <1>8, <1>9, <1>10, <1>11, <1>12 DEF Next, Step

\* The senders are calls, hence finitely many; one more or one fewer counts one.
LEMMA SendersFinite ==
  ASSUME NEW i
  PROVE  IsFiniteSet(Senders(i)) /\ Cardinality(Senders(i)) \in Nat
         /\ Cardinality(Senders(i)) <= Cardinality(Calls) /\ Cardinality(Calls) \in Nat
<1>1. Senders(i) \in SUBSET Calls
  BY DEF Senders
<1>2. IsFiniteSet(Calls)
  BY ConstantsAssumption
<1> QED
  BY <1>1, <1>2, FS_Subset, FS_CardinalityType

\* Unless a call stores or authorises a message, no conversation's count grows.
LEMMA SendersShrink ==
  ASSUME TypeOK, SendersBounded, TypeOK',
         sent' = sent, activated \subseteq activated',
         \A i \in Ids : Senders(i)' \subseteq Senders(i) \/ i \in activated
  PROVE  SendersBounded'
<1> SUFFICES ASSUME NEW i \in Ids, i \notin activated'
             PROVE  sent'[i]["consumer"] + Cardinality(Senders(i)')
                      < Limit + Cardinality(Calls)
  BY DEF SendersBounded
<1>1. Senders(i)' \subseteq Senders(i)
  OBVIOUS
<1>2. IsFiniteSet(Senders(i)) /\ Cardinality(Senders(i)) \in Nat /\ Cardinality(Calls) \in Nat
  BY SendersFinite
<1>3. Cardinality(Senders(i)') <= Cardinality(Senders(i)) /\ Cardinality(Senders(i)') \in Nat
  BY <1>1, <1>2, FS_Subset, FS_CardinalityType
<1>4. sent[i]["consumer"] + Cardinality(Senders(i)) < Limit + Cardinality(Calls)
  BY DEF SendersBounded
<1>5. sent[i]["consumer"] \in Nat
  BY DEF TypeOK, Roles
<1> QED
  BY <1>2, <1>3, <1>4, <1>5, ConstantsAssumption

\* Counting below the limit bounds stored and authorised messages, however many
\* calls counted at the same time.
LEMMA SendersStep ==
  ASSUME TypeOK, CallsBacked, ConversationsBacked, SendersBounded, TypeOK', [Next]_vars
  PROVE  SendersBounded'
<1>0. CASE UNCHANGED vars
  BY <1>0 DEF vars, SendersBounded, Senders
<1>1. ASSUME NEW c \in Calls, NEW i \in Ids, NEW role \in Roles, StartMessage(c, i, role)
      PROVE  SendersBounded'
  <2>1. CASE conversation[i] = "active"
    <3>1. call' = [call EXCEPT ![c] = Holding("send", None, i, role, "active")]
      BY <1>1, <2>1 DEF StartMessage, Begin
    <3>2. i \in activated
      BY <2>1 DEF ConversationsBacked
    <3>3. \A j \in Ids : Senders(j)' \subseteq Senders(j) \/ j \in activated
      BY <3>1, <3>2 DEF Senders, Holding, TypeOK
    <3> QED
      BY <1>1, <3>3, SendersShrink DEF StartMessage
  <2>2. CASE conversation[i] = "pending"
    <3>1. call' = [call EXCEPT ![c] = Holding("count", None, i, role, "pending")]
      BY <1>1, <2>2 DEF StartMessage, Begin
    <3>2. \A j \in Ids : Senders(j)' \subseteq Senders(j)
      BY <3>1 DEF Senders, Holding, TypeOK
    <3> QED
      BY <1>1, <3>2, SendersShrink DEF StartMessage
  <2> QED
    BY <1>1, <2>1, <2>2 DEF StartMessage
<1>2. ASSUME NEW c \in Calls, CountMessages(c)
      PROVE  SendersBounded'
  <2>1. CASE BelowLimit(sent[call[c].id]["consumer"])
    <3> DEFINE j == call[c].id
    <3>1. call' = [call EXCEPT ![c].step = "send"] /\ sent' = sent /\ activated' = activated
      BY <1>2, <2>1 DEF CountMessages, Continue
    <3> SUFFICES ASSUME NEW i \in Ids, i \notin activated'
                 PROVE  sent'[i]["consumer"] + Cardinality(Senders(i)')
                          < Limit + Cardinality(Calls)
      BY DEF SendersBounded
    <3>2. sent[i]["consumer"] \in Nat
      BY DEF TypeOK, Roles
    <3>3. CASE i = j
      <4>1. Cardinality(Senders(i)') <= Cardinality(Calls) /\ Cardinality(Senders(i)') \in Nat
            /\ Cardinality(Calls) \in Nat
        <5>1. Senders(i)' \in SUBSET Calls
          BY DEF Senders
        <5> QED
          BY <5>1, ConstantsAssumption, FS_Subset, FS_CardinalityType
      <4>2. sent[i]["consumer"] < Limit
        BY <2>1, <3>3 DEF BelowLimit
      <4> QED
        BY <3>1, <3>2, <4>1, <4>2, ConstantsAssumption
    <3>4. CASE i # j
      <4>1. Senders(i)' = Senders(i)
        BY <1>2, <3>1, <3>4 DEF Senders, CountMessages, TypeOK, CallRecords
      <4> QED
        BY <3>1, <4>1 DEF SendersBounded
    <3> QED
      BY <3>3, <3>4
  <2>2. CASE ~BelowLimit(sent[call[c].id]["consumer"])
    <3>1. call' = [call EXCEPT ![c] = Idle]
      BY <1>2, <2>2 DEF CountMessages, Finish
    <3>2. \A j \in Ids : Senders(j)' \subseteq Senders(j)
      BY <3>1 DEF Senders, Idle, Holding, TypeOK
    <3> QED
      BY <1>2, <3>2, SendersShrink DEF CountMessages
  <2> QED
    BY <2>1, <2>2
<1>3. ASSUME NEW c \in Calls, SaveMessage(c)
      PROVE  SendersBounded'
  <2> DEFINE j == call[c].id
  <2>1. call' = [call EXCEPT ![c] = Idle] /\ activated' = activated
        /\ sent' = [sent EXCEPT ![j][call[c].role] = @ + 1] /\ call[c].step = "send"
    BY <1>3 DEF SaveMessage, Finish
  <2> SUFFICES ASSUME NEW i \in Ids, i \notin activated
               PROVE  sent'[i]["consumer"] + Cardinality(Senders(i)')
                        < Limit + Cardinality(Calls)
    BY <2>1 DEF SendersBounded
  <2>2. sent[i]["consumer"] \in Nat /\ Cardinality(Senders(i)) \in Nat
        /\ Cardinality(Calls) \in Nat /\ IsFiniteSet(Senders(i))
    BY SendersFinite DEF TypeOK, Roles
  <2>3. sent[i]["consumer"] + Cardinality(Senders(i)) < Limit + Cardinality(Calls)
    BY DEF SendersBounded
  <2>4. Senders(i)' = Senders(i) \ {c}
    BY <2>1 DEF Senders, Idle, Holding, TypeOK
  <2>5. CASE i = j
    <3>1. c \in Senders(i) /\ call[c].role = "consumer"
      BY <2>1, <2>5 DEF Senders, CallsBacked, CallBacked
    <3>2. sent'[i]["consumer"] = sent[i]["consumer"] + 1
      BY <2>1, <2>5, <3>1 DEF TypeOK, Roles
    <3>3. Cardinality(Senders(i)') = Cardinality(Senders(i)) - 1
      BY <2>2, <2>4, <3>1, FS_RemoveElement
    <3> QED
      BY <2>2, <2>3, <3>2, <3>3, ConstantsAssumption
  <2>6. CASE i # j
    <3>1. c \notin Senders(i)
      BY <2>6 DEF Senders
    <3>2. Senders(i)' = Senders(i)
      BY <2>4, <3>1
    <3>3. sent'[i] = sent[i]
      BY <2>1, <2>6 DEF TypeOK
    <3> QED
      BY <2>3, <3>2, <3>3
  <2> QED
    BY <2>5, <2>6
<1>4. ASSUME NEW c \in Calls, SaveActivated(c)
      PROVE  SendersBounded'
  <2>1. call' = [call EXCEPT ![c].step = "accept"]
    BY <1>4 DEF SaveActivated, Continue
  <2>2. \A j \in Ids : Senders(j)' \subseteq Senders(j)
    BY <1>4, <2>1 DEF Senders, TypeOK, CallRecords
  <2> QED
    BY <1>4, <2>2, SendersShrink DEF SaveActivated
<1>5. ASSUME NEW c \in Calls, sent' = sent, activated' = activated,
             NEW q, q.step # "send", call' = [call EXCEPT ![c] = q]
      PROVE  SendersBounded'
  <2>1. \A j \in Ids : Senders(j)' \subseteq Senders(j)
    BY <1>5 DEF Senders, TypeOK
  <2> QED
    BY <1>5, <2>1, SendersShrink
<1>6. ASSUME NEW c \in Calls, NEW pair \in Pairs, StartCreate(c, pair)
      PROVE  SendersBounded'
  <2>1. Holding("save", pair, None, "consumer", "absent").step # "send"
    BY DEF Holding
  <2> QED
    BY <1>5, <1>6, <2>1 DEF StartCreate, Begin
<1>7. ASSUME NEW c \in Calls, NEW i \in Ids, StartAccept(c, i)
      PROVE  SendersBounded'
  <2>1. Holding("convert", None, i, "consumer", "absent").step # "send"
    BY DEF Holding
  <2> QED
    BY <1>5, <1>7, <2>1 DEF StartAccept, Begin
<1>8. ASSUME NEW c \in Calls, NEW i \in Ids, SaveWithConversation(c, i)
      PROVE  SendersBounded'
  <2>1. [call[c] EXCEPT !.step = "announce", !.id = i].step # "send"
    BY DEF TypeOK, CallRecords
  <2>2. call' = [call EXCEPT ![c] = [call[c] EXCEPT !.step = "announce", !.id = i]]
    BY <1>8 DEF SaveWithConversation
  <2> QED
    BY <1>5, <1>8, <2>1, <2>2 DEF SaveWithConversation
<1>9. ASSUME NEW c \in Calls, Finish(c), sent' = sent, activated' = activated
      PROVE  SendersBounded'
  <2>1. Idle.step # "send"
    BY DEF Idle, Holding
  <2> QED
    BY <1>5, <1>9, <2>1 DEF Finish
<1>10. ASSUME NEW c \in Calls, Activate(c)
      PROVE  SendersBounded'
  <2>1. CASE Continue(c, "activate")
    <3>1. \A j \in Ids : Senders(j)' \subseteq Senders(j)
      BY <2>1 DEF Senders, TypeOK, CallRecords, Continue
    <3> QED
      BY <1>10, <3>1, SendersShrink DEF Activate
  <2> QED
    BY <1>9, <1>10, <2>1 DEF Activate
<1> QED
  BY <1>0, <1>1, <1>2, <1>3, <1>4, <1>6, <1>7, <1>8, <1>9, <1>10
  DEF Next, Step, RefuseSave, Announce, SaveStatus, CutShort

----------------------------------------------------------------------------
(* Theorems *)

\* Nothing is saved at first.
LEMMA InitIInv == Init => IInv
<1> SUFFICES ASSUME Init PROVE IInv
  OBVIOUS
<1> USE DEF Init
<1>1. TypeOK
  BY ConstantsAssumption DEF TypeOK, CallRecords, Idle, Holding, Steps, Roles, NoRequest,
     RequestStatuses, ConversationStatuses
<1>2. CallsBacked
  BY DEF CallsBacked, CallBacked, StepsWithRequest, Idle, Holding
<1>3. ConversationsBacked
  BY DEF ConversationsBacked
<1>4. OneOpenRequest /\ AcceptedWasActivated
  BY DEF OneOpenRequest, AcceptedWasActivated, OpenStatuses, NoRequest
<1>5. ProviderWaits
  BY DEF ProviderWaits, Roles
<1>6. SendersBounded
  <2> SUFFICES ASSUME NEW i \in Ids
               PROVE  sent[i]["consumer"] + Cardinality(Senders(i)) < Limit + Cardinality(Calls)
    BY DEF SendersBounded
  <2>1. Senders(i) = {}
    BY DEF Senders, Idle, Holding
  <2>2. Cardinality(Senders(i)) = 0
    BY <2>1, FS_EmptySet
  <2>3. Cardinality(Calls) \in Nat
    BY ConstantsAssumption, FS_CardinalityType
  <2>4. sent[i]["consumer"] = 0
    BY DEF Roles
  <2> QED
    BY <2>2, <2>3, <2>4, ConstantsAssumption
<1> QED
  BY <1>1, <1>2, <1>3, <1>4, <1>5, <1>6 DEF IInv

\* Each part is kept by every step.
LEMMA NextIInv == IInv /\ [Next]_vars => IInv'
BY TypeStep, CallsStep, ConversationsStep, OneOpenStep, AcceptedStep, ProviderStep, SendersStep
DEF IInv

\* Every reachable state satisfies the inductive invariant.
THEOREM Inductive == Spec => []IInv
BY InitIInv, NextIInv, PTL DEF Spec

\* The tables and the calls keep their types, for every number of ids, pairs and calls.
THEOREM TypeCorrect == Spec => []TypeOK
<1>1. IInv => TypeOK
  BY DEF IInv
<1> QED
  BY <1>1, Inductive, PTL

\* However many creations race past ensureNoOpenJobRequest, the unique
\* constraints leave one open request per consumer and provider.
THEOREM OneOpenRequestHolds == Spec => []OneOpenRequest
<1>1. IInv => OneOpenRequest
  BY DEF IInv
<1> QED
  BY <1>1, Inductive, PTL

\* No request is accepted, and no provider's message stored, before the
\* conversation was saved as active.
THEOREM ActivationFirst == Spec => []NothingBeforeActivation
<1>1. IInv => NothingBeforeActivation
  BY DEF IInv, NothingBeforeActivation
<1> QED
  BY <1>1, Inductive, PTL

\* The limit on a pending conversation's messages is exceeded by fewer than the
\* calls served at once: each one beyond it was counted along with another.
THEOREM OvershootBound == Spec => []OvershootIsBounded
<1>1. IInv => OvershootIsBounded
  <2> SUFFICES ASSUME IInv, NEW i \in Ids, i \notin activated
               PROVE  sent[i]["consumer"] < Limit + Cardinality(Calls)
    BY DEF OvershootIsBounded
  <2>1. Cardinality(Senders(i)) \in Nat /\ Cardinality(Calls) \in Nat
    BY SendersFinite
  <2>2. sent[i]["consumer"] \in Nat
    BY DEF IInv, TypeOK, Roles
  <2>3. sent[i]["consumer"] + Cardinality(Senders(i)) < Limit + Cardinality(Calls)
    BY DEF IInv, SendersBounded
  <2> QED
    BY <2>1, <2>2, <2>3, ConstantsAssumption
<1> QED
  BY <1>1, Inductive, PTL

----------------------------------------------------------------------------
(* The pools of connections and the locks of AdvisoryLockPool *)

PoolPcs == {"idle", "beginning", "locking", "working", "asking", "querying"}

PoolTypes ==
  /\ caller \in [Callers -> [pc : PoolPcs, instance : Instances \cup {Nobody}, key : LockKeys \cup {Nobody},
                             kind : Kinds, queries : Nat]]
  /\ open \in [Instances -> Nat]
  /\ owner \in [LockKeys -> Callers \cup {Nobody}]
  /\ \A c \in Callers :
       /\ caller[c].pc # "idle" => caller[c].instance \in Instances /\ caller[c].key \in LockKeys
       /\ caller[c].pc \in {"beginning", "locking", "working"} => caller[c].kind # "plain"

\* An operation that runs under its lock, and whose lock that is.
UnderLock(q) == q.kind # "plain" /\ q.pc \in {"working", "asking", "querying"}
OwnersWork ==
  \A k \in LockKeys, c \in Callers : owner[k] = c <=> UnderLock(caller[c]) /\ caller[c].key = k

\* A call's connections: its lock's transaction and its operation's statement.
TransactionOf(q, i) ==
  q.instance = i /\ q.kind # "plain" /\ q.pc \in {"locking", "working", "asking", "querying"}
StatementOf(q, i) == q.instance = i /\ q.pc = "querying"
Used(q, i) == (IF TransactionOf(q, i) THEN 1 ELSE 0) + (IF StatementOf(q, i) THEN 1 ELSE 0)

Statements(i) == {c \in Callers : StatementOf(caller[c], i)}
ConnectionsAreCounted ==
  \A i \in Instances :
    /\ IsFiniteSet(LockTransactions(i)) /\ IsFiniteSet(Statements(i))
    /\ open[i] = Cardinality(LockTransactions(i)) + Cardinality(Statements(i))
    /\ open[i] <= MaxOpenConns

PoolInv == PoolTypes /\ OwnersWork /\ ConnectionsAreCounted

\* One element moves into a set or out of it.
LEMMA OneMoves ==
  ASSUME NEW S, IsFiniteSet(S), NEW T, NEW c, T \ {c} = S \ {c}
  PROVE  /\ IsFiniteSet(T) /\ Cardinality(T) \in Nat /\ Cardinality(S) \in Nat
         /\ Cardinality(T) = Cardinality(S) - (IF c \in S THEN 1 ELSE 0) + (IF c \in T THEN 1 ELSE 0)
<1> DEFINE R == S \ {c}
<1>1. IsFiniteSet(R) /\ Cardinality(R) \in Nat /\ Cardinality(S) \in Nat
      /\ Cardinality(R) = IF c \in S THEN Cardinality(S) - 1 ELSE Cardinality(S)
  BY FS_RemoveElement, FS_CardinalityType
<1>2. c \notin R /\ (T = R \/ T = R \cup {c})
  OBVIOUS
<1>3. IsFiniteSet(R \cup {c}) /\ Cardinality(R \cup {c}) = Cardinality(R) + 1
  BY <1>1, <1>2, FS_AddElement
<1>4. CASE c \notin T
  <2>1. T = R
    BY <1>2, <1>4
  <2> QED  BY <1>1, <1>4, <2>1
<1>5. CASE c \in T
  <2>1. T = R \cup {c}
    BY <1>2, <1>5
  <2> QED  BY <1>1, <1>3, <1>5, <2>1
<1> QED  BY <1>4, <1>5

\* A step of one call keeps the count when it takes from the pool what it uses more.
LEMMA CountStep ==
  ASSUME PoolTypes, ConnectionsAreCounted, NEW c \in Callers, NEW q, caller' = [caller EXCEPT ![c] = q],
         \A i \in Instances : open'[i] = open[i] - Used(caller[c], i) + Used(q, i) /\ open'[i] <= MaxOpenConns
  PROVE  ConnectionsAreCounted'
<1> SUFFICES ASSUME NEW i \in Instances
             PROVE  /\ IsFiniteSet(LockTransactions(i)') /\ IsFiniteSet(Statements(i)')
                    /\ open'[i] = Cardinality(LockTransactions(i)') + Cardinality(Statements(i)')
                    /\ open'[i] <= MaxOpenConns
  BY DEF ConnectionsAreCounted
<1> DEFINE L == LockTransactions(i)
           M == LockTransactions(i)'
           S == Statements(i)
           T == Statements(i)'
<1>1. \A d \in Callers : caller'[d] = IF d = c THEN q ELSE caller[d]
  BY DEF PoolTypes
<1>2. /\ M \ {c} = L \ {c}
      /\ c \in L <=> TransactionOf(caller[c], i)
      /\ c \in M <=> TransactionOf(q, i)
  BY <1>1 DEF LockTransactions, TransactionOf
<1>3. /\ T \ {c} = S \ {c}
      /\ c \in S <=> StatementOf(caller[c], i)
      /\ c \in T <=> StatementOf(q, i)
  BY <1>1 DEF Statements
<1>4. /\ IsFiniteSet(L) /\ IsFiniteSet(S)
      /\ open[i] = Cardinality(L) + Cardinality(S)
  BY DEF ConnectionsAreCounted
<1>5. open'[i] = open[i] - Used(caller[c], i) + Used(q, i) /\ open'[i] <= MaxOpenConns
  OBVIOUS
<1> HIDE DEF L, M, S, T
<1>6. /\ IsFiniteSet(M) /\ Cardinality(M) \in Nat /\ Cardinality(L) \in Nat
      /\ Cardinality(M) = Cardinality(L) - (IF c \in L THEN 1 ELSE 0) + (IF c \in M THEN 1 ELSE 0)
  BY <1>2, <1>4, OneMoves
<1>7. /\ IsFiniteSet(T) /\ Cardinality(T) \in Nat /\ Cardinality(S) \in Nat
      /\ Cardinality(T) = Cardinality(S) - (IF c \in S THEN 1 ELSE 0) + (IF c \in T THEN 1 ELSE 0)
  BY <1>3, <1>4, OneMoves
<1>8. open'[i] = Cardinality(M) + Cardinality(T)
  BY <1>2, <1>3, <1>4, <1>5, <1>6, <1>7 DEF Used
<1> QED
  BY <1>5, <1>6, <1>7, <1>8 DEF M, T

\* A step of one call keeps who owns what, when the lock changes hands with the call.
LEMMA OwnerStep ==
  ASSUME PoolTypes, OwnersWork, NEW c \in Callers, NEW q, caller' = [caller EXCEPT ![c] = q],
         \/ owner' = owner /\ (UnderLock(q) <=> UnderLock(caller[c]))
                           /\ (UnderLock(q) => q.key = caller[c].key)
         \/ owner' = Freed(c) /\ ~UnderLock(q)
         \/ /\ q.key \in LockKeys /\ owner[q.key] = Nobody /\ UnderLock(q) /\ ~UnderLock(caller[c])
            /\ owner' = [owner EXCEPT ![q.key] = c]
  PROVE  OwnersWork'
<1> SUFFICES ASSUME NEW k \in LockKeys, NEW d \in Callers
             PROVE  owner'[k] = d <=> UnderLock(caller'[d]) /\ caller'[d].key = k
  BY DEF OwnersWork
<1>1. caller'[d] = IF d = c THEN q ELSE caller[d]
  BY DEF PoolTypes
<1>2. owner[k] = d <=> UnderLock(caller[d]) /\ caller[d].key = k
  BY DEF OwnersWork
<1>3. CASE owner' = owner /\ (UnderLock(q) <=> UnderLock(caller[c])) /\ (UnderLock(q) => q.key = caller[c].key)
  BY <1>1, <1>2, <1>3
<1>4. CASE owner' = Freed(c) /\ ~UnderLock(q)
  <2>1. owner'[k] = IF owner[k] = c THEN Nobody ELSE owner[k]
    BY <1>4 DEF Freed
  <2> QED  BY <1>1, <1>2, <1>4, <2>1, PoolAssumption
<1>5. CASE /\ q.key \in LockKeys /\ owner[q.key] = Nobody /\ UnderLock(q) /\ ~UnderLock(caller[c])
           /\ owner' = [owner EXCEPT ![q.key] = c]
  <2>1. owner'[k] = IF k = q.key THEN c ELSE owner[k]
    BY <1>5 DEF PoolTypes
  <2>2. d # c /\ k = q.key => ~(UnderLock(caller[d]) /\ caller[d].key = k)
    BY <1>2, <1>5, PoolAssumption
  <2> QED  BY <1>1, <1>2, <1>5, <2>1, <2>2
<1> QED  BY <1>3, <1>4, <1>5

\* What a call holds after each of its steps: q is its record, the pool's count and the
\* locks follow it.
CallStep(c, q) ==
  /\ caller' = [caller EXCEPT ![c] = q]
  /\ q = NoCall \/ /\ q \in [pc : PoolPcs \ {"idle"}, instance : Instances, key : LockKeys, kind : Kinds, queries : Nat]
                   /\ q.pc \in {"beginning", "locking", "working"} => q.kind # "plain"
  /\ open' \in [Instances -> Nat]
  /\ \A i \in Instances : open'[i] = open[i] - Used(caller[c], i) + Used(q, i) /\ open'[i] <= MaxOpenConns
  /\ \/ owner' = owner /\ (UnderLock(q) <=> UnderLock(caller[c]))
                        /\ (UnderLock(q) => q.key = caller[c].key)
     \/ owner' = Freed(c) /\ ~UnderLock(q)
     \/ /\ q.key \in LockKeys /\ owner[q.key] = Nobody /\ UnderLock(q) /\ ~UnderLock(caller[c])
        /\ owner' = [owner EXCEPT ![q.key] = c]

LEMMA CallKeeps ==
  ASSUME PoolInv, NEW c \in Callers, NEW q, CallStep(c, q)
  PROVE  PoolInv'
<1>1. PoolTypes /\ OwnersWork /\ ConnectionsAreCounted
  BY DEF PoolInv
<1>2. OwnersWork'
  BY <1>1, OwnerStep DEF CallStep
<1>3. ConnectionsAreCounted'
  BY <1>1, CountStep DEF CallStep
<1>4. PoolTypes'
  <2>1. q \in [pc : PoolPcs, instance : Instances \cup {Nobody}, key : LockKeys \cup {Nobody},
               kind : Kinds, queries : Nat]
    BY DEF CallStep, NoCall, PoolPcs, Kinds
  <2>2. owner' \in [LockKeys -> Callers \cup {Nobody}]
    BY <1>1 DEF CallStep, PoolTypes, Freed
  <2>3. caller' \in [Callers -> [pc : PoolPcs, instance : Instances \cup {Nobody}, key : LockKeys \cup {Nobody},
                                 kind : Kinds, queries : Nat]]
    BY <1>1, <2>1 DEF CallStep, PoolTypes
  <2>4. ASSUME NEW d \in Callers
        PROVE  /\ caller'[d].pc # "idle" => caller'[d].instance \in Instances /\ caller'[d].key \in LockKeys
               /\ caller'[d].pc \in {"beginning", "locking", "working"} => caller'[d].kind # "plain"
    <3>1. caller'[d] = IF d = c THEN q ELSE caller[d]
      BY <1>1 DEF CallStep, PoolTypes
    <3>2. /\ q.pc # "idle" => q.instance \in Instances /\ q.key \in LockKeys
          /\ q.pc \in {"beginning", "locking", "working"} => q.kind # "plain"
      BY DEF CallStep, NoCall
    <3> QED  BY <1>1, <3>1, <3>2 DEF PoolTypes
  <2> QED  BY <2>2, <2>3, <2>4 DEF CallStep, PoolTypes
<1> QED  BY <1>2, <1>3, <1>4 DEF PoolInv

\* A call's connections are among those of its pool.
LEMMA UsedIsOpen ==
  ASSUME PoolInv, NEW c \in Callers, NEW i \in Instances
  PROVE  Used(caller[c], i) \in Nat /\ Used(caller[c], i) <= open[i]
<1> DEFINE L == LockTransactions(i)
           S == Statements(i)
<1>1. /\ IsFiniteSet(L) /\ IsFiniteSet(S)
      /\ open[i] = Cardinality(L) + Cardinality(S)
  BY DEF PoolInv, ConnectionsAreCounted
<1>2. /\ TransactionOf(caller[c], i) => L # {}
      /\ StatementOf(caller[c], i) => S # {}
  BY DEF LockTransactions, TransactionOf, Statements
<1> HIDE DEF L, S
<1>3. /\ Cardinality(L) \in Nat /\ (Cardinality(L) = 0 <=> L = {})
      /\ Cardinality(S) \in Nat /\ (Cardinality(S) = 0 <=> S = {})
  BY <1>1, FS_CardinalityType, FS_EmptySet
<1> QED
  BY <1>1, <1>2, <1>3 DEF Used

\* The connections of a call, which are all of its own instance.
Weight(q) ==
  (IF q.kind # "plain" /\ q.pc \in {"locking", "working", "asking", "querying"} THEN 1 ELSE 0)
  + (IF q.pc = "querying" THEN 1 ELSE 0)

LEMMA UsedIsWeight ==
  ASSUME NEW q, NEW i
  PROVE  Used(q, i) = (IF q.instance = i THEN Weight(q) ELSE 0) /\ Weight(q) \in Nat
  BY DEF Used, Weight, TransactionOf, StatementOf

Working == [pc : PoolPcs \ {"idle"}, instance : Instances, key : LockKeys, kind : Kinds, queries : Nat]

\* A step of a call that is under way, after which its record is q and its pool has d
\* more connections in use: what it uses more was free.
MovesTo(c, q, d) ==
  /\ caller[c].pc # "idle"
  /\ caller' = [caller EXCEPT ![c] = q]
  /\ \/ q = NoCall
     \/ /\ q \in Working /\ q.instance = caller[c].instance /\ q.key = caller[c].key
        /\ q.pc \in {"beginning", "locking", "working"} => q.kind # "plain"
  /\ d \in Int /\ Weight(q) = Weight(caller[c]) + d
  /\ open' = [open EXCEPT ![caller[c].instance] = open[caller[c].instance] + d]
  /\ d <= 0 \/ (d = 1 /\ HasRoom(caller[c].instance))
  /\ \/ owner' = owner /\ (UnderLock(q) <=> UnderLock(caller[c]))
     \/ owner' = Freed(c) /\ ~UnderLock(q)
     \/ /\ owner[q.key] = Nobody /\ UnderLock(q) /\ ~UnderLock(caller[c])
        /\ owner' = [owner EXCEPT ![q.key] = c]

LEMMA CountOfMove ==
  ASSUME PoolInv, NEW c \in Callers, NEW q, NEW d, MovesTo(c, q, d), NEW i \in Instances
  PROVE  /\ open'[i] = open[i] - Used(caller[c], i) + Used(q, i)
         /\ open'[i] <= MaxOpenConns /\ open'[i] \in Nat
<1> DEFINE n == caller[c].instance
<1>1. /\ PoolTypes /\ ConnectionsAreCounted /\ n \in Instances /\ MaxOpenConns \in Nat
      /\ open \in [Instances -> Nat]
  BY PoolAssumption DEF PoolInv, PoolTypes, MovesTo
<1>2. Weight(q) \in Nat /\ Weight(caller[c]) \in Nat
  BY UsedIsWeight
<1>3. /\ open' = [open EXCEPT ![n] = open[n] + d] /\ d \in Int /\ Weight(q) = Weight(caller[c]) + d
      /\ d <= 0 \/ (d = 1 /\ open[n] < MaxOpenConns)
      /\ q = NoCall \/ q.instance = n
  BY DEF MovesTo, HasRoom
<1>4. Used(caller[c], i) = (IF i = n THEN Weight(caller[c]) ELSE 0)
  BY UsedIsWeight
<1>5. Used(q, i) = (IF i = n THEN Weight(q) ELSE 0)
  <2>1. CASE q = NoCall
    <3>1. Weight(q) = 0
      BY <2>1 DEF Weight, NoCall
    <3>2. Used(q, i) = 0
      BY <3>1, UsedIsWeight
    <3> QED  BY <3>1, <3>2
  <2>2. CASE q.instance = n
    BY <2>2, UsedIsWeight
  <2> QED  BY <1>3, <2>1, <2>2
<1>6. Used(caller[c], i) <= open[i] /\ open[i] <= MaxOpenConns /\ open[i] \in Nat
  BY <1>1, UsedIsOpen DEF ConnectionsAreCounted
<1>7. open'[i] = (IF i = n THEN open[i] + d ELSE open[i])
  BY <1>1, <1>3
<1> HIDE DEF n
<1>8. CASE i = n
  BY <1>1, <1>2, <1>3, <1>4, <1>5, <1>6, <1>7, <1>8
<1>9. CASE i # n
  BY <1>4, <1>5, <1>6, <1>7, <1>9
<1> QED  BY <1>8, <1>9

LEMMA CallMoves ==
  ASSUME PoolInv, NEW c \in Callers, NEW q, NEW d, MovesTo(c, q, d)
  PROVE  PoolInv'
<1>1. \A i \in Instances : /\ open'[i] = open[i] - Used(caller[c], i) + Used(q, i)
                            /\ open'[i] <= MaxOpenConns /\ open'[i] \in Nat
  BY CountOfMove
<1>2. open' \in [Instances -> Nat]
  <2>1. DOMAIN open' = Instances /\ open' = [j \in DOMAIN open' |-> open'[j]]
    BY DEF MovesTo, PoolInv, PoolTypes
  <2> QED  BY <1>1, <2>1
<1>3. \/ q = NoCall
      \/ /\ q \in Working /\ q.key = caller[c].key
         /\ q.pc \in {"beginning", "locking", "working"} => q.kind # "plain"
  BY DEF MovesTo
<1>4. UnderLock(q) => q.key = caller[c].key /\ q.key \in LockKeys
  BY <1>3 DEF UnderLock, NoCall, Working
<1>5. CallStep(c, q)
  <2>1. caller' = [caller EXCEPT ![c] = q]
    BY DEF MovesTo
  <2>2. q = NoCall \/ /\ q \in [pc : PoolPcs \ {"idle"}, instance : Instances, key : LockKeys, kind : Kinds, queries : Nat]
                      /\ q.pc \in {"beginning", "locking", "working"} => q.kind # "plain"
    BY <1>3 DEF Working
  <2>3. \/ owner' = owner /\ (UnderLock(q) <=> UnderLock(caller[c]))
                        /\ (UnderLock(q) => q.key = caller[c].key)
        \/ owner' = Freed(c) /\ ~UnderLock(q)
        \/ /\ q.key \in LockKeys /\ owner[q.key] = Nobody /\ UnderLock(q) /\ ~UnderLock(caller[c])
           /\ owner' = [owner EXCEPT ![q.key] = c]
    BY <1>4 DEF MovesTo
  <2> QED  BY <1>1, <1>2, <2>1, <2>2, <2>3 DEF CallStep
<1> QED
  BY <1>5, CallKeeps

\* What is known of a call under way.
LEMMA CallerFacts ==
  ASSUME PoolInv, NEW c \in Callers, caller[c].pc # "idle"
  PROVE  /\ caller[c] \in Working
         /\ caller[c].pc \in {"beginning", "locking", "working"} => caller[c].kind # "plain"
         /\ open \in [Instances -> Nat]
         /\ open = [open EXCEPT ![caller[c].instance] = open[caller[c].instance] + 0]
<1> DEFINE n == caller[c].instance
<1>1. /\ caller[c] \in [pc : PoolPcs, instance : Instances \cup {Nobody}, key : LockKeys \cup {Nobody},
                        kind : Kinds, queries : Nat]
      /\ n \in Instances /\ caller[c].key \in LockKeys
      /\ open \in [Instances -> Nat]
      /\ caller[c].pc \in {"beginning", "locking", "working"} => caller[c].kind # "plain"
  BY DEF PoolInv, PoolTypes
<1>2. caller[c] \in Working
  <2> DEFINE r == caller[c]
  <2>1. /\ r = [pc |-> r.pc, instance |-> r.instance, key |-> r.key, kind |-> r.kind, queries |-> r.queries]
        /\ r.pc \in PoolPcs \ {"idle"} /\ r.instance \in Instances /\ r.key \in LockKeys
        /\ r.kind \in Kinds /\ r.queries \in Nat
    BY <1>1
  <2> HIDE DEF r
  <2>2. r \in Working
    BY <2>1 DEF Working
  <2> QED  BY <2>2 DEF r
<1>3. open = [open EXCEPT ![n] = open[n] + 0]
  <2> HIDE DEF n
  <2>1. open[n] + 0 = open[n]
    BY <1>1
  <2> QED  BY <1>1, <2>1
<1> QED  BY <1>1, <1>2, <1>3

\* A call that ends gives back what it used and frees its lock, if it holds one.
LEMMA CallEnds ==
  ASSUME PoolInv, NEW c \in Callers, caller[c].pc # "idle", Ended(c),
         \/ Weight(caller[c]) = 0 /\ UNCHANGED open
         \/ Weight(caller[c]) = 1 /\ GiveBack(c),
         owner' = Freed(c) \/ (owner' = owner /\ ~UnderLock(caller[c]))
  PROVE  PoolInv'
<1>1. Weight(NoCall) = 0 /\ ~UnderLock(NoCall)
  BY DEF Weight, NoCall, UnderLock
<1>2. CASE Weight(caller[c]) = 0 /\ UNCHANGED open
  <2>1. open' = [open EXCEPT ![caller[c].instance] = open[caller[c].instance] + 0]
    BY <1>2, CallerFacts
  <2>2. MovesTo(c, NoCall, 0)
    <3>1. 0 \in Int /\ 0 <= 0 /\ Weight(NoCall) = Weight(caller[c]) + 0
      BY <1>1, <1>2
    <3>2. caller' = [caller EXCEPT ![c] = NoCall]
      BY DEF Ended
    <3>3. \/ owner' = owner /\ (UnderLock(NoCall) <=> UnderLock(caller[c]))
          \/ owner' = Freed(c) /\ ~UnderLock(NoCall)
      BY <1>1
    <3> QED  BY <2>1, <3>1, <3>2, <3>3, Zenon DEF MovesTo
  <2> QED  BY <2>2, CallMoves
<1>3. CASE Weight(caller[c]) = 1 /\ GiveBack(c)
  <2>1. PICK d \in Int : d = -1
    OBVIOUS
  <2>2. open' = [open EXCEPT ![caller[c].instance] = open[caller[c].instance] + d]
    <3>1. open[caller[c].instance] - 1 = open[caller[c].instance] + d
      BY <2>1, CallerFacts DEF Working
    <3> QED  BY <1>3, <3>1 DEF GiveBack
  <2>3. MovesTo(c, NoCall, d)
    BY <1>1, <1>3, <2>1, <2>2 DEF MovesTo, Ended
  <2> QED  BY <2>3, CallMoves
<1> QED  BY <1>2, <1>3

LEMMA OpenTransactionKeeps ==
  ASSUME PoolInv, NEW c \in Callers, OpenTransaction(c)
  PROVE  PoolInv'
<1>1. PICK q : q = [caller[c] EXCEPT !.pc = "locking"]
  OBVIOUS
<1>2. caller[c].pc = "beginning" /\ caller' = [caller EXCEPT ![c] = q]
  BY <1>1 DEF OpenTransaction, Moves
<1>3. caller[c] \in Working /\ caller[c].kind # "plain"
  BY <1>2, CallerFacts
<1>4. q \in Working /\ q.instance = caller[c].instance /\ q.key = caller[c].key /\ q.kind # "plain" /\ q.pc = "locking"
  BY <1>1, <1>3 DEF Working, PoolPcs
<1>5. Weight(q) = Weight(caller[c]) + 1
  BY <1>2, <1>4 DEF Weight
<1>6. open' = [open EXCEPT ![caller[c].instance] = open[caller[c].instance] + 1]
      /\ HasRoom(caller[c].instance) /\ owner' = owner
  BY DEF OpenTransaction, Borrow
<1>7. UnderLock(q) <=> UnderLock(caller[c])
  BY <1>2, <1>4 DEF UnderLock
<1>8. caller[c].pc # "idle" /\ (q.pc \in {"beginning", "locking", "working"} => q.kind # "plain")
  BY <1>2, <1>4
<1>9. MovesTo(c, q, 1)
  BY <1>2, <1>4, <1>5, <1>6, <1>7, <1>8 DEF MovesTo
<1> QED  BY <1>9, CallMoves

LEMMA LockKeeps ==
  ASSUME PoolInv, NEW c \in Callers, Lock(c)
  PROVE  PoolInv'
<1>1. PICK q : q = [caller[c] EXCEPT !.pc = "working"]
  OBVIOUS
<1>2. caller[c].pc = "locking" /\ caller' = [caller EXCEPT ![c] = q]
  BY <1>1 DEF Lock, Moves
<1>3. caller[c] \in Working /\ caller[c].kind # "plain"
  BY <1>2, CallerFacts
<1>4. q \in Working /\ q.instance = caller[c].instance /\ q.key = caller[c].key /\ q.kind # "plain" /\ q.pc = "working"
  BY <1>1, <1>3 DEF Working, PoolPcs
<1>5. Weight(q) = Weight(caller[c]) + 0
  BY <1>2, <1>3, <1>4 DEF Weight
<1>6. open' = [open EXCEPT ![caller[c].instance] = open[caller[c].instance] + 0]
  BY <1>2, CallerFacts DEF Lock
<1>7. /\ owner[q.key] = Nobody /\ UnderLock(q) /\ ~UnderLock(caller[c])
      /\ owner' = [owner EXCEPT ![q.key] = c]
  BY <1>2, <1>4 DEF UnderLock, Lock
<1>8. caller[c].pc # "idle" /\ (q.pc \in {"beginning", "locking", "working"} => q.kind # "plain")
  BY <1>2, <1>4
<1>9. MovesTo(c, q, 0)
  BY <1>2, <1>4, <1>5, <1>6, <1>7, <1>8 DEF MovesTo
<1> QED  BY <1>9, CallMoves

LEMMA AskKeeps ==
  ASSUME PoolInv, NEW c \in Callers, Ask(c)
  PROVE  PoolInv'
<1>1. PICK q : q = [caller[c] EXCEPT !.pc = "asking", !.queries = @ + 1]
  OBVIOUS
<1>2. caller[c].pc = "working" /\ caller' = [caller EXCEPT ![c] = q]
  BY <1>1 DEF Ask
<1>3. caller[c] \in Working /\ caller[c].kind # "plain"
  BY <1>2, CallerFacts
<1>4. q \in Working /\ q.instance = caller[c].instance /\ q.key = caller[c].key /\ q.kind # "plain" /\ q.pc = "asking"
  <2>1. q = [pc |-> "asking", instance |-> caller[c].instance, key |-> caller[c].key,
             kind |-> caller[c].kind, queries |-> caller[c].queries + 1]
    BY <1>1, <1>3 DEF Working
  <2>2. /\ caller[c].instance \in Instances /\ caller[c].key \in LockKeys /\ caller[c].kind \in Kinds
        /\ caller[c].queries + 1 \in Nat
    BY <1>3 DEF Working
  <2> QED  BY <1>3, <2>1, <2>2 DEF Working, PoolPcs
<1>5. Weight(q) = Weight(caller[c]) + 0
  BY <1>2, <1>3, <1>4 DEF Weight
<1>6. open' = [open EXCEPT ![caller[c].instance] = open[caller[c].instance] + 0] /\ owner' = owner
  BY <1>2, CallerFacts DEF Ask
<1>7. UnderLock(q) <=> UnderLock(caller[c])
  BY <1>2, <1>3, <1>4 DEF UnderLock
<1>8. caller[c].pc # "idle" /\ (q.pc \in {"beginning", "locking", "working"} => q.kind # "plain")
  BY <1>2, <1>4
<1>9. MovesTo(c, q, 0)
  BY <1>2, <1>4, <1>5, <1>6, <1>7, <1>8 DEF MovesTo
<1> QED  BY <1>9, CallMoves

LEMMA QueryKeeps ==
  ASSUME PoolInv, NEW c \in Callers, Query(c)
  PROVE  PoolInv'
<1>1. PICK q : q = [caller[c] EXCEPT !.pc = "querying"]
  OBVIOUS
<1>2. caller[c].pc = "asking" /\ caller' = [caller EXCEPT ![c] = q]
  BY <1>1 DEF Query, Moves
<1>3. caller[c] \in Working
  BY <1>2, CallerFacts
<1>4. q \in Working /\ q.instance = caller[c].instance /\ q.key = caller[c].key /\ q.kind = caller[c].kind
      /\ q.pc = "querying"
  BY <1>1, <1>3 DEF Working, PoolPcs
<1>5. Weight(q) = Weight(caller[c]) + 1
  BY <1>2, <1>4 DEF Weight
<1>6. open' = [open EXCEPT ![caller[c].instance] = open[caller[c].instance] + 1]
      /\ HasRoom(caller[c].instance) /\ owner' = owner
  BY DEF Query, Borrow
<1>7. UnderLock(q) <=> UnderLock(caller[c])
  BY <1>2, <1>4 DEF UnderLock
<1>8. caller[c].pc # "idle" /\ (q.pc \in {"beginning", "locking", "working"} => q.kind # "plain")
  BY <1>2, <1>4
<1>9. MovesTo(c, q, 1)
  BY <1>2, <1>4, <1>5, <1>6, <1>7, <1>8 DEF MovesTo
<1> QED  BY <1>9, CallMoves

LEMMA AnsweredKeeps ==
  ASSUME PoolInv, NEW c \in Callers, Answered(c)
  PROVE  PoolInv'
<1>1. caller[c].pc = "querying" /\ GiveBack(c) /\ owner' = owner
  BY DEF Answered
<1>2. caller[c] \in Working
  BY <1>1, CallerFacts
<1>3. CASE caller[c].kind = "plain"
  <2>1. Ended(c) /\ Weight(caller[c]) = 1 /\ ~UnderLock(caller[c])
    BY <1>1, <1>3 DEF Answered, Weight, UnderLock
  <2> QED  BY <1>1, <2>1, CallEnds
<1>4. CASE caller[c].kind # "plain"
  <2>1. PICK q : q = [caller[c] EXCEPT !.pc = "working"]
    OBVIOUS
  <2>2. caller' = [caller EXCEPT ![c] = q]
    BY <1>4, <2>1 DEF Answered
  <2>3. q \in Working /\ q.instance = caller[c].instance /\ q.key = caller[c].key /\ q.kind # "plain"
        /\ q.pc = "working"
    BY <1>2, <1>4, <2>1 DEF Working, PoolPcs
  <2>4. PICK d \in Int : d = -1
    OBVIOUS
  <2>5. Weight(q) = Weight(caller[c]) + d /\ d <= 0
    BY <1>1, <1>4, <2>3, <2>4 DEF Weight
  <2>6. open' = [open EXCEPT ![caller[c].instance] = open[caller[c].instance] + d]
    <3>1. open[caller[c].instance] - 1 = open[caller[c].instance] + d
      BY <1>1, <2>4, CallerFacts DEF Working
    <3> QED  BY <1>1, <3>1 DEF GiveBack
  <2>7. UnderLock(q) <=> UnderLock(caller[c])
    BY <1>1, <1>4, <2>3 DEF UnderLock
  <2>8. MovesTo(c, q, d)
    BY <1>1, <2>2, <2>3, <2>5, <2>6, <2>7 DEF MovesTo
  <2> QED  BY <2>8, CallMoves
<1> QED  BY <1>3, <1>4

LEMMA EndsKeep ==
  ASSUME PoolInv, NEW c \in Callers, TryInVain(c) \/ Cancel(c) \/ \E failed \in BOOLEAN : EndOperation(c, failed)
  PROVE  PoolInv'
<1>1. CASE TryInVain(c)
  <2>1. caller[c].pc = "locking" /\ Ended(c) /\ GiveBack(c) /\ owner' = owner
    BY <1>1 DEF TryInVain, RollbackTry
  <2>2. caller[c].kind # "plain"
    BY <2>1, CallerFacts
  <2>3. Weight(caller[c]) = 1 /\ ~UnderLock(caller[c])
    BY <2>1, <2>2 DEF Weight, UnderLock
  <2> QED  BY <2>1, <2>3, CallEnds
<1>2. CASE \E failed \in BOOLEAN : EndOperation(c, failed)
  <2>1. caller[c].pc = "working" /\ Ended(c) /\ owner' = Freed(c) /\ GiveBack(c)
    BY <1>2 DEF EndOperation, Release
  <2>2. caller[c].kind # "plain"
    BY <2>1, CallerFacts
  <2>3. Weight(caller[c]) = 1
    BY <2>1, <2>2 DEF Weight
  <2> QED  BY <2>1, <2>3, CallEnds
<1>3. CASE Cancel(c)
  <2>0. Ended(c)
    BY <1>3 DEF Cancel
  <2>1. CASE caller[c].pc = "beginning" /\ UNCHANGED <<open, owner>>
    <3>1. Weight(caller[c]) = 0 /\ ~UnderLock(caller[c])
      BY <2>1 DEF Weight, UnderLock
    <3> QED  BY <2>0, <2>1, <3>1, CallEnds
  <2>2. CASE caller[c].pc = "locking" /\ GiveBack(c) /\ UNCHANGED owner
    <3>1. caller[c].kind # "plain"
      BY <2>2, CallerFacts
    <3>2. Weight(caller[c]) = 1 /\ ~UnderLock(caller[c])
      BY <2>2, <3>1 DEF Weight, UnderLock
    <3> QED  BY <2>0, <2>2, <3>2, CallEnds
  <2>3. CASE caller[c].pc = "asking" /\ caller[c].kind = "plain" /\ UNCHANGED <<open, owner>>
    <3>1. Weight(caller[c]) = 0 /\ ~UnderLock(caller[c])
      BY <2>3 DEF Weight, UnderLock
    <3> QED  BY <2>0, <2>3, <3>1, CallEnds
  <2>4. CASE caller[c].pc = "asking" /\ caller[c].kind # "plain" /\ owner' = Freed(c) /\ GiveBack(c)
    <3>1. Weight(caller[c]) = 1
      BY <2>4 DEF Weight
    <3> QED  BY <2>0, <2>4, <3>1, CallEnds
  <2> QED  BY <1>3, <2>1, <2>2, <2>3, <2>4 DEF Cancel, Release
<1> QED  BY <1>1, <1>2, <1>3

\* A new call uses nothing yet.
LEMMA ArriveKeeps ==
  ASSUME PoolInv, NEW c \in Callers, NEW i \in Instances, NEW k \in LockKeys, NEW kind \in Kinds,
         Arrive(c, i, k, kind)
  PROVE  PoolInv'
<1> DEFINE q == [pc |-> IF kind = "plain" THEN "asking" ELSE "beginning",
                 instance |-> i, key |-> k, kind |-> kind, queries |-> 0]
<1>1. caller[c] = NoCall /\ caller' = [caller EXCEPT ![c] = q] /\ open' = open /\ owner' = owner
  BY DEF Arrive
<1>2. /\ q \in Working /\ ~UnderLock(q) /\ Weight(q) = 0
      /\ q.pc \in {"beginning", "locking", "working"} => q.kind # "plain"
  BY DEF Working, PoolPcs, UnderLock, Weight
<1> HIDE DEF q
<1>3. Weight(caller[c]) = 0 /\ ~UnderLock(caller[c])
  BY <1>1 DEF Weight, NoCall, UnderLock
<1>4. \A j \in Instances : Used(caller[c], j) = 0 /\ Used(q, j) = 0
  BY <1>2, <1>3, UsedIsWeight
<1>5. /\ open \in [Instances -> Nat]
      /\ \A j \in Instances : open[j] <= MaxOpenConns
  BY DEF PoolInv, PoolTypes, ConnectionsAreCounted
<1>6. CallStep(c, q)
  BY <1>1, <1>2, <1>3, <1>4, <1>5 DEF CallStep, Working
<1> QED  BY <1>6, CallKeeps

\* With its process go all calls of an instance, their locks and its pool.
LEMMA CrashKeeps ==
  ASSUME PoolInv, NEW i \in Instances, Crash(i)
  PROVE  PoolInv'
<1>1. /\ PoolTypes /\ OwnersWork /\ ConnectionsAreCounted
      /\ MaxOpenConns \in Nat /\ Nobody \notin Callers
  BY PoolAssumption DEF PoolInv
<1>2. /\ caller' = [c \in Callers |-> IF caller[c].instance = i THEN NoCall ELSE caller[c]]
      /\ open' = [open EXCEPT ![i] = 0]
      /\ owner' = [k \in LockKeys |-> IF owner[k] \in {c \in Callers : caller[c].instance = i} THEN Nobody ELSE owner[k]]
  BY DEF Crash
<1>3. PoolTypes'
  <2>1. NoCall \in [pc : PoolPcs, instance : Instances \cup {Nobody}, key : LockKeys \cup {Nobody},
                   kind : Kinds, queries : Nat] /\ NoCall.pc = "idle"
    BY DEF NoCall, PoolPcs, Kinds
  <2> QED  BY <1>1, <1>2, <2>1 DEF PoolTypes
<1>4. OwnersWork'
  <2> SUFFICES ASSUME NEW k \in LockKeys, NEW c \in Callers
               PROVE  owner'[k] = c <=> UnderLock(caller'[c]) /\ caller'[c].key = k
    BY DEF OwnersWork
  <2>1. ~UnderLock(NoCall)
    BY DEF UnderLock, NoCall
  <2>2. owner[k] = c <=> UnderLock(caller[c]) /\ caller[c].key = k
    BY <1>1 DEF OwnersWork
  <2> QED  BY <1>1, <1>2, <2>1, <2>2
<1>5. ConnectionsAreCounted'
  <2> SUFFICES ASSUME NEW j \in Instances
               PROVE  /\ IsFiniteSet(LockTransactions(j)') /\ IsFiniteSet(Statements(j)')
                      /\ open'[j] = Cardinality(LockTransactions(j)') + Cardinality(Statements(j)')
                      /\ open'[j] <= MaxOpenConns
    BY DEF ConnectionsAreCounted
  <2>1. NoCall.pc = "idle"
    BY DEF NoCall
  <2>2. CASE j = i
    <3>1. LockTransactions(j)' = {} /\ Statements(j)' = {}
      BY <1>2, <2>1, <2>2 DEF LockTransactions, Statements, StatementOf
    <3>2. open'[j] = 0
      BY <1>1, <1>2, <2>2 DEF PoolTypes
    <3> QED  BY <1>1, <3>1, <3>2, FS_EmptySet
  <2>3. CASE j # i
    <3>1. LockTransactions(j)' = LockTransactions(j) /\ Statements(j)' = Statements(j)
      BY <1>2, <2>1, <2>3 DEF LockTransactions, Statements, StatementOf
    <3>2. open'[j] = open[j]
      BY <1>1, <1>2, <2>3 DEF PoolTypes
    <3> QED  BY <1>1, <3>1, <3>2 DEF ConnectionsAreCounted
  <2> QED  BY <2>2, <2>3
<1> QED  BY <1>3, <1>4, <1>5 DEF PoolInv

LEMMA PoolStep == PoolInv /\ [PoolNext]_pvars => PoolInv'
<1> SUFFICES ASSUME PoolInv, [PoolNext]_pvars PROVE PoolInv'
  OBVIOUS
<1>1. CASE UNCHANGED pvars
  <2>1. caller' = caller /\ open' = open /\ owner' = owner
    BY <1>1 DEF pvars
  <2>2. \A i \in Instances : LockTransactions(i)' = LockTransactions(i) /\ Statements(i)' = Statements(i)
    BY <2>1 DEF LockTransactions, Statements
  <2>3. PoolTypes' /\ OwnersWork'
    BY <2>1 DEF PoolInv, PoolTypes, OwnersWork
  <2>4. ConnectionsAreCounted'
    BY <2>1, <2>2 DEF PoolInv, ConnectionsAreCounted
  <2> QED  BY <2>3, <2>4 DEF PoolInv
<1>2. CASE \E c \in Callers, i \in Instances, k \in LockKeys, kind \in Kinds : Arrive(c, i, k, kind)
  BY <1>2, ArriveKeeps
<1>3. CASE \E c \in Callers : OpenTransaction(c) \/ Lock(c) \/ Query(c) \/ Ask(c) \/ Answered(c)
  BY <1>3, OpenTransactionKeeps, LockKeeps, QueryKeeps, AskKeeps, AnsweredKeeps
<1>4. CASE \E c \in Callers : TryInVain(c) \/ Cancel(c) \/ \E failed \in BOOLEAN : EndOperation(c, failed)
  BY <1>4, EndsKeep
<1>5. CASE \E i \in Instances : Crash(i)
  BY <1>5, CrashKeeps
<1> QED
  BY <1>1, <1>2, <1>3, <1>4, <1>5 DEF PoolNext, Proceed

LEMMA PoolBegins == PoolInit => PoolInv
<1> SUFFICES ASSUME PoolInit PROVE PoolInv
  OBVIOUS
<1>1. NoCall \in [pc : PoolPcs, instance : Instances \cup {Nobody}, key : LockKeys \cup {Nobody},
                 kind : Kinds, queries : Nat] /\ NoCall.pc = "idle"
  BY DEF NoCall, PoolPcs, Kinds
<1>2. PoolTypes
  BY <1>1 DEF PoolInit, PoolTypes
<1>3. OwnersWork
  BY <1>1, PoolAssumption DEF PoolInit, OwnersWork, UnderLock
<1>4. ConnectionsAreCounted
  <2>1. \A i \in Instances : LockTransactions(i) = {} /\ Statements(i) = {}
    BY <1>1 DEF PoolInit, LockTransactions, Statements, StatementOf
  <2> QED  BY <2>1, FS_EmptySet, PoolAssumption DEF PoolInit, ConnectionsAreCounted
<1> QED  BY <1>2, <1>3, <1>4 DEF PoolInv

\* Whatever is cancelled, fails or dies, a pool has as many connections in use as its
\* calls hold, two of a call under a lock that queries, and never more than it has:
\* no path leaves a transaction open (WithinLock, TryWithinLock).
THEOREM ConnectionsAccounted == PoolSpec => []ConnectionsAreCounted
<1>1. PoolInv => ConnectionsAreCounted
  BY DEF PoolInv
<1> QED  BY <1>1, PoolBegins, PoolStep, PTL DEF PoolSpec

\* Two operations never run under one lock, and a lock is free as soon as none does.
LockExcludes ==
  /\ \A c, d \in Callers :
       UnderLock(caller[c]) /\ UnderLock(caller[d]) /\ caller[c].key = caller[d].key => c = d
  /\ \A k \in LockKeys :
       owner[k] # Nobody => UnderLock(caller[owner[k]]) /\ caller[owner[k]].key = k

\* Locks exclude, in whatever instances the calls are and however they end
\* (pg_advisory_xact_lock, pg_try_advisory_xact_lock, the rollback of a lost session).
THEOREM LocksExclude == PoolSpec => []LockExcludes
<1>1. PoolInv => LockExcludes
  <2> SUFFICES ASSUME PoolInv PROVE LockExcludes
    OBVIOUS
  <2>1. /\ \A k \in LockKeys, c \in Callers : owner[k] = c <=> UnderLock(caller[c]) /\ caller[c].key = k
        /\ owner \in [LockKeys -> Callers \cup {Nobody}]
    BY DEF PoolInv, PoolTypes, OwnersWork
  <2>2. \A c \in Callers : UnderLock(caller[c]) => caller[c].key \in LockKeys
    BY DEF PoolInv, PoolTypes, UnderLock
  <2> QED  BY <2>1, <2>2 DEF LockExcludes
<1> QED  BY <1>1, PoolBegins, PoolStep, PTL DEF PoolSpec

\* Who waits, waits for someone who goes on: the owner of a lock does not wait for one,
\* and a pool without a free connection has a call that does not ask for one, unless
\* the transactions of locks have used it up.
WaitsAreGrounded ==
  /\ \A c \in Callers : caller[c].pc = "locking" /\ owner[caller[c].key] # Nobody =>
       caller[owner[caller[c].key]].pc \in {"working", "asking", "querying"}
  /\ \A i \in Instances : ~HasRoom(i) /\ ~Starved(i) =>
       \E c \in Callers : caller[c].instance = i /\ caller[c].pc \in {"locking", "working", "querying"}

\* Nothing but a starved pool makes calls wait for each other: this is what CallsEnd
\* rests on, here for any number of calls, instances, locks and connections.
THEOREM OnlyStarvationBlocks == PoolSpec => []WaitsAreGrounded
<1>1. PoolInv => WaitsAreGrounded
  <2> SUFFICES ASSUME PoolInv PROVE WaitsAreGrounded
    OBVIOUS
  <2>1. ASSUME NEW c \in Callers, caller[c].pc = "locking", owner[caller[c].key] # Nobody
        PROVE  caller[owner[caller[c].key]].pc \in {"working", "asking", "querying"}
    <3>1. caller[c].key \in LockKeys /\ owner[caller[c].key] \in Callers
      BY <2>1 DEF PoolInv, PoolTypes
    <3> QED  BY <3>1 DEF PoolInv, OwnersWork, UnderLock
  <2>2. ASSUME NEW i \in Instances, ~HasRoom(i), ~Starved(i)
        PROVE  \E c \in Callers : caller[c].instance = i /\ caller[c].pc \in {"locking", "working", "querying"}
    <3> DEFINE L == LockTransactions(i)
               S == Statements(i)
    <3>1. /\ IsFiniteSet(L) /\ IsFiniteSet(S) /\ open[i] = Cardinality(L) + Cardinality(S)
          /\ open[i] <= MaxOpenConns /\ open[i] \in Nat /\ MaxOpenConns \in Nat \ {0}
      BY PoolAssumption DEF PoolInv, PoolTypes, ConnectionsAreCounted
    <3>2. open[i] = MaxOpenConns
      BY <2>2, <3>1 DEF HasRoom
    <3>3. CASE S # {}
      BY <3>3 DEF Statements, StatementOf
    <3>4. CASE S = {}
      <4>1. Cardinality(S) = 0 /\ Cardinality(L) \in Nat
        BY <3>1, <3>4, FS_EmptySet, FS_CardinalityType
      <4>2. Cardinality(L) = MaxOpenConns /\ L # {}
        BY <3>1, <3>2, <4>1, FS_EmptySet
      <4>3. \A c \in L : caller[c].pc # "asking"
        BY <2>2, <4>2 DEF Starved
      <4>4. PICK c \in L : caller[c].pc # "asking"
        BY <4>2, <4>3
      <4> QED  BY <4>4 DEF LockTransactions
    <3> QED  BY <3>3, <3>4
  <2> QED  BY <2>1, <2>2 DEF WaitsAreGrounded
<1> QED  BY <1>1, PoolBegins, PoolStep, PTL DEF PoolSpec
==============================================================================
