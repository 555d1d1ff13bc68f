--------------------- MODULE IdentityVerificationProofs ---------------------
(***************************************************************************)
(* For any number of sessions, results, starts and deliveries: a session   *)
(* reports results the verifier sent, no result acts twice, the newest     *)
(* recorded result stands unless deliveries overlapped, and an approval    *)
(* stands unless a start was under way.                                    *)
(***************************************************************************)
EXTENDS IdentityVerification, TLAPS

Holds(d) == delivery[d].event # None
SessionOf(d) == notice[delivery[d].event].session

\* Saved rows are of made sessions and have creation times of their own.
RowsInv ==
  /\ \A s \in Sessions : row[s].status = "absent" => row[s] = NoRow
  /\ \A s \in Saved : s \in made /\ row[s].created <= clock
  /\ \A s, t \in Saved : row[s].created = row[t].created => s = t

\* A start saves a new session of its own, with a creation time of its own.
StartsInv ==
  /\ \A c \in Starts : start[c].step = "read" => start[c].session \in Saved
  /\ \A c \in Starts : start[c].step = "save" =>
       /\ start[c].session \in made \ Saved
       /\ start[c].created <= clock
       /\ \A t \in Saved : row[t].created # start[c].created
  /\ \A b, c \in Starts : start[b].step = "save" /\ start[c].step = "save" /\ b # c =>
       start[b].session # start[c].session /\ start[b].created # start[c].created

\* A delivery holds an unrecorded event of its own, of a saved session.
DeliveriesInv ==
  /\ \A d \in Deliveries : Holds(d) =>
       /\ delivery[d].event \in Sent \ recorded
       /\ SessionOf(d) \in Saved
       /\ delivery[d].copy.created = row[SessionOf(d)].created
       /\ delivery[d].copy.status # "absent"
  /\ \A b, d \in Deliveries : Holds(d) /\ delivery[b].event = delivery[d].event => b = d

\* A sent notice is a result of a session; a recorded one of a saved session.
NoticesInv ==
  /\ \A e \in Sent : notice[e].status \in Results
  /\ \A e \in recorded : e \in Sent /\ notice[e].session \in Saved

Ids == TypeOK /\ RowsInv /\ StartsInv /\ DeliveriesInv /\ NoticesInv

\* Rows and copies are backed by recorded events.
CopiesBacked ==
  /\ ResultIsBacked
  /\ \A d \in Deliveries : Holds(d) => Backed(SessionOf(d), delivery[d].copy)

\* A session no two deliveries worked on is worked on by one that holds its row.
CopiesCurrent ==
  \A d \in Deliveries : Holds(d) /\ SessionOf(d) \notin overlapped =>
    /\ delivery[d].copy = row[SessionOf(d)]
    /\ \A b \in Deliveries : Holds(b) /\ SessionOf(b) = SessionOf(d) => b = d

\* No start can save a session after an approval that was not raced.
ApprovalInv ==
  \A s \in Sessions \ raced : row[s].status = "approved" =>
    IsLatest(s) /\ \A c \in Starts : ~MaySaveAfter(c, s)

IInv ==
  /\ Ids
  /\ CopiesBacked
  /\ CopiesCurrent /\ NewestStands
  /\ ApprovalInv

\* Every step keeps the types.
LEMMA TypesStep ==
  ASSUME TypeOK, StartsInv, DeliveriesInv, [Next]_vars
  PROVE  TypeOK'
<1> USE ConstantsAssumption DEF TypeOK, Rows, Statuses, Results, StartSteps, NoRow, Waiting, Free, None,
        Sessions, tables, verifier, history
<1>0. CASE UNCHANGED vars
  BY <1>0 DEF vars
<1>1. ASSUME NEW e \in Events, NEW s \in Sessions, NEW status \in Results, NEW on \in 1..MaxOn,
             SendResult(e, s, status, on)
      PROVE  TypeOK'
  <2>1. notice' = [notice EXCEPT ![e] = [session |-> s, status |-> status, on |-> on]]
    BY <1>1 DEF SendResult
  <2>2. UNCHANGED <<row, recorded, start, delivery, made, clock, failures, overlapped, raced>>
    BY <1>1 DEF SendResult
  <2>3. [session |-> s, status |-> status, on |-> on]
          \in [session: Sessions \cup {None}, status: Statuses, on: 0..MaxOn]
    OBVIOUS
  <2>4. QED
    BY <2>1, <2>2, <2>3
<1>2. ASSUME NEW c \in Starts, FindLatest(c) PROVE TypeOK'
  <2>1. UNCHANGED <<row, recorded, delivery, made, notice, clock, failures, overlapped, raced>>
    BY <1>2 DEF FindLatest
  <2>2. ASSUME NEW s \in Sessions, start' = [start EXCEPT ![c] = [Waiting EXCEPT !.step = "read", !.session = s]]
        PROVE  TypeOK'
    BY <2>1, <2>2
  <2>3. CASE start' = [start EXCEPT ![c] = [Waiting EXCEPT !.step = "create"]]
    BY <2>1, <2>3
  <2>4. QED
    BY <1>2, <2>2, <2>3 DEF FindLatest
<1>3. ASSUME NEW c \in Starts, ReadLatest(c) PROVE TypeOK'
  BY <1>3 DEF ReadLatest
<1>4. ASSUME NEW c \in Starts, NEW s \in Sessions, CreateSession(c, s) PROVE TypeOK'
  BY <1>4 DEF CreateSession
<1>5. ASSUME NEW c \in Starts, NEW s \in Sessions, Resume(c, s) PROVE TypeOK'
  BY <1>5 DEF Resume
<1>6. ASSUME NEW c \in Starts, SaveNew(c) PROVE TypeOK'
  <2>1. NewVerification(start[c].created) \in Rows
    BY DEF NewVerification
  <2>2. UNCHANGED <<recorded, delivery, made, notice, clock, failures, overlapped, raced>>
    BY <1>6 DEF SaveNew
  <2>3. QED
    BY <1>6, <2>1, <2>2 DEF SaveNew
<1>7. ASSUME NEW d \in Deliveries, NEW e \in Events, Receive(d, e) PROVE TypeOK'
  <2>1. notice[e].session \in Sessions
    BY <1>7 DEF Receive, Saved
  <2>2. QED
    BY <1>7, <2>1 DEF Receive
<1>8. ASSUME NEW d \in Deliveries, Record(d) PROVE TypeOK'
  <2> DEFINE s == SessionOf(d)
             new == WithResult(delivery[d].copy, delivery[d].event)
  <2>1. s \in Sessions /\ delivery[d].event \in Events /\ delivery[d].copy \in Rows
    BY <1>8 DEF Record, DeliveriesInv, Holds, SessionOf, Saved, Sent
  <2>2. new \in Rows
    <3>1. notice[delivery[d].event].status \in Statuses /\ notice[delivery[d].event].on \in 0..MaxOn
      BY <2>1
    <3>2. QED
      BY <2>1, <3>1 DEF WithResult
  <2>3. row' = [row EXCEPT ![s] = new] /\ raced' \subseteq raced \cup {s}
    BY <1>8 DEF Record, SessionOf
  <2>4. recorded' = recorded \cup {delivery[d].event} /\ delivery' = [delivery EXCEPT ![d] = Free]
    BY <1>8 DEF Record
  <2>5. UNCHANGED <<start, made, notice, clock, failures, overlapped>>
    BY <1>8 DEF Record
  <2>6. row' \in [Sessions -> Rows] /\ raced' \subseteq Sessions
    BY <2>1, <2>2, <2>3
  <2>7. recorded' \subseteq Events /\ delivery' \in [Deliveries -> [event: Events \cup {None}, copy: Rows]]
    BY <2>1, <2>4
  <2>8. QED
    BY <2>5, <2>6, <2>7
<1>9. ASSUME NEW c \in Starts, StartCutShort(c) PROVE TypeOK'
  BY <1>9 DEF StartCutShort
<1>10. ASSUME NEW d \in Deliveries, DeliveryCutShort(d) PROVE TypeOK'
  BY <1>10 DEF DeliveryCutShort
<1> HIDE DEF TypeOK, Sessions
<1>11. QED
  BY <1>0, <1>1, <1>2, <1>3, <1>4, <1>5, <1>6, <1>7, <1>8, <1>9, <1>10 DEF Next, Step

\* Recording leaves the set of saved rows, their creation times and the other rows.
LEMMA RecordFacts ==
  ASSUME Ids, NEW d \in Deliveries, Record(d)
  PROVE  /\ Holds(d) /\ SessionOf(d) \in Saved /\ delivery[d].event \in Sent \ recorded
         /\ row' = [row EXCEPT ![SessionOf(d)] = WithResult(delivery[d].copy, delivery[d].event)]
         /\ recorded' = recorded \cup {delivery[d].event}
         /\ delivery' = [delivery EXCEPT ![d] = Free]
         /\ UNCHANGED <<start, verifier, failures, overlapped>>
         /\ row'[SessionOf(d)].status # "absent"
         /\ Saved' = Saved
         /\ \A s \in Sessions : row'[s].created = row[s].created
<1> DEFINE s == SessionOf(d)
           new == WithResult(delivery[d].copy, delivery[d].event)
<1>1. Holds(d) /\ s \in Saved /\ delivery[d].event \in Sent \ recorded
  BY DEF Ids, Record, DeliveriesInv, Holds
<1>2. /\ row' = [row EXCEPT ![s] = new]
      /\ recorded' = recorded \cup {delivery[d].event}
      /\ delivery' = [delivery EXCEPT ![d] = Free]
      /\ UNCHANGED <<start, verifier, failures, overlapped>>
  BY DEF Record, SessionOf
<1>3. new.status # "absent" /\ new.created = row[s].created
  <2>1. delivery[d].copy \in Rows /\ delivery[d].copy.status # "absent"
        /\ delivery[d].copy.created = row[s].created
    BY <1>1 DEF Ids, TypeOK, DeliveriesInv
  <2>2. notice[delivery[d].event].status \in Results
    BY <1>1 DEF Ids, NoticesInv
  <2>3. QED
    BY <2>1, <2>2 DEF WithResult, Rows, Results
<1>4. s \in Sessions /\ row \in [Sessions -> Rows]
  BY <1>1 DEF Ids, TypeOK, Saved
<1>5. row'[s] = new /\ \A t \in Sessions \ {s} : row'[t] = row[t]
  BY <1>2, <1>4
<1>6. Saved' = Saved
  BY <1>1, <1>3, <1>5 DEF Saved
<1>7. QED
  BY <1>1, <1>2, <1>3, <1>5, <1>6

\* Saving a new session adds its row and disturbs no other.
LEMMA SaveNewFacts ==
  ASSUME Ids, NEW c \in Starts, SaveNew(c)
  PROVE  LET s == start[c].session IN
         /\ start[c].step = "save" /\ s \in made \ Saved /\ s \in Sessions
         /\ row' = [row EXCEPT ![s] = NewVerification(start[c].created)]
         /\ row[s] = NoRow
         /\ start' = [start EXCEPT ![c] = Waiting]
         /\ Saved' = Saved \cup {s}
         /\ UNCHANGED <<recorded, delivery, made, notice, clock, overlapped, raced>>
<1> DEFINE s == start[c].session
<1>1. start[c].step = "save" /\ s \in made \ Saved /\ s \in Sessions
  BY DEF Ids, StartsInv, SaveNew, TypeOK
<1>2. /\ row' = [row EXCEPT ![s] = NewVerification(start[c].created)]
      /\ start' = [start EXCEPT ![c] = Waiting]
      /\ UNCHANGED <<recorded, delivery, made, notice, clock, overlapped, raced>>
  BY DEF SaveNew, verifier, history
<1>3. row[s] = NoRow
  BY <1>1 DEF Ids, RowsInv, Saved
<1>4. row'[s].status = "not_started" /\ \A t \in Sessions \ {s} : row'[t] = row[t]
  BY <1>1, <1>2 DEF Ids, TypeOK, NewVerification
<1>5. Saved' = Saved \cup {s}
  BY <1>1, <1>4 DEF Saved
<1>6. QED
  BY <1>1, <1>2, <1>3, <1>5

\* Every step keeps what is known of ids: rows, starts, deliveries and notices.
LEMMA IdsStep ==
  ASSUME Ids, [Next]_vars
  PROVE  Ids'
<1> DEFINE Rest == RowsInv /\ StartsInv /\ DeliveriesInv /\ NoticesInv
<1>a. TypeOK'
  BY TypesStep DEF Ids
<1> USE DEF Ids
<1>0. CASE UNCHANGED vars
  <2>1. UNCHANGED <<row, recorded, start, delivery, made, notice, clock>>
    BY <1>0 DEF vars, tables, verifier
  <2>2. RowsInv' /\ StartsInv'
    BY <2>1 DEF RowsInv, StartsInv, Saved
  <2>3. DeliveriesInv' /\ NoticesInv'
    BY <2>1 DEF DeliveriesInv, NoticesInv, Saved, Sent, Holds, SessionOf
  <2>4. QED
    BY <1>a, <2>2, <2>3
<1>1. ASSUME NEW e \in Events, NEW s \in Sessions, NEW status \in Results, NEW on \in 1..MaxOn,
             SendResult(e, s, status, on)
      PROVE  Rest'
  <2>1. /\ notice' = [notice EXCEPT ![e] = [session |-> s, status |-> status, on |-> on]]
        /\ UNCHANGED <<row, recorded, start, delivery, made, clock, overlapped, raced>>
    BY <1>1 DEF SendResult, tables, history
  <2>2. e \notin Sent /\ s # None
    BY <1>1 DEF SendResult, Sessions, Events, None
  <2>3. /\ notice'[e].session = s /\ notice'[e].status = status
        /\ \A f \in Events \ {e} : notice'[f] = notice[f]
    BY <2>1 DEF TypeOK
  <2>4. Sent' = Sent \cup {e}
    BY <2>2, <2>3 DEF Sent
  <2>5. Saved' = Saved
    BY <2>1 DEF Saved
  <2>6. \A d \in Deliveries : Holds(d) => delivery[d].event # e /\ SessionOf(d)' = SessionOf(d)
    BY <2>1, <2>2, <2>3 DEF DeliveriesInv, Holds, SessionOf, Sent
  <2>7. DeliveriesInv'
    BY <2>1, <2>4, <2>5, <2>6 DEF DeliveriesInv, Holds
  <2>8. NoticesInv'
    BY <2>1, <2>2, <2>3, <2>4, <2>5 DEF NoticesInv, Sent
  <2>9. RowsInv' /\ StartsInv'
    BY <2>1, <2>5 DEF RowsInv, StartsInv
  <2>10. QED
    BY <2>7, <2>8, <2>9
<1>2. ASSUME NEW c \in Starts, FindLatest(c) PROVE Rest'
  <2>1. UNCHANGED <<row, recorded, delivery, made, notice, clock>>
    BY <1>2 DEF FindLatest, tables, verifier
  <2>2. /\ start'[c].step = "create" \/ (start'[c].step = "read" /\ start'[c].session \in Saved)
        /\ \A b \in Starts \ {c} : start'[b] = start[b]
    BY <1>2 DEF FindLatest, TypeOK, IsLatest, Waiting
  <2>3. Saved' = Saved
    BY <2>1 DEF Saved
  <2>4. StartsInv'
    BY <2>1, <2>2, <2>3 DEF StartsInv
  <2>5. RowsInv' /\ DeliveriesInv' /\ NoticesInv'
    BY <2>1, <2>3 DEF RowsInv, DeliveriesInv, NoticesInv, Sent, Holds, SessionOf
  <2>6. QED
    BY <2>4, <2>5
<1>3. ASSUME NEW c \in Starts, ReadLatest(c) \/ StartCutShort(c) \/ (\E s \in Sessions : Resume(c, s)) PROVE Rest'
  <2>1. UNCHANGED <<row, recorded, delivery, notice, clock>> /\ made \subseteq made'
    BY <1>3 DEF ReadLatest, StartCutShort, Resume, tables, verifier
  <2>2. /\ start'[c].step \notin {"read", "save"}
        /\ \A b \in Starts \ {c} : start'[b] = start[b]
    BY <1>3 DEF ReadLatest, StartCutShort, Resume, TypeOK, Waiting
  <2>3. Saved' = Saved
    BY <2>1 DEF Saved
  <2>4. StartsInv'
    BY <2>1, <2>2, <2>3 DEF StartsInv
  <2>5. RowsInv' /\ DeliveriesInv' /\ NoticesInv'
    BY <2>1, <2>3 DEF RowsInv, DeliveriesInv, NoticesInv, Sent, Holds, SessionOf
  <2>6. QED
    BY <2>4, <2>5
<1>4. ASSUME NEW c \in Starts, NEW s \in Sessions, CreateSession(c, s) PROVE Rest'
  <2>1. /\ UNCHANGED <<row, recorded, delivery, notice>>
        /\ made' = made \cup {s} /\ clock' = clock + 1
        /\ start' = [start EXCEPT ![c] = [step |-> "save", session |-> s, created |-> clock + 1]]
    BY <1>4 DEF CreateSession, tables
  <2>2. s \notin made
    BY <1>4 DEF CreateSession, Sessions
  <2>3. /\ start'[c] = [step |-> "save", session |-> s, created |-> clock + 1]
        /\ \A b \in Starts \ {c} : start'[b] = start[b]
    BY <2>1 DEF TypeOK
  <2>4. Saved' = Saved
    BY <2>1 DEF Saved
  <2>5. clock \in Nat /\ \A b \in Starts : start[b].created \in Nat
    BY DEF TypeOK
  <2>6. \A t \in Saved : row[t].created \in Nat /\ row[t].created <= clock
    BY DEF TypeOK, Rows, RowsInv, Saved
  <2>7. RowsInv'
    <3>1. \A t \in Saved : t \in made' /\ row[t].created <= clock'
      BY <2>1, <2>5, <2>6 DEF RowsInv
    <3>2. QED
      BY <2>1, <2>4, <3>1 DEF RowsInv
  <2>8. StartsInv'
    <3>1. s \in made' \ Saved
      BY <2>1, <2>2 DEF RowsInv
    <3>2. \A b \in Starts : start[b].step = "save" => start[b].session # s /\ start[b].created # clock + 1 /\ start[b].created <= clock'
      BY <2>1, <2>2, <2>5 DEF StartsInv
    <3>3. \A t \in Saved : row[t].created # clock + 1
      BY <2>5, <2>6
    <3>4. \A b \in Starts : start'[b].step = "read" => start'[b].session \in Saved'
      BY <2>3, <2>4 DEF StartsInv
    <3>5. \A b \in Starts : start'[b].step = "save" =>
             /\ start'[b].session \in made' \ Saved'
             /\ start'[b].created <= clock'
             /\ \A t \in Saved' : row'[t].created # start'[b].created
      BY <2>1, <2>3, <2>4, <2>5, <3>1, <3>2, <3>3 DEF StartsInv
    <3>6. \A a, b \in Starts : start'[a].step = "save" /\ start'[b].step = "save" /\ a # b =>
             start'[a].session # start'[b].session /\ start'[a].created # start'[b].created
      BY <2>3, <3>2 DEF StartsInv
    <3>7. QED
      BY <3>4, <3>5, <3>6 DEF StartsInv
  <2>9. DeliveriesInv' /\ NoticesInv'
    BY <2>1, <2>4 DEF DeliveriesInv, NoticesInv, Sent, Holds, SessionOf
  <2>10. QED
    BY <2>7, <2>8, <2>9
<1>5. ASSUME NEW c \in Starts, SaveNew(c) PROVE Rest'
  <2> DEFINE s == start[c].session
  <2>1. /\ start[c].step = "save" /\ s \in made \ Saved /\ s \in Sessions
        /\ Saved' = Saved \cup {s}
        /\ UNCHANGED <<recorded, delivery, made, notice, clock>>
    BY <1>5, SaveNewFacts
  <2>2. /\ row'[s] = NewVerification(start[c].created)
        /\ \A t \in Sessions \ {s} : row'[t] = row[t]
    BY <1>5, <2>1, SaveNewFacts DEF TypeOK
  <2>3. /\ start'[c] = Waiting
        /\ \A b \in Starts \ {c} : start'[b] = start[b]
    BY <1>5, SaveNewFacts DEF TypeOK
  <2>4. row'[s].created = start[c].created /\ row'[s].status # "absent"
    BY <2>2 DEF NewVerification
  <2>5. Saved \subseteq Sessions
    BY DEF Saved
  <2>6. RowsInv'
    <3>1. \A t \in Sessions : row'[t].status = "absent" => row'[t] = NoRow
      BY <2>2, <2>4 DEF RowsInv
    <3>2. \A t \in Saved' : t \in made' /\ row'[t].created <= clock'
      BY <2>1, <2>2, <2>4, <2>5 DEF RowsInv, StartsInv
    <3>3. \A t, u \in Saved' : row'[t].created = row'[u].created => t = u
      BY <2>1, <2>2, <2>4, <2>5 DEF RowsInv, StartsInv
    <3>4. QED
      BY <3>1, <3>2, <3>3 DEF RowsInv
  <2>7. StartsInv'
    <3>1. \A b \in Starts : start'[b].step = "read" => start'[b].session \in Saved'
      BY <2>1, <2>3 DEF StartsInv, Waiting
    <3>2. \A b \in Starts : start'[b].step = "save" =>
             /\ b # c /\ start[b] = start'[b]
             /\ start[b].session # s /\ start[b].created # start[c].created
      BY <2>1, <2>3 DEF StartsInv, Waiting
    <3>3. \A b \in Starts : start'[b].step = "save" =>
             /\ start'[b].session \in made' \ Saved'
             /\ start'[b].created <= clock'
             /\ \A t \in Saved' : row'[t].created # start'[b].created
      BY <2>1, <2>2, <2>4, <2>5, <3>2 DEF StartsInv
    <3>4. \A a, b \in Starts : start'[a].step = "save" /\ start'[b].step = "save" /\ a # b =>
             start'[a].session # start'[b].session /\ start'[a].created # start'[b].created
      BY <3>2 DEF StartsInv
    <3>5. QED
      BY <3>1, <3>3, <3>4 DEF StartsInv
  <2>8. DeliveriesInv'
    BY <2>1, <2>2 DEF DeliveriesInv, Sent, Holds, SessionOf, Saved
  <2>9. NoticesInv'
    BY <2>1 DEF NoticesInv, Sent
  <2>10. QED
    BY <2>6, <2>7, <2>8, <2>9
<1>6. ASSUME NEW d \in Deliveries, NEW e \in Events, Receive(d, e) PROVE Rest'
  <2>1. UNCHANGED <<row, recorded, start, made, notice, clock>>
    BY <1>6 DEF Receive, tables, verifier
  <2>2. /\ delivery'[d] = [event |-> e, copy |-> row[notice[e].session]]
        /\ \A b \in Deliveries \ {d} : delivery'[b] = delivery[b] /\ delivery[b].event # e
    BY <1>6 DEF Receive, TypeOK
  <2>3. e \in Sent \ recorded /\ notice[e].session \in Saved
    BY <1>6 DEF Receive, IsNew
  <2>4. Saved' = Saved /\ Sent' = Sent
    BY <2>1 DEF Saved, Sent
  <2>5. RowsInv' /\ StartsInv' /\ NoticesInv'
    BY <2>1, <2>4 DEF RowsInv, StartsInv, NoticesInv
  <2>6. DeliveriesInv'
    <3>1. row[notice[e].session].status # "absent"
      BY <2>3 DEF Saved
    <3>2. \A b \in Deliveries : Holds(b)' =>
             /\ delivery'[b].event \in Sent' \ recorded'
             /\ SessionOf(b)' \in Saved'
             /\ delivery'[b].copy.created = row'[SessionOf(b)'].created
             /\ delivery'[b].copy.status # "absent"
      BY <2>1, <2>2, <2>3, <2>4, <3>1 DEF DeliveriesInv, Holds, SessionOf
    <3>3. \A a, b \in Deliveries : Holds(a)' /\ delivery'[a].event = delivery'[b].event => a = b
      BY <2>2 DEF DeliveriesInv, Holds
    <3>4. QED
      BY <3>2, <3>3 DEF DeliveriesInv
  <2>7. QED
    BY <2>5, <2>6
<1>7. ASSUME NEW d \in Deliveries, Record(d) PROVE Rest'
  <2>1. UNCHANGED <<start, made, notice, clock>>
    BY <1>7, RecordFacts DEF verifier
  <2>2. /\ delivery'[d] = Free /\ \A b \in Deliveries \ {d} : delivery'[b] = delivery[b]
        /\ recorded' = recorded \cup {delivery[d].event}
        /\ Holds(d) /\ delivery[d].event \in Sent \ recorded /\ SessionOf(d) \in Saved
    BY <1>7, RecordFacts DEF TypeOK
  <2>3. /\ Saved' = Saved
        /\ \A s \in Sessions : row'[s].created = row[s].created
        /\ row'[SessionOf(d)].status # "absent"
        /\ \A s \in Sessions \ {SessionOf(d)} : row'[s] = row[s]
    BY <1>7, RecordFacts DEF TypeOK
  <2>4. Sent' = Sent /\ Saved \subseteq Sessions
    BY <2>1 DEF Sent, Saved
  <2>5. RowsInv'
    BY <2>1, <2>3, <2>4 DEF RowsInv
  <2>6. StartsInv'
    BY <2>1, <2>3, <2>4 DEF StartsInv
  <2>7. NoticesInv'
    BY <2>1, <2>2, <2>3, <2>4 DEF NoticesInv, SessionOf
  <2>8. DeliveriesInv'
    <3>1. \A b \in Deliveries : Holds(b)' =>
            b # d /\ Holds(b) /\ delivery'[b] = delivery[b] /\ SessionOf(b)' = SessionOf(b)
            /\ delivery[b].event # delivery[d].event
      BY <2>1, <2>2 DEF Holds, SessionOf, Free, DeliveriesInv
    <3>2. \A b \in Deliveries : Holds(b)' =>
             /\ delivery'[b].event \in Sent' \ recorded'
             /\ SessionOf(b)' \in Saved'
             /\ delivery'[b].copy.created = row'[SessionOf(b)'].created
             /\ delivery'[b].copy.status # "absent"
      BY <2>2, <2>3, <2>4, <3>1 DEF DeliveriesInv
    <3>3. \A a, b \in Deliveries : Holds(a)' /\ delivery'[a].event = delivery'[b].event => a = b
      BY <3>1, <2>2 DEF DeliveriesInv, Holds
    <3>4. QED
      BY <3>2, <3>3 DEF DeliveriesInv
  <2>9. QED
    BY <2>5, <2>6, <2>7, <2>8
<1>8. ASSUME NEW d \in Deliveries, DeliveryCutShort(d) PROVE Rest'
  <2>1. /\ UNCHANGED <<row, recorded, start, made, notice, clock>>
        /\ delivery'[d] = Free /\ \A b \in Deliveries \ {d} : delivery'[b] = delivery[b]
    BY <1>8 DEF DeliveryCutShort, tables, verifier, TypeOK
  <2>2. RowsInv' /\ StartsInv' /\ NoticesInv'
    BY <2>1 DEF RowsInv, StartsInv, NoticesInv, Saved, Sent
  <2>3. DeliveriesInv'
    BY <2>1 DEF DeliveriesInv, Saved, Sent, Holds, SessionOf, Free
  <2>4. QED
    BY <2>2, <2>3
<1>9. QED
  BY <1>a, <1>0, <1>1, <1>2, <1>3, <1>4, <1>5, <1>6, <1>7, <1>8 DEF Next, Step

\* Every step keeps rows and copies backed by recorded events.
LEMMA BackedStep ==
  ASSUME Ids, CopiesBacked, [Next]_vars
  PROVE  CopiesBacked'
<1> USE DEF CopiesBacked, ResultIsBacked
<1>0. CASE UNCHANGED vars
  BY <1>0 DEF vars, tables, verifier, Backed, Holds, SessionOf
<1>1. ASSUME NEW e \in Events, NEW s \in Sessions, NEW status \in Results, NEW on \in 1..MaxOn,
             SendResult(e, s, status, on)
      PROVE  CopiesBacked'
  <2>1. UNCHANGED <<row, recorded, delivery>> /\ e \notin Sent
    BY <1>1 DEF SendResult, tables, Sessions, Events, None
  <2>2. \A f \in Sent : notice'[f] = notice[f]
    BY <1>1, <2>1 DEF SendResult, Ids, TypeOK, Sent
  <2>3. \A f \in recorded : notice'[f] = notice[f]
    BY <2>2 DEF Ids, NoticesInv
  <2>4. \A t, found : Backed(t, found) => Backed(t, found)'
    BY <2>1, <2>3 DEF Backed
  <2>5. \A d \in Deliveries : Holds(d) => SessionOf(d)' = SessionOf(d)
    BY <2>1, <2>2 DEF Ids, DeliveriesInv, Holds, SessionOf
  <2>6. \A t \in Sessions : Backed(t, row[t])'
    BY <2>1, <2>4
  <2>7. \A d \in Deliveries : Holds(d) => Backed(SessionOf(d), delivery[d].copy)'
    BY <2>1, <2>3, <2>5 DEF Backed
  <2>8. QED
    BY <2>1, <2>6, <2>7 DEF Holds
<1>2. ASSUME UNCHANGED <<row, recorded, delivery, notice>> PROVE CopiesBacked'
  BY <1>2 DEF Backed, Holds, SessionOf
<1>3. ASSUME NEW c \in Starts, SaveNew(c) PROVE CopiesBacked'
  <2> DEFINE s == start[c].session
  <2>1. /\ UNCHANGED <<recorded, delivery, notice>>
        /\ row'[s] = NewVerification(start[c].created)
        /\ \A t \in Sessions \ {s} : row'[t] = row[t]
    BY <1>3, SaveNewFacts DEF Ids, TypeOK
  <2>2. ResultIsBacked'
    BY <2>1 DEF Backed, Results, NewVerification
  <2>3. QED
    BY <2>1, <2>2 DEF Backed, Holds, SessionOf
<1>4. ASSUME NEW d \in Deliveries, NEW e \in Events, Receive(d, e) PROVE CopiesBacked'
  <2>1. UNCHANGED <<row, recorded, notice>> /\ notice[e].session \in Sessions
    BY <1>4 DEF Receive, tables, verifier, Saved
  <2>2. /\ delivery'[d] = [event |-> e, copy |-> row[notice[e].session]]
        /\ \A b \in Deliveries \ {d} : delivery'[b] = delivery[b]
    BY <1>4 DEF Receive, Ids, TypeOK
  <2>3. QED
    BY <2>1, <2>2 DEF Backed, Holds, SessionOf
<1>5. ASSUME NEW d \in Deliveries, Record(d) PROVE CopiesBacked'
  <2> DEFINE s == SessionOf(d)
             e == delivery[d].event
             new == WithResult(delivery[d].copy, e)
  <2>1. /\ Holds(d) /\ s \in Sessions /\ e \in Sent /\ e \in Events
        /\ UNCHANGED notice /\ recorded' = recorded \cup {e}
        /\ row'[s] = new
        /\ \A t \in Sessions \ {s} : row'[t] = row[t]
        /\ delivery'[d] = Free
        /\ \A b \in Deliveries \ {d} : delivery'[b] = delivery[b]
    BY <1>5, RecordFacts DEF Ids, TypeOK, Saved, Sent, verifier
  <2>2. Backed(s, delivery[d].copy)
    BY <2>1
  <2>3. notice[e] = [session |-> s, status |-> notice[e].status, on |-> notice[e].on]
    BY <2>1 DEF Ids, TypeOK, SessionOf
  <2>4. delivery[d].copy \in Rows
    BY DEF Ids, TypeOK
  <2>5. new = delivery[d].copy \/ (new.status = notice[e].status /\ new.on = notice[e].on)
    BY <2>4 DEF WithResult, Rows
  <2>6. row'[s].status \in Results =>
          \E f \in recorded' : notice'[f] = [session |-> s, status |-> row'[s].status, on |-> row'[s].on]
    <3>1. CASE new = delivery[d].copy
      BY <2>1, <2>2, <3>1 DEF Backed
    <3>2. CASE new.status = notice[e].status /\ new.on = notice[e].on
      BY <2>1, <2>3, <3>2
    <3>3. QED
      BY <2>5, <3>1, <3>2
  <2>7. ASSUME NEW t \in Sessions, t # s, row'[t].status \in Results
        PROVE  \E f \in recorded' : notice'[f] = [session |-> t, status |-> row'[t].status, on |-> row'[t].on]
    BY <2>1, <2>7 DEF Backed
  <2>8. ResultIsBacked'
    BY <2>6, <2>7 DEF Backed
  <2>9. \A b \in Deliveries : Holds(b)' => Backed(SessionOf(b), delivery[b].copy)'
    BY <2>1 DEF Backed, Holds, SessionOf, Free
  <2>10. QED
    BY <2>8, <2>9
<1>6. ASSUME NEW d \in Deliveries, DeliveryCutShort(d) PROVE CopiesBacked'
  <2>1. /\ UNCHANGED <<row, recorded, notice>>
        /\ delivery'[d] = Free /\ \A b \in Deliveries \ {d} : delivery'[b] = delivery[b]
    BY <1>6 DEF DeliveryCutShort, tables, verifier, Ids, TypeOK
  <2>2. QED
    BY <2>1 DEF Backed, Holds, SessionOf, Free
<1>7. ASSUME NEW c \in Starts,
             FindLatest(c) \/ ReadLatest(c) \/ StartCutShort(c)
             \/ (\E s \in Sessions : CreateSession(c, s) \/ Resume(c, s))
      PROVE  UNCHANGED <<row, recorded, delivery, notice>>
  BY <1>7 DEF FindLatest, ReadLatest, StartCutShort, CreateSession, Resume, tables, verifier
<1>8. QED
  BY <1>0, <1>1, <1>2, <1>3, <1>4, <1>5, <1>6, <1>7 DEF Next, Step

\* Every step keeps the newest result of the sessions without overlap.
LEMMA NewestStep ==
  ASSUME Ids, Ids', CopiesCurrent, NewestStands, [Next]_vars
  PROVE  CopiesCurrent' /\ NewestStands'
<1> USE DEF CopiesCurrent, NewestStands
<1>1. ASSUME NEW e \in Events, NEW s \in Sessions, NEW status \in Results, NEW on \in 1..MaxOn,
             SendResult(e, s, status, on)
      PROVE  CopiesCurrent' /\ NewestStands'
  <2>1. UNCHANGED <<row, recorded, delivery, overlapped>> /\ e \notin Sent
    BY <1>1 DEF SendResult, tables, history, Sessions, Events, None
  <2>2. \A f \in Sent : notice'[f] = notice[f]
    BY <1>1, <2>1 DEF SendResult, Ids, TypeOK, Sent
  <2>3. \A d \in Deliveries : Holds(d) => SessionOf(d)' = SessionOf(d)
    BY <2>1, <2>2 DEF Ids, DeliveriesInv, Holds, SessionOf
  <2>4. CopiesCurrent'
    BY <2>1, <2>3 DEF Holds
  <2>5. NewestStands'
    BY <2>1, <2>2 DEF Ids, NoticesInv
  <2>6. QED
    BY <2>4, <2>5
<1>2. ASSUME UNCHANGED <<row, recorded, delivery, notice, overlapped>> PROVE CopiesCurrent' /\ NewestStands'
  BY <1>2 DEF Holds, SessionOf
<1>3. ASSUME NEW c \in Starts, SaveNew(c) PROVE CopiesCurrent' /\ NewestStands'
  <2> DEFINE s == start[c].session
  <2>1. /\ UNCHANGED <<recorded, delivery, notice, overlapped>> /\ s \notin Saved /\ s \in Sessions
        /\ \A t \in Sessions \ {s} : row'[t] = row[t]
    BY <1>3, SaveNewFacts DEF Ids, TypeOK
  <2>2. CopiesCurrent'
    BY <2>1 DEF Ids, DeliveriesInv, Holds, SessionOf, Saved
  <2>3. NewestStands'
    BY <2>1 DEF Ids, NoticesInv
  <2>4. QED
    BY <2>2, <2>3
<1>4. ASSUME NEW d \in Deliveries, NEW e \in Events, Receive(d, e) PROVE CopiesCurrent' /\ NewestStands'
  <2> DEFINE s == notice[e].session
  <2>1. UNCHANGED <<row, recorded, notice>> /\ s \in Sessions /\ ~Holds(d)
    BY <1>4 DEF Receive, tables, verifier, Saved, Holds, Free
  <2>2. /\ delivery'[d] = [event |-> e, copy |-> row[s]]
        /\ \A b \in Deliveries \ {d} : delivery'[b] = delivery[b]
    BY <1>4 DEF Receive, Ids, TypeOK
  <2>3. overlapped \subseteq overlapped' /\ (Working(s) => s \in overlapped')
    BY <1>4 DEF Receive
  <2>4. NewestStands'
    BY <2>1, <2>3
  <2>5. \A b \in Deliveries : Holds(b)' => b = d \/ (b # d /\ Holds(b) /\ SessionOf(b)' = SessionOf(b) /\ delivery'[b] = delivery[b])
    BY <2>1, <2>2 DEF Holds, SessionOf
  <2>6. s \notin overlapped' => \A b \in Deliveries : Holds(b)' /\ b # d => SessionOf(b) # s
    BY <2>3, <2>5 DEF Working, Holds, SessionOf
  <2>7. SessionOf(d)' = s
    BY <2>1, <2>2 DEF SessionOf
  <2>8. ASSUME NEW b \in Deliveries, Holds(b)', SessionOf(b)' \notin overlapped'
        PROVE  /\ delivery'[b].copy = row'[SessionOf(b)']
               /\ \A a \in Deliveries : Holds(a)' /\ SessionOf(a)' = SessionOf(b)' => a = b
    <3>1. CASE b = d
      BY <2>1, <2>2, <2>5, <2>6, <2>7, <2>8, <3>1
    <3>2. CASE b # d
      <4>1. Holds(b) /\ SessionOf(b)' = SessionOf(b) /\ delivery'[b] = delivery[b] /\ SessionOf(b) \notin overlapped
        BY <2>3, <2>5, <2>8, <3>2
      <4>2. SessionOf(b) # s
        BY <2>3, <2>8, <3>2, <4>1 DEF Working, Holds, SessionOf
      <4>3. QED
        BY <2>1, <2>5, <2>7, <4>1, <4>2
    <3>3. QED
      BY <3>1, <3>2
  <2>9. QED
    BY <2>4, <2>8
<1>5. ASSUME NEW d \in Deliveries, Record(d) PROVE CopiesCurrent' /\ NewestStands'
  <2> DEFINE s == SessionOf(d)
             e == delivery[d].event
             new == WithResult(delivery[d].copy, e)
  <2>1. /\ Holds(d) /\ s \in Sessions /\ e \in Events /\ s = notice[e].session
        /\ UNCHANGED <<notice, overlapped>> /\ recorded' = recorded \cup {e}
        /\ row'[s] = new
        /\ \A t \in Sessions \ {s} : row'[t] = row[t]
        /\ delivery'[d] = Free
        /\ \A b \in Deliveries \ {d} : delivery'[b] = delivery[b]
    BY <1>5, RecordFacts DEF Ids, TypeOK, Saved, Sent, SessionOf, verifier
  <2>2. delivery[d].copy.on \in Int /\ notice[e].on \in Int
    BY <2>1, ConstantsAssumption DEF Ids, TypeOK, Rows
  <2>3. new.on >= delivery[d].copy.on /\ new.on >= notice[e].on
    BY <2>2 DEF WithResult, Ids, TypeOK, Rows
  <2>4. NewestStands'
    <3>1. ASSUME NEW t \in Sessions, t \notin overlapped', NEW f \in recorded', notice'[f].session = t
          PROVE  notice'[f].on <= row'[t].on
      <4>1. CASE t # s
        BY <2>1, <3>1, <4>1
      <4>2. CASE t = s /\ f = e
        BY <2>1, <2>2, <2>3, <4>2
      <4>3. CASE t = s /\ f # e
        <5>1. f \in recorded /\ notice[f].on <= row[s].on /\ delivery[d].copy = row[s]
          BY <2>1, <3>1, <4>3
        <5>2. notice[f].on \in Int /\ new.on \in Int
          BY <2>1, <2>2, <5>1, ConstantsAssumption DEF Ids, TypeOK, Rows, WithResult
        <5>3. QED
          BY <2>1, <2>2, <2>3, <4>3, <5>1, <5>2
      <4>4. QED
        BY <4>1, <4>2, <4>3
    <3>2. QED
      BY <3>1
  <2>5. CopiesCurrent'
    <3>1. \A b \in Deliveries : Holds(b)' => b # d /\ Holds(b) /\ SessionOf(b)' = SessionOf(b) /\ delivery'[b] = delivery[b]
      BY <2>1 DEF Holds, SessionOf, Free
    <3>2. \A b \in Deliveries : Holds(b)' /\ SessionOf(b) \notin overlapped => SessionOf(b) # s
      BY <2>1, <3>1
    <3>3. QED
      BY <2>1, <3>1, <3>2 DEF Ids, DeliveriesInv, Saved
  <2>6. QED
    BY <2>4, <2>5
<1>6. ASSUME NEW d \in Deliveries, DeliveryCutShort(d) PROVE CopiesCurrent' /\ NewestStands'
  <2>1. /\ UNCHANGED <<row, recorded, notice, overlapped>>
        /\ delivery'[d] = Free /\ \A b \in Deliveries \ {d} : delivery'[b] = delivery[b]
    BY <1>6 DEF DeliveryCutShort, tables, verifier, history, Ids, TypeOK
  <2>2. QED
    BY <2>1 DEF Holds, SessionOf, Free
<1>7. ASSUME NEW c \in Starts,
             FindLatest(c) \/ ReadLatest(c) \/ StartCutShort(c)
             \/ (\E s \in Sessions : CreateSession(c, s) \/ Resume(c, s))
      PROVE  UNCHANGED <<row, recorded, delivery, notice, overlapped>>
  BY <1>7 DEF FindLatest, ReadLatest, StartCutShort, CreateSession, Resume, tables, verifier, history
<1>8. CASE UNCHANGED vars
  BY <1>2, <1>8 DEF vars, tables, verifier, history
<1>9. QED
  BY <1>1, <1>2, <1>3, <1>4, <1>5, <1>6, <1>7, <1>8 DEF Next, Step

\* Every step keeps what an approval excludes.
LEMMA ApprovalStep ==
  ASSUME Ids, Ids', ApprovalInv, [Next]_vars
  PROVE  ApprovalInv'
<1> USE DEF ApprovalInv
<1>1. ASSUME NEW c \in Starts, FindLatest(c) PROVE ApprovalInv'
  <2>1. UNCHANGED <<row, raced>> /\ start[c].step = "idle"
    BY <1>1 DEF FindLatest, tables, history
  <2>2. /\ \A b \in Starts \ {c} : start'[b] = start[b]
        /\ \/ Saved = {}
           \/ start'[c].step = "read" /\ IsLatest(start'[c].session)
    <3>1. CASE Saved = {}
      BY <1>1, <3>1 DEF FindLatest, Ids, TypeOK, IsLatest
    <3>2. CASE \E s \in Sessions : IsLatest(s) /\ start' = [start EXCEPT ![c] = [Waiting EXCEPT !.step = "read", !.session = s]]
      BY <3>2 DEF Ids, TypeOK, Waiting
    <3>3. QED
      BY <1>1, <3>1, <3>2 DEF FindLatest
  <2>3. \A s, t \in Sessions : IsLatest(s) /\ IsLatest(t) => s = t
    <3>1. \A s \in Saved : row[s].created \in Nat
      BY DEF Saved, Ids, TypeOK, Rows
    <3>2. QED
      BY <3>1 DEF IsLatest, Ids, RowsInv
  <2>4. \A s \in Sessions : IsLatest(s)' = IsLatest(s)
    BY <2>1 DEF IsLatest, Saved
  <2>5. \A s \in Sessions : IsLatest(s) => ~MaySaveAfter(c, s)'
    BY <2>2, <2>3 DEF IsLatest, MaySaveAfter, Saved
  <2>6. \A s \in Sessions, b \in Starts \ {c} : MaySaveAfter(b, s)' = MaySaveAfter(b, s)
    BY <2>2 DEF MaySaveAfter
  <2>7. QED
    BY <2>1, <2>4, <2>5, <2>6
<1>2. ASSUME NEW c \in Starts, ReadLatest(c) PROVE ApprovalInv'
  <2>1. UNCHANGED <<row, raced>> /\ start[c].step = "read"
    BY <1>2 DEF ReadLatest, tables, history
  <2>2. /\ \A b \in Starts \ {c} : start'[b] = start[b]
        /\ row[start[c].session].status = "approved" => start'[c] = Waiting
    BY <1>2 DEF ReadLatest, Ids, TypeOK, MayStart
  <2>3. \A s \in Sessions : row[s].status = "approved" /\ ~MaySaveAfter(c, s) => ~MaySaveAfter(c, s)'
    BY <2>1, <2>2 DEF MaySaveAfter, Waiting
  <2>4. \A s \in Sessions, b \in Starts \ {c} : MaySaveAfter(b, s)' = MaySaveAfter(b, s)
    BY <2>2 DEF MaySaveAfter
  <2>5. QED
    BY <2>1, <2>3, <2>4 DEF IsLatest, Saved
<1>3. ASSUME NEW c \in Starts, StartCutShort(c) \/ (\E s \in Sessions : CreateSession(c, s) \/ Resume(c, s))
      PROVE  ApprovalInv'
  <2>1. /\ UNCHANGED <<row, raced>>
        /\ \A b \in Starts \ {c} : start'[b] = start[b]
        /\ start[c].step = "create" \/ start'[c] = Waiting
    BY <1>3 DEF StartCutShort, CreateSession, Resume, tables, history, Ids, TypeOK
  <2>2. \A s \in Sessions, b \in Starts : ~MaySaveAfter(b, s) => ~MaySaveAfter(b, s)'
    BY <2>1 DEF MaySaveAfter, Waiting
  <2>3. QED
    BY <2>1, <2>2 DEF IsLatest, Saved
<1>4. ASSUME NEW c \in Starts, SaveNew(c) PROVE ApprovalInv'
  <2>1. /\ start[c].step = "save" /\ UNCHANGED raced
        /\ row'[start[c].session] = NewVerification(start[c].created)
        /\ \A t \in Sessions \ {start[c].session} : row'[t] = row[t]
    BY <1>4, SaveNewFacts DEF Ids, TypeOK
  <2>2. \A s \in Sessions \ raced : row[s].status # "approved"
    BY <2>1 DEF MaySaveAfter
  <2>3. QED
    BY <2>1, <2>2 DEF NewVerification
<1>5. ASSUME NEW d \in Deliveries, Record(d) PROVE ApprovalInv'
  <2> DEFINE s == SessionOf(d)
  <2>1. /\ UNCHANGED start /\ s \in Sessions /\ Saved' = Saved
        /\ \A t \in Sessions \ {s} : row'[t] = row[t]
        /\ \A t \in Sessions : row'[t].created = row[t].created
    BY <1>5, RecordFacts DEF Ids, TypeOK, Saved
  <2>2. raced' = IF IsLatest(s) /\ ~\E c \in Starts : MaySaveAfter(c, s) THEN raced \ {s} ELSE raced \cup {s}
    BY <1>5 DEF Record, SessionOf
  <2>3. Saved \subseteq Sessions
    BY DEF Saved
  <2>4. \A t \in Sessions : IsLatest(t) => IsLatest(t)'
    BY <2>1, <2>3 DEF IsLatest
  <2>5. \A t \in Sessions, c \in Starts : MaySaveAfter(c, t)' = MaySaveAfter(c, t)
    BY <2>1 DEF MaySaveAfter
  <2>6. ASSUME NEW t \in Sessions, t \notin raced', row'[t].status = "approved"
        PROVE  IsLatest(t)' /\ \A c \in Starts : ~MaySaveAfter(c, t)'
    <3>1. CASE t = s
      BY <2>2, <2>4, <2>5, <2>6, <3>1
    <3>2. CASE t # s
      BY <2>1, <2>2, <2>4, <2>5, <2>6, <3>2
    <3>3. QED
      BY <3>1, <3>2
  <2>7. QED
    BY <2>6
<1>6. ASSUME UNCHANGED <<row, start, raced>> PROVE ApprovalInv'
  BY <1>6 DEF IsLatest, Saved, MaySaveAfter
<1>7. ASSUME \/ UNCHANGED vars
             \/ \E e \in Events, s \in Sessions, status \in Results, on \in 1..MaxOn : SendResult(e, s, status, on)
             \/ \E d \in Deliveries : (\E e \in Events : Receive(d, e)) \/ DeliveryCutShort(d)
      PROVE  UNCHANGED <<row, start, raced>>
  BY <1>7 DEF vars, SendResult, Receive, DeliveryCutShort, tables, verifier, history
<1>8. QED
  BY <1>1, <1>2, <1>3, <1>4, <1>5, <1>6, <1>7 DEF Next, Step

\* The invariant holds initially.
LEMMA InitIInv == Init => IInv
<1> SUFFICES ASSUME Init PROVE IInv
  OBVIOUS
<1>1. Saved = {} /\ Sent = {}
  BY DEF Init, NoRow, NoNotice, None, Saved, Sent
<1>2. TypeOK
  BY ConstantsAssumption DEF Init, TypeOK, Rows, Statuses, Results, StartSteps, NoRow, NoNotice, Waiting, Free, None
<1>3. RowsInv /\ StartsInv /\ DeliveriesInv /\ NoticesInv
  BY <1>1 DEF Init, RowsInv, StartsInv, DeliveriesInv, NoticesInv, Holds, Waiting, Free
<1>4. CopiesBacked /\ CopiesCurrent /\ NewestStands /\ ApprovalInv
  BY DEF Init, CopiesBacked, CopiesCurrent, NewestStands, ApprovalInv, ResultIsBacked, Backed, NoRow, Results, Holds, Free
<1>5. QED
  BY <1>2, <1>3, <1>4 DEF IInv, Ids

\* Every step keeps it.
LEMMA NextIInv == IInv /\ [Next]_vars => IInv'
BY IdsStep, BackedStep, NewestStep, ApprovalStep DEF IInv

\* The types, for every value of the bounds.
THEOREM VerificationTypes == Spec => []TypeOK
<1>1. IInv => TypeOK
  BY DEF IInv, Ids
<1>2. QED
  BY InitIInv, NextIInv, <1>1, PTL DEF Spec

\* What a session reports is one recorded result of the verifier, and the newest
\* of them if its deliveries did not overlap.
THEOREM ResultsStand == Spec => []ResultStands
<1>1. IInv => ResultStands
  BY DEF IInv, CopiesBacked, ResultStands
<1>2. QED
  BY InitIInv, NextIInv, <1>1, PTL DEF Spec

\* No start that begins after an approval hides it.
THEOREM ApprovalIsCurrent == Spec => []ApprovalStands
<1>1. IInv => ApprovalStands
  BY DEF IInv, ApprovalInv, ApprovalStands
<1>2. QED
  BY InitIInv, NextIInv, <1>1, PTL DEF Spec

\* No result acts on a session twice.
THEOREM ResultsActOnce == Spec => ResultActsOnce
<1>1. ASSUME IInv, Next, NEW s \in Sessions, row[s] # NoRow, row'[s] # row[s]
      PROVE  recorded' # recorded
  <2>1. ASSUME NEW c \in Starts, SaveNew(c) PROVE FALSE
    BY <1>1, <2>1, SaveNewFacts DEF IInv, Ids, TypeOK
  <2>2. ASSUME NEW d \in Deliveries, Record(d) PROVE recorded' # recorded
    <3>1. recorded' = recorded \cup {delivery[d].event} /\ delivery[d].event \notin recorded
      BY <1>1, <2>2, RecordFacts DEF IInv
    <3>2. QED
      BY <3>1
  <2>3. row' # row
    BY <1>1
  <2>4. QED
    BY <1>1, <2>1, <2>2, <2>3
    DEF Next, Step, SendResult, FindLatest, ReadLatest, StartCutShort, CreateSession, Resume,
        Receive, DeliveryCutShort, tables
<1>2. IInv /\ [Next]_vars =>
        [\A s \in Sessions : row[s] # NoRow /\ row'[s] # row[s] => recorded' # recorded]_vars
  BY <1>1
<1>3. QED
  BY InitIInv, NextIInv, <1>2, PTL DEF Spec, ResultActsOnce
=============================================================================
