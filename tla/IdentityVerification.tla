------------------------ MODULE IdentityVerification ------------------------
(***************************************************************************)
(* Identity verification of one provider: identityverification.Service     *)
(* over the tables identity_verification_sessions and                      *)
(* identity_verification_events, the verifier (Didit), which makes hosted  *)
(* sessions and sends their results, and the webhook that receives them.   *)
(*                                                                         *)
(* A start is one call of Start; a delivery is one webhook request, whose  *)
(* work is one read-committed transaction: it reads the session's row when *)
(* it begins and writes its copy back when it commits.                     *)
(***************************************************************************)
EXTENDS Integers

CONSTANTS
  MaxSessions,  \* bound: sessions the verifier can ever make
  MaxEvents,    \* bound: results it can ever send, each with an event of its own
  Starts,       \* calls of Start the replicas can serve at the same time
  Deliveries,   \* webhook requests they can serve at the same time
  MaxOn,        \* bound: seconds the verifier's clock takes in all
  MaxFailures   \* bound: calls and deliveries that may be cut short

ASSUME ConstantsAssumption ==
  /\ MaxSessions \in Nat /\ MaxEvents \in Nat
  /\ MaxOn \in Nat /\ MaxFailures \in Nat

VARIABLES
  row,          \* identity_verification_sessions
  recorded,     \* identity_verification_events
  start,        \* what each call of Start is doing
  delivery,     \* what each webhook request holds
  made,         \* verifier: sessions it has made
  notice,       \* verifier: the result each event carries
  clock,        \* the readings of the clock for created_on
  failures,     \* how many calls and deliveries were cut short
  overlapped,   \* history: sessions two deliveries worked on at a time
  raced         \* history: sessions approved while a start could still save

tables == <<row, recorded>>
verifier == <<made, notice, clock>>
history == <<overlapped, raced>>
vars == <<tables, start, delivery, verifier, failures, history>>

\* Session and event ids are numbered in the order the verifier makes them.
Sessions == 1..MaxSessions
Events == 1..MaxEvents
None == 0

\* Every result status is handled like one of these.
Results == {"in_progress", "approved", "declined"}
Statuses == Results \cup {"absent", "not_started"}

NoRow == [status |-> "absent", on |-> 0, created |-> 0]

NewVerification(created) == [status |-> "not_started", on |-> 0, created |-> created]

Saved == {s \in Sessions : row[s].status # "absent"}

NoNotice == [session |-> None, status |-> "absent", on |-> 0]
Sent == {e \in Events : notice[e].session # None}

StartSteps == {"idle", "read", "create", "resume", "save"}
Waiting == [step |-> "idle", session |-> None, created |-> 0]
Free == [event |-> None, copy |-> NoRow]

----------------------------------------------------------------------------
(* The verifier *)

\* It sends a session's results in the order of its clock, which has seconds.
SendResult(e, s, status, on) ==
  /\ s \in made /\ Sent = 1..(e - 1)
  /\ \A f \in Sent : notice[f].session = s => notice[f].on <= on
  /\ notice' = [notice EXCEPT ![e] = [session |-> s, status |-> status, on |-> on]]
  /\ UNCHANGED <<tables, start, delivery, made, clock, failures, history>>

----------------------------------------------------------------------------
(* Start *)

IsLatest(s) == s \in Saved /\ \A t \in Saved : row[t].created <= row[s].created

\* The first statement of FindLatestByProviderID: the id alone.
FindLatest(c) ==
  /\ start[c].step = "idle"
  /\ \/ \E s \in Sessions : IsLatest(s) /\ start' = [start EXCEPT ![c] = [Waiting EXCEPT !.step = "read", !.session = s]]
     \/ Saved = {} /\ start' = [start EXCEPT ![c] = [Waiting EXCEPT !.step = "create"]]
  /\ UNCHANGED <<tables, delivery, verifier, failures, history>>

\* Mutant: an approved provider may start again.
MayStart_Anyone(status) == TRUE
MayStart(status) == status # "approved"

\* Its second statement, the row of that id, and what Start makes of it.
ReadLatest(c) ==
  /\ start[c].step = "read"
  /\ LET status == row[start[c].session].status IN
     start' = [start EXCEPT ![c] =
       CASE ~MayStart(status)       -> Waiting
         [] status = "in_progress"  -> [Waiting EXCEPT !.step = "resume"]
         [] OTHER                   -> [Waiting EXCEPT !.step = "create"]]
  /\ UNCHANGED <<tables, delivery, verifier, failures, history>>

\* CreateSession: the client sends no existing session and takes a new one
\* only.  The clock is read next, for created_on.
CreateSession(c, s) ==
  /\ start[c].step = "create"
  /\ made = 1..(s - 1)
  /\ made' = made \cup {s}
  /\ clock' = clock + 1
  /\ start' = [start EXCEPT ![c] = [step |-> "save", session |-> s, created |-> clock + 1]]
  /\ UNCHANGED <<tables, delivery, notice, failures, history>>

\* With a session in progress the new one's credentials are answered, and only
\* the old one keeps a row.
Resume(c, s) ==
  /\ start[c].step = "resume"
  /\ made = 1..(s - 1)
  /\ made' = made \cup {s}
  /\ start' = [start EXCEPT ![c] = Waiting]
  /\ UNCHANGED <<tables, delivery, notice, clock, failures, history>>

\* Save of the new verification.
SaveNew(c) ==
  /\ start[c].step = "save"
  /\ row' = [row EXCEPT ![start[c].session] = NewVerification(start[c].created)]
  /\ start' = [start EXCEPT ![c] = Waiting]
  /\ UNCHANGED <<recorded, delivery, verifier, failures, history>>

----------------------------------------------------------------------------
(* ApplyResult *)

\* Mutant: the event's insert does not look for a conflict.
IsNew_Always(e) == TRUE
IsNew(e) == e \notin recorded

Working(s) == \E d \in Deliveries : delivery[d].event # None /\ notice[delivery[d].event].session = s

\* SaveEvent and FindVerificationBySessionID.  The insert waits for another of
\* the same event; one of a recorded event ends the delivery, and one of a
\* session without a row is refused (503): both leave everything as it was.
Receive(d, e) ==
  LET s == notice[e].session IN
  /\ delivery[d] = Free
  /\ e \in Sent /\ IsNew(e) /\ s \in Saved
  /\ \A b \in Deliveries : delivery[b].event # e
  /\ delivery' = [delivery EXCEPT ![d] = [event |-> e, copy |-> row[s]]]
  /\ overlapped' = overlapped \cup (IF Working(s) THEN {s} ELSE {})
  /\ UNCHANGED <<tables, start, verifier, failures, raced>>

\* Mutant: an older result is taken.
WithResult_AnyAge(copy, e) ==
  [copy EXCEPT !.status = notice[e].status, !.on = notice[e].on]

\* IdentityVerification.ApplyResult: a result older than the last is ignored.
WithResult(copy, e) ==
  IF notice[e].on < copy.on
    THEN copy
    ELSE [copy EXCEPT !.status = notice[e].status, !.on = notice[e].on]

\* Calls of Start that can still save a session although s is approved.
MaySaveAfter(c, s) ==
  \/ start[c].step \in {"create", "save"}
  \/ start[c].step = "read" /\ start[c].session # s

\* Mutant: an older result is an error, and rolls its event back.
Record_OlderRefused(d) ==
  LET e == delivery[d].event
      s == notice[e].session
      refused == notice[e].on < delivery[d].copy.on IN
  /\ e # None
  /\ row' = IF refused THEN row ELSE [row EXCEPT ![s] = WithResult(delivery[d].copy, e)]
  /\ recorded' = IF refused THEN recorded ELSE recorded \cup {e}
  /\ raced' = raced \cup {s}
  /\ delivery' = [delivery EXCEPT ![d] = Free]
  /\ UNCHANGED <<start, verifier, failures, overlapped>>

\* SaveVerification of the copy and the commit, which also commits the event.
Record(d) ==
  LET e == delivery[d].event
      s == notice[e].session IN
  /\ e # None
  /\ row' = [row EXCEPT ![s] = WithResult(delivery[d].copy, e)]
  /\ recorded' = recorded \cup {e}
  /\ raced' = IF IsLatest(s) /\ ~\E c \in Starts : MaySaveAfter(c, s) THEN raced \ {s} ELSE raced \cup {s}
  /\ delivery' = [delivery EXCEPT ![d] = Free]
  /\ UNCHANGED <<start, verifier, failures, overlapped>>

----------------------------------------------------------------------------
\* CreateSession or a statement fails, a client leaves, a replica dies.
StartCutShort(c) ==
  /\ start[c].step # "idle"
  /\ failures < MaxFailures
  /\ failures' = failures + 1
  /\ start' = [start EXCEPT ![c] = Waiting]
  /\ UNCHANGED <<tables, delivery, verifier, history>>

\* The transaction rolls back, and the verifier gets no answer that accepts it.
DeliveryCutShort(d) ==
  /\ delivery[d] # Free
  /\ failures < MaxFailures
  /\ failures' = failures + 1
  /\ delivery' = [delivery EXCEPT ![d] = Free]
  /\ UNCHANGED <<tables, start, verifier, history>>

Init ==
  /\ row = [s \in Sessions |-> NoRow]
  /\ recorded = {}
  /\ start = [c \in Starts |-> Waiting]
  /\ delivery = [d \in Deliveries |-> Free]
  /\ made = {}
  /\ notice = [e \in Events |-> NoNotice]
  /\ clock = 0
  /\ failures = 0
  /\ overlapped = {}
  /\ raced = {}

\* A begun call's next step.
Step(c) ==
  \/ ReadLatest(c)
  \/ \E s \in Sessions : CreateSession(c, s) \/ Resume(c, s)
  \/ SaveNew(c)

Next ==
  \/ \E e \in Events, s \in Sessions, status \in Results, on \in 1..MaxOn : SendResult(e, s, status, on)
  \/ \E c \in Starts : FindLatest(c) \/ Step(c) \/ StartCutShort(c)
  \/ \E d \in Deliveries : (\E e \in Events : Receive(d, e)) \/ Record(d) \/ DeliveryCutShort(d)

Spec == Init /\ [][Next]_vars

\* A goroutine goes on with what it began, and the verifier sends an event again
\* until a delivery of it is accepted.
Fairness ==
  /\ \A c \in Starts : WF_vars(Step(c))
  /\ \A d \in Deliveries : WF_vars(Record(d))
  /\ \A e \in Events : SF_vars(\E d \in Deliveries : Receive(d, e))

FairSpec == Spec /\ Fairness

----------------------------------------------------------------------------
(* Properties *)

Rows == [status: Statuses, on: 0..MaxOn, created: Nat]

\* Types of the tables, of what calls and deliveries hold, and of the verifier.
TypeOK ==
  /\ row \in [Sessions -> Rows]
  /\ recorded \subseteq Events
  /\ start \in [Starts -> [step: StartSteps, session: Sessions \cup {None}, created: Nat]]
  /\ delivery \in [Deliveries -> [event: Events \cup {None}, copy: Rows]]
  /\ made \subseteq Sessions
  /\ notice \in [Events -> [session: Sessions \cup {None}, status: Statuses, on: 0..MaxOn]]
  /\ clock \in Nat /\ failures \in 0..MaxFailures
  /\ overlapped \subseteq Sessions /\ raced \subseteq Sessions

Backed(s, found) ==
  found.status \in Results =>
    \E e \in recorded : notice[e] = [session |-> s, status |-> found.status, on |-> found.on]

\* What a session reports is one result the verifier sent of it, status and time
\* together, whose event is stored; overlapping deliveries never mix two results.
ResultIsBacked == \A s \in Sessions : Backed(s, row[s])

\* Whatever the order of delivery, a session reports no result older than one it
\* recorded, unless two of its deliveries worked at the same time: those may
\* write the older result last.
NewestStands ==
  \A s \in Sessions \ overlapped : \A e \in recorded :
    notice[e].session = s => notice[e].on <= row[s].on

\* A session reports a result that was sent of it, and none older than it recorded.
ResultStands == ResultIsBacked /\ NewestStands

\* A provider whose approved session is its current one keeps it so: no start that
\* begins after the approval makes a newer session that hides it, however starts
\* and deliveries interleave.
ApprovalStands ==
  \A s \in Sessions \ raced : row[s].status = "approved" => IsLatest(s)

\* A saved session changes only together with the first record of an event: a
\* repeated delivery cannot bring back a result of the same second.
ResultActsOnce ==
  [][\A s \in Sessions : row[s] # NoRow /\ row'[s] # row[s] => recorded' # recorded]_vars

\* Every result of a saved session is recorded in the end, though deliveries are
\* refused while the row is missing, wait for each other or fail.
ResultsArrive ==
  \A e \in Events, s \in Sessions :
    notice[e].session = s /\ row[s] # NoRow ~> e \in recorded
=============================================================================
