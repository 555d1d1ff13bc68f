---------------------------- MODULE PeriodicJobs ----------------------------
(***************************************************************************)
(* The two hourly jobs of every replica, over the work orders that are     *)
(* still to come: workordercalendar.Service.Sync publishes each appointment*)
(* in the calendars of its participants that are connected, and            *)
(* workorder.Service.UrgentNotification notifies them a day before.        *)
(*                                                                         *)
(* A job runs while a transaction of its own holds its advisory lock.  The *)
(* job itself uses other connections: when the lock's connection breaks,   *)
(* the job goes on and another replica can start the same one.             *)
(*                                                                         *)
(* Nothing in the program marks a connection as action_required, so that   *)
(* the branch of a sync for it has no states here.                         *)
(***************************************************************************)
EXTENDS Authorizations, Sequences

CONSTANTS
  Replicas,     \* processes that serve the API
  Participants, \* the consumer and the provider of each order, in the listing's order
  MaxFailures   \* bound: broken locks, and jobs and messages cut short

ASSUME JobsAssumption ==
  /\ Participants \in Seq(Users) /\ MaxFailures \in Nat
  /\ IsFiniteSet(Replicas) /\ None \notin Replicas

VARIABLES
  stage,     \* how far away each order is
  recorded,  \* appointments with a row in work_order_calendar_events
  events,    \* how many events of each appointment there are in Google calendars
  stored,    \* how many urgent notifications of each appointment are stored
  notified,  \* how many times its participant was told
  holder,    \* whose transaction holds the advisory lock of each job
  job,       \* what the jobs of each replica are doing
  failures   \* how many failures there were

jobs == <<stage, recorded, events, stored, notified, holder, job, failures>>
vars == <<authorizations, jobs>>

\* An order and one of its participants, in the order a job takes them.
Appointments == 1..Len(Participants)
OrderOf(k) == (k + 1) \div 2
Orders == {OrderOf(k) : k \in Appointments}

Jobs == {"sync", "urgent"}
\* Far: more than a day away.  Past: its time came.
Unbooked == 0
Far == 1
Near == 2
Past == 3

Resting == [pc |-> "idle", todo |-> {}, grant |-> NoGrant]

\* FindScheduledAfter and FindScheduledBetween.
Listed(j) == {k \in Appointments :
  stage[OrderOf(k)] \in (IF j = "sync" THEN {Far, Near} ELSE {Near})}

Earliest(ks) == CHOOSE k \in ks : \A i \in ks : k <= i
Current(r, j) == Earliest(job[r][j].todo)

\* The job goes on with what is left to do, if anything.
Following(r, j) ==
  LET left == job[r][j].todo \ {Current(r, j)} IN
  IF left = {} THEN Resting
  ELSE [pc |-> IF j = "sync" THEN "connection" ELSE "store", todo |-> left, grant |-> NoGrant]

\* The job becomes as given; when it rests its lock, if still held, is released.
Becomes(r, j, new) ==
  /\ job' = [job EXCEPT ![r][j] = new]
  /\ holder' = IF new = Resting /\ holder[j] = r THEN [holder EXCEPT ![j] = None] ELSE holder

----------------------------------------------------------------------------
\* Orders that are listed earlier take place earlier.
InOrder == \A p, q \in Orders : p < q /\ stage[p] # Unbooked /\ stage[q] # Unbooked =>
  stage[p] >= stage[q]

\* An order is booked for a later time.
Book(o) ==
  /\ stage[o] = Unbooked
  /\ \E at \in {Far, Near} : stage' = [stage EXCEPT ![o] = at]
  /\ InOrder'
  /\ UNCHANGED <<authorizations, recorded, events, stored, notified, holder, job, failures>>

\* Time passes: an order comes near, or its time comes.
Approach(o) ==
  /\ stage[o] \in {Far, Near}
  /\ stage' = [stage EXCEPT ![o] = @ + 1]
  /\ InOrder'
  /\ UNCHANGED <<authorizations, recorded, events, stored, notified, holder, job, failures>>

\* Mutant: the job runs whether or not it got the lock.
LockIsFree_Always(j) == TRUE

\* pg_try_advisory_xact_lock: a job that does not get its lock waits for the next hour.
LockIsFree(j) == holder[j] = None

\* The ticker of a job fires, and there is something to do.
StartJob(r, j) ==
  /\ job[r][j] = Resting /\ LockIsFree(j) /\ Listed(j) # {}
  /\ holder' = [holder EXCEPT ![j] = r]
  /\ job' = [job EXCEPT ![r][j] =
       [pc |-> IF j = "sync" THEN "connection" ELSE "store", todo |-> Listed(j), grant |-> NoGrant]]
  /\ UNCHANGED <<authorizations, stage, recorded, events, stored, notified, failures>>

\* Mutant: a participant without a connection ends the sync.
Skipping_Ends(r) == Resting

\* A participant without a connection is passed over.
Skipping(r) == Following(r, "sync")

\* FindByUserID.
ReadConnection(r) ==
  LET grant == connection[Participants[Current(r, "sync")]] IN
  /\ job[r]["sync"].pc = "connection"
  /\ Becomes(r, "sync", IF grant = NoGrant THEN Skipping(r)
                        ELSE [job[r]["sync"] EXCEPT !.pc = "exists", !.grant = grant])
  /\ UNCHANGED <<authorizations, stage, recorded, events, stored, notified, failures>>

\* Exists.
CheckRecorded(r) ==
  /\ job[r]["sync"].pc = "exists"
  /\ Becomes(r, "sync", IF Current(r, "sync") \in recorded THEN Following(r, "sync")
                        ELSE [job[r]["sync"] EXCEPT !.pc = "publish"])
  /\ UNCHANGED <<authorizations, stage, recorded, events, stored, notified, failures>>

\* EventPublisher.Create: Google makes the event, or refuses the revoked grant, which
\* ends the sync.
Publish(r) ==
  /\ job[r]["sync"].pc = "publish"
  /\ IF job[r]["sync"].grant \in revoked
     THEN /\ Becomes(r, "sync", Resting)
          /\ UNCHANGED events
     ELSE /\ Becomes(r, "sync", [job[r]["sync"] EXCEPT !.pc = "record"])
          /\ events' = [events EXCEPT ![Current(r, "sync")] = @ + 1]
  /\ UNCHANGED <<authorizations, stage, recorded, stored, notified, failures>>

\* EventRepository.Save: an insert, which fails and ends the sync if the row is there.
Record(r) ==
  LET k == Current(r, "sync") IN
  /\ job[r]["sync"].pc = "record"
  /\ recorded' = recorded \cup {k}
  /\ Becomes(r, "sync", IF k \in recorded THEN Resting ELSE Following(r, "sync"))
  /\ UNCHANGED <<authorizations, stage, events, stored, notified, failures>>

\* Mutant: no unique index of urgent notifications.
IsAbsent_Always(k) == TRUE

\* ON CONFLICT ... DO NOTHING.
IsAbsent(k) == stored[k] = 0

\* SaveIfAbsent: only the one that stores a notification sends it.
StoreNotice(r) ==
  LET k == Current(r, "urgent") IN
  /\ job[r]["urgent"].pc = "store"
  /\ IF IsAbsent(k)
     THEN /\ stored' = [stored EXCEPT ![k] = @ + 1]
          /\ Becomes(r, "urgent", [job[r]["urgent"] EXCEPT !.pc = "notify"])
     ELSE /\ Becomes(r, "urgent", Following(r, "urgent"))
          /\ UNCHANGED stored
  /\ UNCHANGED <<authorizations, stage, recorded, events, notified, failures>>

\* Notify.
Notify(r) ==
  /\ job[r]["urgent"].pc = "notify"
  /\ notified' = [notified EXCEPT ![Current(r, "urgent")] = @ + 1]
  /\ Becomes(r, "urgent", Following(r, "urgent"))
  /\ UNCHANGED <<authorizations, stage, recorded, events, stored, failures>>

Fails ==
  /\ failures < MaxFailures
  /\ failures' = failures + 1

\* A notification cannot be stored or sent: the job goes on with the next one, and
\* returns the errors together.
NoticeFails(r) ==
  /\ Fails
  /\ job[r]["urgent"] # Resting
  /\ Becomes(r, "urgent", Following(r, "urgent"))
  /\ UNCHANGED <<authorizations, stage, recorded, events, stored, notified>>

\* The process of a job dies, or its sync meets an error; what Google or another
\* connection was asked may have been done.
CutShort(r, j) ==
  /\ Fails
  /\ job[r][j] # Resting
  /\ Becomes(r, j, Resting)
  /\ UNCHANGED <<authorizations, stage, recorded, events, stored, notified>>

\* The connection that holds the lock breaks; the job does not notice before its end.
LoseLock(j) ==
  /\ Fails
  /\ holder[j] # None
  /\ holder' = [holder EXCEPT ![j] = None]
  /\ UNCHANGED <<authorizations, stage, recorded, events, stored, notified, job>>

JobStep(r, j) ==
  \/ j = "sync" /\ (ReadConnection(r) \/ CheckRecorded(r) \/ Publish(r) \/ Record(r))
  \/ j = "urgent" /\ (StoreNotice(r) \/ Notify(r))

Init ==
  /\ AuthorizationsInit
  /\ stage = [o \in Orders |-> Unbooked]
  /\ recorded = {}
  /\ events = [k \in Appointments |-> 0]
  /\ stored = [k \in Appointments |-> 0] /\ notified = [k \in Appointments |-> 0]
  /\ holder = [j \in Jobs |-> None]
  /\ job = [r \in Replicas |-> [j \in Jobs |-> Resting]]
  /\ failures = 0

Next ==
  \/ AuthorizationsNext /\ UNCHANGED jobs
  \/ \E o \in Orders : Book(o) \/ Approach(o)
  \/ \E j \in Jobs : LoseLock(j)
  \/ \E r \in Replicas :
       \/ NoticeFails(r)
       \/ \E j \in Jobs : StartJob(r, j) \/ JobStep(r, j) \/ CutShort(r, j)

Spec == Init /\ [][Next]_vars

\* The ticker of the sync fires for as long as the process lives, and a sync that runs
\* goes on: requests to Google have a time limit, and the database answers or breaks off.
Fairness == \A r \in Replicas : WF_vars(StartJob(r, "sync")) /\ WF_vars(JobStep(r, "sync"))

FairSpec == Spec /\ Fairness

----------------------------------------------------------------------------
(* Properties *)

\* A calendar shows an appointment once, and once more for each failure at most:
\* without failures, locks and rows keep the replicas from publishing it twice.
ShownOncePerFailure == \A k \in Appointments : events[k] <= 1 + failures

\* Even while two replicas run the job because one lost its lock, a participant has
\* one urgent notification of an order, and is told of it once at most.
NoticeOnce == \A k \in Appointments : stored[k] <= 1 /\ notified[k] <= stored[k]

\* k is to come, its participant's calendar is connected, and no calendar that a sync
\* takes up to it has been revoked.
Publishable(k) ==
  /\ k \in Listed("sync") /\ connection[Participants[k]] # NoGrant
  /\ \A i \in Listed("sync") : i <= k => connection[Participants[i]] \notin revoked

\* Under the tickers, such an appointment is recorded or ceases to be publishable, in
\* spite of failures, of lost locks and of participants without a calendar.
ConnectedIsRecorded ==
  \A k \in Appointments : Publishable(k) ~> (k \in recorded \/ ~Publishable(k))
=============================================================================
