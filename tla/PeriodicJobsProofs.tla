-------------------------- MODULE PeriodicJobsProofs --------------------------
(***************************************************************************)
(* Theorems of Authorizations and PeriodicJobs, for any number of users,   *)
(* attempts, callbacks, replicas, orders and failures.                     *)
(***************************************************************************)
EXTENDS PeriodicJobs, FiniteSetTheorems, WellFoundedInduction, TLAPS

AttemptRecords ==
  [kind : Kinds \cup {"none"}, user : Users \cup {None}, consumed : BOOLEAN, expired : BOOLEAN]

CallbackRecords ==
  [pc : {"idle", "exchange", "consume", "save"}, attempt : Attempts \cup {None},
   user : Users \cup {None}, account : Accounts \cup {None}, grant : Nat]

AuthorizationTypes ==
  /\ attempt \in [Attempts -> AttemptRecords]
  /\ account \in [Users -> Accounts \cup {None}]
  /\ connection \in [Users -> Nat]
  /\ callback \in [Callbacks -> CallbackRecords]
  /\ granted \in Nat
  /\ settled \in [Attempts -> Nat]

LEMMA CallbackRecord ==
  ASSUME AuthorizationTypes, NEW c \in Callbacks
  PROVE  /\ callback[c] \in CallbackRecords
         /\ callback[c].attempt \in Attempts \cup {None}
         /\ callback[c].user \in Users \cup {None}
         /\ callback[c].account \in Accounts \cup {None}
         /\ callback[c].grant \in Nat
  BY DEF AuthorizationTypes, CallbackRecords

LEMMA IdleRecord == Idle \in CallbackRecords
  BY DEF Idle, CallbackRecords, NoGrant

\* Settling keeps the count: an open attempt was settled by nobody.
LEMMA SettleKeeps ==
  ASSUME AuthorizationTypes, NEW v,
         \A a \in Attempts : settled[a] = (IF attempt[a].consumed THEN 1 ELSE 0),
         Settle(v)
  PROVE  /\ attempt' \in [Attempts -> AttemptRecords] /\ settled' \in [Attempts -> Nat]
         /\ \A a \in Attempts : settled'[a] = (IF attempt'[a].consumed THEN 1 ELSE 0)
<1>1. CASE v \in Attempts
  <2>1. attempt[v] \in AttemptRecords /\ attempt[v].consumed = FALSE /\ settled[v] = 0
    BY <1>1 DEF AuthorizationTypes, AttemptRecords, Settle, IsOpen
  <2>2. [attempt[v] EXCEPT !.consumed = TRUE] \in AttemptRecords
        /\ [attempt[v] EXCEPT !.consumed = TRUE].consumed = TRUE
    BY <2>1 DEF AttemptRecords
  <2>3. /\ attempt' = [attempt EXCEPT ![v] = [attempt[v] EXCEPT !.consumed = TRUE]]
        /\ settled' = [settled EXCEPT ![v] = 1]
    BY <1>1, <2>1 DEF Settle, AuthorizationTypes
  <2> QED  BY <1>1, <2>1, <2>2, <2>3 DEF AuthorizationTypes
<1>2. CASE v \notin Attempts
  <2>1. attempt' = attempt /\ settled' = settled
    BY <1>2 DEF Settle, AuthorizationTypes
  <2> QED  BY <2>1 DEF AuthorizationTypes
<1> QED  BY <1>1, <1>2

LEMMA AuthorizationStep ==
  ASSUME AuthorizationTypes, AttemptSettlesOnce, AuthorizationsNext
  PROVE  AuthorizationTypes' /\ AttemptSettlesOnce'
<1> USE DEF AttemptSettlesOnce
<1>1. ASSUME NEW a \in Attempts, NEW kind \in Kinds, NEW u \in Users,
             StartAuthorization(a, kind, u)
      PROVE  AuthorizationTypes' /\ AttemptSettlesOnce'
  <2> DEFINE new == [NoAttempt EXCEPT !.kind = kind, !.user = u]
  <2>1. new \in AttemptRecords /\ new.consumed = FALSE
    BY DEF NoAttempt, AttemptRecords
  <2>2. attempt' = [attempt EXCEPT ![a] = new] /\ attempt[a].consumed = FALSE
    BY <1>1 DEF StartAuthorization, NoAttempt
  <2> HIDE DEF new
  <2> QED  BY <1>1, <2>1, <2>2 DEF AuthorizationTypes, StartAuthorization
<1>2. ASSUME NEW a \in Attempts, ExpireAttempt(a)
      PROVE  AuthorizationTypes' /\ AttemptSettlesOnce'
  <2> DEFINE new == [attempt[a] EXCEPT !.expired = TRUE]
  <2>1. new \in AttemptRecords /\ new.consumed = attempt[a].consumed
    BY DEF AuthorizationTypes, AttemptRecords
  <2>2. attempt' = [attempt EXCEPT ![a] = new]
    BY <1>2 DEF ExpireAttempt
  <2> HIDE DEF new
  <2> QED  BY <1>2, <2>1, <2>2 DEF AuthorizationTypes, ExpireAttempt
<1>3. ASSUME NEW g \in Grants, Revoke(g)
      PROVE  AuthorizationTypes' /\ AttemptSettlesOnce'
  BY <1>3 DEF Revoke, AuthorizationTypes
<1>4. ASSUME NEW c \in Callbacks, NEW a \in Attempts, FindActive(c, a)
      PROVE  AuthorizationTypes' /\ AttemptSettlesOnce'
  <2>1. PICK pc \in {"exchange", "consume"} : callback' = [callback EXCEPT
          ![c] = [Idle EXCEPT !.pc = pc, !.attempt = a, !.user = attempt[a].user]]
    BY <1>4 DEF FindActive
  <2>2. [Idle EXCEPT !.pc = pc, !.attempt = a, !.user = attempt[a].user] \in CallbackRecords
    BY <2>1 DEF Idle, CallbackRecords, NoGrant, AuthorizationTypes, AttemptRecords
  <2> QED  BY <1>4, <2>1, <2>2 DEF FindActive, AuthorizationTypes
<1>5. ASSUME NEW c \in Callbacks, NEW u \in Users, ConnectWithCode(c, u)
      PROVE  AuthorizationTypes' /\ AttemptSettlesOnce'
  <2>1. [Idle EXCEPT !.pc = "exchange", !.user = u] \in CallbackRecords
    BY DEF Idle, CallbackRecords, NoGrant
  <2> QED  BY <1>5, <2>1 DEF ConnectWithCode, AuthorizationTypes
<1>6. ASSUME NEW c \in Callbacks, NEW x \in Accounts, ExchangeForAccount(c, x)
      PROVE  AuthorizationTypes' /\ AttemptSettlesOnce'
  <2>1. [callback[c] EXCEPT !.pc = "save", !.account = x] \in CallbackRecords
    BY CallbackRecord DEF CallbackRecords
  <2>2. callback' = [callback EXCEPT ![c] = [callback[c] EXCEPT !.pc = "save", !.account = x]]
    BY <1>6 DEF ExchangeForAccount, AuthorizationTypes, CallbackRecords
  <2> QED  BY <1>6, <2>1, <2>2 DEF ExchangeForAccount, AuthorizationTypes
<1>7. ASSUME NEW c \in Callbacks, ExchangeForGrant(c)
      PROVE  AuthorizationTypes' /\ AttemptSettlesOnce'
  <2>1. granted + 1 \in Nat
    BY DEF AuthorizationTypes
  <2>2. [callback[c] EXCEPT !.pc = "save", !.grant = granted + 1] \in CallbackRecords
    BY <2>1, CallbackRecord DEF CallbackRecords
  <2>3. callback' = [callback EXCEPT ![c] =
                       [callback[c] EXCEPT !.pc = "save", !.grant = granted + 1]]
    BY <1>7 DEF ExchangeForGrant, AuthorizationTypes, CallbackRecords
  <2> QED  BY <1>7, <2>1, <2>2, <2>3 DEF ExchangeForGrant, AuthorizationTypes
<1>8. ASSUME NEW c \in Callbacks, ExchangeGivesUp(c)
      PROVE  AuthorizationTypes' /\ AttemptSettlesOnce'
  <2>1. [callback[c] EXCEPT !.pc = "consume"] \in CallbackRecords
    BY CallbackRecord DEF CallbackRecords
  <2> QED  BY <1>8, <2>1 DEF ExchangeGivesUp, AuthorizationTypes
<1>9. ASSUME NEW c \in Callbacks, Consume(c)
      PROVE  AuthorizationTypes' /\ AttemptSettlesOnce'
  <2>1. callback' \in [Callbacks -> CallbackRecords]
    BY <1>9, IdleRecord DEF Consume, End, AuthorizationTypes
  <2>2. CASE Settle(callback[c].attempt)
    BY <1>9, <2>1, <2>2, SettleKeeps DEF Consume, AuthorizationTypes
  <2>3. CASE UNCHANGED <<attempt, settled>>
    BY <1>9, <2>1, <2>3 DEF Consume, AuthorizationTypes
  <2> QED  BY <1>9, <2>2, <2>3 DEF Consume
<1>10. ASSUME NEW c \in Callbacks, SaveAccount(c)
       PROVE  AuthorizationTypes' /\ AttemptSettlesOnce'
  <2> DEFINE x == callback[c].account
             w == callback[c].user
  <2>1. callback' \in [Callbacks -> CallbackRecords]
    BY <1>10, IdleRecord DEF SaveAccount, End, AuthorizationTypes
  <2>2. x \in Accounts
    BY <1>10, CallbackRecord DEF SaveAccount
  <2>3. CASE /\ IsUnlinked(w, x) /\ Settle(callback[c].attempt)
             /\ account' = [account EXCEPT ![w] = x]
    <3>1. \A v \in Users : account[v] # x
      BY <2>3 DEF IsUnlinked
    <3> HIDE DEF x, w
    <3>2. /\ account' \in [Users -> Accounts \cup {None}]
          /\ \A u, v \in Users : account'[u] # None /\ account'[u] = account'[v] => u = v
      BY <2>2, <2>3, <3>1 DEF AuthorizationTypes
    <3> QED  BY <1>10, <2>1, <2>3, <3>2, SettleKeeps DEF SaveAccount, AuthorizationTypes
  <2>4. CASE UNCHANGED <<attempt, account, settled>>
    BY <1>10, <2>1, <2>4 DEF SaveAccount, AuthorizationTypes
  <2> QED  BY <1>10, <2>3, <2>4 DEF SaveAccount
<1>11. ASSUME NEW c \in Callbacks, SaveConnection(c)
       PROVE  AuthorizationTypes' /\ AttemptSettlesOnce'
  <2> DEFINE g == callback[c].grant
             w == callback[c].user
  <2>1. callback' \in [Callbacks -> CallbackRecords]
    BY <1>11, IdleRecord DEF SaveConnection, End, AuthorizationTypes
  <2>2. /\ attempt' \in [Attempts -> AttemptRecords] /\ settled' \in [Attempts -> Nat]
        /\ \A a \in Attempts : settled'[a] = (IF attempt'[a].consumed THEN 1 ELSE 0)
    <3>1. CASE Settle(callback[c].attempt)
      BY <3>1, SettleKeeps
    <3>2. CASE UNCHANGED <<attempt, settled>>
      BY <3>2 DEF AuthorizationTypes
    <3> QED  BY <1>11, <3>1, <3>2 DEF SaveConnection
  <2>3. connection' = [connection EXCEPT ![w] = g] \/ connection' = connection
    BY <1>11 DEF SaveConnection
  <2>4. g \in Nat
    BY CallbackRecord
  <2> HIDE DEF g, w
  <2>5. connection' \in [Users -> Nat]
    BY <2>3, <2>4 DEF AuthorizationTypes
  <2> QED  BY <1>11, <2>1, <2>2, <2>5 DEF SaveConnection, AuthorizationTypes
<1>12. ASSUME NEW c \in Callbacks, Abandon(c)
       PROVE  AuthorizationTypes' /\ AttemptSettlesOnce'
  BY <1>12, IdleRecord DEF Abandon, End, AuthorizationTypes
<1> QED
  BY <1>1, <1>2, <1>3, <1>4, <1>5, <1>6, <1>7, <1>8, <1>9, <1>10, <1>11, <1>12
  DEF AuthorizationsNext

----------------------------------------------------------------------------
(* Jobs *)

JobRecords ==
  [pc : {"idle", "connection", "exists", "publish", "record", "store", "notify"},
   todo : SUBSET Appointments, grant : Nat]

\* A job that runs has something left to do.
WellFormed(new) ==
  /\ new \in JobRecords
  /\ new.pc = "idle" => new = Resting
  /\ new.pc # "idle" => new.todo # {}

JobTypes ==
  /\ recorded \subseteq Appointments
  /\ events \in [Appointments -> Nat]
  /\ stored \in [Appointments -> Nat]
  /\ notified \in [Appointments -> Nat]
  /\ failures \in Nat
  /\ holder \in [Jobs -> Replicas \cup {None}]
  /\ job \in [Replicas -> [Jobs -> JobRecords]]
  /\ \A r \in Replicas, j \in Jobs : WellFormed(job[r][j])
  /\ \A r \in Replicas, j \in Jobs : holder[j] = r => job[r][j].pc # "idle"

LEMMA RestingIsWellFormed == WellFormed(Resting) /\ Resting.pc = "idle" /\ Resting.todo = {}
  BY DEF WellFormed, Resting, JobRecords, NoGrant

LEMMA AppointmentsAreNumbers == Appointments \subseteq Nat
  BY JobsAssumption DEF Appointments

Less == {ss \in Nat \X Nat : ss[1] < ss[2]}

LEMMA LessIsWellFounded == IsWellFoundedOn(Less, Nat)
<1>1. OpToRel(<, Nat) = {ss \in Nat \X Nat : ss[1] < ss[2]}
  BY DEF OpToRel
<1> QED  BY <1>1, NatLessThanWellFounded DEF Less

\* The earliest of some appointments is one of them.
LEMMA EarliestIsOne ==
  ASSUME NEW ks \in SUBSET Appointments, ks # {}
  PROVE  Earliest(ks) \in ks
<1>1. ks \subseteq Nat
  BY AppointmentsAreNumbers
<1>2. \E k \in ks : \A i \in ks : ~(<<i, k>> \in Less)
  BY <1>1, WFMin, LessIsWellFounded
<1>3. \A k, i \in Nat : ~(<<i, k>> \in Less) => k <= i
  BY DEF Less
<1>4. \E k \in ks : \A i \in ks : k <= i
  BY <1>1, <1>2, <1>3
<1> QED  BY <1>4 DEF Earliest

LEMMA Running ==
  ASSUME JobTypes, NEW r \in Replicas, NEW j \in Jobs, job[r][j].pc # "idle"
  PROVE  /\ job[r][j] \in JobRecords
         /\ Current(r, j) \in job[r][j].todo
         /\ Current(r, j) \in Appointments
<1>1. job[r][j] \in JobRecords /\ job[r][j].todo # {}
  BY DEF JobTypes, WellFormed
<1>2. job[r][j].todo \in SUBSET Appointments
  BY <1>1 DEF JobRecords
<1> QED  BY <1>1, <1>2, EarliestIsOne DEF Current

LEMMA FollowingIsWellFormed ==
  ASSUME JobTypes, NEW r \in Replicas, NEW j \in Jobs
  PROVE  /\ WellFormed(Following(r, j))
         /\ Following(r, j).todo \subseteq job[r][j].todo
         /\ Following(r, j).pc \in {"idle", "connection", "store"}
         /\ Following(r, j).pc = "idle" \/ Following(r, j).pc = (IF j = "sync" THEN "connection" ELSE "store")
<1>1. job[r][j].todo \in SUBSET Appointments
  BY DEF JobTypes, JobRecords
<1> DEFINE left == job[r][j].todo \ {Current(r, j)}
<1>2. CASE left = {}
  BY <1>2, RestingIsWellFormed DEF Following
<1>3. CASE left # {}
  <2> DEFINE new == [pc |-> IF j = "sync" THEN "connection" ELSE "store", todo |-> left, grant |-> NoGrant]
  <2>1. Following(r, j) = new
    BY <1>3 DEF Following
  <2>2. new \in JobRecords
    BY <1>1 DEF JobRecords, NoGrant
  <2>3. /\ new.pc = (IF j = "sync" THEN "connection" ELSE "store")
        /\ new.todo = left
    OBVIOUS
  <2> QED  BY <1>3, <2>1, <2>2, <2>3 DEF WellFormed
<1> QED  BY <1>2, <1>3

\* A job that becomes what it may leaves every other job as it was, and its lock only
\* to rest.
LEMMA BecomesKeeps ==
  ASSUME JobTypes, NEW r \in Replicas, NEW j \in Jobs, NEW new, WellFormed(new),
         Becomes(r, j, new)
  PROVE  /\ job' \in [Replicas -> [Jobs -> JobRecords]]
         /\ holder' \in [Jobs -> Replicas \cup {None}]
         /\ job'[r][j] = new
         /\ \A s \in Replicas, i \in Jobs : <<s, i>> # <<r, j>> => job'[s][i] = job[s][i]
         /\ \A s \in Replicas, i \in Jobs : WellFormed(job[s][i])'
         /\ \A s \in Replicas, i \in Jobs : holder'[i] = s => holder[i] = s /\ job'[s][i].pc # "idle"
         /\ \A i \in Jobs : holder'[i] = None => holder[i] = None \/ (i = j /\ new = Resting /\ holder[j] = r)
<1>1. new \in JobRecords
  BY DEF WellFormed
<1>2. /\ job' \in [Replicas -> [Jobs -> JobRecords]]
      /\ job'[r][j] = new
      /\ \A s \in Replicas, i \in Jobs : <<s, i>> # <<r, j>> => job'[s][i] = job[s][i]
  BY <1>1 DEF JobTypes, Becomes
<1>3. /\ holder' \in [Jobs -> Replicas \cup {None}]
      /\ \A i \in Jobs : i # j => holder'[i] = holder[i]
      /\ holder'[j] = (IF new = Resting /\ holder[j] = r THEN None ELSE holder[j])
  BY DEF JobTypes, Becomes
<1>4. \A s \in Replicas, i \in Jobs : WellFormed(job'[s][i])
  BY <1>2 DEF JobTypes
<1>5. \A s \in Replicas : s # None
  BY JobsAssumption
<1>6. \A s \in Replicas, i \in Jobs : holder'[i] = s => holder[i] = s
  BY <1>3, <1>5
<1>7. ASSUME NEW s \in Replicas, NEW i \in Jobs, holder'[i] = s
      PROVE  job'[s][i].pc # "idle"
  <2>1. CASE <<s, i>> = <<r, j>>
    <3>1. new # Resting
      BY <1>3, <1>5, <1>7, <2>1
    <3> QED  BY <1>2, <2>1, <3>1 DEF WellFormed
  <2>2. CASE <<s, i>> # <<r, j>>
    BY <1>2, <1>6, <1>7, <2>2 DEF JobTypes
  <2> QED  BY <2>1, <2>2
<1>8. \A s \in Replicas, i \in Jobs : WellFormed(job[s][i])'
  BY <1>4 DEF WellFormed, JobRecords, Appointments, Resting
<1>9. \A i \in Jobs : holder'[i] = None => holder[i] = None \/ (i = j /\ new = Resting /\ holder[j] = r)
  BY <1>3
<1> QED  BY <1>2, <1>3, <1>6, <1>7, <1>8, <1>9

----------------------------------------------------------------------------
(* Urgent notifications *)

Notifying(r, k) == job[r]["urgent"].pc = "notify" /\ Current(r, "urgent") = k

\* Whoever is about to tell of an appointment stored its notification, alone, and
\* nobody was told yet.
NoticeInv ==
  /\ NoticeOnce
  /\ \A r \in Replicas, k \in Appointments :
       Notifying(r, k) => stored[k] = 1 /\ notified[k] = 0
  /\ \A r, s \in Replicas, k \in Appointments : Notifying(r, k) /\ Notifying(s, k) => r = s

\* A step that starts no notification and stores none.
LEMMA NoticeUnchanged ==
  ASSUME JobTypes, NoticeInv, UNCHANGED <<stored, notified>>,
         \A s \in Replicas, k \in Appointments : Notifying(s, k)' => Notifying(s, k)
  PROVE  NoticeInv'
  BY DEF NoticeInv, NoticeOnce

LEMMA NotifyingSame ==
  ASSUME NEW s \in Replicas, NEW k, job'[s]["urgent"] = job[s]["urgent"]
  PROVE  Notifying(s, k)' <=> Notifying(s, k)
  BY DEF Notifying, Current

LEMMA NotifyingOnlyThen ==
  ASSUME NEW s \in Replicas, NEW k, job'[s]["urgent"].pc # "notify"
  PROVE  ~Notifying(s, k)'
  BY DEF Notifying

\* When a job becomes something that does not notify, nobody starts to.
LEMMA NoticeBecomes ==
  ASSUME JobTypes, NoticeInv, UNCHANGED <<stored, notified>>,
         NEW r \in Replicas, NEW j \in Jobs, NEW new, WellFormed(new), Becomes(r, j, new),
         j = "urgent" => new.pc # "notify"
  PROVE  NoticeInv'
<1>1. ASSUME NEW s \in Replicas, NEW k \in Appointments, Notifying(s, k)'
      PROVE  Notifying(s, k)
  <2>1. CASE s = r /\ j = "urgent"
    <3>1. job'[s]["urgent"].pc # "notify"
      BY <2>1, BecomesKeeps
    <3> QED  BY <1>1, <3>1, NotifyingOnlyThen
  <2>2. CASE ~(s = r /\ j = "urgent")
    <3>1. <<s, "urgent">> # <<r, j>> /\ "urgent" \in Jobs
      BY <2>2 DEF Jobs
    <3>2. job'[s]["urgent"] = job[s]["urgent"]
      BY <3>1, BecomesKeeps
    <3> QED  BY <1>1, <3>2, NotifyingSame
  <2> QED  BY <2>1, <2>2
<1> QED  BY <1>1, NoticeUnchanged

\* Storing a notification: the one that finds no row will tell of it.
LEMMA StoreNoticeKeeps ==
  ASSUME JobTypes, NoticeInv, NEW r \in Replicas, StoreNotice(r)
  PROVE  NoticeInv'
<1> DEFINE k == Current(r, "urgent")
           new == [job[r]["urgent"] EXCEPT !.pc = "notify"]
<1>0. "urgent" \in Jobs /\ job[r]["urgent"].pc = "store"
  BY DEF Jobs, StoreNotice
<1>1. k \in Appointments /\ job[r]["urgent"] \in JobRecords
  BY <1>0, Running
<1>2. CASE ~IsAbsent(k)
  <2>1. Becomes(r, "urgent", Following(r, "urgent")) /\ UNCHANGED <<stored, notified>>
    BY <1>2 DEF StoreNotice
  <2> QED  BY <1>0, <2>1, FollowingIsWellFormed, NoticeBecomes
<1>3. CASE IsAbsent(k)
  <2>1. /\ stored' = [stored EXCEPT ![k] = @ + 1] /\ notified' = notified
        /\ Becomes(r, "urgent", new)
    BY <1>3 DEF StoreNotice
  <2>2. new \in JobRecords /\ new.pc = "notify" /\ new.todo = job[r]["urgent"].todo
    BY <1>1 DEF JobRecords
  <2>3. WellFormed(new)
    BY <1>0, <2>2 DEF WellFormed, JobTypes
  <2> HIDE DEF new
  <2>4. job'[r]["urgent"] = new
        /\ \A s \in Replicas \ {r} : job'[s]["urgent"] = job[s]["urgent"]
    BY <1>0, <2>1, <2>3, BecomesKeeps
  <2>5. \A i \in Appointments : Notifying(r, i)' <=> i = k
    BY <2>2, <2>4 DEF Notifying, Current
  <2>6. \A s \in Replicas \ {r}, i \in Appointments : Notifying(s, i)' <=> Notifying(s, i)
    BY <2>4, NotifyingSame
  <2>7. stored[k] = 0 /\ notified[k] = 0
    BY <1>1, <1>3 DEF IsAbsent, NoticeInv, NoticeOnce, JobTypes
  <2>8. \A s \in Replicas : ~Notifying(s, k)
    BY <1>1, <2>7 DEF NoticeInv
  <2>9. \A i \in Appointments : stored'[i] = (IF i = k THEN 1 ELSE stored[i])
    BY <1>1, <2>1, <2>7 DEF JobTypes
  <2> HIDE DEF k
  <2>10. NoticeOnce'
    BY <1>1, <2>1, <2>7, <2>9 DEF NoticeInv, NoticeOnce, JobTypes
  <2>11. \A s \in Replicas, i \in Appointments :
           Notifying(s, i)' => stored'[i] = 1 /\ notified'[i] = 0
    BY <1>1, <2>1, <2>5, <2>6, <2>7, <2>8, <2>9 DEF NoticeInv
  <2>12. \A s, t \in Replicas, i \in Appointments : Notifying(s, i)' /\ Notifying(t, i)' => s = t
    BY <2>5, <2>6, <2>8 DEF NoticeInv
  <2> QED  BY <2>10, <2>11, <2>12 DEF NoticeInv
<1> QED  BY <1>2, <1>3

LEMMA NotifyKeeps ==
  ASSUME JobTypes, NoticeInv, NEW r \in Replicas, Notify(r)
  PROVE  NoticeInv'
<1> DEFINE k == Current(r, "urgent")
           new == Following(r, "urgent")
<1>0. "urgent" \in Jobs /\ job[r]["urgent"].pc = "notify"
  BY DEF Jobs, Notify
<1>1. k \in Appointments
  BY <1>0, Running
<1>2. WellFormed(new) /\ new.pc # "notify"
  BY <1>0, FollowingIsWellFormed
<1>3. Becomes(r, "urgent", new) /\ notified' = [notified EXCEPT ![k] = @ + 1] /\ stored' = stored
  BY DEF Notify
<1>4. Notifying(r, k)
  BY <1>0 DEF Notifying
<1> HIDE DEF new
<1>5. job'[r]["urgent"] = new /\ \A s \in Replicas \ {r} : job'[s]["urgent"] = job[s]["urgent"]
  BY <1>0, <1>2, <1>3, BecomesKeeps
<1> HIDE DEF k
<1>6. stored[k] = 1 /\ notified[k] = 0 /\ \A s \in Replicas \ {r} : ~Notifying(s, k)
  BY <1>1, <1>4 DEF NoticeInv
<1>7. \A i \in Appointments : ~Notifying(r, i)'
  BY <1>2, <1>5, NotifyingOnlyThen
<1>8. \A s \in Replicas \ {r}, i \in Appointments : Notifying(s, i)' <=> Notifying(s, i)
  BY <1>5, NotifyingSame
<1>9. \A i \in Appointments : notified'[i] = (IF i = k THEN 1 ELSE notified[i])
  BY <1>1, <1>3, <1>6 DEF JobTypes
<1>10. NoticeOnce'
  BY <1>3, <1>6, <1>9 DEF NoticeInv, NoticeOnce
<1>11. \A s \in Replicas, i \in Appointments :
         Notifying(s, i)' => stored'[i] = 1 /\ notified'[i] = 0
  BY <1>3, <1>6, <1>7, <1>8, <1>9 DEF NoticeInv
<1>12. \A s, t \in Replicas, i \in Appointments : Notifying(s, i)' /\ Notifying(t, i)' => s = t
  BY <1>7, <1>8 DEF NoticeInv
<1> QED  BY <1>10, <1>11, <1>12 DEF NoticeInv

----------------------------------------------------------------------------
(* Events in calendars *)

At(r, pc, k) == job[r]["sync"].pc = pc /\ Current(r, "sync") = k

\* The syncs that may still make an event of k, and, while k is not recorded, the one
\* that holds the lock: when it ends without recording k, the next one takes its place.
Counts(r, k) ==
  /\ ~At(r, "record", k)
  /\ \/ At(r, "publish", k)
     \/ k \notin recorded /\ (k \in job[r]["sync"].todo \/ holder["sync"] = r)
Counted(k) == {r \in Replicas : Counts(r, k)}
Free(k) == IF holder["sync"] = None /\ k \notin recorded THEN 1 ELSE 0

\* The events of an appointment with those that can still be made without a failure.
ShownInv == \A k \in Appointments : events[k] + Cardinality(Counted(k)) + Free(k) <= 1 + failures

LEMMA CountedIsFinite ==
  ASSUME NEW k
  PROVE  IsFiniteSet(Counted(k)) /\ Cardinality(Counted(k)) \in Nat /\ Free(k) \in Nat
<1>1. Counted(k) \subseteq Replicas
  BY DEF Counted
<1> QED  BY <1>1, JobsAssumption, FS_Subset, FS_CardinalityType DEF Free

LEMMA FewerCounted ==
  ASSUME NEW S, NEW T, IsFiniteSet(T), S \subseteq T
  PROVE  /\ IsFiniteSet(S) /\ Cardinality(S) \in Nat /\ Cardinality(T) \in Nat
         /\ Cardinality(S) <= Cardinality(T)
         /\ \A r \in T \ S : Cardinality(S) + 1 <= Cardinality(T)
<1>1. IsFiniteSet(S) /\ Cardinality(S) <= Cardinality(T)
  BY FS_Subset
<1>2. Cardinality(S) \in Nat /\ Cardinality(T) \in Nat
  BY <1>1, FS_CardinalityType
<1>3. ASSUME NEW r \in T \ S
      PROVE  Cardinality(S) + 1 <= Cardinality(T)
  <2>1. S \subseteq T \ {r}
    BY <1>3
  <2>2. IsFiniteSet(T \ {r}) /\ Cardinality(T \ {r}) = Cardinality(T) - 1
    BY <1>3, FS_RemoveElement
  <2>3. Cardinality(S) <= Cardinality(T \ {r})
    BY <2>1, <2>2, FS_Subset
  <2> QED  BY <1>2, <2>2, <2>3
<1> QED  BY <1>1, <1>2, <1>3

LEMMA MoreCounted ==
  ASSUME NEW S, NEW T, NEW r, IsFiniteSet(T), S \subseteq T \cup {r}
  PROVE  Cardinality(S) \in Nat /\ Cardinality(T) \in Nat /\ Cardinality(S) <= Cardinality(T) + 1
<1>1. Cardinality(T) \in Nat
  BY FS_CardinalityType
<1>2. CASE r \in T
  <2>1. T \cup {r} = T
    BY <1>2
  <2> QED  BY <1>1, <2>1, FewerCounted
<1>3. CASE r \notin T
  <2>1. IsFiniteSet(T \cup {r}) /\ Cardinality(T \cup {r}) = Cardinality(T) + 1
    BY <1>3, FS_AddElement
  <2>2. Cardinality(S) \in Nat /\ Cardinality(S) <= Cardinality(T \cup {r})
    BY <2>1, FewerCounted
  <2> QED  BY <1>1, <2>1, <2>2
<1> QED  BY <1>2, <1>3

LEMMA CountsSame ==
  ASSUME NEW s \in Replicas, NEW k, job'[s]["sync"] = job[s]["sync"],
         recorded \subseteq recorded', holder'["sync"] = s => holder["sync"] = s
  PROVE  Counts(s, k)' => Counts(s, k)
<1>1. \A pc : At(s, pc, k)' <=> At(s, pc, k)
  BY DEF At, Current
<1>2. At(s, "record", k)' <=> At(s, "record", k)
  BY <1>1
<1>3. At(s, "publish", k)' <=> At(s, "publish", k)
  BY <1>1
<1> QED  BY <1>2, <1>3 DEF Counts

\* A step that leaves the syncs, their lock, the events and the rows alone.
LEMMA ShownUnchanged ==
  ASSUME JobTypes, ShownInv, failures' \in Nat, failures <= failures',
         UNCHANGED <<events, recorded>>, holder'["sync"] = holder["sync"],
         \A s \in Replicas : job'[s]["sync"] = job[s]["sync"]
  PROVE  ShownInv'
<1> SUFFICES ASSUME NEW k \in Appointments
             PROVE  events'[k] + Cardinality(Counted(k)') + Free(k)' <= 1 + failures'
  BY DEF ShownInv, Appointments
<1>1. Counted(k)' \subseteq Counted(k)
  BY CountsSame DEF Counted
<1>2. Cardinality(Counted(k)') <= Cardinality(Counted(k)) /\ Cardinality(Counted(k)') \in Nat
      /\ Cardinality(Counted(k)) \in Nat
  BY <1>1, CountedIsFinite, FewerCounted
<1>3. Free(k)' = Free(k) /\ Free(k) \in Nat
  BY DEF Free
<1>4. events[k] \in Nat /\ failures \in Nat /\ events'[k] = events[k]
  BY DEF JobTypes
<1>5. events[k] + Cardinality(Counted(k)) + Free(k) <= 1 + failures
  BY DEF ShownInv
<1> QED  BY <1>2, <1>3, <1>4, <1>5

\* The step of a sync for one appointment.  It makes no event of it, and what it gives
\* up by resting it counted for, or a failure does; or it makes one, and counts no more.
LEMMA SyncBecomes ==
  ASSUME JobTypes, ShownInv, NEW r \in Replicas, NEW new, WellFormed(new),
         Becomes(r, "sync", new), recorded \subseteq recorded', NEW k \in Appointments,
         failures' \in {failures, failures + 1},
         \/ /\ events'[k] = events[k]
            /\ Counts(r, k)' => Counts(r, k)
            /\ new = Resting /\ holder["sync"] = r /\ k \notin recorded' =>
                  Counts(r, k) \/ failures' = failures + 1
         \/ events'[k] = events[k] + 1 /\ new # Resting /\ Counts(r, k) /\ ~Counts(r, k)'
  PROVE  events'[k] + Cardinality(Counted(k)') + Free(k)' <= 1 + failures'
<1>0. "sync" \in Jobs
  BY DEF Jobs
<1>1. /\ \A s \in Replicas : s # r => job'[s]["sync"] = job[s]["sync"]
      /\ job'[r]["sync"] = new
      /\ \A s \in Replicas : holder'["sync"] = s => holder["sync"] = s
  BY <1>0, BecomesKeeps
<1>2. \A s \in Replicas : s # r => (Counts(s, k)' => Counts(s, k))
  BY <1>1, CountsSame
<1>3. Counted(k)' \subseteq Counted(k)
  BY <1>2 DEF Counted
<1>4. /\ Cardinality(Counted(k)') \in Nat /\ Cardinality(Counted(k)) \in Nat
      /\ Cardinality(Counted(k)') <= Cardinality(Counted(k))
      /\ \A s \in Counted(k) \ Counted(k)' : Cardinality(Counted(k)') + 1 <= Cardinality(Counted(k))
  BY <1>3, CountedIsFinite, FewerCounted
<1>5. events[k] \in Nat /\ failures \in Nat /\ Free(k) \in {0, 1} /\ Free(k)' \in {0, 1}
  BY DEF JobTypes, Free
<1>6. events[k] + Cardinality(Counted(k)) + Free(k) <= 1 + failures
  BY DEF ShownInv
<1>7. Free(k)' = 1 /\ Free(k) = 0 => new = Resting /\ holder["sync"] = r /\ k \notin recorded'
  BY <1>0, BecomesKeeps DEF Free
<1>8. ASSUME new = Resting
      PROVE  ~Counts(r, k)'
  <2>1. job'[r]["sync"].pc = "idle" /\ job'[r]["sync"].todo = {}
    BY <1>1, <1>8, RestingIsWellFormed
  <2>2. holder'["sync"] # r
    BY <1>0, <2>1, BecomesKeeps
  <2>3. ~At(r, "publish", k)'
    BY <2>1 DEF At
  <2> QED  BY <2>1, <2>2, <2>3 DEF Counts
<1>9. CASE events'[k] = events[k] + 1 /\ new # Resting /\ Counts(r, k) /\ ~Counts(r, k)'
  <2>1. r \in Counted(k) \ Counted(k)'
    BY <1>9 DEF Counted
  <2>2. Cardinality(Counted(k)') + 1 <= Cardinality(Counted(k))
    BY <1>4, <2>1
  <2>3. ~(Free(k)' = 1 /\ Free(k) = 0)
    BY <1>7, <1>9
  <2> QED  BY <1>4, <1>5, <1>6, <1>9, <2>2, <2>3
<1>10. CASE /\ events'[k] = events[k]
            /\ Counts(r, k)' => Counts(r, k)
            /\ new = Resting /\ holder["sync"] = r /\ k \notin recorded' =>
                  Counts(r, k) \/ failures' = failures + 1
  <2>1. CASE Free(k)' = 1 /\ Free(k) = 0
    <3>1. CASE Counts(r, k)
      <4>1. r \in Counted(k) \ Counted(k)'
        BY <1>7, <1>8, <2>1, <3>1 DEF Counted
      <4>2. Cardinality(Counted(k)') + 1 <= Cardinality(Counted(k))
        BY <1>4, <4>1
      <4> QED  BY <1>4, <1>5, <1>6, <1>10, <4>2
    <3>2. CASE failures' = failures + 1
      BY <1>4, <1>5, <1>6, <1>10, <3>2
    <3> QED  BY <1>7, <1>10, <2>1, <3>1, <3>2
  <2>2. CASE ~(Free(k)' = 1 /\ Free(k) = 0)
    BY <1>4, <1>5, <1>6, <1>10, <2>2
  <2> QED  BY <2>1, <2>2
<1> QED  BY <1>9, <1>10

LEMMA StartJobKeeps ==
  ASSUME JobTypes, ShownInv, NEW r \in Replicas, NEW j \in Jobs, StartJob(r, j)
  PROVE  JobTypes' /\ ShownInv'
<1> DEFINE new == [pc |-> IF j = "sync" THEN "connection" ELSE "store", todo |-> Listed(j),
                   grant |-> NoGrant]
<1>1. /\ new \in JobRecords /\ new.pc = (IF j = "sync" THEN "connection" ELSE "store")
      /\ new.todo = Listed(j) /\ Listed(j) # {}
  BY DEF JobRecords, Listed, NoGrant, StartJob
<1>2. WellFormed(new)
  BY <1>1 DEF WellFormed
<1>3. /\ holder' = [holder EXCEPT ![j] = r] /\ job' = [job EXCEPT ![r][j] = new]
      /\ holder[j] = None /\ job[r][j] = Resting
      /\ UNCHANGED <<recorded, events, stored, notified, failures>>
  BY DEF StartJob, LockIsFree
<1> HIDE DEF new
<1>4. /\ job' \in [Replicas -> [Jobs -> JobRecords]]
      /\ job'[r][j] = new
      /\ \A s \in Replicas, i \in Jobs : <<s, i>> # <<r, j>> => job'[s][i] = job[s][i]
  BY <1>1, <1>3 DEF JobTypes
<1>5. /\ holder' \in [Jobs -> Replicas \cup {None}] /\ holder'[j] = r
      /\ \A i \in Jobs : i # j => holder'[i] = holder[i]
  BY <1>3 DEF JobTypes
<1>6. \A s \in Replicas, i \in Jobs : WellFormed(job'[s][i])
  BY <1>2, <1>4 DEF JobTypes
<1>7. \A s \in Replicas, i \in Jobs : WellFormed(job[s][i])'
  BY <1>6 DEF WellFormed, JobRecords, Appointments, Resting
<1>8. \A s \in Replicas, i \in Jobs : holder'[i] = s => job'[s][i].pc # "idle"
  BY <1>1, <1>4, <1>5 DEF JobTypes
<1>9. JobTypes'
  BY <1>3, <1>4, <1>5, <1>7, <1>8 DEF JobTypes, Appointments, JobRecords
<1>10. CASE j = "urgent"
  <2>1. "sync" \in Jobs
    BY DEF Jobs
  <2>2. holder'["sync"] = holder["sync"] /\ \A s \in Replicas : job'[s]["sync"] = job[s]["sync"]
    BY <1>4, <1>5, <1>10, <2>1
  <2>3. failures' \in Nat /\ failures <= failures'
    BY <1>3 DEF JobTypes
  <2> QED  BY <1>3, <1>9, <2>2, <2>3, ShownUnchanged
<1>11. CASE j = "sync"
  <2>1. ASSUME NEW k \in Appointments
        PROVE  events'[k] + Cardinality(Counted(k)') + Free(k)' <= 1 + failures'
    <3>1. \A s \in Replicas \ {r} : Counts(s, k)' => Counts(s, k)
      BY <1>3, <1>4, <1>5, <1>11, CountsSame
    <3>2. Counted(k)' \subseteq Counted(k) \cup {r}
      BY <3>1 DEF Counted
    <3>3. /\ Cardinality(Counted(k)') \in Nat /\ Cardinality(Counted(k)) \in Nat
          /\ Cardinality(Counted(k)') <= Cardinality(Counted(k)) + 1
      BY <3>2, CountedIsFinite, MoreCounted
    <3>4. Free(k)' = 0 /\ Free(k) \in {0, 1}
      BY <1>5, <1>11, JobsAssumption DEF Free
    <3>5. events[k] \in Nat /\ events'[k] = events[k] /\ failures \in Nat /\ failures' = failures
      BY <1>3 DEF JobTypes
    <3>6. events[k] + Cardinality(Counted(k)) + Free(k) <= 1 + failures
      BY DEF ShownInv
    <3>7. CASE k \notin recorded
      <4>1. Free(k) = 1
        BY <1>3, <1>11, <3>7 DEF Free
      <4> QED  BY <3>3, <3>4, <3>5, <3>6, <4>1
    <3>8. CASE k \in recorded
      <4>1. ~At(r, "publish", k)'
        BY <1>1, <1>4, <1>11 DEF At
      <4>2. ~Counts(r, k)'
        BY <1>3, <3>8, <4>1 DEF Counts
      <4>3. Counted(k)' \subseteq Counted(k)
        BY <3>1, <4>2 DEF Counted
      <4>4. Cardinality(Counted(k)') <= Cardinality(Counted(k))
        BY <4>3, CountedIsFinite, FewerCounted
      <4> QED  BY <3>3, <3>4, <3>5, <3>6, <4>4
    <3> QED  BY <3>7, <3>8
  <2> QED  BY <1>9, <2>1 DEF ShownInv, Appointments
<1> QED  BY <1>10, <1>11 DEF Jobs

\* What a job becomes keeps the types.
LEMMA BecomesTypes ==
  ASSUME JobTypes, NEW r \in Replicas, NEW j \in Jobs, NEW new, WellFormed(new),
         Becomes(r, j, new),
         recorded' \subseteq Appointments, events' \in [Appointments -> Nat],
         stored' \in [Appointments -> Nat], notified' \in [Appointments -> Nat],
         failures' \in Nat
  PROVE  JobTypes'
  BY BecomesKeeps DEF JobTypes, Appointments, JobRecords

LEMMA UrgentShown ==
  ASSUME JobTypes, ShownInv, NEW r \in Replicas, NEW new, WellFormed(new),
         Becomes(r, "urgent", new), UNCHANGED <<events, recorded>>,
         failures' \in Nat, failures <= failures'
  PROVE  ShownInv'
<1>1. "urgent" \in Jobs /\ "sync" \in Jobs
  BY DEF Jobs
<1>2. \A s \in Replicas : job'[s]["sync"] = job[s]["sync"]
  BY <1>1, BecomesKeeps
<1>3. holder'["sync"] = holder["sync"]
  BY DEF Becomes, JobTypes
<1> QED  BY <1>2, <1>3, ShownUnchanged

\* A sync that neither publishes nor records.
LEMMA QuietSync ==
  ASSUME JobTypes, ShownInv, NEW r \in Replicas, NEW new, WellFormed(new),
         Becomes(r, "sync", new), UNCHANGED <<events, recorded, failures>>,
         job[r]["sync"].pc \in {"connection", "exists"}, new.pc \notin {"publish", "record"},
         new.todo \subseteq job[r]["sync"].todo
  PROVE  ShownInv'
<1>0. "sync" \in Jobs
  BY DEF Jobs
<1>1. ASSUME NEW k \in Appointments
      PROVE  events'[k] + Cardinality(Counted(k)') + Free(k)' <= 1 + failures'
  <2>1. job'[r]["sync"] = new /\ (holder'["sync"] = r => holder["sync"] = r)
    BY <1>0, BecomesKeeps
  <2>2. ~At(r, "publish", k)' /\ ~At(r, "record", k) /\ ~At(r, "publish", k)
    BY <2>1 DEF At
  <2>3. Counts(r, k)' => Counts(r, k)
    BY <2>1, <2>2 DEF Counts
  <2>4. holder["sync"] = r /\ k \notin recorded' => Counts(r, k)
    BY <2>2 DEF Counts
  <2>5. events'[k] = events[k] /\ failures' \in {failures, failures + 1} /\ recorded \subseteq recorded'
    OBVIOUS
  <2> QED  BY <2>3, <2>4, <2>5, SyncBecomes
<1> QED  BY <1>1 DEF ShownInv, Appointments

----------------------------------------------------------------------------
(* The steps of a sync *)

LEMMA ReadConnectionKeeps ==
  ASSUME JobTypes, ShownInv, connection \in [Users -> Nat], NEW r \in Replicas, ReadConnection(r)
  PROVE  JobTypes' /\ ShownInv'
<1> DEFINE g == connection[Participants[Current(r, "sync")]]
           read == [job[r]["sync"] EXCEPT !.pc = "exists", !.grant = g]
           new == IF g = NoGrant THEN Following(r, "sync") ELSE read
<1>0. "sync" \in Jobs /\ job[r]["sync"].pc = "connection"
  BY DEF Jobs, ReadConnection
<1>1. job[r]["sync"] \in JobRecords /\ Current(r, "sync") \in Appointments
  BY <1>0, Running
<1>2. Participants[Current(r, "sync")] \in Users
  BY <1>1, JobsAssumption DEF Appointments
<1>3. g \in Nat
  BY <1>2
<1>4. Becomes(r, "sync", new) /\ UNCHANGED <<recorded, events, stored, notified, failures>>
  BY DEF ReadConnection, Skipping
<1> HIDE DEF g
<1>5. read \in JobRecords /\ read.pc = "exists" /\ read.todo = job[r]["sync"].todo
  BY <1>1, <1>3 DEF JobRecords
<1>6. WellFormed(read)
  BY <1>0, <1>5 DEF WellFormed, JobTypes
<1>7. WellFormed(new) /\ new.pc \notin {"publish", "record"} /\ new.todo \subseteq job[r]["sync"].todo
  BY <1>0, <1>5, <1>6, FollowingIsWellFormed
<1> HIDE DEF new
<1>8. JobTypes'
  BY <1>0, <1>4, <1>7, BecomesTypes DEF JobTypes
<1> QED  BY <1>0, <1>4, <1>7, <1>8, QuietSync

LEMMA CheckRecordedKeeps ==
  ASSUME JobTypes, ShownInv, NEW r \in Replicas, CheckRecorded(r)
  PROVE  JobTypes' /\ ShownInv'
<1> DEFINE c == Current(r, "sync")
           new == [job[r]["sync"] EXCEPT !.pc = "publish"]
<1>0. "sync" \in Jobs /\ job[r]["sync"].pc = "exists"
  BY DEF Jobs, CheckRecorded
<1>1. job[r]["sync"] \in JobRecords /\ c \in job[r]["sync"].todo
  BY <1>0, Running
<1>2. UNCHANGED <<recorded, events, stored, notified, failures>>
  BY DEF CheckRecorded
<1>3. CASE c \in recorded
  <2>1. Becomes(r, "sync", Following(r, "sync"))
    BY <1>3 DEF CheckRecorded
  <2>2. JobTypes'
    BY <1>0, <1>2, <2>1, FollowingIsWellFormed, BecomesTypes DEF JobTypes
  <2> QED  BY <1>0, <1>2, <2>1, <2>2, FollowingIsWellFormed, QuietSync
<1>4. CASE c \notin recorded
  <2>1. Becomes(r, "sync", new)
    BY <1>4 DEF CheckRecorded
  <2>2. new \in JobRecords /\ new.pc = "publish" /\ new.todo = job[r]["sync"].todo
    BY <1>1 DEF JobRecords
  <2>3. WellFormed(new) /\ new # Resting
    BY <1>0, <2>2, RestingIsWellFormed DEF WellFormed, JobTypes
  <2> HIDE DEF new
  <2>4. JobTypes'
    BY <1>0, <1>2, <2>1, <2>3, BecomesTypes DEF JobTypes
  <2>5. job'[r]["sync"] = new /\ (holder'["sync"] = r => holder["sync"] = r)
    BY <1>0, <2>1, <2>3, BecomesKeeps
  <2>6. ASSUME NEW k \in Appointments
        PROVE  events'[k] + Cardinality(Counted(k)') + Free(k)' <= 1 + failures'
    <3>1. ~At(r, "record", k)
      BY <1>0 DEF At
    <3>2. At(r, "publish", k)' => k = c
      BY <2>2, <2>5 DEF At, Current
    <3>3. Counts(r, k)' => Counts(r, k)
      BY <1>1, <1>2, <1>4, <2>2, <2>5, <3>1, <3>2 DEF Counts
    <3> QED  BY <1>2, <2>1, <2>3, <3>3, SyncBecomes
  <2> QED  BY <2>4, <2>6 DEF ShownInv, Appointments
<1> QED  BY <1>3, <1>4

LEMMA PublishKeeps ==
  ASSUME JobTypes, ShownInv, NEW r \in Replicas, Publish(r)
  PROVE  JobTypes' /\ ShownInv'
<1> DEFINE c == Current(r, "sync")
           new == [job[r]["sync"] EXCEPT !.pc = "record"]
<1>0. "sync" \in Jobs /\ job[r]["sync"].pc = "publish"
  BY DEF Jobs, Publish
<1>1. job[r]["sync"] \in JobRecords /\ c \in job[r]["sync"].todo /\ c \in Appointments
  BY <1>0, Running
<1>2. UNCHANGED <<recorded, stored, notified, failures>>
  BY DEF Publish
<1>3. CASE job[r]["sync"].grant \in revoked
  <2>1. Becomes(r, "sync", Resting) /\ events' = events
    BY <1>3 DEF Publish
  <2>2. JobTypes'
    BY <1>0, <1>2, <2>1, RestingIsWellFormed, BecomesTypes DEF JobTypes
  <2>3. ASSUME NEW k \in Appointments
        PROVE  events'[k] + Cardinality(Counted(k)') + Free(k)' <= 1 + failures'
    <3>1. job'[r]["sync"] = Resting /\ (holder'["sync"] = r => job'[r]["sync"].pc # "idle")
      BY <1>0, <2>1, RestingIsWellFormed, BecomesKeeps
    <3>2. ~At(r, "publish", k)' /\ job'[r]["sync"].todo = {} /\ holder'["sync"] # r
      BY <3>1, RestingIsWellFormed DEF At
    <3>3. ~Counts(r, k)'
      BY <3>2 DEF Counts
    <3>4. ~At(r, "record", k)
      BY <1>0 DEF At
    <3>5. holder["sync"] = r /\ k \notin recorded' => Counts(r, k)
      BY <1>2, <3>4 DEF Counts
    <3> QED  BY <1>2, <2>1, <3>3, <3>5, RestingIsWellFormed, SyncBecomes
  <2> QED  BY <2>2, <2>3 DEF ShownInv, Appointments
<1>4. CASE job[r]["sync"].grant \notin revoked
  <2>1. Becomes(r, "sync", new) /\ events' = [events EXCEPT ![c] = @ + 1]
    BY <1>4 DEF Publish
  <2>2. new \in JobRecords /\ new.pc = "record" /\ new.todo = job[r]["sync"].todo
    BY <1>1 DEF JobRecords
  <2>3. WellFormed(new) /\ new # Resting
    BY <1>0, <2>2, RestingIsWellFormed DEF WellFormed, JobTypes
  <2> HIDE DEF new
  <2>4. events' \in [Appointments -> Nat] /\ events'[c] = events[c] + 1
        /\ \A k \in Appointments : k # c => events'[k] = events[k]
    BY <1>1, <2>1 DEF JobTypes
  <2>5. JobTypes'
    BY <1>0, <1>2, <2>1, <2>3, <2>4, BecomesTypes DEF JobTypes
  <2>6. job'[r]["sync"] = new /\ (holder'["sync"] = r => holder["sync"] = r)
    BY <1>0, <2>1, <2>3, BecomesKeeps
  <2>7. ASSUME NEW k \in Appointments
        PROVE  events'[k] + Cardinality(Counted(k)') + Free(k)' <= 1 + failures'
    <3>1. ~At(r, "record", k) /\ ~At(r, "publish", k)' /\ (At(r, "publish", k) <=> k = c)
      BY <1>0, <2>2, <2>6 DEF At
    <3>2. At(r, "record", k)' <=> k = c
      BY <2>2, <2>6 DEF At, Current
    <3>3. CASE k = c
      <4>1. Counts(r, k) /\ ~Counts(r, k)'
        BY <3>1, <3>2, <3>3 DEF Counts
      <4> QED  BY <1>2, <2>1, <2>3, <2>4, <3>3, <4>1, SyncBecomes
    <3>4. CASE k # c
      <4>1. Counts(r, k)' => Counts(r, k)
        BY <1>2, <2>2, <2>6, <3>1, <3>2, <3>4 DEF Counts
      <4> QED  BY <1>2, <2>1, <2>3, <2>4, <3>4, <4>1, SyncBecomes
    <3> QED  BY <3>3, <3>4
  <2> QED  BY <2>5, <2>7 DEF ShownInv, Appointments
<1> QED  BY <1>3, <1>4

LEMMA RecordKeeps ==
  ASSUME JobTypes, ShownInv, NEW r \in Replicas, Record(r)
  PROVE  JobTypes' /\ ShownInv'
<1> DEFINE c == Current(r, "sync")
           new == IF c \in recorded THEN Resting ELSE Following(r, "sync")
<1>0. "sync" \in Jobs /\ job[r]["sync"].pc = "record"
  BY DEF Jobs, Record
<1>1. c \in job[r]["sync"].todo /\ c \in Appointments
  BY <1>0, Running
<1>2. /\ recorded' = recorded \cup {c} /\ Becomes(r, "sync", new)
      /\ UNCHANGED <<events, stored, notified, failures>>
  BY DEF Record
<1>3. /\ WellFormed(new) /\ new.todo \subseteq job[r]["sync"].todo
      /\ new.pc \in {"idle", "connection", "store"}
  BY <1>0, FollowingIsWellFormed, RestingIsWellFormed
<1> HIDE DEF new
<1>4. JobTypes'
  BY <1>0, <1>1, <1>2, <1>3, BecomesTypes DEF JobTypes
<1>5. job'[r]["sync"] = new /\ (holder'["sync"] = r => holder["sync"] = r)
  BY <1>0, <1>2, <1>3, BecomesKeeps
<1>6. ASSUME NEW k \in Appointments
      PROVE  events'[k] + Cardinality(Counted(k)') + Free(k)' <= 1 + failures'
  <2>1. ~At(r, "publish", k)' /\ (At(r, "record", k) <=> k = c)
    BY <1>0, <1>3, <1>5 DEF At
  <2>2. Counts(r, k)' => Counts(r, k)
    BY <1>2, <1>3, <1>5, <2>1 DEF Counts
  <2>3. holder["sync"] = r /\ k \notin recorded' => Counts(r, k)
    BY <1>2, <2>1 DEF Counts
  <2> QED  BY <1>2, <1>3, <2>2, <2>3, SyncBecomes
<1> QED  BY <1>4, <1>6 DEF ShownInv, Appointments

LEMMA CutShortKeeps ==
  ASSUME JobTypes, ShownInv, NEW r \in Replicas, NEW j \in Jobs, CutShort(r, j)
  PROVE  JobTypes' /\ ShownInv'
<1>1. /\ Becomes(r, j, Resting) /\ failures' = failures + 1
      /\ UNCHANGED <<events, recorded, stored, notified>>
  BY DEF CutShort, Fails
<1>2. JobTypes'
  BY <1>1, RestingIsWellFormed, BecomesTypes DEF JobTypes
<1>3. CASE j = "urgent"
  <2>1. failures' \in Nat /\ failures <= failures'
    BY <1>1 DEF JobTypes
  <2> QED  BY <1>1, <1>2, <1>3, <2>1, RestingIsWellFormed, UrgentShown
<1>4. CASE j = "sync"
  <2>1. ASSUME NEW k \in Appointments
        PROVE  events'[k] + Cardinality(Counted(k)') + Free(k)' <= 1 + failures'
    <3>1. job'[r]["sync"] = Resting /\ (holder'["sync"] = r => job'[r]["sync"].pc # "idle")
      BY <1>1, <1>4, RestingIsWellFormed, BecomesKeeps
    <3>2. ~At(r, "publish", k)' /\ job'[r]["sync"].todo = {} /\ holder'["sync"] # r
      BY <3>1, RestingIsWellFormed DEF At
    <3>3. ~Counts(r, k)'
      BY <3>2 DEF Counts
    <3> QED  BY <1>1, <1>4, <3>3, RestingIsWellFormed, SyncBecomes
  <2> QED  BY <1>2, <2>1 DEF ShownInv, Appointments
<1> QED  BY <1>3, <1>4 DEF Jobs

LEMMA LoseLockKeeps ==
  ASSUME JobTypes, ShownInv, NEW j \in Jobs, LoseLock(j)
  PROVE  JobTypes' /\ ShownInv'
<1>0. "sync" \in Jobs
  BY DEF Jobs
<1>1. /\ holder' = [holder EXCEPT ![j] = None] /\ failures' = failures + 1
      /\ UNCHANGED <<events, recorded, stored, notified, job>>
  BY DEF LoseLock, Fails
<1>2. \A s \in Replicas : s # None
  BY JobsAssumption
<1>3. /\ holder' \in [Jobs -> Replicas \cup {None}]
      /\ \A i \in Jobs, s \in Replicas : holder'[i] = s => holder[i] = s
  BY <1>1, <1>2 DEF JobTypes
<1>4. failures' \in Nat
  BY <1>1 DEF JobTypes
<1>5. JobTypes'
  BY <1>1, <1>3, <1>4 DEF JobTypes, Appointments, JobRecords, WellFormed, Resting
<1>6. ASSUME NEW k \in Appointments
      PROVE  events'[k] + Cardinality(Counted(k)') + Free(k)' <= 1 + failures'
  <2>1. \A s \in Replicas : Counts(s, k)' => Counts(s, k)
    BY <1>0, <1>1, <1>3, CountsSame
  <2>2. Counted(k)' \subseteq Counted(k)
    BY <2>1 DEF Counted
  <2>3. /\ Cardinality(Counted(k)') \in Nat /\ Cardinality(Counted(k)) \in Nat
        /\ Cardinality(Counted(k)') <= Cardinality(Counted(k))
    BY <2>2, CountedIsFinite, FewerCounted
  <2>4. /\ events[k] \in Nat /\ events'[k] = events[k] /\ failures \in Nat
        /\ Free(k) \in {0, 1} /\ Free(k)' \in {0, 1}
    BY <1>1 DEF JobTypes, Free
  <2>5. events[k] + Cardinality(Counted(k)) + Free(k) <= 1 + failures
    BY DEF ShownInv
  <2> QED  BY <1>1, <2>3, <2>4, <2>5
<1> QED  BY <1>5, <1>6 DEF ShownInv, Appointments

----------------------------------------------------------------------------
(* The invariant *)

IInv == AuthorizationTypes /\ AttemptSettlesOnce /\ JobTypes /\ NoticeInv /\ ShownInv

LEMMA InitIInv == Init => IInv
<1> SUFFICES ASSUME Init PROVE IInv
  OBVIOUS
<1>1. AuthorizationTypes /\ AttemptSettlesOnce
  <2>1. NoAttempt \in AttemptRecords /\ NoAttempt.consumed = FALSE
    BY DEF NoAttempt, AttemptRecords
  <2> QED
    BY <2>1, IdleRecord
    DEF Init, AuthorizationsInit, AuthorizationTypes, AttemptSettlesOnce, NoGrant
<1>2. JobTypes
  <2>1. Resting \in JobRecords
    BY RestingIsWellFormed DEF WellFormed
  <2>2. \A r \in Replicas : r # None
    BY JobsAssumption
  <2> QED  BY <2>1, <2>2, RestingIsWellFormed, JobsAssumption DEF Init, JobTypes
<1>3. \A r \in Replicas, j \in Jobs : job[r][j] = Resting
  BY DEF Init
<1>4. NoticeInv
  <2>1. \A r \in Replicas, k \in Appointments : ~Notifying(r, k)
    BY <1>3, RestingIsWellFormed DEF Notifying, Jobs
  <2> QED  BY <2>1 DEF NoticeInv, NoticeOnce, Init
<1>5. ASSUME NEW k \in Appointments
      PROVE  events[k] + Cardinality(Counted(k)) + Free(k) <= 1 + failures
  <2>1. ASSUME NEW r \in Replicas
        PROVE  ~Counts(r, k)
    <3>1. job[r]["sync"] = Resting /\ holder["sync"] # r
      BY JobsAssumption DEF Init, Jobs
    <3> QED  BY <3>1, RestingIsWellFormed DEF Counts, At
  <2>2. Counted(k) = {}
    BY <2>1 DEF Counted
  <2>3. Cardinality(Counted(k)) = 0
    BY <2>2, FS_EmptySet
  <2>4. events[k] = 0 /\ failures = 0 /\ Free(k) \in {0, 1}
    BY DEF Init, Free
  <2> QED  BY <2>3, <2>4
<1> QED  BY <1>1, <1>2, <1>4, <1>5 DEF IInv, ShownInv

\* A step that leaves the jobs as they are.
LEMMA JobsUnchanged ==
  ASSUME JobTypes, NoticeInv, ShownInv,
         UNCHANGED <<recorded, events, stored, notified, holder, job, failures>>
  PROVE  JobTypes' /\ NoticeInv' /\ ShownInv'
<1>1. JobTypes'
  BY DEF JobTypes, Appointments, JobRecords, WellFormed, Resting
<1>2. NoticeInv'
  BY NotifyingSame, NoticeUnchanged
<1>3. ShownInv'
  BY ShownUnchanged DEF JobTypes
<1> QED  BY <1>1, <1>2, <1>3

\* A step of one sync, with what it becomes.
LEMMA SyncNotice ==
  ASSUME JobTypes, NoticeInv, NEW r \in Replicas,
         ReadConnection(r) \/ CheckRecorded(r) \/ Publish(r) \/ Record(r)
  PROVE  NoticeInv'
<1>1. /\ UNCHANGED <<stored, notified>>
      /\ \A s \in Replicas : job'[s]["urgent"] = job[s]["urgent"]
  BY DEF ReadConnection, CheckRecorded, Publish, Record, Becomes, JobTypes, Jobs
<1> QED  BY <1>1, NotifyingSame, NoticeUnchanged

LEMMA StoreTypes ==
  ASSUME JobTypes, ShownInv, NEW r \in Replicas, StoreNotice(r) \/ Notify(r)
  PROVE  JobTypes' /\ ShownInv'
<1> DEFINE new == [job[r]["urgent"] EXCEPT !.pc = "notify"]
<1>0. "urgent" \in Jobs /\ job[r]["urgent"].pc \in {"store", "notify"}
  BY DEF Jobs, StoreNotice, Notify
<1>1. job[r]["urgent"] \in JobRecords /\ Current(r, "urgent") \in Appointments
  BY <1>0, Running
<1>2. new \in JobRecords /\ new.pc = "notify" /\ new.todo = job[r]["urgent"].todo
  BY <1>1 DEF JobRecords
<1>3. WellFormed(new) /\ WellFormed(Following(r, "urgent"))
  <2>1. job[r]["urgent"].todo # {}
    BY <1>0 DEF WellFormed, JobTypes
  <2>2. WellFormed(new)
    BY <1>2, <2>1 DEF WellFormed
  <2> QED  BY <1>0, <2>2, FollowingIsWellFormed
<1> HIDE DEF new
<1>4. UNCHANGED <<recorded, events, failures>> /\ failures' \in Nat /\ failures <= failures'
  BY DEF StoreNotice, Notify, JobTypes
<1>5. stored' \in [Appointments -> Nat] /\ notified' \in [Appointments -> Nat]
  BY <1>1 DEF StoreNotice, Notify, JobTypes
<1>6. Becomes(r, "urgent", new) \/ Becomes(r, "urgent", Following(r, "urgent"))
  BY DEF StoreNotice, Notify, new
<1>7. JobTypes'
  BY <1>0, <1>3, <1>4, <1>5, <1>6, BecomesTypes DEF JobTypes
<1> QED  BY <1>3, <1>4, <1>6, <1>7, UrgentShown

THEOREM Inductive == IInv /\ [Next]_vars => IInv'
<1> SUFFICES ASSUME IInv, [Next]_vars PROVE IInv'
  OBVIOUS
<1> USE DEF IInv
<1>1. ASSUME UNCHANGED authorizations
      PROVE  AuthorizationTypes' /\ AttemptSettlesOnce'
  BY <1>1 DEF authorizations, AuthorizationTypes, AttemptSettlesOnce
<1>2. CASE AuthorizationsNext /\ UNCHANGED jobs
  BY <1>2, AuthorizationStep, JobsUnchanged DEF jobs
<1>3. ASSUME NEW o \in Orders, Book(o) \/ Approach(o)
      PROVE  IInv'
  BY <1>1, <1>3, JobsUnchanged DEF Book, Approach
<1>4. ASSUME NEW j \in Jobs, LoseLock(j)
      PROVE  IInv'
  <2>1. UNCHANGED <<authorizations, stored, notified, job>>
    BY <1>4 DEF LoseLock
  <2>2. NoticeInv'
    BY <2>1, NotifyingSame, NoticeUnchanged
  <2> QED  BY <1>1, <1>4, <2>1, <2>2, LoseLockKeeps
<1>5. ASSUME NEW r \in Replicas, NoticeFails(r)
      PROVE  IInv'
  <2>1. /\ Becomes(r, "urgent", Following(r, "urgent")) /\ failures' = failures + 1
        /\ UNCHANGED <<authorizations, recorded, events, stored, notified>>
    BY <1>5 DEF NoticeFails, Fails
  <2>2. "urgent" \in Jobs /\ failures' \in Nat /\ failures <= failures'
    BY <2>1 DEF Jobs, JobTypes
  <2>3. /\ WellFormed(Following(r, "urgent"))
        /\ Following(r, "urgent").pc # "notify"
    BY <2>2, FollowingIsWellFormed
  <2>4. JobTypes'
    BY <2>1, <2>2, <2>3, BecomesTypes DEF JobTypes
  <2>5. NoticeInv'
    BY <2>1, <2>2, <2>3, NoticeBecomes
  <2> QED  BY <1>1, <2>1, <2>2, <2>3, <2>4, <2>5, UrgentShown
<1>6. ASSUME NEW r \in Replicas, NEW j \in Jobs, StartJob(r, j)
      PROVE  IInv'
  <2>1. UNCHANGED <<authorizations, stored, notified>>
    BY <1>6 DEF StartJob
  <2>2. ASSUME NEW s \in Replicas, NEW k \in Appointments, Notifying(s, k)'
        PROVE  Notifying(s, k)
    <3>1. CASE s = r /\ j = "urgent"
      <4>1. job'[s]["urgent"].pc = "store"
        BY <1>6, <3>1 DEF StartJob, JobTypes
      <4> QED  BY <2>2, <4>1, NotifyingOnlyThen
    <3>2. CASE ~(s = r /\ j = "urgent")
      <4>1. job'[s]["urgent"] = job[s]["urgent"]
        BY <1>6, <3>2 DEF StartJob, JobTypes, Jobs
      <4> QED  BY <2>2, <4>1, NotifyingSame
    <3> QED  BY <3>1, <3>2
  <2> QED  BY <1>1, <1>6, <2>1, <2>2, NoticeUnchanged, StartJobKeeps
<1>7. ASSUME NEW r \in Replicas, NEW j \in Jobs, JobStep(r, j)
      PROVE  IInv'
  <2>1. UNCHANGED authorizations
    BY <1>7 DEF JobStep, ReadConnection, CheckRecorded, Publish, Record, StoreNotice, Notify
  <2>2. connection \in [Users -> Nat]
    BY DEF AuthorizationTypes
  <2>3. CASE ReadConnection(r) \/ CheckRecorded(r) \/ Publish(r) \/ Record(r)
    BY <1>1, <2>1, <2>2, <2>3, SyncNotice, ReadConnectionKeeps, CheckRecordedKeeps,
       PublishKeeps, RecordKeeps
  <2>4. CASE StoreNotice(r) \/ Notify(r)
    BY <1>1, <2>1, <2>4, StoreTypes, StoreNoticeKeeps, NotifyKeeps
  <2> QED  BY <1>7, <2>3, <2>4 DEF JobStep
<1>8. ASSUME NEW r \in Replicas, NEW j \in Jobs, CutShort(r, j)
      PROVE  IInv'
  <2>1. Becomes(r, j, Resting) /\ UNCHANGED <<authorizations, stored, notified>>
    BY <1>8 DEF CutShort
  <2>2. NoticeInv'
    BY <2>1, RestingIsWellFormed, NoticeBecomes
  <2> QED  BY <1>1, <1>8, <2>1, <2>2, CutShortKeeps
<1>9. CASE UNCHANGED vars
  BY <1>1, <1>9, JobsUnchanged DEF vars, jobs
<1> QED
  BY <1>2, <1>3, <1>4, <1>5, <1>6, <1>7, <1>8, <1>9 DEF Next

\* For any number of callbacks, one of an attempt's settles it, and no account of the
\* payment provider is linked to two users (SaveFromAuthorization, Consume).
THEOREM SettledOnce == Spec => []AttemptSettlesOnce
<1>1. IInv => AttemptSettlesOnce
  BY DEF IInv
<1> QED  BY <1>1, InitIInv, Inductive, PTL DEF Spec

\* For any number of replicas and failures, an appointment is shown once and once more
\* for each failure at most (Sync under its try-lock and the rows of its events).
THEOREM ShownOnce == Spec => []ShownOncePerFailure
<1>1. IInv => ShownOncePerFailure
  <2> SUFFICES ASSUME IInv, NEW k \in Appointments PROVE events[k] <= 1 + failures
    BY DEF ShownOncePerFailure
  <2>1. events[k] \in Nat /\ failures \in Nat
    BY DEF IInv, JobTypes
  <2>2. Cardinality(Counted(k)) \in Nat /\ Free(k) \in Nat
    BY CountedIsFinite
  <2>3. events[k] + Cardinality(Counted(k)) + Free(k) <= 1 + failures
    BY DEF IInv, ShownInv
  <2> QED  BY <2>1, <2>2, <2>3
<1> QED  BY <1>1, InitIInv, Inductive, PTL DEF Spec

\* However many replicas run the job at once, a participant has one urgent notification
\* of an order and is told of it once at most (UrgentNotification, SaveIfAbsent).
THEOREM ToldOnce == Spec => []NoticeOnce
<1>1. IInv => NoticeOnce
  BY DEF IInv, NoticeInv
<1> QED  BY <1>1, InitIInv, Inductive, PTL DEF Spec
=============================================================================
