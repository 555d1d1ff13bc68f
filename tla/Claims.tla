------------------------------- MODULE Claims -------------------------------
(***************************************************************************)
(* The claims of one party: claim.Service.Submit and the administration of *)
(* claim.AdminService by one operator, over the tables claims,             *)
(* claim_images, claim_actions, claim_administration_records and the audit *)
(* events.                                                                 *)
(*                                                                         *)
(* A call is one request being served.  A submission's transaction takes   *)
(* what unique indexes guard one insert at a time, and an insert waits for *)
(* a transaction in flight that holds the same entry.  An administration   *)
(* locks its claim and writes everything it changes in one commit.         *)
(***************************************************************************)
EXTENDS Integers, FiniteSets

CONSTANTS
  Calls,        \* calls the replicas can serve at the same time
  Keys,         \* idempotency keys, of submissions and of administrations
  Operations,   \* operations the party can claim about
  Files,        \* evidence files, ordered as their ids are
  MaxClaims,    \* bound: claims that can ever be saved
  MaxFiles,     \* images a claim may have
  MaxFailures,  \* bound: calls that may be cut short
  None          \* no key, no operation, no claim

ASSUME ConstantsAssumption ==
  /\ MaxClaims \in Nat /\ MaxFiles \in Nat /\ MaxFailures \in Nat
  /\ Files \subseteq Nat
  /\ None \notin Keys \cup Operations \cup Nat

VARIABLES
  claim,        \* claims and claim_images
  acted,        \* claim_actions of the operator, by claim and decision
  audited,      \* audit events of claims, by claim and decision
  record,       \* claim_administration_records
  submit,       \* what each call is doing as a submission
  admin,        \* what each call is doing as an administration
  failures      \* how many calls were cut short

vars == <<claim, acted, audited, record, submit, admin, failures>>
administration == <<acted, audited, record, admin>>

Claims == 1..MaxClaims
Payloads == [operation: Operations, files: {f \in SUBSET Files : Cardinality(f) <= MaxFiles}]
NoPayload == [operation |-> None, files |-> {}]

\* What an operator may do with a claim; the two kinds of resolution close it
\* as resolved or as dismissed.
Decisions == {"review", "favor", "dismiss"}

Statuses == {"absent", "open", "in_review", "resolved", "dismissed"}
Unfinished == {"open", "in_review"}

NoClaim == [status |-> "absent", key |-> None, payload |-> NoPayload]

New(key, payload) == [status |-> "open", key |-> key, payload |-> payload]

Saved == {i \in Claims : claim[i].status # "absent"}

NoRecord == [claim |-> None, decision |-> "review"]

\* What a call answers: a claim, the decision the key stands for, or a refusal.
Refusals == {"none", "key_conflict", "refused", "record_conflict"}

NotSubmitting == [step |-> "idle", key |-> None, payload |-> NoPayload, left |-> {}, answer |-> None, refusal |-> "none"]
Submitting(key, payload) ==
  [step |-> "insert", key |-> key, payload |-> payload, left |-> {}, answer |-> None, refusal |-> "none"]
NotAdministering == [step |-> "idle", key |-> None, claim |-> None, decision |-> "review", run |-> 1, refusal |-> "none"]

\* A refused call holds nothing but its refusal.
Refused(refusal) == [NotSubmitting EXCEPT !.refusal = refusal]
NotAdministered(refusal) == [NotAdministering EXCEPT !.refusal = refusal]

\* A call that begins forgets what it answered before.
IsFree(c) == submit[c].step \in {"idle", "done"} /\ admin[c].step \in {"idle", "done"}

----------------------------------------------------------------------------
(* Submit *)

\* Mutant: the fingerprint is not compared.
MatchesSubmission_Always(i, payload) == TRUE
MatchesSubmission(i, payload) == claim[i].payload = payload

\* replay: what a submission ends with when its key has a claim, and goes on
\* with when it has none.
Replayed(call, otherwise) ==
  IF \E i \in Saved : claim[i].key = call.key
    THEN LET i == CHOOSE j \in Saved : claim[j].key = call.key IN
         IF MatchesSubmission(i, call.payload)
           THEN [call EXCEPT !.step = "done", !.answer = i]
           ELSE Refused("key_conflict")
    ELSE otherwise

\* Up to the save.  The checks on the operation and the images read nothing a
\* call of this module changes.
Submit(c, key, payload) ==
  /\ IsFree(c)
  /\ submit' = [submit EXCEPT ![c] = Replayed(Submitting(key, payload), Submitting(key, payload))]
  /\ admin' = [admin EXCEPT ![c] = NotAdministering]
  /\ UNCHANGED <<claim, acted, audited, record, failures>>

InFlight == {d \in Calls : submit[d].step = "images"}
Conflicts(c, d) ==
  submit[d].key = submit[c].key \/ submit[d].payload.operation = submit[c].payload.operation

\* Mutant: no partial index over the unfinished claims.
OperationIsFree_Always(operation) == TRUE
OperationIsFree(operation) ==
  \A i \in Saved : claim[i].status \in Unfinished => claim[i].payload.operation # operation

KeyIsFree(key) == \A i \in Saved : claim[i].key # key

\* Mutant: a conflict ends the call.
AfterConflict_Refused(c) == Refused("refused")
\* Whichever index refused the claim, its key is looked up again.
AfterConflict(c) == [submit[c] EXCEPT !.step = "replay", !.left = {}]

\* The claim's insert, which begins the transaction.
InsertClaim(c) ==
  /\ submit[c].step = "insert"
  /\ \A d \in InFlight : ~Conflicts(c, d)
  /\ submit' = [submit EXCEPT ![c] =
       IF KeyIsFree(@.key) /\ OperationIsFree(@.payload.operation)
         THEN [@ EXCEPT !.step = "images", !.left = submit[c].payload.files]
         ELSE AfterConflict(c)]
  /\ UNCHANGED <<claim, administration, failures>>

\* Mutant: the images are inserted in the order the client named them.
Following_AnyOrder(files) == files
\* The image inserted next: Normalize sorted them.
Following(files) == {f \in files : \A g \in files : f <= g}

FileIsFree(f) == \A i \in Saved : f \notin claim[i].payload.files

HeldByAnother(c, f) ==
  \E d \in InFlight \ {c} : f \in submit[d].payload.files \ submit[d].left

\* An image's insert.
InsertImage(c, f) ==
  /\ submit[c].step = "images"
  /\ f \in Following(submit[c].left)
  /\ ~HeldByAnother(c, f)
  /\ submit' = [submit EXCEPT ![c] =
       IF FileIsFree(f) THEN [submit[c] EXCEPT !.left = submit[c].left \ {f}] ELSE AfterConflict(c)]
  /\ UNCHANGED <<claim, administration, failures>>

\* The commit, of the claim and all its images.
CommitClaim(c, i) ==
  /\ submit[c].step = "images" /\ submit[c].left = {}
  /\ i \notin Saved /\ 1..(i - 1) \subseteq Saved
  /\ claim' = [claim EXCEPT ![i] = New(submit[c].key, submit[c].payload)]
  /\ submit' = [submit EXCEPT ![c] = [@ EXCEPT !.step = "done", !.answer = i]]
  /\ UNCHANGED <<administration, failures>>

\* The second replay.
Replay(c) ==
  /\ submit[c].step = "replay"
  /\ submit' = [submit EXCEPT ![c] = Replayed(@, Refused("refused"))]
  /\ UNCHANGED <<claim, administration, failures>>

----------------------------------------------------------------------------
(* StartReview and Resolve *)

Administer(c, key, i, decision) ==
  /\ IsFree(c) /\ i \in Saved
  /\ admin' = [admin EXCEPT ![c] =
       [NotAdministering EXCEPT !.step = "lock", !.key = key, !.claim = i, !.decision = decision]]
  /\ submit' = [submit EXCEPT ![c] = NotSubmitting]
  /\ UNCHANGED <<claim, acted, audited, record, failures>>

Takes(decision) == IF decision = "review" THEN "open" ELSE "in_review"
Leads(decision) ==
  CASE decision = "review"  -> "in_review"
    [] decision = "favor"   -> "resolved"
    [] decision = "dismiss" -> "dismissed"

MayTake(c) == claim[admin[c].claim].status = Takes(admin[c].decision)

Entry(c) == [claim |-> admin[c].claim, decision |-> admin[c].decision]

\* FindRecord and the decision: a key that is known is answered or refused, and so
\* is a decision the claim's status does not take.
Decided(c) ==
  LET found == record[admin[c].key] IN
  CASE found = Entry(c)                -> [admin[c] EXCEPT !.step = "done"]
    [] found \notin {NoRecord, Entry(c)} -> NotAdministered("key_conflict")
    [] found = NoRecord /\ ~MayTake(c) -> NotAdministered("refused")
    [] OTHER                           -> [admin[c] EXCEPT !.step = "write"]

\* FindClaim locks the claim for the rest of the transaction.
LockClaim(c) ==
  /\ admin[c].step = "lock"
  /\ \A d \in Calls : admin[d].step = "write" => admin[d].claim # admin[c].claim
  /\ admin' = [admin EXCEPT ![c] = Decided(c)]
  /\ UNCHANGED <<claim, acted, audited, record, submit, failures>>

\* Mutant: the record is written over one that another transaction committed.
RecordIsFree_Always(key) == TRUE
RecordIsFree(key) == record[key] = NoRecord

\* A rolled back transaction leaves nothing.
Rollback(c) == UNCHANGED audited

\* SaveClaim, SaveAuditEvent, SaveRecord and the commit.
CommitAdministration(c) ==
  LET i == admin[c].claim
      decision == admin[c].decision IN
  /\ admin[c].step = "write"
  /\ RecordIsFree(admin[c].key)
  /\ claim' = [claim EXCEPT ![i].status = Leads(decision)]
  /\ acted' = [acted EXCEPT ![i][decision] = @ + 1]
  /\ audited' = [audited EXCEPT ![i][decision] = @ + 1]
  /\ record' = [record EXCEPT ![admin[c].key] = Entry(c)]
  /\ admin' = [admin EXCEPT ![c].step = "done"]
  /\ UNCHANGED <<submit, failures>>

MayRunAgain(run) == run = 1

\* SaveRecord meets a record that another transaction committed with the same
\* key: this one rolls back and runs once more.
RecordConflict(c) ==
  /\ admin[c].step = "write"
  /\ ~RecordIsFree(admin[c].key)
  /\ admin' = [admin EXCEPT ![c] =
       IF MayRunAgain(@.run) THEN [@ EXCEPT !.step = "lock", !.run = 2]
                             ELSE NotAdministered("record_conflict")]
  /\ Rollback(c)
  /\ UNCHANGED <<claim, acted, record, submit, failures>>

----------------------------------------------------------------------------
\* A statement fails, the client leaves or the replica dies: what the call's
\* transaction did is rolled back, and the client may ask again.
CutShort(c) ==
  /\ ~IsFree(c)
  /\ failures < MaxFailures
  /\ failures' = failures + 1
  /\ submit' = [submit EXCEPT ![c] = NotSubmitting]
  /\ admin' = [admin EXCEPT ![c] = NotAdministering]
  /\ UNCHANGED <<claim, acted, audited, record>>

Init ==
  /\ claim = [i \in Claims |-> NoClaim]
  /\ acted = [i \in Claims |-> [d \in Decisions |-> 0]]
  /\ audited = [i \in Claims |-> [d \in Decisions |-> 0]]
  /\ record = [k \in Keys |-> NoRecord]
  /\ submit = [c \in Calls |-> NotSubmitting]
  /\ admin = [c \in Calls |-> NotAdministering]
  /\ failures = 0

Next ==
  \E c \in Calls :
    \/ \E key \in Keys, payload \in Payloads : Submit(c, key, payload)
    \/ InsertClaim(c)
    \/ \E f \in Files : InsertImage(c, f)
    \/ \E i \in Claims : CommitClaim(c, i)
    \/ Replay(c)
    \/ \E key \in Keys, i \in Claims, decision \in Decisions : Administer(c, key, i, decision)
    \/ LockClaim(c)
    \/ CommitAdministration(c)
    \/ RecordConflict(c)
    \/ CutShort(c)

Spec == Init /\ [][Next]_vars

----------------------------------------------------------------------------
(* Properties *)

Submissions == [step: {"idle", "insert", "images", "replay", "done"}, key: Keys \cup {None},
                payload: Payloads \cup {NoPayload}, left: SUBSET Files,
                answer: Claims \cup {None}, refusal: Refusals]
Administrations == [step: {"idle", "lock", "write", "done"}, key: Keys \cup {None},
                    claim: Claims \cup {None}, decision: Decisions, run: {1, 2}, refusal: Refusals]

\* Types of the tables and of what the calls hold.
TypeOK ==
  /\ claim \in [Claims -> [status: Statuses, key: Keys \cup {None}, payload: Payloads \cup {NoPayload}]]
  /\ acted \in [Claims -> [Decisions -> Nat]]
  /\ audited \in [Claims -> [Decisions -> Nat]]
  /\ record \in [Keys -> [claim: Claims \cup {None}, decision: Decisions]]
  /\ submit \in [Calls -> Submissions]
  /\ admin \in [Calls -> Administrations]
  /\ failures \in 0..MaxFailures

\* The party has at most one unfinished claim about an operation, whatever
\* submissions race and whichever claims are closed meanwhile.
OneUnfinishedClaim ==
  \A i, j \in Saved :
    /\ claim[i].status \in Unfinished /\ claim[j].status \in Unfinished
    /\ claim[i].payload.operation = claim[j].payload.operation
    => i = j

\* A file is the evidence of one claim.
EvidenceIsExclusive ==
  \A i, j \in Saved : claim[i].payload.files \cap claim[j].payload.files # {} => i = j

\* A key has one claim, and a submission is answered a claim only when the claim
\* has its key and says what the submission says.
SameKeySameClaim ==
  /\ \A i, j \in Saved : claim[i].key = claim[j].key => i = j
  /\ \A c \in Calls : submit[c].answer # None =>
       /\ submit[c].answer \in Saved
       /\ claim[submit[c].answer].key = submit[c].key
       /\ claim[submit[c].answer].payload = submit[c].payload

\* Submissions that race leave one unfinished claim of an operation and one claim of
\* each file and key, and are answered no other claim than their own.
SubmissionsExclude == OneUnfinishedClaim /\ EvidenceIsExclusive /\ SameKeySameClaim

\* A submission that lost a race is never refused when its key has a claim by
\* then: a client that sent it twice is answered the claim both times.
RetryIsAnswered ==
  [][\A c \in Calls : submit'[c].refusal = "refused" /\ submit[c].refusal # "refused"
       => KeyIsFree(submit[c].key)]_vars

\* Submissions in flight never all wait for each other's claims and images.
Waits(c) ==
  /\ submit[c].left # {}
  /\ \A f \in Following(submit[c].left) : HeldByAnother(c, f)
SomeoneProceeds == InFlight # {} => \E c \in InFlight : ~Waits(c)

\* A key of the operator stands for one action that was taken once, and every
\* action taken has one key, although the same key may be used for two claims at
\* the same time; an answered administration is the one its key stands for.
KeyActsOnce ==
  /\ \A k, l \in Keys : record[k] = record[l] /\ record[k] # NoRecord => k = l
  /\ \A i \in Claims, d \in Decisions :
       acted[i][d] = IF \E k \in Keys : record[k] = [claim |-> i, decision |-> d] THEN 1 ELSE 0
  /\ \A c \in Calls : admin[c].step = "done" =>
       record[admin[c].key] = Entry(c)

\* Every decision taken was audited once, and no decision that was rolled back.
AuditMatches == audited = acted

\* A claim took the review and at most one resolution, in that order.
DecidedInOrder ==
  \A i \in Claims :
    LET status == claim[i].status IN
    /\ acted[i]["review"]  = IF status \in {"in_review", "resolved", "dismissed"} THEN 1 ELSE 0
    /\ acted[i]["favor"]   = IF status = "resolved" THEN 1 ELSE 0
    /\ acted[i]["dismiss"] = IF status = "dismissed" THEN 1 ELSE 0

\* A decision leaves the same trace everywhere: one key, one audit event, and the
\* claim's status, also when its first run met another transaction's record.
DecisionsAgree == KeyActsOnce /\ AuditMatches /\ DecidedInOrder

\* The second run of an administration answers it or refuses its key: a conflict
\* over the record reaches no client.
ConflictIsResolved == \A c \in Calls : admin[c].refusal # "record_conflict"
=============================================================================
