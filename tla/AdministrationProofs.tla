------------------------- MODULE AdministrationProofs -------------------------
(***************************************************************************)
(* For any number of calls, keys, operations, files and claims: the unique *)
(* indexes and the locked claim keep one unfinished claim per operation,   *)
(* one claim per key and file, and one action per key of the operator, and *)
(* the order of images keeps submissions from waiting for each other.      *)
(* And of what else operators administer: decisions about a review know     *)
(* the earlier ones, nothing joins a disabled category, and the evidence    *)
(* they see is what was accepted.                                           *)
(***************************************************************************)
EXTENDS Claims, ReviewModeration, Categories, Files, FiniteSetTheorems, TLAPS

Held(c) == submit[c].payload.files \ submit[c].left

\* What a transaction in flight has inserted, no claim and no other one has.
FlightInv ==
  /\ \A c \in Calls : submit[c].step \in {"insert", "images"} =>
       submit[c].key \in Keys /\ submit[c].payload \in Payloads /\ submit[c].answer = None
  /\ \A c \in InFlight :
       /\ submit[c].left \subseteq submit[c].payload.files
       /\ KeyIsFree(submit[c].key) /\ OperationIsFree(submit[c].payload.operation)
       /\ \A f \in Held(c) : FileIsFree(f)
       /\ \A d \in InFlight \ {c} : ~Conflicts(c, d) /\ Held(c) \cap Held(d) = {}

\* An administration is of a saved claim; one that writes has its claim for itself,
\* as it read it, and one that runs again finds its key's record.
AdminInv ==
  \A c \in Calls :
    /\ admin[c].step \in {"lock", "write", "done"} => admin[c].claim \in Saved /\ admin[c].key \in Keys
    /\ admin[c].step = "lock" /\ admin[c].run = 2 => record[admin[c].key] # NoRecord
    /\ admin[c].step = "write" =>
         /\ MayTake(c) /\ admin[c].run = 1
         /\ \A d \in Calls \ {c} : admin[d].step = "write" => admin[d].claim # admin[c].claim

\* A record is of a claim.
RecordsInv == \A k \in Keys : record[k].claim = None => record[k] = NoRecord

IInv ==
  /\ TypeOK
  /\ FlightInv /\ OneUnfinishedClaim /\ EvidenceIsExclusive /\ SameKeySameClaim
  /\ AdminInv /\ RecordsInv /\ KeyActsOnce /\ DecidedInOrder /\ ConflictIsResolved

\* What a replay ends with: the claim of the call's key, a refusal, or otherwise.
LEMMA ReplayedFacts ==
  ASSUME TypeOK, NEW call \in Submissions, NEW otherwise
  PROVE  LET new == Replayed(call, otherwise) IN
         \/ KeyIsFree(call.key) /\ new = otherwise
         \/ /\ ~KeyIsFree(call.key)
            /\ new \in Submissions
            /\ (new.refusal = "refused" => call.refusal = "refused")
            /\ \/ new.step = "idle" /\ new.answer = None
               \/ /\ new.step = "done" /\ new.answer \in Saved
                  /\ claim[new.answer].key = new.key /\ claim[new.answer].payload = new.payload
<1>1. CASE KeyIsFree(call.key)
  BY <1>1 DEF Replayed, KeyIsFree
<1>2. CASE ~KeyIsFree(call.key)
  <2> DEFINE i == CHOOSE j \in Saved : claim[j].key = call.key
             new == Replayed(call, otherwise)
  <2>1. i \in Saved /\ claim[i].key = call.key
    BY <1>2 DEF KeyIsFree
  <2>2. new = IF MatchesSubmission(i, call.payload)
                THEN [call EXCEPT !.step = "done", !.answer = i]
                ELSE Refused("key_conflict")
    BY <1>2 DEF Replayed, KeyIsFree
  <2>3. CASE MatchesSubmission(i, call.payload)
    BY <1>2, <2>1, <2>2, <2>3 DEF MatchesSubmission, Submissions, Saved
  <2>4. CASE ~MatchesSubmission(i, call.payload)
    BY <1>2, <2>2, <2>4 DEF Refused, NotSubmitting, Submissions, Refusals
  <2>5. QED
    BY <2>3, <2>4
<1>3. QED
  BY <1>1, <1>2

\* A submission that begins is before its save, answered, or refused.
LEMMA SubmitFacts ==
  ASSUME TypeOK, NEW c \in Calls, NEW key \in Keys, NEW payload \in Payloads, Submit(c, key, payload)
  PROVE  /\ submit'[c] \in Submissions /\ \A d \in Calls \ {c} : submit'[d] = submit[d]
         /\ submit' \in [Calls -> Submissions]
         /\ submit'[c].refusal # "refused"
         /\ \/ submit'[c] = Submitting(key, payload)
            \/ submit'[c].step = "idle" /\ submit'[c].answer = None
            \/ /\ submit'[c].step = "done" /\ submit'[c].answer \in Saved
               /\ claim[submit'[c].answer].key = submit'[c].key
               /\ claim[submit'[c].answer].payload = submit'[c].payload
<1> DEFINE call == Submitting(key, payload)
<1>1. call \in Submissions /\ call.refusal = "none"
  BY DEF Submitting, Submissions, Refusals
<1> HIDE DEF call
<1>2. submit' = [submit EXCEPT ![c] = Replayed(call, call)]
  BY DEF Submit, call
<1>3. submit'[c] = Replayed(call, call) /\ \A d \in Calls \ {c} : submit'[d] = submit[d]
  BY <1>2 DEF TypeOK
<1>4. Replayed(call, call) \in Submissions
  BY <1>1, ReplayedFacts
<1>5. submit' \in [Calls -> Submissions]
  BY <1>2, <1>4 DEF TypeOK
<1>6. QED
  BY <1>1, <1>3, <1>4, <1>5, ReplayedFacts DEF call

\* The second replay answers the claim of the key, or refuses when it has none.
LEMMA ReplayFacts ==
  ASSUME TypeOK, NEW c \in Calls, Replay(c)
  PROVE  /\ submit'[c] \in Submissions /\ \A d \in Calls \ {c} : submit'[d] = submit[d]
         /\ submit' \in [Calls -> Submissions]
         /\ \/ KeyIsFree(submit[c].key) /\ submit'[c] = Refused("refused")
            \/ /\ submit'[c].refusal = "refused" => submit[c].refusal = "refused"
               /\ \/ submit'[c].step = "idle" /\ submit'[c].answer = None
                  \/ /\ submit'[c].step = "done" /\ submit'[c].answer \in Saved
                     /\ claim[submit'[c].answer].key = submit'[c].key
                     /\ claim[submit'[c].answer].payload = submit'[c].payload
<1> DEFINE new == Replayed(submit[c], Refused("refused"))
<1>1. submit[c] \in Submissions
  BY DEF TypeOK
<1>2. Refused("refused") \in Submissions
  BY DEF Refused, NotSubmitting, Submissions, Refusals
<1>3. new \in Submissions
  BY <1>1, <1>2, ReplayedFacts
<1>4. submit' = [submit EXCEPT ![c] = new]
  BY DEF Replay
<1> HIDE DEF new
<1>5. submit'[c] = new /\ submit' \in [Calls -> Submissions] /\ \A d \in Calls \ {c} : submit'[d] = submit[d]
  BY <1>3, <1>4 DEF TypeOK
<1>6. QED
  BY <1>1, <1>3, <1>5, ReplayedFacts DEF new

\* A saved claim and its administration's commit.
LEMMA CommitFacts ==
  ASSUME TypeOK, AdminInv, NEW c \in Calls, CommitAdministration(c)
  PROVE  LET i == admin[c].claim
             d == admin[c].decision IN
         /\ admin[c].step = "write" /\ i \in Saved /\ i \in Claims /\ d \in Decisions
         /\ admin[c].key \in Keys /\ record[admin[c].key] = NoRecord
         /\ claim[i].status = Takes(d) /\ claim'[i].status = Leads(d)
         /\ Saved' = Saved
         /\ \A j \in Claims : claim'[j].key = claim[j].key /\ claim'[j].payload = claim[j].payload
         /\ \A j \in Claims \ {i} : claim'[j] = claim[j]
         /\ claim' \in [Claims -> [status: Statuses, key: Keys \cup {None}, payload: Payloads \cup {NoPayload}]]
<1> DEFINE i == admin[c].claim
           d == admin[c].decision
<1>1. /\ admin[c].step = "write" /\ i \in Saved /\ i \in Claims /\ d \in Decisions
      /\ admin[c].key \in Keys /\ record[admin[c].key] = NoRecord /\ claim[i].status = Takes(d)
  BY DEF CommitAdministration, AdminInv, TypeOK, Administrations, Saved, RecordIsFree, MayTake
<1>2. claim' = [claim EXCEPT ![i].status = Leads(d)]
  BY DEF CommitAdministration
<1>3. Leads(d) \in Statuses \ {"absent"}
  BY <1>1 DEF Leads, Decisions, Statuses
<1> HIDE DEF i, d
<1>4. /\ claim'[i].status = Leads(d)
      /\ \A j \in Claims : claim'[j].key = claim[j].key /\ claim'[j].payload = claim[j].payload
      /\ \A j \in Claims \ {i} : claim'[j] = claim[j]
      /\ claim' \in [Claims -> [status: Statuses, key: Keys \cup {None}, payload: Payloads \cup {NoPayload}]]
  BY <1>1, <1>2, <1>3 DEF TypeOK
<1>5. Saved' = Saved
  BY <1>1, <1>3, <1>4 DEF Saved
<1>6. QED
  BY <1>1, <1>4, <1>5 DEF i, d

\* Every step keeps the types.
LEMMA TypesStep ==
  ASSUME TypeOK, AdminInv, FlightInv, [Next]_vars
  PROVE  TypeOK'
<1> USE ConstantsAssumption
<1>0. CASE UNCHANGED vars
  BY <1>0 DEF vars, TypeOK
<1>1. ASSUME NEW c \in Calls, NEW key \in Keys, NEW payload \in Payloads, Submit(c, key, payload) PROVE TypeOK'
  <2>1. submit' \in [Calls -> Submissions]
    BY <1>1, SubmitFacts
  <2>2. admin' \in [Calls -> Administrations]
    BY <1>1 DEF Submit, TypeOK, NotAdministering, Administrations, Refusals, Decisions
  <2>3. UNCHANGED <<claim, acted, audited, record, failures>>
    BY <1>1 DEF Submit
  <2>4. QED
    BY <2>1, <2>2, <2>3 DEF TypeOK
<1>2. ASSUME NEW c \in Calls, InsertClaim(c) \/ (\E f \in Files : InsertImage(c, f)) PROVE TypeOK'
  <2>1. submit[c] \in Submissions /\ submit[c].payload.files \subseteq Files
    BY <1>2 DEF TypeOK, Submissions, Payloads, NoPayload
  <2>2. AfterConflict(c) \in Submissions
    BY <2>1 DEF AfterConflict, Submissions
  <2>3. [submit[c] EXCEPT !.step = "images", !.left = submit[c].payload.files] \in Submissions
    BY <2>1 DEF Submissions
  <2>4. \A f \in Files : [submit[c] EXCEPT !.left = submit[c].left \ {f}] \in Submissions
    BY <2>1 DEF Submissions
  <2>5. submit' \in [Calls -> Submissions]
    <3>1. CASE InsertClaim(c)
      <4>1. \/ submit' = [submit EXCEPT ![c] = [submit[c] EXCEPT !.step = "images", !.left = submit[c].payload.files]]
            \/ submit' = [submit EXCEPT ![c] = AfterConflict(c)]
        BY <3>1 DEF InsertClaim
      <4>2. QED
        BY <2>2, <2>3, <4>1 DEF TypeOK
    <3>2. ASSUME NEW f \in Files, InsertImage(c, f) PROVE submit' \in [Calls -> Submissions]
      <4>1. \/ submit' = [submit EXCEPT ![c] = [submit[c] EXCEPT !.left = submit[c].left \ {f}]]
            \/ submit' = [submit EXCEPT ![c] = AfterConflict(c)]
        BY <3>2 DEF InsertImage
      <4>2. QED
        BY <2>2, <2>4, <4>1 DEF TypeOK
    <3>3. QED
      BY <1>2, <3>1, <3>2
  <2>6. UNCHANGED <<claim, acted, audited, record, admin, failures>>
    BY <1>2 DEF InsertClaim, InsertImage, administration
  <2>7. QED
    BY <2>5, <2>6 DEF TypeOK
<1>3. ASSUME NEW c \in Calls, NEW i \in Claims, CommitClaim(c, i) PROVE TypeOK'
  <2>1. New(submit[c].key, submit[c].payload) \in [status: Statuses, key: Keys \cup {None}, payload: Payloads \cup {NoPayload}]
    BY DEF New, Statuses, TypeOK, Submissions
  <2>2. [submit[c] EXCEPT !.step = "done", !.answer = i] \in Submissions
    BY DEF TypeOK, Submissions
  <2>3. UNCHANGED <<acted, audited, record, admin, failures>>
    BY <1>3 DEF CommitClaim, administration
  <2>4. claim' = [claim EXCEPT ![i] = New(submit[c].key, submit[c].payload)]
    BY <1>3 DEF CommitClaim
  <2>5. submit' = [submit EXCEPT ![c] = [submit[c] EXCEPT !.step = "done", !.answer = i]]
    BY <1>3 DEF CommitClaim
  <2>6. QED
    BY <2>1, <2>2, <2>3, <2>4, <2>5 DEF TypeOK
<1>4. ASSUME NEW c \in Calls, Replay(c) PROVE TypeOK'
  <2>1. submit' \in [Calls -> Submissions]
    BY <1>4, ReplayFacts
  <2>2. UNCHANGED <<claim, acted, audited, record, admin, failures>>
    BY <1>4 DEF Replay, administration
  <2>3. QED
    BY <2>1, <2>2 DEF TypeOK
<1>5. ASSUME NEW c \in Calls, NEW key \in Keys, NEW i \in Claims, NEW decision \in Decisions,
             Administer(c, key, i, decision)
      PROVE  TypeOK'
  <2>1. [NotAdministering EXCEPT !.step = "lock", !.key = key, !.claim = i, !.decision = decision] \in Administrations
    BY DEF NotAdministering, Administrations, Refusals
  <2>2. NotSubmitting \in Submissions
    BY DEF NotSubmitting, Submissions, Refusals
  <2>3. admin' = [admin EXCEPT ![c] = [NotAdministering EXCEPT !.step = "lock", !.key = key, !.claim = i, !.decision = decision]]
        /\ submit' = [submit EXCEPT ![c] = NotSubmitting]
    BY <1>5 DEF Administer
  <2>4. UNCHANGED <<claim, acted, audited, record, failures>>
    BY <1>5 DEF Administer
  <2>5. QED
    BY <2>1, <2>2, <2>3, <2>4 DEF TypeOK
<1>6. ASSUME NEW c \in Calls, LockClaim(c) \/ RecordConflict(c) PROVE TypeOK'
  <2>1. admin[c] \in Administrations
    BY DEF TypeOK
  <2>2. /\ [admin[c] EXCEPT !.step = "done"] \in Administrations
        /\ [admin[c] EXCEPT !.step = "write"] \in Administrations
        /\ [admin[c] EXCEPT !.step = "lock", !.run = 2] \in Administrations
        /\ \A refusal \in Refusals : NotAdministered(refusal) \in Administrations
    BY <2>1 DEF Administrations, NotAdministered, NotAdministering, Decisions, Refusals
  <2>3. \E new \in Administrations : admin' = [admin EXCEPT ![c] = new]
    <3>1. CASE LockClaim(c)
      <4>1. admin' = [admin EXCEPT ![c] = Decided(c)]
        BY <3>1 DEF LockClaim
      <4>2. Decided(c) \in Administrations
        BY <2>2 DEF Decided, Refusals
      <4>3. QED
        BY <4>1, <4>2
    <3>2. CASE RecordConflict(c)
      BY <2>2, <3>2 DEF RecordConflict, Refusals
    <3>3. QED
      BY <1>6, <3>1, <3>2
  <2>4. UNCHANGED <<claim, acted, audited, record, submit, failures>>
    BY <1>6 DEF LockClaim, RecordConflict, Rollback
  <2>5. QED
    BY <2>3, <2>4 DEF TypeOK
<1>7. ASSUME NEW c \in Calls, CommitAdministration(c) PROVE TypeOK'
  <2> DEFINE i == admin[c].claim
             d == admin[c].decision
  <2>1. i \in Claims /\ d \in Decisions /\ admin[c].key \in Keys
        /\ claim' \in [Claims -> [status: Statuses, key: Keys \cup {None}, payload: Payloads \cup {NoPayload}]]
    BY <1>7, CommitFacts
  <2>2. /\ acted' = [acted EXCEPT ![i][d] = acted[i][d] + 1]
        /\ audited' = [audited EXCEPT ![i][d] = audited[i][d] + 1]
        /\ record' = [record EXCEPT ![admin[c].key] = [claim |-> i, decision |-> d]]
        /\ admin' = [admin EXCEPT ![c].step = "done"]
        /\ UNCHANGED <<submit, failures>>
    BY <1>7 DEF CommitAdministration, Entry
  <2> HIDE DEF i, d
  <2>3. acted' \in [Claims -> [Decisions -> Nat]] /\ audited' \in [Claims -> [Decisions -> Nat]]
    BY <2>1, <2>2 DEF TypeOK
  <2>4. admin' \in [Calls -> Administrations]
    <3>1. admin[c] \in Administrations
      BY DEF TypeOK
    <3>2. [admin[c] EXCEPT !.step = "done"] \in Administrations
      BY <3>1 DEF Administrations
    <3>3. QED
      BY <2>2, <3>2 DEF TypeOK
  <2>5. record' \in [Keys -> [claim: Claims \cup {None}, decision: Decisions]]
    BY <2>1, <2>2 DEF TypeOK
  <2>6. QED
    BY <2>1, <2>2, <2>3, <2>4, <2>5 DEF TypeOK
<1>8. ASSUME NEW c \in Calls, CutShort(c) PROVE TypeOK'
  <2>1. submit' \in [Calls -> Submissions] /\ admin' \in [Calls -> Administrations]
    BY <1>8 DEF CutShort, TypeOK, NotSubmitting, Submissions, Refusals, NotAdministering, Administrations, Decisions
  <2>2. QED
    BY <1>8, <2>1 DEF CutShort, TypeOK
<1>9. QED
  BY <1>0, <1>1, <1>2, <1>3, <1>4, <1>5, <1>6, <1>7, <1>8 DEF Next

Indexes == OneUnfinishedClaim /\ EvidenceIsExclusive /\ SameKeySameClaim

\* A step that touches no claim and takes no call into a transaction keeps what
\* the transactions in flight hold.
LEMMA FlightFrame ==
  ASSUME TypeOK, FlightInv, UNCHANGED claim, NEW c \in Calls,
         \A d \in Calls \ {c} : submit'[d] = submit[d],
         submit'[c] = submit[c] \/ submit'[c].step \notin {"insert", "images"}
         \/ (submit'[c].step = "insert" /\ submit'[c].key \in Keys /\ submit'[c].payload \in Payloads
             /\ submit'[c].answer = None)
  PROVE  FlightInv'
<1>1. Saved' = Saved
  BY DEF Saved
<1>2. \A d \in Calls : d \in InFlight' => d \in InFlight /\ submit'[d] = submit[d]
  BY DEF InFlight
<1>3. \A d \in Calls : submit'[d].step \in {"insert", "images"} =>
        submit'[d].key \in Keys /\ submit'[d].payload \in Payloads /\ submit'[d].answer = None
  BY DEF FlightInv
<1>4. ASSUME NEW d \in InFlight'
      PROVE  /\ submit'[d].left \subseteq submit'[d].payload.files
             /\ KeyIsFree(submit[d].key)' /\ OperationIsFree(submit[d].payload.operation)'
             /\ \A f \in Held(d)' : FileIsFree(f)'
             /\ \A e \in InFlight' \ {d} : ~Conflicts(d, e)' /\ (Held(d) \cap Held(e))' = {}
  <2>1. d \in Calls /\ d \in InFlight /\ submit'[d] = submit[d] /\ Held(d)' = Held(d)
    BY <1>2, <1>4 DEF InFlight, Held
  <2>2. /\ submit'[d].left \subseteq submit'[d].payload.files
        /\ KeyIsFree(submit[d].key)' /\ OperationIsFree(submit[d].payload.operation)'
        /\ \A f \in Held(d)' : FileIsFree(f)'
    BY <1>1, <2>1 DEF FlightInv, KeyIsFree, OperationIsFree, FileIsFree
  <2>3. ASSUME NEW e \in InFlight' \ {d} PROVE ~Conflicts(d, e)' /\ (Held(d) \cap Held(e))' = {}
    <3>1. e \in InFlight /\ submit'[e] = submit[e] /\ Held(e)' = Held(e)
      BY <1>2, <2>3 DEF InFlight, Held
    <3>2. QED
      BY <2>1, <3>1 DEF FlightInv, Conflicts
  <2>4. QED
    BY <2>2, <2>3
<1>5. QED
  BY <1>3, <1>4 DEF FlightInv

\* Claims that stay as they are keep the indexes; the answers do when the call
\* that changes has none or a saved claim of its key and payload.
LEMMA IndexesFrame ==
  ASSUME Indexes, UNCHANGED claim, NEW c \in Calls,
         \A d \in Calls \ {c} : submit'[d] = submit[d],
         \/ submit'[c] = submit[c] \/ submit'[c].answer = None
         \/ /\ submit'[c].answer \in Saved
            /\ claim[submit'[c].answer].key = submit'[c].key
            /\ claim[submit'[c].answer].payload = submit'[c].payload
  PROVE  Indexes'
<1>1. Saved' = Saved
  BY DEF Saved
<1>2. OneUnfinishedClaim' /\ EvidenceIsExclusive'
  BY <1>1 DEF Indexes, OneUnfinishedClaim, EvidenceIsExclusive
<1>3. SameKeySameClaim'
  BY <1>1 DEF Indexes, SameKeySameClaim
<1>4. QED
  BY <1>2, <1>3 DEF Indexes

\* Every step keeps the indexes and what transactions in flight hold.
LEMMA IndexesStep ==
  ASSUME TypeOK, AdminInv, FlightInv, Indexes, [Next]_vars
  PROVE  FlightInv' /\ Indexes'
<1> USE ConstantsAssumption
<1>0. ASSUME UNCHANGED <<claim, submit>> PROVE FlightInv' /\ Indexes'
  <2>1. CASE Calls = {}
    BY <1>0, <2>1 DEF FlightInv, InFlight, Indexes, OneUnfinishedClaim, EvidenceIsExclusive, SameKeySameClaim, Saved
  <2>2. CASE Calls # {}
    BY <1>0, <2>2, FlightFrame, IndexesFrame
  <2>3. QED
    BY <2>1, <2>2
<1>1. ASSUME NEW c \in Calls, NEW key \in Keys, NEW payload \in Payloads, Submit(c, key, payload)
      PROVE  FlightInv' /\ Indexes'
  <2>1. UNCHANGED claim
    BY <1>1 DEF Submit
  <2>2. Submitting(key, payload).step = "insert" /\ Submitting(key, payload).key = key
        /\ Submitting(key, payload).payload = payload /\ Submitting(key, payload).answer = None
    BY DEF Submitting
  <2>3. FlightInv'
    BY <1>1, <2>1, <2>2, SubmitFacts, FlightFrame
  <2>4. Indexes'
    BY <1>1, <2>1, <2>2, SubmitFacts, IndexesFrame
  <2>5. QED
    BY <2>3, <2>4
<1>2. ASSUME NEW c \in Calls, InsertClaim(c) PROVE FlightInv' /\ Indexes'
  <2>1. /\ UNCHANGED claim /\ submit[c].step = "insert" /\ submit[c].answer = None
        /\ \A d \in InFlight : ~Conflicts(c, d)
        /\ submit[c].payload \in Payloads /\ submit[c].key \in Keys /\ submit[c] \in Submissions
    BY <1>2 DEF InsertClaim, FlightInv, TypeOK
  <2> DEFINE new == [submit[c] EXCEPT !.step = "images", !.left = submit[c].payload.files]
  <2>2. CASE submit' = [submit EXCEPT ![c] = AfterConflict(c)]
    <3>1. submit'[c].step = "replay" /\ submit'[c].answer = None /\ \A d \in Calls \ {c} : submit'[d] = submit[d]
      BY <2>1, <2>2 DEF AfterConflict, TypeOK, Submissions
    <3>2. QED
      BY <2>1, <3>1, FlightFrame, IndexesFrame
  <2>3. CASE /\ KeyIsFree(submit[c].key) /\ OperationIsFree(submit[c].payload.operation)
             /\ submit' = [submit EXCEPT ![c] = new]
    <3>1. /\ new.step = "images" /\ new.left = submit[c].payload.files
          /\ new.key = submit[c].key /\ new.payload = submit[c].payload /\ new.answer = None
      BY <2>1 DEF Submissions
    <3>2. submit'[c] = new /\ \A d \in Calls \ {c} : submit'[d] = submit[d]
      BY <2>3 DEF TypeOK
    <3> HIDE DEF new
    <3>3. Indexes'
      BY <2>1, <3>1, <3>2, IndexesFrame
    <3>4. Saved' = Saved
      BY <2>1 DEF Saved
    <3>5. InFlight' = InFlight \cup {c} /\ c \notin InFlight
      BY <2>1, <3>1, <3>2 DEF InFlight
    <3>6. Held(c)' = {} /\ \A d \in InFlight : Held(d)' = Held(d)
      BY <3>1, <3>2, <3>5 DEF Held, InFlight
    <3>7. /\ \A d \in InFlight : ~Conflicts(c, d)' /\ ~Conflicts(d, c)'
          /\ \A d, e \in InFlight : Conflicts(d, e)' = Conflicts(d, e)
      BY <2>1, <3>1, <3>2, <3>5 DEF Conflicts, InFlight
    <3>8. \A d \in Calls : submit'[d].step \in {"insert", "images"} =>
            submit'[d].key \in Keys /\ submit'[d].payload \in Payloads /\ submit'[d].answer = None
      BY <2>1, <3>1, <3>2 DEF FlightInv
    <3>9. ASSUME NEW d \in InFlight'
          PROVE  /\ submit'[d].left \subseteq submit'[d].payload.files
                 /\ KeyIsFree(submit[d].key)' /\ OperationIsFree(submit[d].payload.operation)'
                 /\ \A f \in Held(d)' : FileIsFree(f)'
      <4>1. CASE d = c
        BY <2>1, <2>3, <3>1, <3>2, <3>4, <3>6, <4>1 DEF KeyIsFree, OperationIsFree
      <4>2. CASE d # c
        <5>1. d \in InFlight /\ d \in Calls /\ submit'[d] = submit[d]
          BY <3>2, <3>5, <3>9, <4>2 DEF InFlight
        <5>2. QED
          BY <2>1, <3>4, <3>6, <5>1 DEF FlightInv, KeyIsFree, OperationIsFree, FileIsFree
      <4>3. QED
        BY <4>1, <4>2
    <3>10. \A d, e \in InFlight' : d # e => ~Conflicts(d, e)' /\ (Held(d) \cap Held(e))' = {}
      BY <3>5, <3>6, <3>7 DEF FlightInv
    <3>11. FlightInv'
      BY <3>8, <3>9, <3>10 DEF FlightInv
    <3>12. QED
      BY <3>3, <3>11
  <2>4. QED
    BY <1>2, <2>2, <2>3 DEF InsertClaim
<1>3. ASSUME NEW c \in Calls, NEW f \in Files, InsertImage(c, f) PROVE FlightInv' /\ Indexes'
  <2>1. /\ UNCHANGED claim /\ c \in InFlight /\ submit[c].answer = None
        /\ f \in submit[c].left /\ ~HeldByAnother(c, f) /\ submit[c] \in Submissions
    BY <1>3 DEF InsertImage, InFlight, FlightInv, TypeOK, Following
  <2> DEFINE new == [submit[c] EXCEPT !.left = submit[c].left \ {f}]
  <2>2. CASE submit' = [submit EXCEPT ![c] = AfterConflict(c)]
    <3>1. submit'[c].step = "replay" /\ submit'[c].answer = None /\ \A d \in Calls \ {c} : submit'[d] = submit[d]
      BY <2>1, <2>2 DEF AfterConflict, TypeOK, Submissions
    <3>2. QED
      BY <2>1, <3>1, FlightFrame, IndexesFrame
  <2>3. CASE FileIsFree(f) /\ submit' = [submit EXCEPT ![c] = new]
    <3>1. /\ new.step = submit[c].step /\ new.left = submit[c].left \ {f}
          /\ new.key = submit[c].key /\ new.payload = submit[c].payload /\ new.answer = None
      BY <2>1 DEF Submissions
    <3>2. submit'[c] = new /\ \A d \in Calls \ {c} : submit'[d] = submit[d]
      BY <2>3 DEF TypeOK
    <3> HIDE DEF new
    <3>3. Indexes'
      BY <2>1, <3>1, <3>2, IndexesFrame
    <3>4. Saved' = Saved /\ InFlight' = InFlight
      BY <2>1, <3>1, <3>2 DEF Saved, InFlight
    <3>5. Held(c)' = Held(c) \cup {f} /\ \A d \in InFlight \ {c} : Held(d)' = Held(d) /\ f \notin Held(d)
      <4>1. f \in submit[c].payload.files
        BY <2>1 DEF FlightInv
      <4>2. QED
        BY <2>1, <3>1, <3>2, <4>1 DEF Held, HeldByAnother, InFlight
    <3>6. \A d, e \in InFlight : Conflicts(d, e)' = Conflicts(d, e)
      BY <3>1, <3>2 DEF Conflicts, InFlight
    <3>7. \A d \in Calls : submit'[d].step \in {"insert", "images"} =>
            submit'[d].key \in Keys /\ submit'[d].payload \in Payloads /\ submit'[d].answer = None
      BY <2>1, <3>1, <3>2 DEF FlightInv
    <3>8. ASSUME NEW d \in InFlight'
          PROVE  /\ submit'[d].left \subseteq submit'[d].payload.files
                 /\ KeyIsFree(submit[d].key)' /\ OperationIsFree(submit[d].payload.operation)'
                 /\ \A g \in Held(d)' : FileIsFree(g)'
      <4>1. d \in InFlight /\ d \in Calls
        BY <3>4, <3>8 DEF InFlight
      <4>2. KeyIsFree(submit[d].key)' /\ OperationIsFree(submit[d].payload.operation)'
        BY <2>1, <3>1, <3>2, <3>4, <4>1 DEF FlightInv, KeyIsFree, OperationIsFree
      <4>3. submit'[d].left \subseteq submit'[d].payload.files
        BY <3>1, <3>2, <4>1 DEF FlightInv
      <4>4. \A g \in Held(d)' : FileIsFree(g)'
        BY <2>1, <2>3, <3>4, <3>5, <4>1 DEF FlightInv, FileIsFree
      <4>5. QED
        BY <4>2, <4>3, <4>4
    <3>9. \A d, e \in InFlight' : d # e => ~Conflicts(d, e)' /\ (Held(d) \cap Held(e))' = {}
      BY <3>4, <3>5, <3>6 DEF FlightInv
    <3>10. FlightInv'
      BY <3>7, <3>8, <3>9 DEF FlightInv
    <3>11. QED
      BY <3>3, <3>10
  <2>4. QED
    BY <1>3, <2>2, <2>3 DEF InsertImage
<1>4. ASSUME NEW c \in Calls, NEW i \in Claims, CommitClaim(c, i) PROVE FlightInv' /\ Indexes'
  <2> DEFINE new == New(submit[c].key, submit[c].payload)
  <2>1. /\ c \in InFlight /\ submit[c].left = {} /\ i \notin Saved
        /\ claim' = [claim EXCEPT ![i] = new]
        /\ submit' = [submit EXCEPT ![c] = [submit[c] EXCEPT !.step = "done", !.answer = i]]
        /\ submit[c] \in Submissions
    BY <1>4 DEF CommitClaim, InFlight, TypeOK
  <2>2. new.status = "open" /\ new.key = submit[c].key /\ new.payload = submit[c].payload
    BY DEF New
  <2>3. claim'[i] = new /\ \A j \in Claims \ {i} : claim'[j] = claim[j]
    BY <2>1 DEF TypeOK
  <2>4. Saved' = Saved \cup {i} /\ Saved \subseteq Claims
    BY <2>1, <2>2, <2>3 DEF Saved
  <2>5. /\ submit'[c].step = "done" /\ submit'[c].answer = i
        /\ submit'[c].key = submit[c].key /\ submit'[c].payload = submit[c].payload
        /\ \A d \in Calls \ {c} : submit'[d] = submit[d]
    BY <2>1 DEF TypeOK, Submissions
  <2>6. KeyIsFree(submit[c].key) /\ OperationIsFree(submit[c].payload.operation)
        /\ \A f \in submit[c].payload.files : FileIsFree(f)
    BY <2>1 DEF FlightInv, Held
  <2>7. OneUnfinishedClaim'
    BY <2>2, <2>3, <2>4, <2>6 DEF Indexes, OneUnfinishedClaim, OperationIsFree
  <2>8. EvidenceIsExclusive'
    BY <2>2, <2>3, <2>4, <2>6 DEF Indexes, EvidenceIsExclusive, FileIsFree
  <2>9. SameKeySameClaim'
    <3>1. \A j, k \in Saved' : claim'[j].key = claim'[k].key => j = k
      BY <2>2, <2>3, <2>4, <2>6 DEF Indexes, SameKeySameClaim, KeyIsFree
    <3>2. ASSUME NEW d \in Calls, submit'[d].answer # None
          PROVE  /\ submit'[d].answer \in Saved'
                 /\ claim'[submit'[d].answer].key = submit'[d].key
                 /\ claim'[submit'[d].answer].payload = submit'[d].payload
      <4>1. CASE d = c
        BY <2>2, <2>3, <2>4, <2>5, <4>1
      <4>2. CASE d # c
        <5>1. submit'[d] = submit[d] /\ submit[d].answer \in Saved
          BY <2>5, <3>2, <4>2 DEF Indexes, SameKeySameClaim
        <5>2. QED
          <6>1. submit[d].answer \in Claims \ {i}
            BY <2>1, <2>4, <5>1
          <6>2. claim'[submit[d].answer] = claim[submit[d].answer]
            BY <2>3, <6>1
          <6>3. QED
            BY <2>4, <3>2, <5>1, <6>2 DEF Indexes, SameKeySameClaim
      <4>3. QED
        BY <4>1, <4>2
    <3>3. QED
      BY <3>1, <3>2 DEF SameKeySameClaim
  <2>10. FlightInv'
    <3>1. \A d \in Calls : submit'[d].step \in {"insert", "images"} =>
            submit'[d].key \in Keys /\ submit'[d].payload \in Payloads /\ submit'[d].answer = None
      BY <2>5 DEF FlightInv
    <3>2. \A d \in InFlight' : d \in InFlight /\ d # c /\ d \in Calls /\ submit'[d] = submit[d] /\ Held(d)' = Held(d)
      BY <2>5 DEF InFlight, Held
    <3>3. ASSUME NEW d \in InFlight'
          PROVE  /\ submit'[d].left \subseteq submit'[d].payload.files
                 /\ KeyIsFree(submit[d].key)' /\ OperationIsFree(submit[d].payload.operation)'
                 /\ \A f \in Held(d)' : FileIsFree(f)'
      <4>1. d \in InFlight /\ d # c /\ submit'[d] = submit[d] /\ Held(d)' = Held(d)
        BY <3>2, <3>3
      <4>2. ~Conflicts(c, d) /\ Held(c) \cap Held(d) = {} /\ Held(c) = submit[c].payload.files
        BY <2>1, <4>1 DEF FlightInv, Held
      <4>3. /\ submit[d].left \subseteq submit[d].payload.files
            /\ KeyIsFree(submit[d].key) /\ OperationIsFree(submit[d].payload.operation)
            /\ \A f \in Held(d) : FileIsFree(f)
        BY <4>1 DEF FlightInv
      <4>4. KeyIsFree(submit[d].key)'
        BY <2>2, <2>3, <2>4, <4>1, <4>2, <4>3 DEF KeyIsFree, Conflicts
      <4>5. OperationIsFree(submit[d].payload.operation)'
        BY <2>2, <2>3, <2>4, <4>1, <4>2, <4>3 DEF OperationIsFree, Conflicts
      <4>6. \A f \in Held(d)' : FileIsFree(f)'
        BY <2>2, <2>3, <2>4, <4>1, <4>2, <4>3 DEF FileIsFree
      <4>7. QED
        BY <4>1, <4>3, <4>4, <4>5, <4>6
    <3>4. \A d, e \in InFlight' : d # e => ~Conflicts(d, e)' /\ (Held(d) \cap Held(e))' = {}
      BY <3>2 DEF FlightInv, Conflicts
    <3>5. QED
      BY <3>1, <3>3, <3>4 DEF FlightInv
  <2>11. QED
    BY <2>7, <2>8, <2>9, <2>10 DEF Indexes
<1>5. ASSUME NEW c \in Calls, Replay(c) PROVE FlightInv' /\ Indexes'
  <2>1. UNCHANGED claim
    BY <1>5 DEF Replay
  <2>2. Refused("refused").step = "idle" /\ Refused("refused").answer = None
    BY DEF Refused, NotSubmitting
  <2>3. FlightInv'
    BY <1>5, <2>1, <2>2, ReplayFacts, FlightFrame
  <2>4. Indexes'
    BY <1>5, <2>1, <2>2, ReplayFacts, IndexesFrame
  <2>5. QED
    BY <2>3, <2>4
<1>6. ASSUME NEW c \in Calls,
             CutShort(c) \/ (\E key \in Keys, i \in Claims, decision \in Decisions : Administer(c, key, i, decision))
      PROVE  FlightInv' /\ Indexes'
  <2>1. UNCHANGED claim /\ submit' = [submit EXCEPT ![c] = NotSubmitting]
    BY <1>6 DEF CutShort, Administer
  <2>2. submit'[c] = NotSubmitting /\ \A d \in Calls \ {c} : submit'[d] = submit[d]
    BY <2>1 DEF TypeOK
  <2>3. NotSubmitting.step = "idle" /\ NotSubmitting.answer = None
    BY DEF NotSubmitting
  <2>4. QED
    BY <2>1, <2>2, <2>3, FlightFrame, IndexesFrame
<1>7. ASSUME NEW c \in Calls, LockClaim(c) \/ RecordConflict(c) PROVE FlightInv' /\ Indexes'
  <2>1. UNCHANGED <<claim, submit>>
    BY <1>7 DEF LockClaim, RecordConflict
  <2>2. QED
    BY <1>0, <2>1
<1>8. ASSUME NEW c \in Calls, CommitAdministration(c) PROVE FlightInv' /\ Indexes'
  <2> DEFINE i == admin[c].claim
  <2>1. /\ UNCHANGED submit /\ Saved' = Saved /\ Saved \subseteq Claims
        /\ \A j \in Claims : claim'[j].key = claim[j].key /\ claim'[j].payload = claim[j].payload
        /\ \A j \in Claims \ {i} : claim'[j] = claim[j]
        /\ claim[i].status \in Unfinished /\ i \in Claims
    BY <1>8, CommitFacts DEF CommitAdministration, Takes, Unfinished, Saved
  <2>2. \A j \in Claims : claim'[j].status \in Unfinished => claim[j].status \in Unfinished
    BY <2>1
  <2>3. Indexes'
    <3>1. OneUnfinishedClaim' /\ EvidenceIsExclusive'
      BY <2>1, <2>2 DEF Indexes, OneUnfinishedClaim, EvidenceIsExclusive
    <3>2. SameKeySameClaim'
      BY <2>1 DEF Indexes, SameKeySameClaim
    <3>3. QED
      BY <3>1, <3>2 DEF Indexes
  <2>4. /\ \A key : KeyIsFree(key) => KeyIsFree(key)'
        /\ \A operation : OperationIsFree(operation) => OperationIsFree(operation)'
        /\ \A f : FileIsFree(f) => FileIsFree(f)'
    BY <2>1, <2>2 DEF KeyIsFree, OperationIsFree, FileIsFree
  <2>5. FlightInv'
    <3>1. InFlight' = InFlight /\ \A d \in Calls : Held(d)' = Held(d)
      BY <2>1 DEF InFlight, Held
    <3>2. \A d, e \in Calls : Conflicts(d, e)' = Conflicts(d, e)
      BY <2>1 DEF Conflicts
    <3>3. QED
      BY <2>1, <2>4, <3>1, <3>2 DEF FlightInv, InFlight, KeyIsFree, OperationIsFree
  <2>6. QED
    BY <2>3, <2>5
<1>9. CASE UNCHANGED vars
  BY <1>0, <1>9 DEF vars
<1>10. QED
  BY <1>1, <1>2, <1>3, <1>4, <1>5, <1>6, <1>7, <1>8, <1>9 DEF Next

Deciding == AdminInv /\ RecordsInv /\ KeyActsOnce /\ DecidedInOrder /\ ConflictIsResolved

\* A step that leaves the tables of the administration alone, saves no fewer
\* claims and takes no call into an administration keeps what is known of it.
LEMMA DecidingFrame ==
  ASSUME Deciding, UNCHANGED <<acted, record>>, Saved \subseteq Saved',
         \A i \in Saved : claim'[i].status = claim[i].status,
         NEW c \in Calls, \A d \in Calls \ {c} : admin'[d] = admin[d],
         admin'[c] = admin[c] \/ admin'[c].step = "idle",
         admin'[c] = admin[c] \/ admin'[c].refusal # "record_conflict",
         DecidedInOrder'
  PROVE  Deciding'
<1>1. AdminInv'
  BY DEF Deciding, AdminInv, MayTake
<1>2. RecordsInv' /\ ConflictIsResolved'
  BY DEF Deciding, RecordsInv, ConflictIsResolved
<1>3. KeyActsOnce'
  BY DEF Deciding, KeyActsOnce, Entry
<1>4. QED
  BY <1>1, <1>2, <1>3 DEF Deciding

\* Every step keeps what is known of the administration.
LEMMA DecidingStep ==
  ASSUME TypeOK, FlightInv, Deciding, [Next]_vars
  PROVE  Deciding'
<1> USE ConstantsAssumption
<1>0. ASSUME UNCHANGED <<claim, acted, record, admin>> PROVE Deciding'
  <2>1. Saved' = Saved
    BY <1>0 DEF Saved
  <2>2. QED
    BY <1>0, <2>1 DEF Deciding, AdminInv, RecordsInv, KeyActsOnce, DecidedInOrder, ConflictIsResolved, MayTake, Entry
<1>1. ASSUME NEW c \in Calls, CutShort(c) \/ (\E key \in Keys, payload \in Payloads : Submit(c, key, payload))
      PROVE  Deciding'
  <2>1. UNCHANGED <<claim, acted, record>> /\ admin' = [admin EXCEPT ![c] = NotAdministering]
    BY <1>1 DEF CutShort, Submit
  <2>2. admin'[c].step = "idle" /\ admin'[c].refusal = "none" /\ \A d \in Calls \ {c} : admin'[d] = admin[d]
    BY <2>1 DEF TypeOK, NotAdministering
  <2>3. Saved' = Saved /\ DecidedInOrder'
    BY <2>1 DEF Saved, Deciding, DecidedInOrder
  <2>4. QED
    BY <2>1, <2>2, <2>3, DecidingFrame
<1>2. ASSUME NEW c \in Calls, NEW i \in Claims, CommitClaim(c, i) PROVE Deciding'
  <2>1. /\ UNCHANGED <<acted, record, admin>> /\ i \notin Saved
        /\ claim' = [claim EXCEPT ![i] = New(submit[c].key, submit[c].payload)]
    BY <1>2 DEF CommitClaim, administration
  <2>2. claim'[i].status = "open" /\ \A j \in Claims \ {i} : claim'[j] = claim[j]
    BY <2>1 DEF TypeOK, New
  <2>3. Saved' = Saved \cup {i} /\ \A j \in Saved : claim'[j] = claim[j]
    BY <2>1, <2>2 DEF Saved
  <2>4. DecidedInOrder'
    <3>1. claim[i].status = "absent"
      BY <2>1 DEF Saved
    <3>2. QED
      BY <2>1, <2>2, <3>1 DEF Deciding, DecidedInOrder
  <2>5. QED
    BY <2>1, <2>3, <2>4, DecidingFrame
<1>3. ASSUME NEW c \in Calls, NEW key \in Keys, NEW i \in Claims, NEW decision \in Decisions,
             Administer(c, key, i, decision)
      PROVE  Deciding'
  <2> DEFINE new == [NotAdministering EXCEPT !.step = "lock", !.key = key, !.claim = i, !.decision = decision]
  <2>1. UNCHANGED <<claim, acted, record>> /\ admin' = [admin EXCEPT ![c] = new] /\ i \in Saved
    BY <1>3 DEF Administer
  <2>2. new.step = "lock" /\ new.key = key /\ new.claim = i /\ new.run = 1 /\ new.refusal = "none"
    BY DEF NotAdministering
  <2> HIDE DEF new
  <2>3. admin'[c] = new /\ \A d \in Calls \ {c} : admin'[d] = admin[d]
    BY <2>1 DEF TypeOK
  <2>4. Saved' = Saved
    BY <2>1 DEF Saved
  <2>5. AdminInv'
    BY <2>1, <2>2, <2>3, <2>4 DEF Deciding, AdminInv, MayTake
  <2>6. RecordsInv' /\ DecidedInOrder' /\ ConflictIsResolved'
    BY <2>1, <2>2, <2>3 DEF Deciding, RecordsInv, DecidedInOrder, ConflictIsResolved
  <2>7. KeyActsOnce'
    BY <2>1, <2>2, <2>3 DEF Deciding, KeyActsOnce, Entry
  <2>8. QED
    BY <2>5, <2>6, <2>7 DEF Deciding
<1>4. ASSUME NEW c \in Calls, LockClaim(c) PROVE Deciding'
  <2> DEFINE new == Decided(c)
  <2>1. /\ UNCHANGED <<claim, acted, record>> /\ admin' = [admin EXCEPT ![c] = new]
        /\ admin[c].step = "lock" /\ admin[c] \in Administrations
        /\ \A d \in Calls : admin[d].step = "write" => admin[d].claim # admin[c].claim
    BY <1>4 DEF LockClaim, TypeOK
  <2>2. Saved' = Saved /\ DecidedInOrder'
    BY <2>1 DEF Saved, Deciding, DecidedInOrder
  <2>3. \/ /\ new.step = "done" /\ new.key = admin[c].key /\ Entry(c) = record[admin[c].key]
           /\ new.claim = admin[c].claim /\ new.decision = admin[c].decision /\ new.refusal = admin[c].refusal
        \/ new.step = "idle" /\ new.refusal # "record_conflict"
        \/ /\ new.step = "write" /\ record[admin[c].key] = NoRecord /\ MayTake(c)
           /\ new.key = admin[c].key /\ new.claim = admin[c].claim /\ new.decision = admin[c].decision
           /\ new.run = admin[c].run /\ new.refusal = admin[c].refusal
    BY <2>1 DEF Decided, NotAdministered, NotAdministering, Administrations
  <2> HIDE DEF new
  <2>4. admin'[c] = new /\ \A d \in Calls \ {c} : admin'[d] = admin[d]
    BY <2>1 DEF TypeOK
  <2>5. CASE new.step = "idle"
    BY <2>1, <2>2, <2>3, <2>4, <2>5, DecidingFrame
  <2>6. CASE new.step = "done"
    <3>1. AdminInv'
      BY <2>1, <2>2, <2>3, <2>4, <2>6 DEF Deciding, AdminInv, MayTake
    <3>2. RecordsInv' /\ ConflictIsResolved'
      BY <2>1, <2>3, <2>4, <2>6 DEF Deciding, RecordsInv, ConflictIsResolved
    <3>3. KeyActsOnce'
      BY <2>1, <2>3, <2>4, <2>6 DEF Deciding, KeyActsOnce, Entry
    <3>4. QED
      BY <2>2, <3>1, <3>2, <3>3 DEF Deciding
  <2>7. CASE new.step = "write"
    <3>1. /\ record[admin[c].key] = NoRecord /\ MayTake(c)
          /\ new.key = admin[c].key /\ new.claim = admin[c].claim /\ new.decision = admin[c].decision
          /\ new.run = admin[c].run /\ new.refusal = admin[c].refusal
      BY <2>3, <2>7
    <3>2. new.run = 1
      BY <2>1, <3>1 DEF Deciding, AdminInv, Administrations
    <3>3. AdminInv'
      BY <2>1, <2>2, <2>4, <2>7, <3>1, <3>2 DEF Deciding, AdminInv, MayTake
    <3>4. RecordsInv' /\ ConflictIsResolved'
      BY <2>1, <2>4, <3>1 DEF Deciding, RecordsInv, ConflictIsResolved
    <3>5. KeyActsOnce'
      BY <2>1, <2>4, <2>7 DEF Deciding, KeyActsOnce, Entry
    <3>6. QED
      BY <2>2, <3>3, <3>4, <3>5 DEF Deciding
  <2>8. QED
    BY <2>3, <2>5, <2>6, <2>7
<1>5. ASSUME NEW c \in Calls, RecordConflict(c) PROVE Deciding'
  <2> DEFINE new == [admin[c] EXCEPT !.step = "lock", !.run = 2]
  <2>1. /\ UNCHANGED <<claim, acted, record>> /\ admin' = [admin EXCEPT ![c] = new]
        /\ admin[c].step = "write" /\ record[admin[c].key] # NoRecord /\ admin[c] \in Administrations
    BY <1>5 DEF RecordConflict, MayRunAgain, Deciding, AdminInv, RecordIsFree, TypeOK
  <2>2. /\ new.step = "lock" /\ new.key = admin[c].key /\ new.claim = admin[c].claim
        /\ new.refusal = admin[c].refusal
    BY <2>1 DEF Administrations
  <2> HIDE DEF new
  <2>3. admin'[c] = new /\ \A d \in Calls \ {c} : admin'[d] = admin[d]
    BY <2>1 DEF TypeOK
  <2>4. Saved' = Saved
    BY <2>1 DEF Saved
  <2>5. AdminInv'
    BY <2>1, <2>2, <2>3, <2>4 DEF Deciding, AdminInv, MayTake
  <2>6. RecordsInv' /\ DecidedInOrder' /\ ConflictIsResolved'
    BY <2>1, <2>2, <2>3 DEF Deciding, RecordsInv, DecidedInOrder, ConflictIsResolved
  <2>7. KeyActsOnce'
    BY <2>1, <2>2, <2>3 DEF Deciding, KeyActsOnce, Entry
  <2>8. QED
    BY <2>5, <2>6, <2>7 DEF Deciding
<1>6. ASSUME NEW c \in Calls, CommitAdministration(c) PROVE Deciding'
  <2> DEFINE i == admin[c].claim
             d == admin[c].decision
             k == admin[c].key
  <2>1. /\ admin[c].step = "write" /\ i \in Saved /\ i \in Claims /\ d \in Decisions
        /\ k \in Keys /\ record[k] = NoRecord
        /\ claim[i].status = Takes(d) /\ claim'[i].status = Leads(d)
        /\ Saved' = Saved
        /\ \A j \in Claims \ {i} : claim'[j] = claim[j]
    BY <1>6, CommitFacts DEF Deciding
  <2>2. /\ acted' = [acted EXCEPT ![i][d] = acted[i][d] + 1]
        /\ record' = [record EXCEPT ![k] = [claim |-> i, decision |-> d]]
        /\ admin' = [admin EXCEPT ![c].step = "done"]
    BY <1>6 DEF CommitAdministration, Entry
  <2>3. admin[c] \in Administrations
    BY DEF TypeOK
  <2>4. /\ admin'[c].step = "done" /\ admin'[c].key = k /\ admin'[c].claim = i /\ admin'[c].decision = d
        /\ admin'[c].refusal = admin[c].refusal
        /\ \A b \in Calls \ {c} : admin'[b] = admin[b]
    BY <2>2, <2>3 DEF TypeOK, Administrations
  <2>5. /\ record'[k] = [claim |-> i, decision |-> d] /\ \A l \in Keys \ {k} : record'[l] = record[l]
    BY <2>1, <2>2 DEF TypeOK
  <2>6. /\ acted'[i][d] = acted[i][d] + 1
        /\ \A e \in Decisions \ {d} : acted'[i][e] = acted[i][e]
        /\ \A j \in Claims \ {i} : acted'[j] = acted[j]
    BY <2>1, <2>2 DEF TypeOK
  <2>7. acted[i][d] = 0
    BY <2>1 DEF Deciding, DecidedInOrder, Takes, Decisions
  <2>8. i # None /\ record'[k] # NoRecord
    BY <2>1, <2>5 DEF Claims, NoRecord
  <2> HIDE DEF i, d, k
  <2>9. AdminInv'
    <3>1. \A b \in Calls \ {c} : admin[b].step = "write" => admin[b].claim # i
      BY <2>1 DEF Deciding, AdminInv, i
    <3>2. \A b \in Calls : admin'[b].step = "write" => MayTake(b)' /\ admin'[b].run = 1
      BY <2>1, <2>4, <3>1 DEF Deciding, AdminInv, MayTake, Saved
    <3>3. \A b \in Calls : admin'[b].step = "lock" /\ admin'[b].run = 2 => record'[admin'[b].key] # NoRecord
      BY <2>4, <2>5, <2>8 DEF Deciding, AdminInv
    <3>4. QED
      BY <2>1, <2>4, <3>2, <3>3 DEF Deciding, AdminInv
  <2>10. RecordsInv'
    BY <2>5, <2>8 DEF Deciding, RecordsInv
  <2>11. ConflictIsResolved'
    BY <2>4 DEF Deciding, ConflictIsResolved
  <2>12. DecidedInOrder'
    <3>1. i \in Claims /\ \A j \in Claims \ {i} : claim'[j] = claim[j] /\ acted'[j] = acted[j]
      BY <2>1, <2>6
    <3>2. CASE d = "review"
      BY <2>1, <2>6, <3>1, <3>2 DEF Deciding, DecidedInOrder, Takes, Leads, Decisions
    <3>3. CASE d = "favor"
      BY <2>1, <2>6, <3>1, <3>3 DEF Deciding, DecidedInOrder, Takes, Leads, Decisions
    <3>4. CASE d = "dismiss"
      BY <2>1, <2>6, <3>1, <3>4 DEF Deciding, DecidedInOrder, Takes, Leads, Decisions
    <3>5. QED
      BY <2>1, <3>2, <3>3, <3>4 DEF Decisions
  <2>13. KeyActsOnce'
    <3>1. \A l \in Keys : record[l] # [claim |-> i, decision |-> d]
      BY <2>1, <2>7 DEF Deciding, KeyActsOnce
    <3>2. \A l, m \in Keys : record'[l] = record'[m] /\ record'[l] # NoRecord => l = m
      BY <2>5, <3>1 DEF Deciding, KeyActsOnce
    <3>3. ASSUME NEW j \in Claims, NEW e \in Decisions
          PROVE  acted'[j][e] = IF \E l \in Keys : record'[l] = [claim |-> j, decision |-> e] THEN 1 ELSE 0
      <4>1. CASE j = i /\ e = d
        BY <2>1, <2>5, <2>6, <2>7, <4>1
      <4>2. CASE ~(j = i /\ e = d)
        <5>1. acted'[j][e] = acted[j][e]
          BY <2>6, <4>2
        <5>2. [claim |-> j, decision |-> e] # [claim |-> i, decision |-> d]
          BY <4>2
        <5>3. [claim |-> j, decision |-> e] # NoRecord
          BY <3>3 DEF Claims, NoRecord
        <5>4. \A l \in Keys : record'[l] = [claim |-> j, decision |-> e] <=> record[l] = [claim |-> j, decision |-> e]
          BY <2>1, <2>5, <5>2, <5>3
        <5>5. QED
          BY <5>1, <5>4 DEF Deciding, KeyActsOnce
      <4>3. QED
        BY <4>1, <4>2
    <3>4. ASSUME NEW b \in Calls, admin'[b].step = "done" PROVE record'[admin'[b].key] = Entry(b)'
      <4>1. CASE b = c
        BY <2>4, <2>5, <4>1 DEF Entry
      <4>2. CASE b # c
        <5>1. admin'[b] = admin[b] /\ record[admin[b].key] = Entry(b) /\ Entry(b)' = Entry(b)
          BY <2>4, <3>4, <4>2 DEF Deciding, KeyActsOnce, Entry
        <5>2. admin[b].key \in Keys /\ admin[b].claim \in Claims
          BY <3>4, <5>1 DEF Deciding, AdminInv, Saved
        <5>3. Entry(b) # NoRecord
          BY <5>2 DEF Entry, NoRecord, Claims
        <5>4. admin[b].key # k
          BY <2>1, <5>1, <5>3
        <5>5. QED
          BY <2>5, <5>1, <5>2, <5>4
      <4>3. QED
        BY <4>1, <4>2
    <3>5. QED
      BY <3>2, <3>3, <3>4 DEF KeyActsOnce
  <2>14. QED
    BY <2>9, <2>10, <2>11, <2>12, <2>13 DEF Deciding
<1>7. ASSUME NEW c \in Calls, InsertClaim(c) \/ (\E f \in Files : InsertImage(c, f)) \/ Replay(c) PROVE Deciding'
  <2>1. UNCHANGED <<claim, acted, record, admin>>
    BY <1>7 DEF InsertClaim, InsertImage, Replay, administration
  <2>2. QED
    BY <1>0, <2>1
<1>8. CASE UNCHANGED vars
  BY <1>0, <1>8 DEF vars
<1>9. QED
  BY <1>1, <1>2, <1>3, <1>4, <1>5, <1>6, <1>7, <1>8 DEF Next

LEMMA InitIInv == Init => IInv /\ AuditMatches
<1> USE ConstantsAssumption
<1> SUFFICES ASSUME Init PROVE IInv /\ AuditMatches
  OBVIOUS
<1>1. Saved = {} /\ InFlight = {} /\ AuditMatches
  BY DEF Init, Saved, InFlight, NoClaim, NotSubmitting, AuditMatches
<1>2. \A c \in Calls : submit[c] = NotSubmitting /\ admin[c] = NotAdministering
  BY DEF Init
<1>3. TypeOK
  BY DEF Init, TypeOK, NoClaim, NoRecord, NoPayload, NotSubmitting, NotAdministering, Statuses, Decisions,
         Submissions, Administrations, Refusals
<1>4. FlightInv /\ OneUnfinishedClaim /\ EvidenceIsExclusive /\ SameKeySameClaim
  BY <1>1, <1>2 DEF FlightInv, OneUnfinishedClaim, EvidenceIsExclusive, SameKeySameClaim, NotSubmitting
<1>5. AdminInv /\ ConflictIsResolved
  BY <1>2 DEF AdminInv, ConflictIsResolved, NotAdministering
<1>6. RecordsInv /\ KeyActsOnce
  BY <1>2 DEF Init, RecordsInv, KeyActsOnce, NoRecord, NotAdministering, Claims
<1>7. DecidedInOrder
  BY DEF Init, DecidedInOrder, NoClaim, Decisions
<1>8. QED
  BY <1>1, <1>3, <1>4, <1>5, <1>6, <1>7 DEF IInv

LEMMA NextIInv == IInv /\ [Next]_vars => IInv'
<1> SUFFICES ASSUME IInv, [Next]_vars PROVE IInv'
  OBVIOUS
<1>1. TypeOK /\ FlightInv /\ AdminInv /\ Indexes /\ Deciding
  BY DEF IInv, Indexes, Deciding
<1>2. TypeOK'
  BY <1>1, TypesStep
<1>3. FlightInv' /\ Indexes'
  BY <1>1, IndexesStep
<1>4. Deciding'
  BY <1>1, DecidingStep
<1>5. QED
  BY <1>2, <1>3, <1>4 DEF IInv, Indexes, Deciding

LEMMA Invariant == Spec => []IInv
<1>1. QED
  BY InitIInv, NextIInv, PTL DEF Spec

\* The tables and the calls keep their types.
THEOREM ClaimTypes == Spec => []TypeOK
<1>1. IInv => TypeOK
  BY DEF IInv
<1>2. QED
  BY <1>1, Invariant, PTL

\* One unfinished claim per operation, one claim per file and key, whatever races and
\* whatever is closed meanwhile; what a submission is answered says what it says.
THEOREM SubmissionsRace == Spec => []SubmissionsExclude
<1>1. IInv => SubmissionsExclude
  BY DEF IInv, SubmissionsExclude
<1>2. QED
  BY <1>1, Invariant, PTL

\* No conflict over a record reaches a client: the one rerun is enough.
THEOREM ConflictResolved == Spec => []ConflictIsResolved
<1>1. IInv => ConflictIsResolved
  BY DEF IInv
<1>2. QED
  BY <1>1, Invariant, PTL

\* What was audited is what was done.
LEMMA AuditIsExact == Spec => []AuditMatches
<1>1. AuditMatches /\ [Next]_vars => AuditMatches'
  <2> SUFFICES ASSUME AuditMatches, [Next]_vars PROVE AuditMatches'
    OBVIOUS
  <2>1. ASSUME NEW c \in Calls, CommitAdministration(c) PROVE AuditMatches'
    BY <2>1 DEF CommitAdministration, AuditMatches
  <2>2. ASSUME NEW c \in Calls, RecordConflict(c) PROVE AuditMatches'
    BY <2>2 DEF RecordConflict, Rollback, AuditMatches
  <2>3. CASE UNCHANGED <<acted, audited>>
    BY <2>3 DEF AuditMatches
  <2>4. QED
    BY <2>1, <2>2, <2>3 DEF Next, Submit, InsertClaim, InsertImage, CommitClaim, Replay, Administer,
                           LockClaim, CutShort, administration, vars
<1>2. QED
  BY <1>1, InitIInv, PTL DEF Spec

\* A key of the operator acts once, on one claim, with one audit event, and the
\* actions on a claim are those its status went through.
THEOREM DecisionsLeaveOneTrace == Spec => []DecisionsAgree
<1>1. IInv /\ AuditMatches => DecisionsAgree
  BY DEF IInv, DecisionsAgree
<1>2. QED
  BY <1>1, Invariant, AuditIsExact, PTL

\* A submission is refused after a lost race only while its key has no claim.
THEOREM RetriesAreAnswered == Spec => RetryIsAnswered
<1> DEFINE Step == \A c \in Calls :
             submit'[c].refusal = "refused" /\ submit[c].refusal # "refused" => KeyIsFree(submit[c].key)
<1>1. TypeOK /\ [Next]_vars => [Step]_vars
  <2> SUFFICES ASSUME TypeOK, Next PROVE Step
    OBVIOUS
  <2>1. ASSUME NEW c \in Calls, NEW new, submit' = [submit EXCEPT ![c] = new],
               new.refusal = "refused" => submit[c].refusal = "refused" \/ KeyIsFree(submit[c].key)
        PROVE  Step
    BY <2>1 DEF TypeOK
  <2>2. ASSUME NEW c \in Calls, NEW key \in Keys, NEW payload \in Payloads, Submit(c, key, payload) PROVE Step
    <3>1. submit'[c].refusal # "refused" /\ \A d \in Calls \ {c} : submit'[d] = submit[d]
      BY <2>2, SubmitFacts
    <3>2. QED
      BY <3>1
  <2>3. ASSUME NEW c \in Calls, Replay(c) PROVE Step
    <3>1. /\ \A d \in Calls \ {c} : submit'[d] = submit[d]
          /\ submit'[c].refusal = "refused" => KeyIsFree(submit[c].key) \/ submit[c].refusal = "refused"
      BY <2>3, ReplayFacts
    <3>2. QED
      BY <3>1
  <2>4. ASSUME NEW c \in Calls, InsertClaim(c) PROVE Step
    <3> DEFINE new == IF KeyIsFree(submit[c].key) /\ OperationIsFree(submit[c].payload.operation)
                        THEN [submit[c] EXCEPT !.step = "images", !.left = submit[c].payload.files]
                        ELSE AfterConflict(c)
    <3>1. submit' = [submit EXCEPT ![c] = new] /\ submit[c] \in Submissions
      BY <2>4 DEF InsertClaim, TypeOK
    <3>2. new.refusal = submit[c].refusal
      BY <3>1 DEF AfterConflict, Submissions
    <3> HIDE DEF new
    <3>3. QED
      BY <2>1, <3>1, <3>2
  <2>5. ASSUME NEW c \in Calls, NEW f \in Files, InsertImage(c, f) PROVE Step
    <3> DEFINE new == IF FileIsFree(f) THEN [submit[c] EXCEPT !.left = submit[c].left \ {f}] ELSE AfterConflict(c)
    <3>1. submit' = [submit EXCEPT ![c] = new] /\ submit[c] \in Submissions
      BY <2>5 DEF InsertImage, TypeOK
    <3>2. new.refusal = submit[c].refusal
      BY <3>1 DEF AfterConflict, Submissions
    <3> HIDE DEF new
    <3>3. QED
      BY <2>1, <3>1, <3>2
  <2>6. ASSUME NEW c \in Calls, NEW i \in Claims, CommitClaim(c, i) PROVE Step
    <3> DEFINE new == [submit[c] EXCEPT !.step = "done", !.answer = i]
    <3>1. submit' = [submit EXCEPT ![c] = new] /\ submit[c] \in Submissions
      BY <2>6 DEF CommitClaim, TypeOK
    <3>2. new.refusal = submit[c].refusal
      BY <3>1 DEF Submissions
    <3> HIDE DEF new
    <3>3. QED
      BY <2>1, <3>1, <3>2
  <2>7. ASSUME NEW c \in Calls, submit' = [submit EXCEPT ![c] = NotSubmitting] PROVE Step
    BY <2>7, <2>1 DEF NotSubmitting
  <2>8. CASE UNCHANGED submit
    BY <2>8
  <2> HIDE DEF Step
  <2>9. QED
    BY <2>2, <2>3, <2>4, <2>5, <2>6, <2>7, <2>8
       DEF Next, Administer, LockClaim, CommitAdministration, RecordConflict, CutShort
<1>2. QED
  BY <1>1, ClaimTypes, PTL DEF Spec, RetryIsAnswered

----------------------------------------------------------------------------
(* No submissions wait for each other *)

Less == {ss \in Nat \X Nat : ss[1] < ss[2]}

LEMMA LessIsWellFounded == IsWellFoundedOn(Less, Nat)
<1>1. OpToRel(<, Nat) = {ss \in Nat \X Nat : ss[1] < ss[2]}
  BY DEF OpToRel
<1> QED  BY <1>1, NatLessThanWellFounded DEF Less

\* Among some numbers there is a smallest one.
LEMMA SmallestOf ==
  ASSUME NEW S \in SUBSET Nat, S # {}
  PROVE  \E s \in S : \A t \in S : s <= t
<1>1. \E s \in S : \A t \in S : ~(<<t, s>> \in Less)
  BY WFMin, LessIsWellFounded
<1>2. \A s, t \in Nat : ~(<<t, s>> \in Less) => s <= t
  BY DEF Less
<1> QED  BY <1>1, <1>2

\* Among finitely many calls, one waits for a file that is as large as any.
LEMMA LargestOf ==
  ASSUME NEW S, IsFiniteSet(S), S # {}, NEW w \in [S -> Nat]
  PROVE  \E c \in S : \A d \in S : w[d] <= w[c]
<1>0. PICK n \in Nat : ExistsSurjection(1..n, S)
  BY FS_NatSurjection
<1>1. PICK g \in [1..n -> S] : \A c \in S : \E i \in 1..n : g[i] = c
  BY <1>0 DEF ExistsSurjection, Surjection
<1> DEFINE Peak(k) == \E i \in 1..k : \A j \in 1..k : w[g[j]] <= w[g[i]]
           Bad == {k \in 1..n : ~Peak(k)}
<1>2. \A i \in 1..n : w[g[i]] \in Nat
  BY <1>1
<1>3. Bad = {}
  <2> SUFFICES ASSUME Bad # {} PROVE FALSE
    OBVIOUS
  <2>1. Bad \in SUBSET Nat
    OBVIOUS
  <2>2. PICK k \in Bad : \A l \in Bad : k <= l
    <3> HIDE DEF Bad
    <3> QED  BY <2>1, SmallestOf
  <2>3. k \in 1..n /\ ~Peak(k)
    OBVIOUS
  <2>4. k # 1
    BY <1>2, <2>3
  <2>5. k - 1 \in 1..n /\ k - 1 \notin Bad
    <3>1. k - 1 \in 1..n /\ ~(k <= k - 1)
      BY <2>3, <2>4
    <3> HIDE DEF Bad
    <3> QED  BY <2>2, <3>1
  <2>6. PICK i \in 1..(k - 1) : \A j \in 1..(k - 1) : w[g[j]] <= w[g[i]]
    BY <2>5
  <2>7. \A j \in 1..k : j \in 1..(k - 1) \/ j = k
    BY <2>3
  <2>8. i \in 1..n /\ i \in 1..k /\ k \in 1..k
    BY <2>3
  <2>9. CASE w[g[k]] <= w[g[i]]
    BY <2>3, <2>6, <2>7, <2>8, <2>9
  <2>10. CASE w[g[i]] < w[g[k]]
    <3>1. \A j \in 1..k : w[g[j]] <= w[g[k]]
      <4> SUFFICES ASSUME NEW j \in 1..k PROVE w[g[j]] <= w[g[k]]
        OBVIOUS
      <4>1. w[g[j]] \in Nat /\ w[g[k]] \in Nat /\ w[g[i]] \in Nat
        BY <1>2, <2>3, <2>8
      <4>2. CASE j = k
        BY <4>1, <4>2
      <4>3. CASE j \in 1..(k - 1)
        <5>1. w[g[j]] <= w[g[i]]
          BY <2>6, <4>3
        <5>2. \A a, b, c \in Nat : a <= b /\ b < c => a <= c
          BY Z3
        <5> HIDE DEF Peak, Bad
        <5> QED  BY <2>10, <4>1, <5>1, <5>2, Zenon
      <4> QED  BY <2>7, <4>2, <4>3
    <3> QED  BY <2>3, <2>8, <3>1
  <2>11. QED
    BY <1>2, <2>3, <2>8, <2>9, <2>10
<1>4. n \in 1..n
  <2>1. \E i \in 1..n : TRUE
    BY <1>1
  <2> QED  BY <2>1
<1>5. PICK i \in 1..n : \A j \in 1..n : w[g[j]] <= w[g[i]]
  BY <1>3, <1>4
<1> QED
  BY <1>1, <1>5

\* A transaction holds the images that come before those it has left, and no more
\* calls than were ever served are in one.
ImagesInOrder ==
  /\ IsFiniteSet(InFlight)
  /\ \A c \in InFlight : \A f \in Held(c), g \in submit[c].left : f < g

\* A step that leaves every transaction in flight as it is, or ends it.
LEMMA OrderFrame ==
  ASSUME ImagesInOrder, NEW c \in Calls, \A d \in Calls \ {c} : submit'[d] = submit[d],
         submit'[c] = submit[c] \/ submit'[c].step # "images"
  PROVE  ImagesInOrder'
<1>1. InFlight' \subseteq InFlight /\ \A d \in InFlight' : submit'[d] = submit[d]
  BY DEF InFlight
<1>2. IsFiniteSet(InFlight')
  BY <1>1, FS_Subset DEF ImagesInOrder
<1>3. \A d \in InFlight' : Held(d)' = Held(d)
  BY <1>1 DEF Held
<1> QED
  BY <1>1, <1>2, <1>3 DEF ImagesInOrder

LEMMA OrderStep == IInv /\ ImagesInOrder /\ [Next]_vars => ImagesInOrder'
<1> USE ConstantsAssumption
<1> SUFFICES ASSUME IInv, ImagesInOrder, [Next]_vars PROVE ImagesInOrder'
  OBVIOUS
<1>0. TypeOK /\ FlightInv /\ \A c \in Calls : submit[c] \in Submissions
  BY DEF IInv, TypeOK
<1>1. ASSUME UNCHANGED submit PROVE ImagesInOrder'
  BY <1>1 DEF ImagesInOrder, InFlight, Held
<1>2. ASSUME NEW c \in Calls, NEW key \in Keys, NEW payload \in Payloads, Submit(c, key, payload)
      PROVE  ImagesInOrder'
  <2>1. /\ \A d \in Calls \ {c} : submit'[d] = submit[d]
        /\ submit'[c] = Submitting(key, payload) \/ submit'[c].step \in {"idle", "done"}
    BY <1>0, <1>2, SubmitFacts
  <2>2. Submitting(key, payload).step = "insert"
    BY DEF Submitting
  <2> QED  BY <2>1, <2>2, OrderFrame
<1>3. ASSUME NEW c \in Calls, Replay(c) PROVE ImagesInOrder'
  <2>1. /\ \A d \in Calls \ {c} : submit'[d] = submit[d]
        /\ submit'[c] = Refused("refused") \/ submit'[c].step \in {"idle", "done"}
    BY <1>0, <1>3, ReplayFacts
  <2>2. Refused("refused").step = "idle"
    BY DEF Refused, NotSubmitting
  <2> QED  BY <2>1, <2>2, OrderFrame
<1>4. ASSUME NEW c \in Calls, NEW new, submit' = [submit EXCEPT ![c] = new], new.step # "images"
      PROVE  ImagesInOrder'
  <2>1. submit'[c] = new /\ \A d \in Calls \ {c} : submit'[d] = submit[d]
    BY <1>0, <1>4 DEF TypeOK
  <2> QED  BY <1>4, <2>1, OrderFrame
<1>5. ASSUME NEW c \in Calls PROVE AfterConflict(c).step = "replay"
  BY <1>0, <1>5 DEF AfterConflict, Submissions
<1>6. ASSUME NEW c \in Calls, InsertClaim(c) PROVE ImagesInOrder'
  <2> DEFINE new == [submit[c] EXCEPT !.step = "images", !.left = submit[c].payload.files]
  <2>1. CASE submit' = [submit EXCEPT ![c] = AfterConflict(c)]
    BY <1>4, <1>5, <2>1
  <2>2. CASE submit' = [submit EXCEPT ![c] = new]
    <3>1. new.left = new.payload.files
      BY <1>0 DEF Submissions
    <3>2. submit'[c] = new /\ \A d \in Calls \ {c} : submit'[d] = submit[d]
      BY <1>0, <2>2 DEF TypeOK
    <3> HIDE DEF new
    <3>3. Held(c)' = {} /\ \A d \in Calls \ {c} : Held(d)' = Held(d)
      BY <3>1, <3>2 DEF Held
    <3>4. InFlight' \subseteq InFlight \cup {c}
      BY <3>2 DEF InFlight
    <3>5. IsFiniteSet(InFlight')
      BY <3>4, FS_AddElement, FS_Subset DEF ImagesInOrder
    <3>6. \A d \in InFlight' : d = c \/ (d \in InFlight /\ d \in Calls \ {c})
      BY <3>4 DEF InFlight
    <3> QED  BY <3>2, <3>3, <3>5, <3>6 DEF ImagesInOrder
  <2> QED  BY <1>6, <2>1, <2>2 DEF InsertClaim
<1>7. ASSUME NEW c \in Calls, NEW f \in Files, InsertImage(c, f) PROVE ImagesInOrder'
  <2> DEFINE new == [submit[c] EXCEPT !.left = submit[c].left \ {f}]
  <2>1. CASE submit' = [submit EXCEPT ![c] = AfterConflict(c)]
    BY <1>4, <1>5, <2>1
  <2>2. CASE submit' = [submit EXCEPT ![c] = new]
    <3>1. new.left = submit[c].left \ {f} /\ new.payload = submit[c].payload /\ new.step = submit[c].step
      BY <1>0 DEF Submissions
    <3>2. submit'[c] = new /\ \A d \in Calls \ {c} : submit'[d] = submit[d]
      BY <1>0, <2>2 DEF TypeOK
    <3> HIDE DEF new
    <3>3. InFlight' = InFlight
      BY <3>1, <3>2 DEF InFlight
    <3>4. Held(c)' \subseteq Held(c) \cup {f} /\ \A d \in Calls \ {c} : Held(d)' = Held(d)
      BY <3>1, <3>2 DEF Held
    <3>5. f \in submit[c].left /\ (\A g \in submit[c].left : f <= g) /\ c \in InFlight
      BY <1>7 DEF InsertImage, Following, InFlight
    <3>6. submit[c].left \subseteq Nat
      BY <1>0 DEF Submissions
    <3>7. \A g \in submit[c].left \ {f} : f < g
      BY <3>5, <3>6
    <3>8. \A h \in Held(c)', g \in submit'[c].left : h < g
      BY <3>1, <3>2, <3>4, <3>5, <3>7 DEF ImagesInOrder
    <3>9. \A d \in InFlight \ {c} : d \in Calls \ {c}
      BY DEF InFlight
    <3> QED  BY <3>2, <3>3, <3>4, <3>8, <3>9 DEF ImagesInOrder
  <2> QED  BY <1>7, <2>1, <2>2 DEF InsertImage
<1>8. ASSUME NEW c \in Calls, NEW i \in Claims, CommitClaim(c, i) PROVE ImagesInOrder'
  <2>1. submit' = [submit EXCEPT ![c] = [submit[c] EXCEPT !.step = "done", !.answer = i]]
    BY <1>8 DEF CommitClaim
  <2>2. [submit[c] EXCEPT !.step = "done", !.answer = i].step = "done"
    BY <1>0 DEF Submissions
  <2> QED  BY <1>4, <2>1, <2>2
<1>9. ASSUME NEW c \in Calls, submit' = [submit EXCEPT ![c] = NotSubmitting] PROVE ImagesInOrder'
  <2>1. NotSubmitting.step = "idle"
    BY DEF NotSubmitting
  <2> QED  BY <1>4, <1>9, <2>1
<1>10. QED
  BY <1>1, <1>2, <1>3, <1>6, <1>7, <1>8, <1>9
     DEF Next, Administer, LockClaim, CommitAdministration, RecordConflict, CutShort, vars

\* Among submissions that all wait, the one that waits for the largest file waits for
\* one that holds it, which waits for a larger file still.
LEMMA OrderBreaksTheCycle == IInv /\ ImagesInOrder => SomeoneProceeds
<1> USE ConstantsAssumption
<1> SUFFICES ASSUME IInv, ImagesInOrder, InFlight # {}, \A c \in InFlight : Waits(c) PROVE FALSE
  BY DEF SomeoneProceeds
<1> DEFINE w == [c \in InFlight |-> CHOOSE f \in submit[c].left : \A g \in submit[c].left : f <= g]
<1>1. \A c \in InFlight : w[c] \in submit[c].left /\ w[c] \in Nat /\ \A g \in submit[c].left : w[c] <= g
  <2> SUFFICES ASSUME NEW c \in InFlight
               PROVE  w[c] \in submit[c].left /\ w[c] \in Nat /\ \A g \in submit[c].left : w[c] <= g
    OBVIOUS
  <2>1. submit[c].left # {} /\ submit[c].left \subseteq Nat
    BY DEF Waits, IInv, TypeOK, Submissions, InFlight
  <2>2. \E f \in submit[c].left : \A g \in submit[c].left : f <= g
    BY <2>1, SmallestOf
  <2> QED  BY <2>1, <2>2
<1>2. w \in [InFlight -> Nat]
  BY <1>1
<1>3. PICK c \in InFlight : \A d \in InFlight : w[d] <= w[c]
  <2> HIDE DEF w
  <2> QED  BY <1>2, LargestOf DEF ImagesInOrder
<1> HIDE DEF w
<1>4. w[c] \in Following(submit[c].left)
  BY <1>1 DEF Following
<1>5. PICK d \in InFlight \ {c} : w[c] \in submit[d].payload.files \ submit[d].left
  BY <1>4 DEF Waits, HeldByAnother
<1>6. w[c] < w[d]
  BY <1>1, <1>5 DEF ImagesInOrder, Held
<1>7. QED
  BY <1>1, <1>3, <1>5, <1>6

\* Submissions in flight never all wait for each other: their images are inserted in
\* one order, whatever files they share.
THEOREM SubmissionsProceed == Spec => []SomeoneProceeds
<1>1. Init => ImagesInOrder
  <2> SUFFICES ASSUME Init PROVE ImagesInOrder
    OBVIOUS
  <2>1. InFlight = {}
    BY DEF Init, InFlight, NotSubmitting
  <2> QED  BY <2>1, FS_EmptySet DEF ImagesInOrder
<1>2. QED
  BY <1>1, OrderStep, OrderBreaksTheCycle, Invariant, PTL DEF Spec

----------------------------------------------------------------------------
(* The moderation of a review *)

Reviews == [visible : BOOLEAN, version : Nat, hiding : Nat]
ReportStates == {"none", "pending", "upheld", "dismissed"}
Inputs == [action : Actions, expected : Nat, reported : BOOLEAN]
Moderations == [pc : {"idle", "shown", "posted", "deciding", "reporting"}, input : Inputs,
                read : Reviews, report : ReportStates, shown : Nat]
DecisionRows == [action : Actions, reported : BOOLEAN, previous : Nat, shown : Nat]

ModerationTypes ==
  /\ review \in Reviews
  /\ report \in ReportStates
  /\ decisions \in Seq(DecisionRows)
  /\ moderating \in [Moderators -> Moderations]
  /\ unseen \in Nat

\* What a page shows has as many decisions as its version says; whoever holds the row
\* holds it alone and has read it.
RequestsKnow ==
  /\ \A m \in Moderators : moderating[m].pc = "shown" =>
       moderating[m].read.version = moderating[m].shown + 1
  /\ \A m \in Moderators : moderating[m].pc \in {"posted", "deciding"} =>
       moderating[m].input.expected = moderating[m].shown + 1
  /\ \A m \in Moderators : moderating[m].pc = "deciding" =>
       /\ moderating[m].read = review /\ moderating[m].report = report
       /\ MayDecide(moderating[m].input, review, report)
  /\ \A m \in Moderators : moderating[m].pc = "reporting" => review.visible
  /\ \A m, n \in Moderators : Holds(m) /\ Holds(n) => m = n

ModerationInv == ModerationTypes /\ RequestsKnow /\ ModerationIsInformed

\* Two decisions do not both hide the review.
LEMMA HidingIs ==
  ASSUME NEW history, NEW k \in Nat, NEW i \in 1..k, Hides(history, i, k)
  PROVE  HidingAfter(history, k) = i
<1>1. ASSUME NEW j \in 1..k, Hides(history, j, k), j < i PROVE FALSE
  <2>1. i \in (j + 1)..k
    BY <1>1
  <2> QED  BY <1>1, <2>1 DEF Hides
<1>2. ASSUME NEW j \in 1..k, Hides(history, j, k), i < j PROVE FALSE
  <2>1. j \in (i + 1)..k
    BY <1>2
  <2> QED  BY <1>2, <2>1 DEF Hides
<1>3. \A j \in 1..k : Hides(history, j, k) => j = i
  <2> SUFFICES ASSUME NEW j \in 1..k, Hides(history, j, k) PROVE j = i
    OBVIOUS
  <2>1. j < i \/ i < j \/ j = i
    OBVIOUS
  <2> QED  BY <1>1, <1>2, <2>1
<1> QED
  BY <1>3 DEF HidingAfter

\* The first decisions alone say what hides the review after them.
LEMMA HidingKept ==
  ASSUME NEW old, NEW new, NEW n \in Nat, \A k \in 1..n : new[k] = old[k], NEW k \in 0..n
  PROVE  HidingAfter(new, k) = HidingAfter(old, k)
<1>1. \A i \in 1..k : new[i] = old[i] /\ \A j \in (i + 1)..k : new[j] = old[j]
  OBVIOUS
<1>2. \A i \in 1..k : Hides(new, i, k) <=> Hides(old, i, k)
  BY <1>1 DEF Hides
<1> QED
  BY <1>2 DEF HidingAfter

\* One decision more, with the number that Hiding gives it.
LEMMA HidingGrows ==
  ASSUME NEW old, NEW new, NEW n \in Nat, \A k \in 1..n : new[k] = old[k],
         NEW r, r.hiding = HidingAfter(old, n), NEW action \in Actions, new[n + 1].action = action
  PROVE  HidingAfter(new, n + 1) = Hiding(r, action, n + 1)
<1>1. CASE action = "hide"
  <2>1. Hides(new, n + 1, n + 1)
    <3>1. \A j \in ((n + 1) + 1)..(n + 1) : FALSE
      OBVIOUS
    <3> QED  BY <1>1, <3>1 DEF Hides
  <2>2. HidingAfter(new, n + 1) = n + 1
    BY <2>1, HidingIs
  <2> QED  BY <1>1, <2>2 DEF Hiding
<1>2. CASE action # "hide"
  <2>1. \A i \in 1..(n + 1) : Hides(new, i, n + 1) => i \in 1..n /\ action = "dismiss_reports"
    <3> SUFFICES ASSUME NEW i \in 1..(n + 1), Hides(new, i, n + 1)
                 PROVE  i \in 1..n /\ action = "dismiss_reports"
      OBVIOUS
    <3>1. i # n + 1
      BY <1>2 DEF Hides
    <3>2. i \in 1..n /\ n + 1 \in (i + 1)..(n + 1)
      BY <3>1
    <3> QED  BY <3>2 DEF Hides
  <2>2. CASE action = "unhide"
    <3>1. ~\E i \in 1..(n + 1) : Hides(new, i, n + 1)
      BY <2>1, <2>2
    <3> QED  BY <2>2, <3>1 DEF HidingAfter, Hiding
  <2>3. CASE action = "dismiss_reports"
    <3>1. \A i \in 1..n : Hides(new, i, n + 1) <=> Hides(old, i, n)
      <4> SUFFICES ASSUME NEW i \in 1..n PROVE Hides(new, i, n + 1) <=> Hides(old, i, n)
        OBVIOUS
      <4>1. \A j : j \in (i + 1)..(n + 1) <=> j \in (i + 1)..n \/ j = n + 1
        OBVIOUS
      <4>2. \A j \in (i + 1)..n : j \in 1..n
        OBVIOUS
      <4> QED  BY <2>3, <4>1, <4>2 DEF Hides
    <3>2. CASE \E i \in 1..n : Hides(old, i, n)
      <4>1. PICK i \in 1..n : Hides(old, i, n)
        BY <3>2
      <4>2. Hides(new, i, n + 1) /\ i \in 1..(n + 1)
        BY <3>1, <4>1
      <4>3. HidingAfter(old, n) = i /\ HidingAfter(new, n + 1) = i
        BY <4>1, <4>2, HidingIs
      <4> QED  BY <2>3, <4>3 DEF Hiding
    <3>3. CASE ~\E i \in 1..n : Hides(old, i, n)
      <4>1. ~\E i \in 1..(n + 1) : Hides(new, i, n + 1)
        BY <2>1, <3>1, <3>3
      <4>2. HidingAfter(old, n) = 0 /\ HidingAfter(new, n + 1) = 0
        BY <3>3, <4>1 DEF HidingAfter
      <4> QED  BY <2>3, <4>2 DEF Hiding
    <3> QED  BY <3>2, <3>3
  <2> QED  BY <1>2, <2>2, <2>3 DEF Actions
<1> QED
  BY <1>1, <1>2

LEMMA CommitKeepsHistory ==
  ASSUME ModerationInv, NEW m \in Moderators, CommitDecision(m)
  PROVE  ModerationIsInformed'
<1> DEFINE n == Len(decisions)
           input == moderating[m].input
           d == DecisionOf(m)
<1>1. /\ moderating[m].pc = "deciding" /\ decisions' = Append(decisions, d)
      /\ review' = Moderated(review, input.action, n + 1)
      /\ report' = IF input.reported THEN Settled(input.action) ELSE report
      /\ unseen' = unseen
  BY DEF CommitDecision, ModerationInv, RequestsKnow
<1>2. /\ n \in Nat /\ Len(decisions') = n + 1 /\ decisions'[n + 1] = d
      /\ \A k \in 1..n : decisions'[k] = decisions[k]
  BY <1>1 DEF ModerationInv, ModerationTypes
<1>3. /\ d.action = input.action /\ d.reported = input.reported /\ d.shown = moderating[m].shown
      /\ d.previous = IF input.action = "unhide" THEN review.hiding ELSE 0
  BY <1>1 DEF DecisionOf, ModerationInv, RequestsKnow
<1>4. /\ MayDecide(input, review, report) /\ review.version = moderating[m].shown + 1
      /\ review.version = n + 1
  BY <1>1 DEF ModerationInv, RequestsKnow, MayDecide, IsSameVersion, ModerationIsInformed, HidingIsRecorded
<1>5. input.action \in Actions /\ input.reported \in BOOLEAN /\ moderating[m].shown \in Nat
  BY DEF ModerationInv, ModerationTypes, Moderations, Inputs
<1> HIDE DEF n, input, d
<1>6. EachWasInformed'
  <2>1. d.shown = n
    BY <1>2, <1>3, <1>4, <1>5
  <2>2. \A k \in 1..n : decisions[k].shown = k - 1
    BY DEF ModerationInv, ModerationIsInformed, EachWasInformed, n
  <2>3. \A k \in 1..(n + 1) : k \in 1..n \/ k = n + 1
    BY <1>2
  <2>4. \A k \in 1..(n + 1) : decisions'[k].shown = k - 1
    BY <1>2, <2>1, <2>2, <2>3
  <2> QED  BY <1>2, <2>4 DEF EachWasInformed
<1>7. HidingIsRecorded'
  <2>1. review.hiding = HidingAfter(decisions, n) /\ (review.visible <=> review.hiding = 0)
    BY DEF ModerationInv, ModerationIsInformed, HidingIsRecorded, n
  <2>2. HidingAfter(decisions', n + 1) = Hiding(review, input.action, n + 1)
    BY <1>2, <1>3, <1>5, <2>1, HidingGrows
  <2>3. /\ review'.hiding = Hiding(review, input.action, n + 1)
        /\ review'.version = n + 2
        /\ review'.visible = IF input.action = "dismiss_reports" THEN review.visible ELSE input.action = "unhide"
    BY <1>1, <1>2, <1>4 DEF Moderated
  <2>4. review'.visible <=> review'.hiding = 0
    <3>1. n + 1 # 0
      BY <1>2
    <3>2. CASE input.action = "hide"
      BY <2>3, <3>1, <3>2 DEF Hiding
    <3>3. CASE input.action = "unhide"
      BY <2>3, <3>3 DEF Hiding
    <3>4. CASE input.action = "dismiss_reports"
      BY <2>1, <2>3, <3>4 DEF Hiding
    <3> QED  BY <1>5, <3>2, <3>3, <3>4 DEF Actions
  <2>5. ASSUME NEW k \in 1..(n + 1), decisions'[k].action = "unhide"
        PROVE  /\ decisions'[k].previous = HidingAfter(decisions', k - 1)
               /\ decisions'[k].previous > 0
    <3>1. HidingAfter(decisions', k - 1) = HidingAfter(decisions, k - 1)
      <4>1. k - 1 \in 0..n
        BY <1>2
      <4> QED  BY <1>2, <4>1, HidingKept
    <3>2. CASE k \in 1..n
      BY <1>2, <2>5, <3>1, <3>2 DEF ModerationInv, ModerationIsInformed, HidingIsRecorded, n
    <3>3. CASE k = n + 1
      <4>1. d.previous = review.hiding /\ review.hiding > 0
        BY <1>2, <1>3, <1>4, <2>5, <3>3 DEF MayDecide
      <4>2. k - 1 = n
        BY <1>2, <3>3
      <4> QED  BY <1>2, <2>1, <3>1, <3>3, <4>1, <4>2
    <3> QED  BY <1>2, <3>2, <3>3
  <2> QED  BY <1>2, <2>2, <2>3, <2>4, <2>5 DEF HidingIsRecorded
<1>8. ReportIsSettledOnce'
  <2> DEFINE settling == {k \in 1..n : decisions[k].reported}
             after == {k \in 1..(n + 1) : decisions'[k].reported}
  <2>1. /\ \A i, k \in settling : i = k
        /\ report \in {"none", "pending"} <=> settling = {}
        /\ \A k \in settling : report = Settled(decisions[k].action)
    BY DEF ModerationInv, ModerationIsInformed, ReportIsSettledOnce, n
  <2>2. CASE input.reported
    <3>1. settling = {}
      BY <1>4, <2>1, <2>2 DEF MayDecide
    <3>2. after = {n + 1}
      <4>1. \A k \in 1..n : ~decisions'[k].reported
        BY <1>2, <3>1
      <4>2. \A k \in 1..(n + 1) : k \in 1..n \/ k = n + 1
        BY <1>2
      <4>3. n + 1 \in 1..(n + 1) /\ decisions'[n + 1].reported
        BY <1>2, <1>3, <2>2
      <4> QED  BY <4>1, <4>2, <4>3
    <3>3. report' = Settled(input.action) /\ report' \notin {"none", "pending"}
      BY <1>1, <2>2 DEF Settled
    <3> QED  BY <1>2, <1>3, <3>2, <3>3 DEF ReportIsSettledOnce
  <2>3. CASE ~input.reported
    <3>1. after = settling /\ report' = report
      BY <1>1, <1>2, <1>3, <2>3
    <3>2. \A k \in after : decisions'[k] = decisions[k]
      BY <1>2, <3>1
    <3> QED  BY <1>2, <2>1, <3>1, <3>2 DEF ReportIsSettledOnce
  <2> QED  BY <2>2, <2>3
<1> QED
  BY <1>1, <1>6, <1>7, <1>8 DEF ModerationIsInformed, ModerationInv

LEMMA ModerationTypesStep == ModerationInv /\ [ModerationNext]_rvars => ModerationTypes'
<1> SUFFICES ASSUME ModerationInv, [ModerationNext]_rvars PROVE ModerationTypes'
  OBVIOUS
<1> USE DEF ModerationInv, ModerationTypes
<1>1. Resting("idle") \in Moderations /\ Resting("shown") \in Moderations
      /\ Resting("posted") \in Moderations /\ Resting("reporting") \in Moderations
  BY DEF Resting, NoInput, NewReview, Moderations, Inputs, Reviews, ReportStates, Actions
<1>2. ASSUME NEW m \in Moderators, ReadDetail(m) PROVE ModerationTypes'
  <2> DEFINE page == [Resting("shown") EXCEPT !.read = review, !.report = report, !.shown = Len(decisions)]
  <2>1. Len(decisions) \in Nat
    OBVIOUS
  <2>2. page \in Moderations
    BY <1>1, <2>1 DEF Moderations
  <2> HIDE DEF page
  <2>3. moderating' = [moderating EXCEPT ![m] = page] /\ UNCHANGED <<review, report, decisions, unseen>>
    BY <1>2 DEF ReadDetail, page
  <2> QED  BY <2>2, <2>3
<1>3. ASSUME NEW m \in Moderators, NEW action \in Actions, NEW reported \in BOOLEAN, Post(m, action, reported)
      PROVE  ModerationTypes'
  BY <1>1, <1>3 DEF Post, Moderations, Inputs, Reviews
<1>4. ASSUME NEW m \in Moderators, LockReview(m) PROVE ModerationTypes'
  BY <1>1, <1>4 DEF LockReview, Moderations
<1>5. ASSUME NEW m \in Moderators, CommitDecision(m) PROVE ModerationTypes'
  <2> DEFINE action == moderating[m].input.action
  <2>1. moderating[m] \in Moderations /\ action \in Actions /\ Len(decisions) \in Nat
    BY DEF Moderations, Inputs
  <2>2. DecisionOf(m) \in DecisionRows
    BY <2>1 DEF DecisionOf, DecisionRows, Moderations, Inputs, Reviews
  <2>3. Moderated(moderating[m].read, action, Len(decisions) + 1) \in Reviews
    <3>1. moderating[m].read \in Reviews
      BY <2>1 DEF Moderations
    <3>2. Hiding(moderating[m].read, action, Len(decisions) + 1) \in Nat
      BY <2>1, <3>1 DEF Hiding, Reviews
    <3> DEFINE r == moderating[m].read
               visible == IF action = "dismiss_reports" THEN r.visible ELSE action = "unhide"
               hiding == Hiding(r, action, Len(decisions) + 1)
    <3>3. visible \in BOOLEAN
      BY <3>1 DEF Reviews
    <3>4. r.version + 1 \in Nat
      BY <3>1 DEF Reviews
    <3>5. Moderated(r, action, Len(decisions) + 1)
            = [visible |-> visible, version |-> r.version + 1, hiding |-> hiding]
      BY DEF Moderated
    <3> HIDE DEF visible, hiding
    <3> QED  BY <3>2, <3>3, <3>4, <3>5 DEF Reviews, hiding
  <2>4. Settled(action) \in ReportStates
    BY DEF Settled, ReportStates
  <2> QED  BY <1>1, <1>5, <2>2, <2>3, <2>4 DEF CommitDecision
<1>6. ASSUME NEW m \in Moderators, LockForReport(m) PROVE ModerationTypes'
  BY <1>1, <1>6 DEF LockForReport, Moderations
<1>7. ASSUME NEW m \in Moderators, CommitReport(m) PROVE ModerationTypes'
  BY <1>1, <1>7 DEF CommitReport, ReportStates
<1>8. ASSUME NEW m \in Moderators, AbandonReview(m) PROVE ModerationTypes'
  BY <1>1, <1>8 DEF AbandonReview
<1>9. ASSUME UNCHANGED rvars PROVE ModerationTypes'
  BY <1>9 DEF rvars
<1> QED
  BY <1>2, <1>3, <1>4, <1>5, <1>6, <1>7, <1>8, <1>9 DEF ModerationNext

LEMMA KnowStep == ModerationInv /\ [ModerationNext]_rvars => RequestsKnow'
<1> SUFFICES ASSUME ModerationInv, [ModerationNext]_rvars PROVE RequestsKnow'
  OBVIOUS
<1> USE DEF ModerationInv, ModerationTypes, RequestsKnow, Holds
<1>1. \A pc \in {"idle", "shown", "posted", "deciding", "reporting"} : Resting(pc).pc = pc
  BY DEF Resting
<1>2. review.version = Len(decisions) + 1
  BY DEF ModerationIsInformed, HidingIsRecorded
<1>3. ASSUME NEW m \in Moderators, ReadDetail(m) PROVE RequestsKnow'
  <2> DEFINE page == [Resting("shown") EXCEPT !.read = review, !.report = report, !.shown = Len(decisions)]
  <2>1. page.pc = "shown" /\ page.read.version = page.shown + 1
    BY <1>2 DEF Resting
  <2> HIDE DEF page
  <2>2. moderating' = [moderating EXCEPT ![m] = page] /\ UNCHANGED <<review, report, decisions, unseen>>
    BY <1>3 DEF ReadDetail, page
  <2> QED  BY <2>1, <2>2
<1>4. ASSUME NEW m \in Moderators, NEW action \in Actions, NEW reported \in BOOLEAN, Post(m, action, reported)
      PROVE  RequestsKnow'
  <2> DEFINE input == [action |-> action, expected |-> moderating[m].read.version, reported |-> reported]
             posted == [Resting("posted") EXCEPT !.input = input, !.shown = moderating[m].shown]
  <2>1. posted.pc = "posted" /\ posted.input.expected = posted.shown + 1
    BY <1>4 DEF Post, Resting
  <2> HIDE DEF posted
  <2>2. moderating' = [moderating EXCEPT ![m] = posted] /\ UNCHANGED <<review, report, decisions, unseen>>
    BY <1>4 DEF Post, posted
  <2> QED  BY <2>1, <2>2
<1>5. ASSUME NEW m \in Moderators, LockReview(m) PROVE RequestsKnow'
  <2> DEFINE deciding == [moderating[m] EXCEPT !.pc = "deciding", !.read = review, !.report = report]
  <2>1. CASE MayDecide(moderating[m].input, review, report)
    <3>1. /\ deciding.pc = "deciding" /\ deciding.read = review /\ deciding.report = report
          /\ deciding.input = moderating[m].input /\ deciding.shown = moderating[m].shown
      BY DEF Moderations
    <3>2. moderating' = [moderating EXCEPT ![m] = deciding] /\ UNCHANGED <<review, report>>
      BY <1>5, <2>1 DEF LockReview
    <3>3. moderating[m].pc = "posted" /\ \A n \in Moderators : ~Holds(n)
      BY <1>5 DEF LockReview, IsUnlocked
    <3> HIDE DEF deciding
    <3> QED  BY <2>1, <3>1, <3>2, <3>3 DEF MayDecide, IsSameVersion
  <2>2. CASE ~MayDecide(moderating[m].input, review, report)
    BY <1>1, <1>5, <2>2 DEF LockReview, MayDecide, IsSameVersion
  <2> QED  BY <2>1, <2>2
<1>6. ASSUME NEW m \in Moderators, CommitDecision(m) \/ CommitReport(m) PROVE RequestsKnow'
  <2>1. /\ Holds(m) /\ moderating' = [moderating EXCEPT ![m] = Resting("idle")]
    BY <1>6 DEF CommitDecision, CommitReport
  <2>2. \A n \in Moderators : ~Holds(n)' /\ (n # m => moderating'[n] = moderating[n])
    BY <1>1, <2>1
  <2> QED  BY <1>1, <2>1, <2>2
<1>7. ASSUME NEW m \in Moderators, LockForReport(m) PROVE RequestsKnow'
  <2> DEFINE reporting == [Resting("reporting") EXCEPT !.read = review]
  <2>1. reporting.pc = "reporting"
    BY DEF Resting
  <2> HIDE DEF reporting
  <2>2. /\ moderating' = [moderating EXCEPT ![m] = reporting] /\ UNCHANGED <<review, report>>
        /\ review.visible /\ \A n \in Moderators : ~Holds(n)
    BY <1>7 DEF LockForReport, IsUnlocked, reporting
  <2> QED  BY <2>1, <2>2
<1>8. ASSUME NEW m \in Moderators, AbandonReview(m) PROVE RequestsKnow'
  BY <1>1, <1>8 DEF AbandonReview, MayDecide, IsSameVersion
<1>9. ASSUME UNCHANGED rvars PROVE RequestsKnow'
  BY <1>9 DEF rvars, MayDecide, IsSameVersion
<1> QED
  BY <1>3, <1>4, <1>5, <1>6, <1>7, <1>8, <1>9 DEF ModerationNext

LEMMA ModerationStep == ModerationInv /\ [ModerationNext]_rvars => ModerationInv'
<1> SUFFICES ASSUME ModerationInv, [ModerationNext]_rvars PROVE ModerationIsInformed'
  BY ModerationTypesStep, KnowStep DEF ModerationInv
<1>1. ASSUME NEW m \in Moderators, CommitReport(m) PROVE ModerationIsInformed'
  <2>1. /\ report = "none" /\ report' = "pending" /\ UNCHANGED <<review, decisions>>
    BY <1>1 DEF CommitReport
  <2>2. unseen' = 0
    BY <1>1 DEF CommitReport, ModerationInv, ModerationIsInformed, RequestsKnow
  <2>3. ReportIsSettledOnce'
    BY <2>1 DEF ReportIsSettledOnce, ModerationInv, ModerationIsInformed
  <2>4. EachWasInformed' /\ HidingIsRecorded'
    BY <2>1 DEF EachWasInformed, HidingIsRecorded, ModerationInv, ModerationIsInformed
  <2> QED  BY <2>2, <2>3, <2>4 DEF ModerationIsInformed
<1>2. ASSUME UNCHANGED <<review, report, decisions, unseen>> PROVE ModerationIsInformed'
  BY <1>2 DEF ModerationInv, ModerationIsInformed, EachWasInformed, HidingIsRecorded, ReportIsSettledOnce
<1> QED
  BY <1>1, <1>2, CommitKeepsHistory DEF ModerationNext, rvars, ReadDetail, Post, LockReview, LockForReport,
    AbandonReview

\* For any number of operators and reports, from pages however old: the decisions that
\* Moderate stores are one history, in which each knew the earlier ones.
THEOREM DecisionsAreInformed == ModerationSpec => []ModerationIsInformed
<1>1. ModerationInit => ModerationInv
  <2> SUFFICES ASSUME ModerationInit PROVE ModerationInv
    OBVIOUS
  <2>1. Resting("idle") \in Moderations /\ Resting("idle").pc = "idle" /\ NewReview \in Reviews
    BY DEF Resting, NoInput, NewReview, Moderations, Inputs, Reviews, ReportStates, Actions
  <2>2. ModerationTypes
    BY <2>1 DEF ModerationInit, ModerationTypes, ReportStates
  <2>3. RequestsKnow
    BY <2>1 DEF ModerationInit, RequestsKnow, Holds
  <2>4. Len(decisions) = 0 /\ 1..0 = {}
    BY DEF ModerationInit
  <2>5. HidingAfter(decisions, 0) = 0
    BY <2>4 DEF HidingAfter
  <2> QED  BY <2>2, <2>3, <2>4, <2>5 DEF ModerationInit, NewReview, ModerationInv, ModerationIsInformed,
             EachWasInformed, HidingIsRecorded, ReportIsSettledOnce
<1>2. ModerationInv => ModerationIsInformed
  BY DEF ModerationInv
<1> QED
  BY <1>1, <1>2, ModerationStep, PTL DEF ModerationSpec

----------------------------------------------------------------------------
(* A category and what joins it *)

Saving(e) == editing[e].pc = "saving"

CategoryRows == [name : Names, enabled : BOOLEAN, version : Nat]
Edits == [expected : Nat, name : Names, enabled : BOOLEAN, confirms : BOOLEAN]
EditSteps == [pc : {"idle", "posted", "saving"}, edit : Edits, next : CategoryRows]
CategoryTypes ==
  /\ category \in CategoryRows
  /\ trail \in Seq([expected : Nat, from : BOOLEAN, to : BOOLEAN])
  /\ editing \in [Editors -> EditSteps]
  /\ joining \in [Joiners -> {"idle", "started", "inserting", "done"}]

\* An edit that saves has the row for itself and knows its version; whoever inserts
\* shares a row that is enabled.
RowIsHeld ==
  /\ \A e \in Editors : Saving(e) =>
       /\ ~InJoin
       /\ \A d \in Editors : Saving(d) => d = e
       /\ editing[e].edit.expected = category.version
       /\ editing[e].next.version = category.version + 1
       /\ category.version > 0
  /\ \A e \in Editors : editing[e].pc = "posted" => editing[e].edit.expected > 0
  /\ InJoin => category.enabled

CategoryInv == CategoryTypes /\ RowIsHeld /\ TrailTellsState

\* A version and the event that tells of it, at the end of the trail.
LEMMA TrailGrows ==
  ASSUME CategoryInv, CategoryTypes', NEW event \in [expected : Nat, from : BOOLEAN, to : BOOLEAN],
         trail' = Append(trail, event),
         category'.version = category.version + 1, category'.enabled = event.to,
         trail # <<>> => event.expected = category.version /\ event.from = category.enabled
  PROVE  TrailTellsState'
<1> DEFINE n == Len(trail)
<1>1. n \in Nat /\ n = category.version /\ Len(trail') = n + 1 /\ trail' # <<>>
  BY DEF CategoryInv, CategoryTypes, TrailTellsState
<1>2. trail'[n + 1] = event /\ \A k \in 1..n : trail'[k] = trail[k]
  BY DEF CategoryInv, CategoryTypes
<1>3. ASSUME NEW k \in 2..(n + 1) PROVE trail'[k].expected = k - 1 /\ trail'[k].from = trail'[k - 1].to
  <2>1. CASE k \in 2..n
    BY <1>1, <1>2, <2>1 DEF CategoryInv, TrailTellsState
  <2>2. CASE k = n + 1
    <3>1. n > 0 /\ trail # <<>>
      BY <1>1, <2>2 DEF CategoryInv, CategoryTypes
    <3> QED  BY <1>1, <1>2, <2>2, <3>1 DEF CategoryInv, TrailTellsState
  <2> QED  BY <1>1, <2>1, <2>2
<1> QED
  BY <1>1, <1>2, <1>3 DEF TrailTellsState

LEMMA EditRests == NotEditing \in EditSteps /\ NotEditing.pc = "idle" /\ NoEdit \in Edits
<1>1. AnyName \in Names
  BY CategoriesAssumption DEF AnyName
<1>2. NoEdit \in Edits /\ NoCategory \in CategoryRows
  BY <1>1 DEF NoEdit, Edits, NoCategory, CategoryRows, Row
<1> QED
  BY <1>2 DEF NotEditing, EditSteps

LEMMA CategoryStep == CategoryInv /\ [CategoriesNext]_cvars => CategoryInv'
<1> SUFFICES ASSUME CategoryInv, [CategoriesNext]_cvars PROVE CategoryInv'
  OBVIOUS
<1> USE CategoriesAssumption
<1>1. ASSUME NEW name \in Names, CreateCategory(name) PROVE CategoryInv'
  <2>1. /\ category.version = 0 /\ category' = Row(name, TRUE, 1) /\ trail = <<>>
        /\ trail' = <<[expected |-> 0, from |-> TRUE, to |-> TRUE]>> /\ UNCHANGED <<editing, joining>>
    BY <1>1 DEF CreateCategory, CategoryInv, CategoryTypes, TrailTellsState
  <2>2. CategoryTypes'
    BY <2>1 DEF CategoryInv, CategoryTypes, CategoryRows, Row
  <2>3. RowIsHeld'
    BY <2>1 DEF CategoryInv, CategoryTypes, RowIsHeld, Saving, InJoin, Row
  <2>4. TrailTellsState'
    <3>1. Len(trail') = 1 /\ trail'[1].to = TRUE /\ category'.version = 1 /\ category'.enabled = TRUE
      BY <2>1 DEF Row
    <3>2. \A k \in 2..Len(trail') : FALSE
      BY <3>1
    <3> QED  BY <3>1, <3>2 DEF TrailTellsState
  <2> QED  BY <2>2, <2>3, <2>4 DEF CategoryInv
<1>2. ASSUME NEW e \in Editors, ReadCategory(e) PROVE CategoryInv'
  <2>1. PICK name \in Names, enabled \in BOOLEAN, confirms \in BOOLEAN :
          editing' = [editing EXCEPT ![e] =
            [NotEditing EXCEPT !.pc = "posted",
               !.edit = [expected |-> category.version, name |-> name,
                         enabled |-> enabled, confirms |-> confirms]]]
    BY <1>2 DEF ReadCategory
  <2> DEFINE edit == [expected |-> category.version, name |-> name, enabled |-> enabled, confirms |-> confirms]
             posted == [NotEditing EXCEPT !.pc = "posted", !.edit = edit]
  <2>2. edit \in Edits /\ edit.expected > 0
    BY <1>2 DEF ReadCategory, CategoryInv, CategoryTypes, CategoryRows, Edits
  <2>3. posted \in EditSteps /\ posted.pc = "posted" /\ posted.edit.expected > 0
    BY <2>2, EditRests DEF EditSteps
  <2> HIDE DEF posted
  <2>4. editing' = [editing EXCEPT ![e] = posted] /\ UNCHANGED <<category, trail, joining>>
    BY <1>2, <2>1 DEF ReadCategory, posted
  <2>5. CategoryTypes'
    BY <2>3, <2>4 DEF CategoryInv, CategoryTypes
  <2> QED  BY <2>3, <2>4, <2>5 DEF CategoryInv, CategoryTypes, RowIsHeld, Saving, InJoin, TrailTellsState
<1>3. ASSUME NEW e \in Editors, LockCategory(e) PROVE CategoryInv'
  <2> DEFINE edit == editing[e].edit
             next == Row(edit.name, edit.enabled, category.version + 1)
             saving == [editing[e] EXCEPT !.pc = "saving", !.next = next]
  <2>1. /\ editing[e].pc = "posted" /\ ~InEdit /\ ~InJoin /\ UNCHANGED <<category, trail, joining>>
        /\ \/ editing' = [editing EXCEPT ![e] = NotEditing]
           \/ edit.expected = category.version /\ editing' = [editing EXCEPT ![e] = saving]
    BY <1>3 DEF LockCategory, MayLock, IsRefused
  <2>2. next \in CategoryRows /\ next.version = category.version + 1
    BY DEF Row, CategoryInv, CategoryTypes, CategoryRows, Edits, EditSteps
  <2>3. /\ saving \in EditSteps /\ saving.pc = "saving" /\ saving.edit = edit
        /\ saving.next.version = category.version + 1
    BY <2>2 DEF CategoryInv, CategoryTypes, EditSteps
  <2>4. edit.expected > 0
    BY <2>1 DEF CategoryInv, RowIsHeld
  <2> HIDE DEF saving
  <2>5. CategoryTypes'
    BY <2>1, <2>3, EditRests DEF CategoryInv, CategoryTypes
  <2>6. RowIsHeld'
    BY <2>1, <2>3, <2>4, EditRests DEF CategoryInv, CategoryTypes, RowIsHeld, Saving, InEdit, InJoin
  <2> QED  BY <2>1, <2>5, <2>6 DEF CategoryInv, TrailTellsState
<1>4. ASSUME NEW e \in Editors, CommitEdit(e) PROVE CategoryInv'
  <2> DEFINE next == editing[e].next
             event == [expected |-> editing[e].edit.expected, from |-> category.enabled, to |-> next.enabled]
  <2>1. /\ Saving(e) /\ category' = next /\ trail' = Append(trail, event)
        /\ editing' = [editing EXCEPT ![e] = NotEditing] /\ UNCHANGED joining
    BY <1>4 DEF CommitEdit, Saving
  <2>2. event \in [expected : Nat, from : BOOLEAN, to : BOOLEAN] /\ next \in CategoryRows
    BY DEF CategoryInv, CategoryTypes, CategoryRows, Edits, EditSteps
  <2>3. CategoryTypes'
    BY <2>1, <2>2, EditRests DEF CategoryInv, CategoryTypes
  <2>4. RowIsHeld'
    BY <2>1, EditRests DEF CategoryInv, CategoryTypes, RowIsHeld, Saving, InJoin
  <2>5. /\ event.expected = category.version /\ event.from = category.enabled
        /\ category'.version = category.version + 1 /\ category'.enabled = event.to
    BY <2>1 DEF CategoryInv, RowIsHeld
  <2>6. TrailTellsState'
    BY <2>1, <2>2, <2>3, <2>5, TrailGrows
  <2> QED  BY <2>3, <2>4, <2>6 DEF CategoryInv
<1>5. ASSUME NEW e \in Editors, AbandonEdit(e) PROVE CategoryInv'
  <2>1. CategoryTypes'
    BY <1>5, EditRests DEF AbandonEdit, CategoryInv, CategoryTypes
  <2>2. RowIsHeld' /\ UNCHANGED <<category, trail>>
    BY <1>5, EditRests DEF AbandonEdit, CategoryInv, CategoryTypes, RowIsHeld, Saving, InJoin
  <2> QED  BY <2>1, <2>2 DEF CategoryInv, TrailTellsState
<1>6. ASSUME NEW j \in Joiners,
             (\E registers \in BOOLEAN : StartJoin(j, registers)) \/ CommitJoin(j) \/ AbandonJoin(j)
      PROVE  CategoryInv'
  <2>1. /\ UNCHANGED <<category, trail, editing>> /\ CategoryTypes'
        /\ \A k \in Joiners : joining'[k] = "inserting" => joining[k] = "inserting"
    BY <1>6 DEF StartJoin, CommitJoin, AbandonJoin, CategoryInv, CategoryTypes
  <2> QED  BY <2>1 DEF CategoryInv, RowIsHeld, Saving, InJoin, TrailTellsState
<1>7. ASSUME NEW j \in Joiners, ShareCategory(j) PROVE CategoryInv'
  <2>1. UNCHANGED <<category, trail, editing>> /\ ~InEdit /\ CategoryTypes'
    BY <1>7 DEF ShareCategory, MayShare, CategoryInv, CategoryTypes
  <2>2. \A k \in Joiners : joining'[k] = "inserting" => joining[k] = "inserting" \/ category.enabled
    BY <1>7 DEF ShareCategory, IsEnabled, CategoryInv, CategoryTypes
  <2> QED  BY <2>1, <2>2 DEF CategoryInv, RowIsHeld, Saving, InEdit, InJoin, TrailTellsState
<1>8. ASSUME UNCHANGED cvars PROVE CategoryInv'
  BY <1>8 DEF cvars, CategoryInv, CategoryTypes, RowIsHeld, Saving, InJoin, TrailTellsState
<1> QED
  BY <1>1, <1>2, <1>3, <1>4, <1>5, <1>6, <1>7, <1>8 DEF CategoriesNext

\* For any number of edits, registrations and requests: nothing joins the category while
\* it is disabled, and its events tell its state (EditCategory, RegisterProvider,
\* saveNewRequest).
THEOREM DisabledIsNotJoined == CategoriesSpec => NoneJoinsDisabled
<1>1. CategoriesInit => CategoryInv
  BY CategoriesAssumption, EditRests DEF CategoriesInit, CategoryInv, CategoryTypes, CategoryRows, RowIsHeld,
    Saving, InJoin, NoCategory, AnyName, Row, TrailTellsState
<1>2. CategoryInv /\ CategoryInv' /\ [CategoriesNext]_cvars
        => [TrailTellsState' /\ (joined' # joined => category.enabled)]_<<category, trail, joined>>
  <2> SUFFICES ASSUME CategoryInv, [CategoriesNext]_cvars, joined' # joined PROVE category.enabled
    BY DEF CategoryInv
  <2>1. PICK j \in Joiners : CommitJoin(j)
    BY DEF CategoriesNext, cvars, CreateCategory, ReadCategory, LockCategory, CommitEdit, AbandonEdit,
      StartJoin, ShareCategory, AbandonJoin
  <2> QED  BY <2>1 DEF CommitJoin, CategoryInv, RowIsHeld, InJoin
<1> QED
  BY <1>1, <1>2, CategoryStep, PTL DEF CategoriesSpec, NoneJoinsDisabled

----------------------------------------------------------------------------
(* Uploaded files *)

FileRows == [status : {"absent", "pending", "confirmed"}, purpose : Purposes \cup {"none"},
             found : Contents \cup {NoContent}]
UploadSteps == [pc : {"idle", "inspecting", "saving", "claiming"}, file : FileIds \cup {NoContent},
                found : Contents \cup {NoContent}]
FileTypes ==
  /\ file \in [FileIds -> FileRows]
  /\ object \in [FileIds -> Contents \cup {NoContent}]
  /\ upload \in [Uploads -> UploadSteps]
  /\ evidence \subseteq FileIds

\* What was found in an object is acceptable, and in evidence still is what is there.
Accepted(f, found) ==
  /\ IsInspected(f) => found \in Acceptable
  /\ IsEvidence(f) => object[f] = found

\* The same of what is confirmed and of what is about to be, whose row exists and so
\* keeps its purpose.
FilesInv ==
  /\ FileTypes
  /\ \A f \in FileIds : file[f].status = "absent" => file[f] = Absent
  /\ \A f \in FileIds : file[f].status = "confirmed" => Accepted(f, file[f].found)
  /\ \A u \in Uploads : upload[u].pc # "idle" =>
       upload[u].file \in FileIds /\ file[upload[u].file].status # "absent"
  /\ \A u \in Uploads : upload[u].pc = "saving" => Accepted(upload[u].file, upload[u].found)
  /\ \A u \in Uploads : upload[u].pc = "claiming" => IsAvailable(upload[u].file)
  /\ \A f \in evidence : IsAvailable(f)

LEMMA FilesStep == FilesInv /\ [FilesNext]_fvars => FilesInv'
<1> SUFFICES ASSUME FilesInv, [FilesNext]_fvars PROVE FilesInv'
  OBVIOUS
<1> USE FilesAssumption
<1> USE DEF FilesInv, FileTypes, FileRows, UploadSteps, Accepted, IsInspected, IsEvidence, IsAvailable
<1>1. ASSUME NEW f \in FileIds, NEW purpose \in Purposes, RequestUpload(f, purpose) PROVE FilesInv'
  <2> DEFINE r == [Absent EXCEPT !.status = "pending", !.purpose = purpose]
  <2>1. /\ file[f].status = "absent" /\ file' = [file EXCEPT ![f] = r]
        /\ UNCHANGED <<object, evidence, upload>>
    <3>1. Absent.status = "absent"
      BY DEF Absent
    <3> QED  BY <1>1, <3>1 DEF RequestUpload
  <2>2. file'[f] = r /\ \A g \in FileIds \ {f} : file'[g] = file[g]
    BY <2>1
  <2>3. r \in FileRows
    BY DEF Absent
  <2> HIDE DEF r
  <2>4. FileTypes'
    BY <2>1, <2>3
  <2>5. r.status = "pending"
    BY DEF r, Absent
  <2>6. \A u \in Uploads : upload[u].pc # "idle" => upload[u].file \in FileIds \ {f}
    BY <2>1
  <2>7. f \notin evidence
    BY <2>1
  <2>8. \A g \in FileIds : file'[g].status = "absent" => file'[g] = Absent
    BY <2>2, <2>5 DEF Absent
  <2> QED  BY <2>1, <2>2, <2>4, <2>5, <2>6, <2>7, <2>8
<1>2. ASSUME NEW f \in FileIds, NEW content \in Contents, PutObject(f, content) PROVE FilesInv'
  <2>1. FileTypes' /\ UNCHANGED <<file, evidence, upload>>
    BY <1>2 DEF PutObject
  <2>2. \A g \in FileIds : \A found : Accepted(g, found) => Accepted(g, found)'
    BY <1>2, <2>1 DEF PutObject, IsCreateOnly
  <2> QED  BY <2>1, <2>2
<1>3. ASSUME NEW u \in Uploads, NEW f \in FileIds, StartConfirm(u, f) PROVE FilesInv'
  BY <1>3 DEF StartConfirm, Unused, Absent
<1>4. ASSUME NEW u \in Uploads, NEW f \in FileIds, ValidateEvidence(u, f) PROVE FilesInv'
  BY <1>4 DEF ValidateEvidence, Unused
<1>5. ASSUME NEW u \in Uploads, InspectObject(u) PROVE FilesInv'
  BY <1>5 DEF InspectObject, Unused, IsAcceptable
<1>6. ASSUME NEW u \in Uploads, SaveConfirmed(u) PROVE FilesInv'
  BY <1>6 DEF SaveConfirmed, Unused
<1>7. ASSUME NEW u \in Uploads, AttachEvidence(u) PROVE FilesInv'
  BY <1>7 DEF AttachEvidence, Unused
<1>8. ASSUME NEW u \in Uploads, AbandonUpload(u) PROVE FilesInv'
  BY <1>8 DEF AbandonUpload, Unused
<1>9. ASSUME UNCHANGED fvars PROVE FilesInv'
  BY <1>9 DEF fvars
<1> QED
  BY <1>1, <1>2, <1>3, <1>4, <1>5, <1>6, <1>7, <1>8, <1>9 DEF FilesNext

\* For any number of files, confirmations, claims and contents: what operators see of a
\* claim is what the confirmation accepted (ConfirmUpload, ValidateClaimEvidenceImages).
THEOREM EvidenceIsWhatWasAccepted == FilesSpec => []EvidenceStands
<1>1. FilesInit => FilesInv
  BY FilesAssumption DEF FilesInit, FilesInv, FileTypes, FileRows, UploadSteps, Absent, Unused
<1>2. FilesInv => EvidenceStands
  BY DEF FilesInv, FileTypes, EvidenceStands, Accepted, IsInspected, IsEvidence, IsAvailable
<1> QED
  BY <1>1, <1>2, FilesStep, PTL DEF FilesSpec
=============================================================================
