# A formal model of the LoResuelvo API

LoResuelvo is a marketplace of home services written in Go: consumers describe
a problem (to a chatbot or in a job request), providers propose a service, a
booking deposit makes a work order, and a balance payment after the completion
report settles it. The API runs in several replicas over one PostgreSQL
database; it talks to Mercado Pago, an identity verifier, Google Calendar, a
language model, an object store, a message broker and a push service.

These modules model the parts of it in which the order of events matters. TLC
checks them on small instances and TLAPS proves the most important results for
every instance.

## The system: components, state, operations

Paths are relative to `src/internal/`.

| component | state it keeps | operations | what makes it hard | what makes it correct |
|---|---|---|---|---|
| payment intents and checkouts (`domain/payment`) | `payment_intents`, `payment_checkout_sessions` | start a booking or balance checkout | handlers read before the lock, write whole rows back, call the processor between two saves | one live intent per obligation; what reads as paid has its payment |
| payment notifications (`domain/payment`) | `payment_transactions` | process a notification | delivered repeatedly and concurrently; two payments hold two locks; a lock is lost with its connection | a deposit is applied once, and so is a balance whose lock lasts; booking is atomic; what is approved for an open intent is recorded |
| work orders (`domain/work_order`) | `work_orders`, completion reports, reviews | report completion, pay the balance, review, urgent notices | no lock at all: optimistic reads, blind updates | paid means reported and paid for; evidence never disappears |
| review moderation (`domain/work_order/review_*`) | reports of reviews, decisions | report, hide, restore | operators decide from older pages, a report races them | each decision knows the ones before it; a report is settled once |
| service proposals (`domain/service_proposal`) | `service_proposals` with booking terms | create, list | notification after the commit; cents, rates and rounding | the parts add up to the totals |
| advisory locks, pool (`adapters/locking`, `infrastructure/db`) | a transaction per held or awaited lock | within lock, try lock | the lock occupies a connection while its operation asks for more | every call ends, unless transactions of locks hold the whole pool |
| chatbot conversations (`domain/conversation`) | conversation, messages, summary, assessment, processing flag | create, continue | a turn outlives its five minutes and is taken over | turns overlap only after an overrun; without it context and assessment do not go back |
| work conversations (`domain/conversation`) | messages of two participants | send, read | status and limit checked before the insert | before the acceptance the provider is silent and the consumer's messages exceed their limit by less than the calls at once |
| job requests (`domain/job_request`) | `job_requests` with a conversation | create, accept | check and insert apart; acceptance in two transactions | one open request per pair; the conversation of an accepted request was activated |
| identity verification (`domain/identityverification`) | sessions, events | start, apply a result | events duplicated and out of order, two at once | without overlapping deliveries the newest result stands; each event is applied once |
| claims (`domain/claim`) | claims, actions, records of keys | submit, start review, resolve | idempotency keys raced by two requests | one action per key; open, in review, closed |
| payment accounts (`domain/payment_account`) | OAuth attempts, accounts | start, complete, reject | two callbacks of one attempt | an attempt is consumed once |
| calendar (`domain/calendar_connection`, `domain/work_order_calendar`) | attempts, connections, published events | connect, periodic sync | external event made before its row | an appointment is shown once, and once more per failure at most |
| scheduler (`adapters/scheduler`) | last run in memory | run due jobs | several replicas and a try-lock, which is lost with its connection | while locks last a job runs in one replica; when one is lost, nobody is told twice of an order |
| realtime (`adapters/realtime`) | hub of connections, ids seen, tickets | publish, deliver, connect | direct and broker delivery of one event, bounded memory, reconnects | an event is delivered again only after more others than are remembered; what is queued arrives |
| push, installations (`adapters/push`, `domain/installation`) | device tokens | register, remove, send | late registrations, refused tokens, stale copies | a phone is not bound again to an ended login; a current token is not silenced |
| files (`domain/file`) | `files`, objects in the store | request, confirm, use | the object can be put again after its check | evidence is the object that was accepted |
| categories (`domain/category`) | categories, usage | create, rename, disable | disabling races registrations and requests | nothing joins a disabled category; the trail tells its state |
| accounts (`domain/provider`, `domain/consumer`, `domain/user`) | users | register, update | registration with a category lock | one account per identity |
| audit (`domain/audit`) | audit events | append | in the transaction it describes | a decision has its event |
| read models, administration (`domain/operation`, `domain/admin`, readers) | none | queries | none of its own | projections |
| location, chatbot models, Mercado Pago, Didit, storage clients (`adapters/...`) | none | external calls | failure, delay | external: their answers are inputs |
| HTTP, authentication (`adapters/http`, `adapters/auth0`) | none | decode, authorise, encode | none of its own | calls into the services |
| lifecycle, bootstrap (`bootstrap`, `infrastructure`) | running parts | start, stop | stopping while serving | every part stops |
| evaluations (`evals`) | budget, results on disk | plan, run, resume | concurrent lanes over one budget | what requests may have cost is under guard and ceiling; what a campaign wrote can be replayed |

How they interact: a client's request calls one service; services share state
only through PostgreSQL tables and call each other's repositories inside one
unit of work (a notification of an approved deposit writes to payments,
proposals, work orders and notifications in a single transaction). The
external parties call back: Mercado Pago and the identity verifier by webhooks
they repeat until they are answered with success, the browser with OAuth
redirects. After a commit, notifications go to the realtime hub (through the
broker to the other replicas) and to the push service. The scheduler of every
replica starts periodic jobs under a database lock.

## The core: a booking from its checkout to its review

`BookingPayments` composes `payment.Service` and `workorder.Service` over the
tables they share. `PaymentIntent` and `WorkOrder` hold the pure decisions of
the two aggregates.

| variable | the code's state |
|---|---|
| `proposal` | `service_proposals.status` |
| `intent` | `payment_intents` joined with its session; ids in the order of `created_on` |
| `txn` | `payment_transactions`: external payment id to intent |
| `order` | `work_orders` with completion report and review, one per proposal |
| `notices` | rows of `notifications` stored for a payment's approval |
| `payment` | the payments at Mercado Pago (external) |
| `req` | what each running request holds in memory between two statements |
| `now`, `failures` | the clock; how many requests were cut short or lost their lock |
| `unlocked` | history: payments with a notification that lost its lock |

A request is a record with a program counter, because in the code a handler is
a goroutine of some replica that reads a row, decides on its copy and writes
the whole row back later. Every statement that reads or writes state another
request can change is an action of its own; statements whose order no other
request can observe are one action. A unit of work is one action: PostgreSQL
commits it or not. An advisory lock is held from the action that takes it to
the end of the request, or until its transaction's connection breaks
(`LoseLock`): `WithinLock` notices that only when it commits, after the
operation, which goes on over other connections. For the same reason the two
lookups of a notification, its transaction and its intent, are two actions.
Two requests exclude each other only when
operation and resource are the same (`lock.go`): a booking checkout of a
proposal, a balance checkout of a proposal and a notification of a payment do
not exclude one another. That is the source of most of what is interesting.

What is abstracted: amounts, names and images; authorisation of the caller;
the collisions of `hashtext`, which only make a lock exclude more; the reads of
a work order (row, report and review, three queries) as one, because each torn
read is either what one moment would give or is refused by `RestoreFactory`;
the provider's payment account, which may just be unable to receive.

`BookingContract` is the abstract specification: a proposal is offered, booked
by one deposit, reported, settled, and never goes back. `PhaseOf` in
`BookingPayments` is the refinement mapping. It reads "settled" from the
recorded balance and not from `order.status`, because the status can go back
(a completion report decided on an older copy of a paid order writes its own
status over "paid"); that the weaker reading does hold is what the run `booking`
shows.

### Runs

| run | shows | instance |
|---|---|---|
| `booking` | acceptance, work order and deposit appear together, by one deposit (`BookedByOneDeposit`); one live intent, and paid intents backed by a transaction (`IntentsAgree`); the handlers implement `BookingContract` | two requests, two payments, three intents, two failures |
| `balance` | from a booked proposal: paid orders are backed by report and payment, and each payment is applied once, or is a balance whose notification lost its lock (`PaymentsAreBacked`); report and review never disappear (`EvidencePersists`) | two requests, three payments, two reports, one failure |
| `booking_live` | under fairness, an approved deposit is recorded | two requests, two payments, one failure |

A failure is a request that is cut short or one that loses its lock and goes on.

The bounds. One proposal: proposals share no row and no lock, so a second adds
only independent interleavings; the properties quantify over proposals and the
theorems cover any number. Two requests are what every race here needs, a
reader with a stale copy and a writer. Two payments of one proposal compete for
it; with two failures both may be cut short, or one lose its lock and the other
die. Of the three payments of `balance` one is the deposit, recorded from the
start, so that a redelivery meets two competing payments of one balance. Three
intents allow an expired, a renewed and a balance intent. The instants let a
session expire before the booking deadline, the deadline pass before the
service, and the service's time come. `balance` starts from a booked proposal
so that its bound is spent on the second half.

Deadlock is not checked in these runs because the bounds (clock, intents)
really stop the model. That every request ends is not stated here: whether one
does depends on the pool of connections, which `AdvisoryLockPool` models
(`CallsEnd`, with its exception).

Fairness. `Work(r)` is weakly fair: a request that runs goes on, or is cut
short. `Acquire(r)` is strongly fair because PostgreSQL queues the waiters of a
lock. The processor repeats a notification until it is answered with success,
hence strong fairness of `StartNotification`, the reason why a crash does not
lose an approved payment. Nothing obliges clients to start anything, nor the
clock to move. These assumptions leave out one thing the code does: a
lock's transaction keeps a pooled connection while its operation asks the same
pool for another. `ApprovedIsRecorded` presupposes that no operation
starves for one, that is, that the transactions of locks never hold the
whole pool while their operations wait; `AdvisoryLockPool` shows when that
happens.

What does not hold, and is therefore not a property here. The last of it takes
a lost lock; the rest has one cause, a copy read outside the lock or the
transaction and written back later:

- the intent of a recorded payment may read processing, rejected or expired: a
  slower handler saves its older copy of the intent after the transaction that
  approved it (`service.go`, the save that follows the processor's answer);
- a checkout can be made for a proposal that is accepted meanwhile, and a
  balance can be paid twice: a checkout and a notification take locks that do
  not exclude each other;
- a report that was decided on a work order not yet paid returns the paid order
  to awaiting payment. When that order was reviewed too, its row combines a
  status and a review that `RestoreFactory` refuses, and can no longer be read;
- one payment of a balance can be applied twice, with two notifications to the
  provider, when the first notification loses its lock between its lookup and
  its unit of work: `payment_transactions` is written by an upsert, and nothing
  else refuses the second. A deposit is applied once even then, because its unit
  of work inserts the work order.

### Proofs

`BookingPaymentsProofs` proves with TLAPS, for all values of the constants that
satisfy `BoundsAssumption` and `NoneAssumption`:

- `TypeCorrect`: `Spec => []TypeOK`;
- `BookedOnce`: `Spec => []BookedByOneDeposit`;
- `IntentsAlwaysAgree` and `PaymentsAlwaysBacked`: `Spec => []IntentsAgree` and
  `Spec => []PaymentsAreBacked`;
- `EvidenceAlwaysPersists`: `Spec => EvidencePersists`;
- `ContractImplemented`: `Spec => ImplementsContract`, the refinement of
  `BookingContract`;
- `Inductive`: `Spec => []IInv`, on which they rest.

None of the properties is inductive. A commit writes the rows its request read steps
before, so the invariant must say, of each request at each program counter,
what it carries and that the rows it points to still exist and are still of the
same proposal and purpose (`RequestsWellFormed` in `BookingPaymentsInvariant`),
and the same of intents and payments. The argument:

1. `TablesKeep` is what no step does to the tables: remove an intent or a work
   order, move an intent to another proposal, change what a payment is for.
   `WellFormedKept` shows that any step with `TablesKeep` preserves the facts of
   every other request, so each action is proved for its own request only
   (`RequestStep`), instead of once per pair of requests.
2. One lemma per action shows that it keeps `Shape` (types and well-formedness).
3. `Booked*` lemmas show that only the two units of work touch what
   `BookedByOneDeposit` speaks of. A booking commits
   only where there was no work order; then by the invariant no deposit was
   recorded either, and the new one is the only one.

4. `Ledger` adds what the locks and the order of steps keep true of a request
   from one step to the next, and it is preserved request by request in the same
   way (`QuietLedger` for steps that leave the tables, `IntentLedger` for those
   that write an intent, and one lemma per unit of work). Its parts: no two
   requests hold one lock unless one lost it (`LocksExclude`); what a request read under its lock
   still holds while the lock does, as that its payment has no transaction yet;
   two requests never make one intent, so that the intent a request made has no
   session before it gives it one, with a lock or without (`IntentsApart`); and a copy of an order carries the
   report it was decided on, however old it is (`RequestsHold`); an intent that a
   payment was made for has a session (`SessionsBehindPayments`); and a paid order
   has its report and its balance (`OrdersBacked`). `IntentsAgree` and
   `AppliedOnce` are part of it, and `PaidOrderIsBacked` follows from it.
5. For the refinement, each unit of work is a step of `BookingContract` for its
   proposal, and every other action leaves `PhaseOf` and the deposits as they are.

Note what the one deposit needs: not the advisory locks and not the checks
in memory, but the unique constraint of `work_orders` inside the unit of work.
That a balance is applied once needs the payment's lock; that one intent is
active is the partial unique index's doing.

Not proved: the liveness property `ApprovedIsRecorded`.

## Job requests and their conversations

`JobRequests` models `jobrequest.Service` (creation from a form or from an
assessment, acceptance) together with the participants' messages of
`conversation.Service`, because they write the same row: `conversations.status`.

| variable | the code's state |
|---|---|
| `request`, `conversation` | `job_requests` (pair, status) and `conversations.status`; the two rows are inserted together and share an id |
| `sent` | `messages`, counted by `sender_role` |
| `announced` | `notifications` of a received request |
| `activated` | history: conversations that were ever saved as active |
| `call` | what each running HTTP request holds between two statements |
| `failures` | how many calls were cut short |

| code | actions |
|---|---|
| `Create`, `CreateFromChatbotAssessment` | `StartCreate` (check for an open request), `SaveWithConversation` or `RefuseSave` (the creation's transaction), `Announce` (the notification's row) |
| `Accept` | `StartAccept` (reads the request), `Activate` (reads the conversation), `SaveActivated`, `SaveStatus` |
| `SendMessage` | `StartMessage` (reads the conversation), `CountMessages`, `SaveMessage` (status of the copy and the message) |
| any of them | `CutShort` |

Users, images, assessments and addresses are inputs that passed their checks: no
call here changes them. A category that is disabled when the creation's
transaction reads it is one of the reasons of `RefuseSave`. Publishing to the
realtime hub and to phones comes after the last write and changes nothing here.

| run | shows | instance |
|---|---|---|
| `job_requests` | one open request per pair; before the activation no request is accepted and the provider is silent (`NothingBeforeActivation`); the limit is exceeded by fewer messages than calls | two ids, two pairs, three calls, limit 1, one cut short |
| `calls_complete` | without failures a repeated acceptance completes; side by side with the calls of `AdvisoryLockPool`, below | one id, two calls |

Two ids and pairs let two creations of one pair and of different pairs race;
three calls let two messages be authorised together while a third call accepts.
The limit of 1 stands for the code's 5: only how many calls count below it at
once matters, and the theorem covers every limit. Fairness: a goroutine goes on
with its call (weak), and the provider asks again while the request reads as
pending (strong, since the acceptance of another call may finish in between).

The features state the limit exactly (`features/conversation/send_audio.feature:62`,
a message beyond it is rejected). Messages sent at once are all counted before
any is stored, so what holds is `OvershootIsBounded`.

Two things do not hold. A message that was decided on the pending conversation
writes that status back over the activation; from then on the provider of an
accepted request is refused as if it were pending, and no second acceptance can
repair it, since the request is accepted. And an acceptance that is cut between
its two saves leaves the chat open and the request pending for good, because
the repeated acceptance refuses a conversation that is active; hence
`AcceptanceCompletes` is stated without failures.

`JobRequestsProofs` proves `TypeCorrect`, `OneOpenRequestHolds`,
`ActivationFirst` (`NothingBeforeActivation`) and `OvershootBound` for every value of the
constants that satisfies `ConstantsAssumption`, from an inductive invariant
`IInv` in which

- every call is backed by the tables: what it is about was saved, a call that
  is about to save the acceptance has activated the conversation, and a message
  that goes out on the status active, or by a provider, is of a conversation
  that was activated (`CallsBacked`);
- an active conversation was activated (`ConversationsBacked`);
- stored messages and calls that counted and will store one together stay below
  the limit plus the number of calls (`SendersBounded`). The limit alone is not
  an invariant; a call that counts adds itself to the senders while the stored
  number is below the limit, and one that stores leaves them. This needs
  `Calls` to be finite and the library's facts about cardinalities.

`AcceptanceCompletes` is only model-checked.

## A chatbot turn

`ChatbotTurn` models `ContinueChatbotConversation` of one conversation: rows of
different conversations share nothing.

| variable | the code's state |
|---|---|
| `flag`, `summarized`, `current` | `chatbot_conversations`: `processing_started_on`, `last_summarized_message_id`, the version of `current_assessment_id` |
| `exchanges` | `messages`, in pairs of a consumer's message and a reply |
| `assessments` | `problem_assessments`, rows per version |
| `turn` | the copy each running call holds, and where the call is |
| `now`, `crashes` | the clock; how many calls died with their process |
| `late`, `stale` | history: a turn outlived `ChatbotProcessingStaleAfter`; a turn took the flag with a copy older than the row |

| code | actions |
|---|---|
| `findOwnedChatbotConversation`, `StartProcessing` | `StartProcessing` (reads the row, decides on the copy) |
| `startChatbotProcessing` | `Acquire` (the conditional update) |
| `refreshChatbotContextIfNeeded` | `Summarize`, `SaveSummary` |
| the model's answer | `Answer` |
| `saveChatbotTurn` | `Save`, `SaveFails` |
| the deferred `finishChatbotProcessing` | `FinishProcessing` |
| a process that dies | `Crash` |

The order of lines in `updateConversation` decides what a failed turn leaves in
its copy, and `unsaved` keeps the three cases apart. If the request is cancelled
before the transaction begins, the deferred save, which ignores the
cancellation, stores the whole turn although the call fails. If the transaction
rolled back, messages have ids that no row has: they are not inserted again, and
a new assessment that refers to them cannot be stored, so the flag stays until
it is stale. If the answer failed, only the flag is cleared.

The run `chatbot_turn` has two turns, an interval of two instants, a summary
after two exchanges, seven instants and one crash: enough for a turn to be taken
over while it runs, for both to save in either order, and for a third turn after
them. `OneTurnAtATime`, `SummaryAdvances` and the part of `AssessmentsStand` that
says the current assessment is the newest hold as long as no turn is late (the
last two also need a fresh copy at the start): nothing in
the service bounds how long the model may take, and the save of a late turn
clears the flag of the turn that took over and writes back its older context and
assessment. The next replacement of the assessment then asks for a version that
exists. The other part, that versions follow one another, holds whatever
overlaps, thanks to the unique constraint. `late` counts from the instant the call read the clock, which is
what its flag says, and includes the time before the flag is set. Timestamps of
different starts are different instants. Deadlock is not checked: the clock's
bound stops the model.

`ChatbotTurnProofs` proves `TurnTypes`, `NoOverlap` (`OneTurnAtATime`) and
`ContextAdvances` (`SummaryAdvances`) for any number of turns and any interval.
`OneTurnAtATime` is not inductive: one must know that the flag is the running
turn's start, that starts differ, and that every start is recent (`Exclusion`);
then an update the condition admits finds no other turn running
(`AdmittedAlone`), since its flag would be neither null, nor the updater's own,
nor stale. `ContextAdvances` adds that the running copy has summarised what the
row has. `AssessmentsAlwaysStand` (`AssessmentsStand`) needs two facts more: every
copy points to an assessment that was stored, so that a row can extend the chain
only where the unique constraint finds its end; and as long as no turn was late
or stale, the running turn's copy points to the last one.

## Locks and connections

`AdvisoryLockPool` models `PostgresAdvisoryLock` over the pools of connections of
the API's instances: `open` counts the connections in use, `owner` is whose
transaction holds each lock, `caller` is what each call is doing. A call waits
for a lock (payments), tries it (jobs) or uses none.

| code | actions |
|---|---|
| `WithinLock`, `TryWithinLock` | `Arrive`, `OpenTransaction` (a connection), `Lock` or `TryInVain`, `EndOperation` (commit or rollback) |
| the operation | `Ask`, `Query` (a second connection), `Answered` |
| ended contexts, processes that die | `Cancel`, `Crash` |

A waiting transaction occupies a connection, so the waiters for a lock can take
the ones its owner needs, and then all of them wait until a client gives up:
nothing in the code sets a deadline. `DB_MAX_OPEN_CONNS` may be as small as one,
with which every operation under a lock waits for itself. `CallsEnd` says that
this is the only way to wait for ever: every call ends, or again and again the
transactions of locks have used up a pool which one of their operations asks
(`Starved`). As it is temporal, it is checked and not proved. It holds in the run `calls_complete` for three callers of two
instances, one lock, and pools of two connections, so that a pool is starved in
some behaviours and contended but not starved in others. Fairness: a call goes
on (weak); `sql.DB` and PostgreSQL serve those who wait in their order (strong).
The other modules give a request a connection when it asks, as the code does
when pools are larger than the number of locks.

`JobRequestsProofs` proves the safety side of it for any number of callers,
instances, locks and connections: `ConnectionsAccounted` (the connections in use
are exactly those the calls hold, so that no path leaks one, and never more than
the pool's size), `LocksExclude`, and `OnlyStarvationBlocks`: the owner of a lock
waits for no lock, and in a pool without room some call does not ask for a
connection, unless the pool is starved. The invariant ties each lock to the one
call under it (`OwnersWork`) and each pool's count to the sets of open
transactions and statements (`ConnectionsAreCounted`); a step of a call moves one
element into or out of these sets (`OneMoves`, `MovesTo`).

## Identity verification

`IdentityVerification` models `identityverification.Service` for one provider,
with the verifier (external) and the webhook that receives its results.

| variable | the code's state |
|---|---|
| `row`, `recorded` | `identity_verification_sessions` (status, time of the last result, `created_on`); `identity_verification_events` |
| `start`, `delivery` | what a call of `Start` and a webhook request hold |
| `made`, `notice` | the verifier's sessions; the result each event carries |
| `clock` | the order of the readings behind `created_on` |
| `failures` | calls and deliveries that were cut short |
| `overlapped`, `raced` | history: sessions two deliveries worked on at a time; sessions approved while a start could still save a newer one |

| code | actions |
|---|---|
| `Start` | `FindLatest`, `ReadLatest` (two statements), `CreateSession` or `Resume` (the verifier), `SaveNew` |
| `ApplyResult` | `Receive` (the event's insert and the read of the session, at the start of the transaction), `Record` (the save and the commit) |
| the verifier | `SendResult`; it repeats an event until a delivery is accepted |
| failures | `StartCutShort`, `DeliveryCutShort` |

A delivery's transaction is read committed and takes no lock on the session's
row, so that two different events of one session may read the same row and the
older result may be written last; `overlapped` marks these sessions and
`ResultStands` is stated of the others, while the half of it that says status
and time come from one recorded event holds of all. A session is also refused
(503) while its row is missing: the verifier makes it before `Start` saves it.
`Resume` shows that when a session is in progress the client is answered the
credentials of a session that never gets a row.

Run `identity`: two sessions, events, starts and deliveries, two seconds, one
failure: two events of one session can be delivered together, twice, in either
order and after a failure, and a start can race an approval. `ResultsArrive` is
under weak fairness of what a goroutine has begun and strong fairness of
`Receive`, because the verifier repeats.

`IdentityVerificationProofs` proves `VerificationTypes`, `ResultsStand`,
`ApprovalIsCurrent` (`ApprovalStands`) and `ResultsActOnce`. The inductive
invariant says of every delivery that its copy is the session's row as long as
the session is not overlapped, that a copy's result is backed by a recorded
event, and of every approved session that is not raced that no start can still
save a session newer than it. `ResultsArrive` is only model-checked.

## Claims

`Claims` models `claim.Service.Submit` and the administration by one operator
(`StartReview`, `Resolve`), whose keys are the operator's own.

| variable | the code's state |
|---|---|
| `claim` | `claims` with `claim_images`: status, key, operation and files |
| `acted`, `audited` | how many `claim_actions` and audit events of each decision |
| `record` | `claim_administration_records`: what each key stands for |
| `submit`, `admin` | what each call is doing as a submission or an administration |
| `failures` | calls that were cut short |

| code | actions |
|---|---|
| `Submit` | `Submit` (the first replay), `InsertClaim`, `InsertImage`, `CommitClaim`, `Replay` |
| `StartReview`, `Resolve` | `Administer`, `LockClaim` (the locked read and the decision), `CommitAdministration`, `RecordConflict` |
| any of them | `CutShort` |

An insert into a unique index waits for a transaction in flight that holds the
same entry and fails when that one commits. That is why inserts are actions of
their own here, and what could deadlock: two submissions with the same two
files would wait for each other, were the files not sorted by `Normalize`
(`SomeoneProceeds`; its mutant takes them in any order). What the audit event
and the action say beyond claim and decision, and the parties' rights, are left
out.

Run `administration`, which also explores the components of "Reviews, categories
and files" below: two calls, keys, operations, files and claims, one failure, with
symmetry over calls, keys and operations (files are ordered): every pair of
conflicts can meet.

`AdministrationProofs` proves `ClaimTypes`, `SubmissionsRace` (`SubmissionsExclude`),
`RetriesAreAnswered` (`RetryIsAnswered`), `SubmissionsProceed` (`SomeoneProceeds`),
`DecisionsLeaveOneTrace` (`DecisionsAgree`) and `ConflictResolved`
(`ConflictIsResolved`: a conflict over the record reaches no client). The invariant
adds what a transaction in flight has reserved: its key, its operation and the
files already inserted are of no saved claim and of no other transaction; and
that a decision about to be committed is one its locked claim still takes. The
second run of an administration cannot meet a conflict, because its first one
read the record that a committed transaction left: records never go away.
For `SomeoneProceeds` the images a transaction in flight has inserted are smaller
than those it has left (`ImagesInOrder`). Were all of them waiting, take the one
that waits for the largest file: whoever holds that file waits for a larger one.

## Realtime events

`RealtimeBus` models `realtime.Dispatcher` over `AMQPEventBus` for the events
of one participant; `RealtimeHub` models the connections behind it, and
`Installations` the phone that pushes go to. They meet in one call, the hub's
`Deliver`, and share no state otherwise: the run `realtime` explores each with
the others at rest.

| `RealtimeBus` | the code's state |
|---|---|
| `session`, `queue` | a replica's AMQP session, its exclusive bounded queue with what the client buffered of it |
| `published` | how far a publication is |
| `seen` | `eventIDSet`, oldest first |
| `delivered`, `lost` | history: what each dispatcher gave its hub; what each queue gave up |

| code | actions |
|---|---|
| `Publish` with the loop's confirmation | `Broadcast`, `BroadcastUnconfirmed`, `TimeOut`, `DeliverLocally` |
| a session's deliveries, `deliverOnce` | `Consume` |
| the queue's length and time to live | part of the fan-out; `Expire` |
| `Listen` | `Subscribe`, `Disconnect` |

An event reaches the publisher's own hub on two ways, and its id is what keeps
the second from counting; the set of ids is bounded. So an event may be given
twice, but only after as many others as the set holds (`RepeatsAreFar`), and
what is queued is delivered unless the queue gave it up (`QueuedIsDelivered`).
A publish request that the loop does not take in time changes nothing and is no
action. Ids are also forgotten after ten minutes, an event waits in a queue for
one at most: the age of ids is left out. An instance that stops is a session
that is not opened again.

In the run: two replicas, three events, published in order since they differ by
name only, a set and a queue of one, one broken session. With a set of one an event can come between the two deliveries
of another, which is the case that matters. Weak fairness of `Consume`: the
loop's select takes a waiting delivery.

| `RealtimeHub` | the code's state |
|---|---|
| `issued`, `tickets` | tickets ever issued; `websocket_tickets` |
| `connection` | per connection: replica, whether it is in the hub's map, its channel (open, events pending), its socket, its two pumps |
| `stage` | `lifecycle.Coordinator` of each replica |

| code | actions |
|---|---|
| `Issue`, `Consume`, the handler | `Issue`, `Open`, `Waste`, `Register`, `Reject` |
| `readPump`, `writePump` | `EndRead`, `Write`, `EndWrite` |
| `Deliver` | `Deliver` |
| the coordinator | `Drain`, `CloseHub`, `Exit` |

In the run: two replicas, connections and tickets, channels of one event. A send
on a closed channel panics: `OnlyOpenIsListed` says a connection in the map has an
open channel, and that a ticket opened one connection. Either pump's end, a hub
that closes and a handler that registers after it can interleave;
`PumpsEndTogether` is under weak fairness of what a pump must do, of a socket
that is closed being read as closed, and of a coordinator going on. A connection
registered after `Hub.Close` lives until the process exits: only `Exit` ends it.

| `Installations` | the code's state |
|---|---|
| `row` | the phone's row in `installations` |
| `handler` | the copy each request or delivery holds |
| `login`, `token`, `sent`, `removals` | the app and Firebase (external): the current login and token, and what the app has sent, which may arrive late and again |
| `ended` | history: logins of the row that were removed or replaced, with the revision the row then got |

| code | actions |
|---|---|
| `Register`, `Unregister` | `StartRegistration`, `StartRemoval` (the read and the decision), `Save` (conditional on the revision) |
| `push.Publisher` | `StartDelivery`, `PushRefused`, `Save` |
| the app | `LogIn`, `Refresh`, `Repeat`, `LogOut` |
| a refused or lost call | `Done` |

`EndedStaysOut`: a phone is not bound again to a login that ended, and whatever is
still being sent for that login is sent by a delivery that had read the row
before. Such a delivery does send (`publisher.go` reads at line 96 and sends at
line 118, with nothing in between that would call it back), so a phone may receive
a last push of a login that has just ended.

In the run: two handlers, logins and tokens, four revisions, enough for a
registration of an older login to be late while a removal or a refused delivery
is being written. One phone: phones share only the uniqueness of tokens, whose
violation is one of the ways to `Done`.

`RealtimeProofs` proves, for all values of the constants, `RepeatsFar` (the set
is always the last ids of what was delivered, as many as fit, `SeenIsRecent`, so
an id that is not in it was given earlier than that), `OpenOnce`
(`OnlyOpenIsListed`), and `EndedLoginsStayOut` and `OnlyRemovalSilences`
(`EndedStaysOut`, `CurrentStays`). The last two rest on what a copy whose
revision is still the row's says: the handler decided on exactly this row. So
the conditional update writes only decisions that still hold, and a copy of an
older revision writes nothing. `QueuedIsDelivered` and `PumpsEndTogether` are
only model-checked.

## An evaluation run and its recovery

`EvalRun` models `evals.runConcurrent`: the coordinator, its lanes, a lane's
request through the budget guard, and the journal. `CampaignRecovery` EXTENDS it
with the recovery of a finished run. `runner.go`'s own loop, for a concurrency
of one, is not modelled.

| variable | the code's state |
|---|---|
| `plan` | slots, retries, and whether a campaign's guard watches the run |
| `coordinator`, `next`, `available`, `lane` | the loop, slots handed out, free lanes, what each lane does |
| `stopped`, `writable`, `dispatchStopped`, `cancelled` | `stopReason`, `journalErr`, the lanes' flag, the run's context |
| `journal` | `attempts.jsonl`, by slot |
| `guard` | `CampaignBudgetGuard` |
| `sent`, `billed` | history: requests that left and what they may have cost |
| `recovery`, `overlay`, `spending`, `recoveryBilled` | the recovery's stage and target, its attempts, its own guard, history |

| code | actions |
|---|---|
| the coordinator's loop | `Dispatch`, `Take` (an attempt's event), `TakeFinished`, `Finish`, `TimeOutRun` |
| `runLane`, `executeAttempt`, `RoundTrip` | `Begin`, `Refuse`, `Send`, `Answer`, `Decide` |
| `campaign-recover` | `Prepare`, `Ask`, `StopDispatch`, `Finalize` |

Left out: the counters of the request limit, which a plan that `BuildPlan`
admits never reaches, the pacing of lanes, and what an answer says. Costs are
one unit for a known usage, `Reserve` for an unknown one and more than that for
an overrun.

Run `campaign`: two lanes; guarded plans of one to three slots without retries
(a campaign allows none) and an unguarded plan of two slots and a retry; a
recovery of up to five attempts per slot and three in all under a ceiling of
ten. Three slots on two lanes let a lane be refused, rate limited or stopped
while the other one sends. `RunEnds` is under weak fairness of every step but
the timeouts; deadlock is not checked because a run ends.

`RequestsAreAccounted` says that every request that left is in the journal or in
the lane that waits for the coordinator, and that what was billed stays under the
budget, in the run and in its recovery. `CampaignEvidenceIsAccepted` says that the
journal of a campaign's finished run is accepted by replay (`CampaignRunReplays`)
and that its recovery, wherever it stops, is accepted by the recovery's
validator, with at most one content per slot, which is the effective one. A
run that stopped before its end is refused as incomplete, and an unguarded plan
may have retries, for which this does not hold.

Run `replay` shows where it does not: it checks `FinishedRunReplays`, what
`evals/README.md:75` says of replay, that it evaluates the saved answers of a
run, and TLC finds a run that finishes with a journal replay
refuses. When an attempt's own time is up before its request left, it is
journaled as not executed and retryable (`live.go:397`), `runLane` repeats it
(`runner_concurrent.go:195`), and `validateRun` accepts a repetition only after an
execution error (`replay.go:83`). `RefusedIfRepeatedUnsent`, a part of
`CampaignEvidenceIsAccepted`, says that this is the only journal of a finished run
that is refused. A campaign allows no retries, so its journals have no such case.

`CampaignProofs` proves `CampaignEvidenceAccepted` (`CampaignEvidenceIsAccepted`),
`RequestsAccounted` (`RequestsAreAccounted`) and `NothingLeavesAfterOverrun`
(`NothingAfterOverrun`) for every number of lanes, any plans, any reserve and any
ceilings that satisfy `ConstantsAssumption` and `RecoveryAssumption`. They rest on
the invariant of `CampaignInvariant`:

- no more lanes are busy than the run allows, each with a slot of its own that
  was handed out, and free lanes are listed once (`LanesHeld`);
- a slot's log is a chain of retries, as long as its lane's retry says, and a
  slot that was handed out and has no lane any more is in the journal
  (`JournalKept`). Without the length, a log that the coordinator extends would
  not stay a chain. No attempt is a later retry than the plan allows
  (`RetriesKept`), so that in a campaign nothing is repeated (`CampaignRunReplays`);
- requests that left are as many as the journal's answers and the lanes that
  hold one (`RequestsKept`), and the guard has spent at least what was billed and
  what is under way (`SpendIsCovered`). One lemma per move of a lane says how the
  two counts change: a lane joins the senders, leaves them with an answer, or
  leaves its answer in the journal;
- a recovery asks one target after the other, each until something comes or its
  share is used up, and nothing is laid over later targets (`RecoveryKept`);
  shares times targets fit the cap because they are rounded down (`SharesFit`);
- the recovery's own guard covers what its requests may have cost
  (`SpendingKept`), and a finished run changes no more (`FinishedStays`).

One content per slot then follows: a content ends the attempts of a lane, for it
cannot be retried, and a slot that ended with one is not a target. `RunEnds` is
only model-checked.

## Authorisations and the hourly jobs

`Authorizations` models the OAuth attempts of `paymentaccount.Service` and
`calendarconnection.Service`, which have the same shape; `PeriodicJobs` EXTENDS
it with the calendar sync and the urgent notifications, which the scheduler of
every replica starts under a database lock. A sync reads connections that
callbacks write.

| variable | the code's state |
|---|---|
| `attempt` | both tables of attempts |
| `account`, `connection` | `provider_payment_accounts`; the grant in `google_calendar_connections` |
| `callback` | what each callback is doing |
| `granted`, `revoked` | Google's grants and those its users revoked |
| `settled` | history: how many operations consumed each attempt |
| `stage` | how far away each order is |
| `recorded`, `stored` | `work_order_calendar_events`; urgent `notifications` |
| `events`, `notified` | events in Google calendars; how often a participant was told |
| `holder`, `job`, `failures` | whose transaction holds each job's lock; what each replica's jobs are doing; failures |

| code | actions |
|---|---|
| `StartAuthorization` | `StartAuthorization`, `ExpireAttempt` |
| `CompleteAuthorization`, `RejectAuthorization`, `ConnectWithAuthorizationCode` | `FindActive` or `ConnectWithCode`, `ExchangeForGrant`, `ExchangeForAccount` or `ExchangeGivesUp`, `Consume`, `SaveAccount`, `SaveConnection`, `Abandon` |
| the scheduler | `StartJob`, `LoseLock`, `CutShort` |
| `Sync` | `ReadConnection`, `CheckRecorded`, `Publish`, `Record` |
| `UrgentNotification` | `StoreNotice`, `Notify`, `NoticeFails` |
| orders and time | `Book`, `Approach`; Google's user: `Revoke` |

Several callbacks of an attempt may find it open; the conditional update that
consumes it commits with the account or the connection, so one of them counts
(`AttemptSettlesOnce`). A callback whose code was already used consumes a
payment's attempt too, and then the first one's link is rolled back: the
provider has to start again. The sync stops at the first error, so that one
revoked calendar keeps every later appointment from being published; hence the
premise of `ConnectedIsRecorded` about the appointments listed before.

Run `periodic_jobs`: two users, attempts, callbacks, grants and replicas, one
account and one order, so two appointments, one failure. `Bounded` in
`MCPeriodicJobs` restricts the product of independent parts to states of three
sorts: attempts whose callbacks race, with no order; orders whose sync races the
connections of users that connect one at a time; orders that are notified. An
attempt and an order share nothing but `connection`, which the second sort has.
Fairness: the sync's ticker fires and its steps go on, weakly.

`PeriodicJobsProofs` proves `SettledOnce`, `ShownOnce` and `ToldOnce` from an
invariant whose step is `Inductive`. For `ShownOnce` the invariant adds to the
events of an appointment the syncs that may still make one, the one that holds
the lock among them, and one more when the lock is free and the appointment not
recorded: together they are at most one more than the failures. A sync that ends
without a record gives its place to the next; a lock that breaks, or a job cut
short between the event and its row, makes room for another and was counted as
a failure. For `ToldOnce` at most one replica is about to tell of a stored
notice, and it was not told before. `ConnectedIsRecorded` is only model-checked.

## Reviews, categories and files

Three more components in which operators, providers and apps meet. They share no
state with each other or with `Claims`, so one run, `administration`, explores
each of the four with the others at rest.

| `ReviewModeration` | the code's state |
|---|---|
| `review`, `report`, `decisions` | the review's row in `work_order_reviews`, its report, `review_decisions` in the order of their ids |
| `moderating` | what each request was shown and holds |
| `unseen` | history: reports that were stored of a hidden review |

| code | actions |
|---|---|
| `AdminReviewService.Get`, `Moderate` | `ReadDetail`, `Post` (the operator decides later), `LockReview` (`SELECT ... FOR UPDATE`, the report and `Review.Moderate`), `CommitDecision` |
| `ReportReviewService.Report` | `LockForReport`, `CommitReport` |
| any of them | `AbandonReview` |

`ModerationIsInformed`: the operator of every decision had been shown all the
earlier ones; what is hidden, and by which decision, is what the decisions say
when they are read in order; a report is settled by one decision and no report
is stored of a hidden review. `hiding` is the id of the decision that
`AssociateDecision` stores, here its place. Run: three requests, three
decisions, so that two decide from one page, or one decides while a report is
filed and another waits for the row.

| `Categories` | the code's state |
|---|---|
| `category`, `trail` | the row of `categories`; its audit events, with the state before and after |
| `editing`, `joining`, `joined` | what edits hold; how far registrations and requests are; the ones stored |

| code | actions |
|---|---|
| `CreateCategory` | `CreateCategory` |
| `ListAllCategories`, `GetImpact`, `EditCategory` | `ReadCategory`, `LockCategory` (`FOR UPDATE`, `Category.Edit`), `CommitEdit`, `AbandonEdit` |
| `RegisterProvider`, `saveNewRequest` | `StartJoin` (a registration looks before its transaction), `ShareCategory` (`FOR SHARE`), `CommitJoin`, `AbandonJoin` |

`NoneJoinsDisabled`: whatever interleaves, no provider and no request is stored
while the category is disabled, and after every step the audit events lead to
the category's state, each from where the one before ended. Whether orders are
ongoing when a category is disabled is a free choice of each edit, because
booking an order takes no lock on the category: an order booked between the
reading of the impact and the commit lets it be disabled without the
confirmation, so nothing is stated of that. Run: two edits, two joiners, two
names, four versions.

| `Files` | the code's state |
|---|---|
| `file`, `object` | `files` with what its confirmation found; the storage's objects |
| `evidence`, `upload` | `claim_images`; what each confirmation or claim holds |

| code | actions |
|---|---|
| `RequestUpload`; the app | `RequestUpload`; `PutObject`, again and late |
| `ConfirmUpload` | `StartConfirm` (row, type and size), `InspectObject` (reads the object again), `SaveConfirmed` |
| `ValidateClaimEvidenceImages`, the claim's insert | `ValidateEvidence`, `AttachEvidence` |
| any of them | `AbandonUpload` |

`EvidenceStands`: what operators see of a claim is the object that was accepted.
It rests on the signed `If-None-Match` of an evidence's address, without which
an app could put another object after the confirmation. Other purposes have no
such header: their objects may be replaced while the address is valid, so of a
recording only that its row tells of some accepted object is stated. Ownership,
sizes and types are inputs that passed their checks. Run: two files and calls,
three contents, two of them acceptable.

`AdministrationProofs` proves the three properties for all values of the
constants: `DecisionsAreInformed`, `DisabledIsNotJoined` and
`EvidenceIsWhatWasAccepted`. The first two need that whoever holds a row's lock
holds it alone and has read what is there (`RequestsKnow`, `RowIsHeld`); for the
first, `HidingGrows` shows that one more decision changes what hides the review
exactly as `AssociateDecision` does. For the third, what a confirmation found
stays in the storage from its look to the claim (`Accepted` in `FilesInv`).

## The terms of a booking

`BookingTerms` has the arithmetic of `booking_terms.go` as operators and proves,
for every total: `NearestCent` (the deposit is the exact share to the nearest
cent, a half upwards, though it is computed in two parts to avoid an overflow),
`AcceptedTotals` (what is accepted is three cents or more with room for the fee;
for one or two cents the deposit rounds to nothing) and `TermsAddUp` (there is
something to pay now and something later, they make up the contract, and nothing
computed leaves the integers' width). The theorems are in
`BookingPaymentsProofs`. `MCBookingPayments` EXTENDS `BookingTerms`, so the runs of
the core evaluate `WidthAssumption`; the core itself abstracts amounts.

## What is proved and what is only checked

Every invariant, every action property and the refinement that a run checks is
also a theorem, for every value of the constants. TLC alone checks the temporal
properties, whose proofs would need `ENABLED` and fairness, which the prover
does not reason about: `ApprovedIsRecorded`,
`AcceptanceCompletes`, `CallsEnd`, `ResultsArrive`, `QueuedIsDelivered`,
`PumpsEndTogether`, `RunEnds` and `ConnectedIsRecorded`. For those the instances
described above are the evidence.

## Plan

Done, each with its runs and mutants: `BookingPayments` with `PaymentIntent`,
`WorkOrder` and `BookingContract`; `BookingTerms`; `AdvisoryLockPool`; `JobRequests`; `ChatbotTurn`;
`IdentityVerification`; `Claims`; `RealtimeBus`, `RealtimeHub` and
`Installations`; `EvalRun` and `CampaignRecovery`; `Authorizations` and
`PeriodicJobs`; `ReviewModeration`, `Categories` and `Files`.

Left, in order:

1. The safety side of the other temporal properties, as `OnlyStarvationBlocks` is
   of `CallsEnd`: what makes every wait of a run, a hub and a webhook grounded.
2. The sequential loop of the evaluations, and what a turn of the chatbot
   attaches to its messages.

## Not modelled

`PROJECT.json` lists every component with its status and reason. In short:

- read models and administration queries (`domain/operation`, `domain/admin`,
  the readers in `adapters/repositories`): one query per request, no state;
- the HTTP layer, authentication, decoding and encoding: one request each, whose
  calls into the services are the starting actions of the modules;
- clients of external services, prompts and schemas: their answers are inputs;
- evaluations other than running and recovering: datasets, metrics, reports,
  exports and semantic reviews compute files from files; and the sequential
  loop of `runner.go`, the request-limit counters and the pacing of lanes;
- accounts, but for the category of a provider who registers, and coverage
  zones: single transactions over one user, and a fixed catalogue;
- what the parsers of images, audio and video accept: it is any outcome;
- the age of the realtime hub's ids (ten
  minutes against one that an event may wait), and the hour between two runs of
  a job.

The modules stand for about a seventh of the implementation's lines. The rest
is, for the most part, request handlers, readers and their projections,
reports and clients, in which nothing depends on the order of events: a module
of them would restate their statements one by one.
