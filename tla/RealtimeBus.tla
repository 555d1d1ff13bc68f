------------------------------- MODULE RealtimeBus -------------------------------
(***************************************************************************)
(* Realtime events of one participant on every replica: realtime.Dispatcher *)
(* over AMQPEventBus and the set of ids it has seen.                       *)
(*                                                                         *)
(* The broker is external: a fan-out exchange, and for each replica's      *)
(* session an exclusive queue that is bounded and goes away with the       *)
(* session.  An event's two ways to the local hub, directly and through    *)
(* the queue, are steps of their own.                                      *)
(***************************************************************************)
EXTENDS Integers, Sequences, SequencesExt

CONSTANTS
  Replicas,     \* API instances
  Events,       \* events that can be published
  SeenSize,     \* ids a replica remembers (deduplicationMaxSize)
  QueueLength,  \* events a replica's queue holds (amqpQueueMaxLength)
  MaxFailures,  \* bound: sessions that break
  None          \* no replica

ASSUME ConstantsAssumption ==
  /\ SeenSize \in Nat \ {0} /\ QueueLength \in Nat \ {0} /\ MaxFailures \in Nat
  /\ None \notin Replicas

VARIABLES
  session,    \* is the replica's AMQP session up?
  queue,      \* the session's queue, with what the client has buffered of it
  published,  \* what became of each publication
  seen,       \* eventIDSet of each dispatcher, oldest first
  delivered,  \* history: the events each dispatcher gave its hub
  lost,       \* history: the events each queue gave up
  failures    \* how many sessions broke

vars == <<session, queue, published, seen, delivered, lost, failures>>

NotPublished == [replica |-> None, step |-> "none"]

\* Mutant: replicas share what they have seen.
IsFresh_Shared(r, e) == \A s \in Replicas : ~Contains(seen[s], e)
IsFresh(r, e) == ~Contains(seen[r], e)

\* Mutant: the oldest id goes one too early.
Remembering_Early(ids, e) == IF Len(ids) + 1 >= SeenSize THEN Tail(Append(ids, e)) ELSE Append(ids, e)
\* eventIDSet.Add: the oldest id goes when there are too many.
Remembering(ids, e) == IF Len(ids) + 1 > SeenSize THEN Tail(Append(ids, e)) ELSE Append(ids, e)

\* deliverOnce: the hub is given an event that was not seen.
DeliverOnce(r, e) ==
  IF IsFresh(r, e)
    THEN /\ seen' = [seen EXCEPT ![r] = Remembering(seen[r], e)]
         /\ delivered' = [delivered EXCEPT ![r] = Append(delivered[r], e)]
    ELSE UNCHANGED <<seen, delivered>>

\* The broker's fan-out: a full queue gives up its oldest event.
Overflows(r) == session[r] /\ Len(queue[r]) = QueueLength
FannedOut(r, e) ==
  IF ~session[r] THEN queue[r]
  ELSE Append(IF Overflows(r) THEN Tail(queue[r]) ELSE queue[r], e)
FanOut(e) ==
  /\ queue' = [r \in Replicas |-> FannedOut(r, e)]
  /\ lost' = [r \in Replicas |-> IF Overflows(r) THEN lost[r] \cup {Head(queue[r])} ELSE lost[r]]

\* What is left to do of a publication.
Ended == [replica |-> None, step |-> "ended"]

\* A handler on r publishes after its commit.  The session's loop takes its request
\* and does nothing else until the broker has confirmed it; a request that is not
\* taken in time leaves nothing.
Broadcast(e, r) ==
  /\ published[e].step = "none" /\ session[r]
  /\ FanOut(e)
  /\ published' = [published EXCEPT ![e] = [replica |-> r, step |-> "confirmed"]]
  /\ UNCHANGED <<session, seen, delivered, failures>>

\* The confirmation does not come in time; whether the broker took the event is
\* not known, and the loop ends its session.  Nobody publishes the event again.
BroadcastUnconfirmed(e, r) ==
  /\ published[e].step = "none" /\ session[r] /\ failures < MaxFailures
  /\ failures' = failures + 1
  /\ session' = [session EXCEPT ![r] = FALSE]
  /\ \E taken \in BOOLEAN :
       /\ queue' = [s \in Replicas |->
            IF s = r THEN <<>> ELSE IF taken THEN FannedOut(s, e) ELSE queue[s]]
       /\ lost' = [s \in Replicas |->
            IF s = r THEN lost[r] \cup ToSet(queue[r])
            ELSE IF taken /\ Overflows(s) THEN lost[s] \cup {Head(queue[s])} ELSE lost[s]]
  /\ published' = [published EXCEPT ![e] = Ended]
  /\ UNCHANGED <<seen, delivered>>

\* The caller's time is up when the answer is there too: the local fast path is
\* left out.
TimeOut(e) ==
  /\ published[e].step = "confirmed"
  /\ published' = [published EXCEPT ![e] = Ended]
  /\ UNCHANGED <<session, queue, seen, delivered, lost, failures>>

\* The local fast path.
DeliverLocally(e) ==
  /\ published[e].step = "confirmed"
  /\ published' = [published EXCEPT ![e] = Ended]
  /\ DeliverOnce(published[e].replica, e)
  /\ UNCHANGED <<session, queue, lost, failures>>

\* A delivery of the session.
Consume(r) ==
  /\ session[r] /\ queue[r] # <<>>
  /\ queue' = [queue EXCEPT ![r] = Tail(queue[r])]
  /\ DeliverOnce(r, Head(queue[r]))
  /\ UNCHANGED <<session, published, lost, failures>>

\* An event has waited for amqpMessageTTL: the queue gives it up.
Expire(r) ==
  /\ queue[r] # <<>>
  /\ queue' = [queue EXCEPT ![r] = Tail(queue[r])]
  /\ lost' = [lost EXCEPT ![r] = lost[r] \cup {Head(queue[r])}]
  /\ UNCHANGED <<session, published, seen, delivered, failures>>

\* Listen opens a session, with a new queue, after every one that ended.
Subscribe(r) ==
  /\ ~session[r]
  /\ session' = [session EXCEPT ![r] = TRUE]
  /\ UNCHANGED <<queue, published, seen, delivered, lost, failures>>

\* The session breaks, or its instance stops, which does not subscribe again.
Disconnect(r) ==
  /\ session[r] /\ failures < MaxFailures
  /\ failures' = failures + 1
  /\ session' = [session EXCEPT ![r] = FALSE]
  /\ queue' = [queue EXCEPT ![r] = <<>>]
  /\ lost' = [lost EXCEPT ![r] = lost[r] \cup ToSet(queue[r])]
  /\ UNCHANGED <<published, seen, delivered>>

----------------------------------------------------------------------------
Init ==
  /\ session = [r \in Replicas |-> FALSE]
  /\ queue = [r \in Replicas |-> <<>>]
  /\ published = [e \in Events |-> NotPublished]
  /\ seen = [r \in Replicas |-> <<>>]
  /\ delivered = [r \in Replicas |-> <<>>]
  /\ lost = [r \in Replicas |-> {}]
  /\ failures = 0

Next ==
  \/ \E e \in Events, r \in Replicas : Broadcast(e, r) \/ BroadcastUnconfirmed(e, r)
  \/ \E e \in Events : TimeOut(e) \/ DeliverLocally(e)
  \/ \E r \in Replicas : Consume(r) \/ Expire(r) \/ Subscribe(r) \/ Disconnect(r)

Spec == Init /\ [][Next]_vars

\* The loop of a session goes on: its select takes a delivery that is there
\* sooner or later, whatever is published meanwhile.
BusFairness == \A r \in Replicas : WF_vars(Consume(r))

----------------------------------------------------------------------------
(* Properties *)

\* Types, and the sizes the code sets to the set and the queue.
TypeOK ==
  /\ session \in [Replicas -> BOOLEAN]
  /\ queue \in [Replicas -> Seq(Events)]
  /\ published \in [Events -> [replica: Replicas \cup {None},
                               step: {"none", "confirmed", "ended"}]]
  /\ seen \in [Replicas -> Seq(Events)]
  /\ delivered \in [Replicas -> Seq(Events)]
  /\ lost \in [Replicas -> SUBSET Events]
  /\ failures \in 0..MaxFailures
  /\ \A r \in Replicas : Len(seen[r]) <= SeenSize /\ Len(queue[r]) <= QueueLength

\* A replica gives its hub an event again, which reached it twice, only after as
\* many other events as it remembers.
RepeatsAreFar ==
  \A r \in Replicas : \A i, j \in 1..Len(delivered[r]) :
    i < j /\ delivered[r][i] = delivered[r][j] => j - i > SeenSize

\* What waits in a replica's queue is delivered there, whoever published it and
\* whatever other replicas delivered, unless the queue itself gave it up.
QueuedIsDelivered ==
  \A r \in Replicas, e \in Events :
    Contains(queue[r], e) ~> Contains(delivered[r], e) \/ e \in lost[r]
=============================================================================
