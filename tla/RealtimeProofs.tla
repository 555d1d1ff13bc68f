---------------------------- MODULE RealtimeProofs ----------------------------
(***************************************************************************)
(* For any number of replicas, events, connections and handlers.  The set  *)
(* of ids a dispatcher keeps holds exactly the last events it delivered,   *)
(* and so an event is repeated only after as many others.  A ticket that   *)
(* opened a connection is gone.  A copy of a phone's row whose revision is *)
(* still current says what its handler read.                               *)
(***************************************************************************)
EXTENDS RealtimeHub, Installations, TLAPS

\* The set is the end of what was delivered.
IsEndOf(ids, log) ==
  /\ Len(ids) <= Len(log) /\ Len(ids) <= SeenSize
  /\ Len(ids) < SeenSize => Len(ids) = Len(log)
  /\ \A k \in 1..Len(ids) : ids[k] = log[Len(log) - Len(ids) + k]

FarApart(log) == \A i, j \in 1..Len(log) : i < j /\ log[i] = log[j] => j - i > SeenSize

\* The inductive invariant of one dispatcher.
RInv ==
  /\ seen \in [Replicas -> Seq(Events)] /\ delivered \in [Replicas -> Seq(Events)]
  /\ \A r \in Replicas : IsEndOf(seen[r], delivered[r]) /\ FarApart(delivered[r])

\* Adding an id keeps the set the end of the log.
LEMMA RememberingFacts ==
  ASSUME NEW ids \in Seq(Events), NEW log \in Seq(Events), NEW e \in Events, IsEndOf(ids, log)
  PROVE  Remembering(ids, e) \in Seq(Events) /\ IsEndOf(Remembering(ids, e), Append(log, e))
<1> USE ConstantsAssumption
<1> DEFINE more == Append(ids, e)
           new == Remembering(ids, e)
           longer == Append(log, e)
<1>1. /\ more \in Seq(Events) /\ Len(more) = Len(ids) + 1 /\ more[Len(ids) + 1] = e
      /\ \A k \in 1..Len(ids) : more[k] = ids[k]
  OBVIOUS
<1>2. /\ longer \in Seq(Events) /\ Len(longer) = Len(log) + 1 /\ longer[Len(log) + 1] = e
      /\ \A k \in 1..Len(log) : longer[k] = log[k]
  OBVIOUS
<1>3. CASE Len(ids) + 1 > SeenSize
  <2>1. new = Tail(more)
    BY <1>3 DEF Remembering
  <2>2. new \in Seq(Events) /\ Len(new) = Len(ids) /\ \A k \in 1..Len(ids) : new[k] = more[k + 1]
    BY <1>1, <2>1
  <2>3. ASSUME NEW k \in 1..Len(ids) PROVE new[k] = longer[Len(longer) - Len(new) + k]
    <3>1. CASE k = Len(ids)
      BY <1>1, <1>2, <2>2, <3>1
    <3>2. CASE k # Len(ids)
      <4>1. k + 1 \in 1..Len(ids) /\ Len(log) - Len(ids) + (k + 1) \in 1..Len(log)
        BY <3>2 DEF IsEndOf
      <4>2. new[k] = ids[k + 1] /\ ids[k + 1] = log[Len(log) - Len(ids) + (k + 1)]
        BY <1>1, <2>2, <4>1 DEF IsEndOf
      <4>3. Len(longer) - Len(new) + k = Len(log) - Len(ids) + (k + 1)
        BY <1>2, <2>2
      <4>4. QED
        BY <1>2, <4>1, <4>2, <4>3
    <3>3. QED
      BY <3>1, <3>2
  <2>4. Len(new) = Len(ids) /\ Len(longer) = Len(log) + 1 /\ new \in Seq(Events)
    BY <1>2, <2>2
  <2>5. Len(ids) \in Nat /\ Len(log) \in Nat /\ Len(ids) <= Len(log) /\ Len(ids) <= SeenSize
    BY DEF IsEndOf
  <2>6. \A k \in 1..Len(new) : new[k] = longer[Len(longer) - Len(new) + k]
    BY <2>3, <2>4
  <2> HIDE DEF new, longer, more
  <2>7. IsEndOf(new, longer)
    BY <1>3, <2>4, <2>5, <2>6 DEF IsEndOf
  <2>8. QED
    BY <2>4, <2>7 DEF new, longer
<1>4. CASE Len(ids) + 1 <= SeenSize
  <2>1. new = more
    BY <1>4 DEF Remembering
  <2>2. Len(ids) = Len(log)
    BY <1>4 DEF IsEndOf
  <2>3. ASSUME NEW k \in 1..Len(new) PROVE new[k] = longer[Len(longer) - Len(new) + k]
    <3>1. Len(longer) - Len(new) + k = k
      BY <1>1, <1>2, <2>1, <2>2
    <3>2. CASE k = Len(ids) + 1
      BY <1>1, <1>2, <2>1, <2>2, <3>1, <3>2
    <3>3. CASE k # Len(ids) + 1
      <4>1. k \in 1..Len(ids) /\ ids[k] = log[k]
        BY <1>1, <2>1, <2>2, <3>3 DEF IsEndOf
      <4>2. QED
        BY <1>1, <1>2, <2>1, <2>2, <3>1, <4>1
    <3>4. QED
      BY <3>2, <3>3
  <2>4. Len(new) = Len(ids) + 1 /\ Len(longer) = Len(log) + 1 /\ new \in Seq(Events)
    BY <1>1, <1>2, <2>1
  <2>5. Len(ids) \in Nat /\ Len(log) \in Nat
    OBVIOUS
  <2> HIDE DEF new, longer, more
  <2>6. IsEndOf(new, longer)
    BY <1>4, <2>2, <2>3, <2>4, <2>5 DEF IsEndOf
  <2>7. QED
    BY <2>4, <2>6 DEF new, longer
<1>5. QED
  BY <1>3, <1>4

\* An event that the set does not hold is far from where it was delivered before.
LEMMA FarApartKept ==
  ASSUME NEW ids \in Seq(Events), NEW log \in Seq(Events), NEW e \in Events,
         IsEndOf(ids, log), FarApart(log), ~Contains(ids, e)
  PROVE  FarApart(Append(log, e))
<1> USE ConstantsAssumption
<1> DEFINE longer == Append(log, e)
<1>1. /\ Len(longer) = Len(log) + 1 /\ longer[Len(log) + 1] = e
      /\ \A k \in 1..Len(log) : longer[k] = log[k]
  OBVIOUS
<1> HIDE DEF longer
<1>2. SUFFICES ASSUME NEW i \in 1..Len(longer), NEW j \in 1..Len(longer), i < j, longer[i] = longer[j]
               PROVE  j - i > SeenSize
  BY DEF FarApart, longer
<1>3. CASE j \in 1..Len(log)
  BY <1>1, <1>2, <1>3 DEF FarApart
<1>4. CASE j = Len(log) + 1
  <2>1. i \in 1..Len(log) /\ log[i] = e
    BY <1>1, <1>2, <1>4
  <2>2. ASSUME j - i <= SeenSize PROVE FALSE
    <3> DEFINE k == i - (Len(log) - Len(ids))
    <3>1. k \in 1..Len(ids)
      BY <1>4, <2>1, <2>2 DEF IsEndOf
    <3>2. ids[k] = e
      BY <2>1, <3>1 DEF IsEndOf
    <3>3. QED
      BY <3>1, <3>2 DEF Contains
  <2>3. QED
    BY <1>4, <2>1, <2>2
<1>5. QED
  BY <1>1, <1>3, <1>4

\* Giving an event to a dispatcher keeps the invariant.
LEMMA DeliverOnceFacts ==
  ASSUME RInv, NEW r \in Replicas, NEW e \in Events, DeliverOnce(r, e)
  PROVE  RInv'
<1>1. CASE IsFresh(r, e)
  <2>1. /\ seen' = [seen EXCEPT ![r] = Remembering(seen[r], e)]
        /\ delivered' = [delivered EXCEPT ![r] = Append(delivered[r], e)]
        /\ ~Contains(seen[r], e)
    BY <1>1 DEF DeliverOnce, IsFresh
  <2>2. /\ Remembering(seen[r], e) \in Seq(Events)
        /\ IsEndOf(Remembering(seen[r], e), Append(delivered[r], e))
    BY RememberingFacts DEF RInv
  <2>3. FarApart(Append(delivered[r], e))
    BY <2>1, FarApartKept DEF RInv
  <2>4. Append(delivered[r], e) \in Seq(Events)
    BY DEF RInv
  <2>5. ASSUME NEW s \in Replicas PROVE IsEndOf(seen'[s], delivered'[s]) /\ FarApart(delivered'[s])
    <3>1. CASE s = r
      BY <2>1, <2>2, <2>3, <3>1 DEF RInv
    <3>2. CASE s # r
      BY <2>1, <3>2 DEF RInv
    <3>3. QED
      BY <3>1, <3>2
  <2>6. QED
    BY <2>1, <2>2, <2>4, <2>5 DEF RInv
<1>2. CASE ~IsFresh(r, e)
  BY <1>2 DEF DeliverOnce, RInv
<1>3. QED
  BY <1>1, <1>2

\* What the steps know of queues and publications.
TypesInv ==
  /\ queue \in [Replicas -> Seq(Events)]
  /\ published \in [Events -> [replica: Replicas \cup {None}, step: {"none", "confirmed", "ended"}]]
  /\ \A e \in Events : published[e].step = "confirmed" => published[e].replica \in Replicas

LEMMA TypesStep == TypesInv /\ [Next]_vars => TypesInv'
<1> SUFFICES ASSUME TypesInv, [Next]_vars PROVE TypesInv'
  OBVIOUS
<1>1. ASSUME NEW s \in Replicas, NEW e \in Events PROVE FannedOut(s, e) \in Seq(Events)
  <2>1. queue[s] \in Seq(Events)
    BY DEF TypesInv
  <2>2. CASE Overflows(s) /\ queue[s] # <<>>
    BY <2>1, <2>2 DEF FannedOut
  <2>3. CASE ~Overflows(s)
    BY <2>1, <2>3 DEF FannedOut
  <2>4. ASSUME Overflows(s) PROVE queue[s] # <<>>
    BY <2>4, ConstantsAssumption DEF Overflows
  <2>5. QED
    BY <2>2, <2>3, <2>4
<1>2. ASSUME NEW e \in Events, NEW r \in Replicas, Broadcast(e, r) PROVE TypesInv'
  <2>1. queue' \in [Replicas -> Seq(Events)]
    BY <1>1, <1>2 DEF Broadcast, FanOut
  <2>2. QED
    BY <1>2, <2>1 DEF Broadcast, TypesInv
<1>3. ASSUME NEW e \in Events, NEW r \in Replicas, BroadcastUnconfirmed(e, r) PROVE TypesInv'
  <2>1. PICK taken \in BOOLEAN : queue' = [s \in Replicas |->
            IF s = r THEN <<>> ELSE IF taken THEN FannedOut(s, e) ELSE queue[s]]
    BY <1>3 DEF BroadcastUnconfirmed
  <2>2. queue' \in [Replicas -> Seq(Events)]
    BY <1>1, <2>1 DEF TypesInv
  <2>3. QED
    BY <1>3, <2>2 DEF BroadcastUnconfirmed, TypesInv, Ended
<1>4. ASSUME NEW e \in Events, TimeOut(e) \/ DeliverLocally(e) PROVE TypesInv'
  <2>1. queue' = queue /\ published' = [published EXCEPT ![e] = Ended]
    BY <1>4 DEF TimeOut, DeliverLocally
  <2>2. /\ Ended \in [replica: Replicas \cup {None}, step: {"none", "confirmed", "ended"}]
        /\ Ended.step # "confirmed"
    BY DEF Ended
  <2>3. QED
    BY <2>1, <2>2 DEF TypesInv
<1>5. ASSUME NEW r \in Replicas, Consume(r) PROVE TypesInv'
  BY <1>5 DEF Consume, TypesInv
<1>6. ASSUME NEW r \in Replicas, Subscribe(r) \/ Disconnect(r) PROVE TypesInv'
  <2>1. published' = published /\ (queue' = queue \/ queue' = [queue EXCEPT ![r] = <<>>])
    BY <1>6 DEF Subscribe, Disconnect
  <2>2. <<>> \in Seq(Events)
    OBVIOUS
  <2>3. queue' \in [Replicas -> Seq(Events)]
    BY <2>1, <2>2 DEF TypesInv
  <2>4. QED
    BY <2>1, <2>3 DEF TypesInv
<1>7. ASSUME NEW r \in Replicas, Expire(r) PROVE TypesInv'
  BY <1>7 DEF Expire, TypesInv
<1>8. CASE UNCHANGED vars
  BY <1>8 DEF vars, TypesInv
<1>9. QED
  BY <1>2, <1>3, <1>4, <1>5, <1>6, <1>7, <1>8 DEF Next

LEMMA RStep == TypesInv /\ RInv /\ [Next]_vars => RInv'
<1> SUFFICES ASSUME TypesInv, RInv, [Next]_vars PROVE RInv'
  OBVIOUS
<1>1. ASSUME NEW e \in Events, DeliverLocally(e) PROVE RInv'
  BY <1>1, DeliverOnceFacts DEF DeliverLocally, TypesInv
<1>2. ASSUME NEW r \in Replicas, Consume(r) PROVE RInv'
  <2>1. Head(queue[r]) \in Events
    BY <1>2 DEF Consume, TypesInv
  <2>2. QED
    BY <1>2, <2>1, DeliverOnceFacts DEF Consume
<1>3. CASE UNCHANGED <<seen, delivered>>
  BY <1>3 DEF RInv
<1>4. QED
  BY <1>1, <1>2, <1>3 DEF Next, Broadcast, BroadcastUnconfirmed, TimeOut, Expire, Subscribe, Disconnect, vars

LEMMA Invariant == Spec => [](TypesInv /\ RInv)
<1>1. Init => TypesInv /\ RInv
  <2> SUFFICES ASSUME Init PROVE TypesInv /\ RInv
    OBVIOUS
  <2>1. TypesInv
    BY DEF Init, TypesInv, NotPublished
  <2>2. <<>> \in Seq(Events) /\ Len(<<>>) = 0
    OBVIOUS
  <2>3. IsEndOf(<<>>, <<>>) /\ FarApart(<<>>)
    BY <2>2, ConstantsAssumption DEF IsEndOf, FarApart
  <2>4. \A r \in Replicas : seen[r] = <<>> /\ delivered[r] = <<>>
    BY DEF Init
  <2>5. seen \in [Replicas -> Seq(Events)] /\ delivered \in [Replicas -> Seq(Events)]
    BY <2>2 DEF Init
  <2>6. QED
    BY <2>1, <2>3, <2>4, <2>5 DEF RInv
<1>2. QED
  BY <1>1, TypesStep, RStep, PTL DEF Spec

\* A dispatcher repeats an event only after as many others as it remembers.
THEOREM RepeatsFar == Spec => []RepeatsAreFar
<1>1. RInv => RepeatsAreFar
  BY DEF RInv, RepeatsAreFar, FarApart
<1>2. QED
  BY <1>1, Invariant, PTL

\* No dispatcher remembers more ids than its set may hold, and they are the last
\* ones it delivered.
THEOREM SeenIsRecent == Spec => [](\A r \in Replicas : IsEndOf(seen[r], delivered[r]))
<1>1. RInv => \A r \in Replicas : IsEndOf(seen[r], delivered[r])
  BY DEF RInv
<1>2. QED
  BY <1>1, Invariant, PTL

----------------------------------------------------------------------------
(* Connections *)

ConnectionStates == 
  [replica: Replicas \cup {None}, ticket: Tickets \cup {None},
   stage: {"new", "upgraded", "served", "ended"}, listed: BOOLEAN, sending: BOOLEAN,
   socket: BOOLEAN, read: BOOLEAN, write: BOOLEAN, pending: Nat]

\* A ticket that opened a connection is in no table any more, and was issued.
HubInv ==
  /\ connection \in [Connections -> ConnectionStates]
  /\ tickets \subseteq issued /\ issued \subseteq Tickets
  /\ \A c \in Connections :
       connection[c].ticket # None => connection[c].ticket \in issued \ tickets
  /\ OnlyOpenIsListed

\* Steps that leave the tickets of connections alone.
LEMMA TicketsKept ==
  ASSUME HubInv, issued' = issued, tickets' \subseteq tickets,
         connection' \in [Connections -> ConnectionStates],
         \A c \in Connections : /\ connection'[c].ticket = connection[c].ticket
                                /\ connection'[c].listed => connection'[c].sending
  PROVE  HubInv'
BY DEF HubInv, OnlyOpenIsListed

\* Steps of one connection.
LEMMA OneConnection ==
  ASSUME HubInv, NEW c \in Connections, NEW v \in ConnectionStates,
         connection' = [connection EXCEPT ![c] = v], issued' = issued, tickets' = tickets,
         v.ticket = connection[c].ticket, v.listed => v.sending
  PROVE  HubInv'
BY TicketsKept DEF HubInv, OnlyOpenIsListed

LEMMA HubStep == HubInv /\ [HubNext]_hubVars => HubInv'
<1> SUFFICES ASSUME HubInv, [HubNext]_hubVars PROVE HubInv'
  OBVIOUS
<1>1. ASSUME NEW t \in Tickets, Issue(t) PROVE HubInv'
  BY <1>1, HubAssumption DEF Issue, HubInv, OnlyOpenIsListed
<1>2. ASSUME NEW t \in Tickets, Waste(t) PROVE HubInv'
  BY <1>2 DEF Waste, HubInv, OnlyOpenIsListed
<1>3. ASSUME NEW c \in Connections, NEW r \in Replicas, NEW t \in Tickets, Open(c, r, t) PROVE HubInv'
  <2> DEFINE opened == [NoConnection EXCEPT !.replica = r, !.ticket = t, !.stage = "upgraded", !.socket = TRUE]
  <2>1. /\ opened \in ConnectionStates
        /\ opened.ticket = t /\ ~opened.listed
    BY DEF NoConnection, ConnectionStates
  <2>2. /\ connection' = [connection EXCEPT ![c] = opened]
        /\ issued' = issued /\ tickets' = tickets \ {t} /\ t \in tickets
    BY <1>3 DEF Open, Spent
  <2> HIDE DEF opened
  <2>3. \A d \in Connections : d # c => connection'[d] = connection[d] /\ connection'[d].ticket # t
    BY <2>2, HubAssumption DEF HubInv
  <2>4. connection'[c] = opened
    BY <2>2 DEF HubInv
  <2>5. QED
    BY <2>1, <2>2, <2>3, <2>4, HubAssumption DEF HubInv, OnlyOpenIsListed
<1>4. ASSUME NEW c \in Connections,
             Register(c) \/ Reject(c) \/ Write(c) \/ EndWrite(c) \/ EndRead(c)
      PROVE  HubInv'
  <2> DEFINE old == connection[c]
  <2>1. old \in ConnectionStates /\ (old.listed => old.sending)
    BY DEF HubInv, OnlyOpenIsListed
  <2> HIDE DEF old
  <2>2. CASE Register(c)
    <3>1. [old EXCEPT !.stage = "served", !.listed = TRUE, !.sending = TRUE, !.read = TRUE, !.write = TRUE]
            \in ConnectionStates
      BY <2>1 DEF ConnectionStates
    <3>2. QED
      BY <2>1, <2>2, <3>1, OneConnection DEF Register, old, ConnectionStates
  <2>3. CASE Reject(c)
    <3>1. [old EXCEPT !.stage = "ended", !.socket = FALSE] \in ConnectionStates
      BY <2>1 DEF ConnectionStates
    <3>2. QED
      BY <2>1, <2>3, <3>1, OneConnection DEF Reject, old, ConnectionStates
  <2>4. CASE Write(c)
    <3>1. old.pending > 0 => [old EXCEPT !.pending = old.pending - 1] \in ConnectionStates
      BY <2>1 DEF ConnectionStates
    <3>2. QED
      BY <2>1, <2>4, <3>1, OneConnection DEF Write, old, ConnectionStates
  <2>5. CASE EndWrite(c)
    <3>1. [old EXCEPT !.write = FALSE, !.socket = FALSE] \in ConnectionStates
      BY <2>1 DEF ConnectionStates
    <3>2. QED
      BY <2>1, <2>5, <3>1, OneConnection DEF EndWrite, WriteEnded, old, ConnectionStates
  <2>6. CASE EndRead(c)
    <3> DEFINE new == [[old EXCEPT !.listed = FALSE, !.sending = FALSE] EXCEPT !.read = FALSE, !.socket = FALSE]
    <3>1. new \in ConnectionStates /\ new.ticket = old.ticket /\ ~new.listed
      BY <2>1 DEF ConnectionStates
    <3>2. /\ connection' = [connection EXCEPT ![c] = new]
          /\ issued' = issued /\ tickets' = tickets
      BY <2>6 DEF EndRead, Removed, old
    <3> HIDE DEF new
    <3>3. QED
      BY <3>1, <3>2, OneConnection DEF old
  <2>7. QED
    BY <1>4, <2>2, <2>3, <2>4, <2>5, <2>6
<1>5. ASSUME NEW r \in Replicas, Deliver(r) PROVE HubInv'
  <2>1. \A c \in Connections : \/ connection'[c] = connection[c]
                               \/ connection'[c] = [connection[c] EXCEPT !.pending = connection[c].pending + 1]
    BY <1>5 DEF Deliver
  <2>2. connection' = [c \in Connections |-> connection'[c]]
    BY <1>5 DEF Deliver
  <2>3. QED
    BY <1>5, <2>1, <2>2, TicketsKept DEF Deliver, HubInv, OnlyOpenIsListed, ConnectionStates
<1>6. ASSUME NEW r \in Replicas, Drain(r) PROVE HubInv'
  BY <1>6 DEF Drain, HubInv, OnlyOpenIsListed
<1>7. ASSUME NEW r \in Replicas, CloseHub(r) PROVE HubInv'
  <2>1. \A c \in Connections : \/ connection'[c] = connection[c]
                               \/ connection'[c] = [Removed(c) EXCEPT !.socket = FALSE]
    BY <1>7 DEF CloseHub
  <2>2. connection' = [c \in Connections |-> connection'[c]]
    BY <1>7 DEF CloseHub
  <2>3. ASSUME NEW c \in Connections
        PROVE  /\ connection'[c] \in ConnectionStates /\ connection'[c].ticket = connection[c].ticket
               /\ connection'[c].listed => connection'[c].sending
    <3> DEFINE old == connection[c]
               new == [[old EXCEPT !.listed = FALSE, !.sending = FALSE] EXCEPT !.socket = FALSE]
    <3>1. old \in ConnectionStates /\ (old.listed => old.sending)
      BY DEF HubInv, OnlyOpenIsListed
    <3>2. connection'[c] = old \/ connection'[c] = new
      BY <2>1 DEF Removed
    <3> HIDE DEF old
    <3>3. new \in ConnectionStates /\ new.ticket = old.ticket /\ ~new.listed
      BY <3>1 DEF ConnectionStates
    <3> HIDE DEF new
    <3>4. QED
      BY <3>1, <3>2, <3>3 DEF old
  <2>4. QED
    BY <1>7, <2>2, <2>3, TicketsKept DEF CloseHub
<1>8. ASSUME NEW r \in Replicas, Exit(r) PROVE HubInv'
  <2>1. \A c \in Connections : \/ connection'[c] = connection[c]
                               \/ connection'[c] = [NoConnection EXCEPT !.replica = r,
                                       !.ticket = connection[c].ticket, !.stage = "ended"]
    BY <1>8 DEF Exit
  <2>2. connection' = [c \in Connections |-> connection'[c]]
    BY <1>8 DEF Exit
  <2>3. QED
    BY <1>8, <2>1, <2>2, TicketsKept DEF Exit, NoConnection, HubInv, OnlyOpenIsListed, ConnectionStates
<1>9. CASE UNCHANGED hubVars
  BY <1>9 DEF hubVars, HubInv, OnlyOpenIsListed
<1>10. QED
  BY <1>1, <1>2, <1>3, <1>4, <1>5, <1>6, <1>7, <1>8, <1>9 DEF HubNext

\* For any number of replicas, connections and tickets: one ticket, one connection, and
\* nothing is sent on a closed channel.
THEOREM OpenOnce == HubSpec => []OnlyOpenIsListed
<1>1. HubInit => HubInv
  BY DEF HubInit, HubInv, NoConnection, OnlyOpenIsListed, ConnectionStates
<1>2. HubInv => OnlyOpenIsListed
  BY DEF HubInv
<1>3. QED
  BY <1>1, <1>2, HubStep, PTL DEF HubSpec

----------------------------------------------------------------------------
(* The phone *)

Rows == [binding: Nat, token: Nat, enabled: BOOLEAN, revoked: BOOLEAN, revision: Nat]

\* A registration about to be saved over the row.
Registers(copy) ==
  /\ copy.enabled /\ ~copy.revoked
  /\ Exists(row) => copy.binding > row.binding \/ (copy.binding = row.binding /\ ~row.revoked)
\* A removal.
Removes(copy) ==
  /\ ~copy.enabled /\ copy.revoked
  /\ Exists(row) /\ copy.binding = row.binding /\ copy.binding \in removals
\* A refused push.
Refused(copy) ==
  /\ ~copy.enabled /\ ~copy.revoked
  /\ Exists(row) /\ row.enabled /\ copy.binding = row.binding
  /\ copy.token = row.token /\ copy.token < token

\* What a handler holds whose copy's revision is still the row's.
Backed(h) ==
  LET copy == handler[h].copy IN
  handler[h].pc # "idle" /\ copy.revision = row.revision =>
    \/ handler[h].pc = "sending" /\ copy = row /\ row.enabled /\ Exists(row)
    \/ handler[h].pc = "saving" /\ (Registers(copy) \/ Removes(copy) \/ Refused(copy))

PhoneTypes ==
  /\ login \in Nat /\ token \in Nat /\ row \in Rows /\ row.token <= token
  /\ handler \in [Handlers -> [pc: {"idle", "sending", "saving"}, copy: Rows]]
  /\ sent \subseteq [binding: Nat, previous: Nat, token: Nat]
  /\ \A m \in sent : m.previous < m.binding /\ m.token <= token
  /\ \A h \in Handlers : handler[h].copy.token <= token /\ handler[h].copy.revision <= row.revision

\* Logins that ended are behind the row's, or the row's own that was removed.
EndedIsBehind ==
  /\ row.enabled => ~row.revoked
  /\ ended \subseteq [binding: Nat, revision: Nat]
  /\ \A e \in ended : Exists(row) /\ e.binding <= row.binding /\ (~row.revoked => e.binding # row.binding)

\* What is being sent for a login that ended was read before it ended.
SentIsEarlier(h) ==
  \A e \in ended :
    handler[h].pc = "sending" /\ handler[h].copy.binding = e.binding
      => handler[h].copy.revision < e.revision

PhoneInv == PhoneTypes /\ EndedIsBehind /\ \A h \in Handlers : Backed(h) /\ SentIsEarlier(h)

\* A step that changes neither the row nor what handlers are backed by.
LEMMA HandlerStep ==
  ASSUME PhoneInv, NEW h \in Handlers, NEW v \in [pc: {"idle", "sending", "saving"}, copy: Rows],
         handler' = [handler EXCEPT ![h] = v],
         UNCHANGED <<login, token, sent, removals, row, ended>>,
         v.copy.token <= token, v.copy.revision <= row.revision, Backed(h)', SentIsEarlier(h)'
  PROVE  PhoneInv'
<1>1. PhoneTypes'
  BY DEF PhoneInv, PhoneTypes
<1>2. EndedIsBehind'
  BY DEF PhoneInv, EndedIsBehind, Exists
<1>3. ASSUME NEW g \in Handlers PROVE Backed(g)' /\ SentIsEarlier(g)'
  <2>1. CASE g = h
    BY <2>1
  <2>2. CASE g # h
    <3>1. handler'[g] = handler[g]
      BY <2>2 DEF PhoneInv, PhoneTypes
    <3>2. QED
      BY <3>1 DEF PhoneInv, Backed, SentIsEarlier, Registers, Removes, Refused, Exists
  <2>3. QED
    BY <2>1, <2>2
<1>4. QED
  BY <1>1, <1>2, <1>3 DEF PhoneInv

\* The app's steps.
LEMMA AppStep ==
  ASSUME PhoneInv, UNCHANGED <<row, handler, ended>>,
         login' \in Nat, token' \in Nat, token' >= token, removals \subseteq removals',
         sent' \subseteq [binding: Nat, previous: Nat, token: Nat],
         \A m \in sent' : m.previous < m.binding /\ m.token <= token'
  PROVE  PhoneInv'
<1>1. PhoneTypes'
  <2>1. row.token \in Nat /\ \A h \in Handlers : handler[h].copy.token \in Nat
    BY DEF PhoneInv, PhoneTypes, Rows
  <2>2. QED
    BY <2>1 DEF PhoneInv, PhoneTypes
<1>2. EndedIsBehind'
  BY DEF PhoneInv, EndedIsBehind, Exists
<1>3. ASSUME NEW h \in Handlers PROVE Backed(h)' /\ SentIsEarlier(h)'
  <2>1. handler[h].copy.token \in Nat
    BY DEF PhoneInv, PhoneTypes, Rows
  <2>2. QED
    BY <2>1 DEF PhoneInv, PhoneTypes, Backed, SentIsEarlier, Registers, Removes, Refused, Exists
<1>4. QED
  BY <1>1, <1>2, <1>3 DEF PhoneInv

LEMMA AskFacts ==
  ASSUME NEW b \in Nat, NEW t \in Nat, Ask(b, t), PhoneTypes, t >= token
  PROVE  /\ sent' \subseteq [binding: Nat, previous: Nat, token: Nat]
         /\ \A m \in sent' : m.previous < m.binding /\ m.token <= t
<1>1. PICK p \in 0..(b - 1) : sent' = sent \cup {[binding |-> b, previous |-> p, token |-> t]}
  BY DEF Ask
<1>2. \A m \in sent : m.token \in Nat
  BY DEF PhoneTypes
<1>3. QED
  BY <1>1, <1>2 DEF PhoneTypes

\* A save whose copy is current.
LEMMA SaveStep == ASSUME PhoneInv, NEW h \in Handlers, Save(h) PROVE PhoneInv'
<1> DEFINE copy == handler[h].copy
<1>1. /\ copy \in Rows /\ row \in Rows /\ copy.token <= token
      /\ copy.revision = row.revision
      /\ row' = [copy EXCEPT !.revision = row.revision + 1]
      /\ handler' = [handler EXCEPT ![h] = Resting]
      /\ UNCHANGED <<login, token, sent, removals>>
      /\ ended' = ended \cup {[binding |-> b, revision |-> row.revision + 1] : b \in Ends(copy)}
      /\ Registers(copy) \/ Removes(copy) \/ Refused(copy)
  BY DEF Save, IsCurrent, PhoneInv, PhoneTypes, Backed
<1> HIDE DEF copy
<1>2. /\ row' \in Rows /\ row'.revision = row.revision + 1 /\ row'.binding = copy.binding
      /\ row'.enabled = copy.enabled /\ row'.revoked = copy.revoked /\ row'.token = copy.token
      /\ row.revision \in Nat /\ row.binding \in Nat /\ copy.binding \in Nat
  BY <1>1 DEF Rows
<1>3. Exists(row)'
  BY <1>2 DEF Exists
<1>3a. /\ \A e \in ended' \ ended : e.binding \in Ends(copy) /\ e.revision = row.revision + 1
         /\ ended' \subseteq [binding: Nat, revision: Nat]
  <2>1. Ends(copy) \subseteq Nat
    BY <1>2 DEF Ends
  <2>2. \A b \in Ends(copy) : [binding |-> b, revision |-> row.revision + 1] \in [binding: Nat, revision: Nat]
    BY <1>2, <2>1
  <2> HIDE DEF Ends
  <2>3. QED
    BY <1>1, <2>2 DEF PhoneInv, EndedIsBehind
<1>3b. \A b \in Ends(copy) :
             \/ b = row.binding /\ Exists(row) /\ copy.binding # b
             \/ b = copy.binding /\ copy.revoked
  BY DEF Ends
<1>4. EndedIsBehind'
  <2>1. CASE Registers(copy)
    BY <1>1, <1>2, <1>3, <1>3a, <1>3b, <2>1 DEF PhoneInv, EndedIsBehind, Registers
  <2>2. CASE Removes(copy)
    BY <1>1, <1>2, <1>3, <1>3a, <1>3b, <2>2 DEF PhoneInv, EndedIsBehind, Removes
  <2>3. CASE Refused(copy)
    BY <1>1, <1>2, <1>3, <1>3a, <1>3b, <2>3 DEF PhoneInv, EndedIsBehind, Refused
  <2>4. QED
    BY <1>1, <2>1, <2>2, <2>3
<1>5. Resting \in [pc: {"idle", "sending", "saving"}, copy: Rows] /\ Resting.pc = "idle"
      /\ Resting.copy.token = 0 /\ Resting.copy.revision = 0
  BY DEF Resting, NoRow, Rows
<1>6. ASSUME NEW g \in Handlers
      PROVE  /\ handler'[g].copy.token <= token' /\ handler'[g].copy.revision <= row'.revision
             /\ Backed(g)' /\ SentIsEarlier(g)'
  <2>1. CASE g = h
    <3>1. handler'[g] = Resting
      BY <1>1, <2>1 DEF PhoneInv, PhoneTypes
    <3>2. QED
      BY <1>1, <1>2, <1>5, <3>1 DEF PhoneInv, PhoneTypes, Backed, SentIsEarlier
  <2>2. CASE g # h
    <3>1. handler'[g] = handler[g] /\ handler[g].copy.revision <= row.revision
          /\ handler[g].copy.revision \in Nat /\ handler[g].copy.token <= token
      BY <1>1, <2>2 DEF PhoneInv, PhoneTypes, Rows
    <3>2. handler'[g].copy.revision < row'.revision
      BY <1>2, <3>1
    <3>3. SentIsEarlier(g)'
      <4> SUFFICES ASSUME NEW e \in ended', handler[g].pc = "sending", handler[g].copy.binding = e.binding
                   PROVE  handler[g].copy.revision < e.revision
        BY <3>1 DEF SentIsEarlier
      <4>1. CASE e \in ended
        BY <4>1 DEF PhoneInv, SentIsEarlier
      <4>2. CASE e \notin ended
        BY <1>2, <1>3a, <3>1, <4>2
      <4>3. QED
        BY <4>1, <4>2
    <3>4. QED
      BY <1>1, <1>2, <3>1, <3>2, <3>3 DEF Backed
  <2>3. QED
    BY <2>1, <2>2
<1>7. PhoneTypes'
  BY <1>1, <1>2, <1>5, <1>6 DEF PhoneInv, PhoneTypes
<1>8. QED
  BY <1>4, <1>6, <1>7 DEF PhoneInv

LEMMA PhoneStep == PhoneInv /\ [InstallationsNext]_ivars => PhoneInv'
<1> SUFFICES ASSUME PhoneInv, [InstallationsNext]_ivars PROVE PhoneInv'
  OBVIOUS
<1> USE DEF PhoneInv, PhoneTypes
<1>1. CASE LogIn
  <2>1. login' \in Nat /\ token' \in Nat /\ token' >= token /\ Ask(login', token')
    BY <1>1 DEF LogIn
  <2>2. /\ sent' \subseteq [binding: Nat, previous: Nat, token: Nat]
        /\ \A m \in sent' : m.previous < m.binding /\ m.token <= token'
    BY <2>1, AskFacts
  <2>3. QED
    BY <1>1, <2>1, <2>2, AppStep DEF LogIn
<1>2. CASE Refresh \/ Repeat
  <2>1. login' = login /\ token' \in Nat /\ token' >= token /\ Ask(login, token')
    BY <1>2 DEF Refresh, Repeat
  <2>2. /\ sent' \subseteq [binding: Nat, previous: Nat, token: Nat]
        /\ \A m \in sent' : m.previous < m.binding /\ m.token <= token'
    BY <2>1, AskFacts
  <2>3. QED
    BY <1>2, <2>1, <2>2, AppStep DEF Refresh, Repeat
<1>3. CASE LogOut
  BY <1>3, AppStep DEF LogOut
<1>4. ASSUME NEW h \in Handlers, NEW m \in sent, StartRegistration(h, m) PROVE PhoneInv'
  <2> DEFINE copy == Registered(row, m)
             v == [pc |-> "saving", copy |-> copy]
  <2>1. /\ copy \in Rows /\ copy.revision = row.revision /\ copy.token = m.token
        /\ copy.binding = m.binding /\ copy.enabled /\ ~copy.revoked
    BY DEF Registered, Rows
  <2>2. handler' = [handler EXCEPT ![h] = v] /\ UNCHANGED <<login, token, sent, removals, row, ended>>
    BY <1>4 DEF StartRegistration
  <2>3. Registers(copy)
    <3>1. ASSUME Exists(row), row.binding = m.binding PROVE ~row.revoked
      BY <1>4, <3>1 DEF StartRegistration, Renews, EndedIsBehind
    <3>2. ASSUME Exists(row), row.binding # m.binding PROVE m.binding > row.binding
      BY <1>4, <3>2 DEF StartRegistration, Renews
    <3>3. QED
      BY <2>1, <3>1, <3>2 DEF Registers
  <2> HIDE DEF copy
  <2>4. Backed(h)'
    BY <2>2, <2>3 DEF Backed, Registers, Exists
  <2>5. v \in [pc: {"idle", "sending", "saving"}, copy: Rows] /\ v.copy.token <= token
        /\ v.copy.revision <= row.revision
    BY <2>1 DEF Rows
  <2>6. SentIsEarlier(h)'
    BY <2>2 DEF SentIsEarlier
  <2>7. QED
    BY <2>2, <2>4, <2>5, <2>6, HandlerStep
<1>5. ASSUME NEW h \in Handlers, NEW b \in removals, StartRemoval(h, b) PROVE PhoneInv'
  <2> DEFINE copy == [row EXCEPT !.enabled = FALSE, !.revoked = TRUE]
             v == [pc |-> "saving", copy |-> copy]
  <2>1. /\ copy \in Rows /\ copy.revision = row.revision /\ copy.token = row.token
        /\ copy.binding = row.binding /\ ~copy.enabled /\ copy.revoked
    BY DEF Rows
  <2>2. /\ handler' = [handler EXCEPT ![h] = v] /\ UNCHANGED <<login, token, sent, removals, row, ended>>
        /\ handler[h] = Resting /\ Exists(row) /\ row.binding = b
    BY <1>5 DEF StartRemoval
  <2> HIDE DEF copy
  <2>3. Backed(h)'
    BY <2>1, <2>2 DEF Backed, Removes, Exists
  <2>4. v \in [pc: {"idle", "sending", "saving"}, copy: Rows] /\ v.copy.token <= token
        /\ v.copy.revision <= row.revision
    BY <2>1 DEF Rows
  <2>5. SentIsEarlier(h)'
    BY <2>2 DEF SentIsEarlier
  <2>6. QED
    BY <2>2, <2>3, <2>4, <2>5, HandlerStep
<1>6. ASSUME NEW h \in Handlers, StartDelivery(h) PROVE PhoneInv'
  <2> DEFINE v == [pc |-> "sending", copy |-> row]
  <2>1. /\ handler' = [handler EXCEPT ![h] = v] /\ UNCHANGED <<login, token, sent, removals, row, ended>>
        /\ row.enabled /\ Exists(row)
    BY <1>6 DEF StartDelivery, IsTarget
  <2>2. Backed(h)'
    BY <2>1 DEF Backed, Exists
  <2>3. v \in [pc: {"idle", "sending", "saving"}, copy: Rows] /\ v.copy.token <= token
        /\ v.copy.revision <= row.revision
    BY DEF Rows
  <2>4. SentIsEarlier(h)'
    BY <2>1 DEF SentIsEarlier, EndedIsBehind
  <2>5. QED
    BY <2>1, <2>2, <2>3, <2>4, HandlerStep
<1>7. ASSUME NEW h \in Handlers, PushRefused(h) PROVE PhoneInv'
  <2> DEFINE old == handler[h].copy
             copy == [old EXCEPT !.enabled = FALSE]
             v == [pc |-> "saving", copy |-> copy]
  <2>1. /\ old \in Rows /\ old.token <= token /\ old.token # token /\ handler[h].pc = "sending"
        /\ handler' = [handler EXCEPT ![h] = v] /\ UNCHANGED <<login, token, sent, removals, row, ended>>
    <3>1. handler' = [handler EXCEPT ![h] = [pc |-> "saving", copy |-> copy]]
      BY <1>7 DEF PushRefused
    <3>2. QED
      BY <1>7, <3>1 DEF PushRefused, IsInvalid
  <2>2. old.revision = row.revision => old = row /\ row.enabled /\ Exists(row)
    BY <2>1 DEF Backed
  <2>3. row.enabled => ~row.revoked
    BY DEF EndedIsBehind
  <2>4. /\ copy \in Rows /\ copy.revision = old.revision /\ copy.token = old.token
        /\ copy.binding = old.binding /\ ~copy.enabled /\ copy.revoked = old.revoked
    BY <2>1 DEF Rows
  <2>5. old.revision <= row.revision
    OBVIOUS
  <2> HIDE DEF old, copy
  <2>6. old.token < token
    <3>1. old.token \in Nat /\ token \in Nat
      BY <2>1 DEF Rows
    <3> HIDE DEF PhoneInv, PhoneTypes
    <3>2. QED
      BY <2>1, <3>1
  <2>7. ASSUME copy.revision = row.revision PROVE Refused(copy)
    <3> HIDE DEF PhoneInv, PhoneTypes
    <3>1. old = row /\ row.enabled /\ Exists(row)
      BY <2>2, <2>4, <2>7
    <3>2. QED
      BY <2>3, <2>4, <2>6, <3>1 DEF Refused
  <2>8. Backed(h)'
    BY <2>1, <2>7 DEF Backed, Refused, Exists
  <2>9. SentIsEarlier(h)'
    BY <2>1 DEF SentIsEarlier
  <2>10. QED
    BY <2>1, <2>4, <2>5, <2>8, <2>9, HandlerStep
<1>8. ASSUME NEW h \in Handlers, Done(h) PROVE PhoneInv'
  <2>1. Resting \in [pc: {"idle", "sending", "saving"}, copy: Rows] /\ Resting.pc = "idle"
        /\ Resting.copy.token = 0 /\ Resting.copy.revision = 0
    BY DEF Resting, NoRow, Rows
  <2>2. Backed(h)'
    BY <1>8, <2>1 DEF Done, Backed
  <2>3. 0 <= row.revision /\ 0 <= token
    BY DEF Rows
  <2>4. /\ handler' = [handler EXCEPT ![h] = Resting] /\ UNCHANGED <<login, token, sent, removals, row, ended>>
    BY <1>8 DEF Done
  <2>5. SentIsEarlier(h)'
    BY <2>1, <2>4 DEF SentIsEarlier
  <2> HIDE DEF PhoneInv
  <2>6. QED
    BY <2>1, <2>2, <2>3, <2>4, <2>5, HandlerStep
<1>9. CASE UNCHANGED ivars
  BY <1>9 DEF ivars, EndedIsBehind, Backed, SentIsEarlier, Registers, Removes, Refused, Exists
<1>10. QED
  BY <1>1, <1>2, <1>3, <1>4, <1>5, <1>6, <1>7, <1>8, <1>9, SaveStep DEF InstallationsNext

LEMMA PhoneInvariant == InstallationsSpec => []PhoneInv
<1>1. InstallationsInit => PhoneInv
  BY DEF InstallationsInit, PhoneInv, PhoneTypes, EndedIsBehind, Backed, SentIsEarlier, Resting, NoRow, Rows
<1>2. QED
  BY <1>1, PhoneStep, PTL DEF InstallationsSpec

\* For any number of requests and deliveries at once and any tokens and logins, a phone is
\* not bound again to a login that ended, and only a delivery that read the row before the
\* end is still sending for it.
THEOREM EndedLoginsStayOut == InstallationsSpec => []EndedStaysOut
<1>1. PhoneInv => EndedStaysOut
  BY DEF PhoneInv, EndedIsBehind, SentIsEarlier, EndedStaysOut
<1>2. QED
  BY <1>1, PhoneInvariant, PTL

\* A login with its current token is silenced by its own removal alone.
THEOREM OnlyRemovalSilences == InstallationsSpec => CurrentStays
<1>1. PhoneInv /\ [InstallationsNext]_ivars
        => [row.enabled /\ row.token = token /\ ~row'.enabled
              => row'.binding = row.binding /\ row'.binding \in removals]_row
  <2> SUFFICES ASSUME PhoneInv, [InstallationsNext]_ivars, row' # row,
                      row.enabled, row.token = token, ~row'.enabled
               PROVE  row'.binding = row.binding /\ row'.binding \in removals
    OBVIOUS
  <2>1. PICK h \in Handlers : Save(h)
    BY DEF InstallationsNext, ivars, LogIn, Refresh, Repeat, LogOut, StartRegistration, StartRemoval,
           StartDelivery, PushRefused, Done
  <2> DEFINE copy == handler[h].copy
  <2>2. /\ copy \in Rows /\ row \in Rows
        /\ row' = [copy EXCEPT !.revision = row.revision + 1]
        /\ Registers(copy) \/ Removes(copy) \/ Refused(copy)
    BY <2>1 DEF Save, IsCurrent, PhoneInv, PhoneTypes, Backed
  <2> HIDE DEF copy
  <2>3. row'.enabled = copy.enabled /\ row'.binding = copy.binding
    BY <2>2 DEF Rows
  <2>4. ~Registers(copy) /\ ~Refused(copy)
    BY <2>2, <2>3 DEF Registers, Refused, Rows
  <2>5. QED
    BY <2>2, <2>3, <2>4 DEF Removes
<1>2. QED
  BY <1>1, PhoneInvariant, PTL DEF InstallationsSpec, CurrentStays
=============================================================================
