------------------------------- MODULE RealtimeHub -------------------------------
(***************************************************************************)
(* The websocket connections of one participant: one-time tickets, shared  *)
(* by every replica through PostgreSQL, realtime.Hub with its connections  *)
(* and their two pumps, and lifecycle.Coordinator stopping a replica.      *)
(* What the bus delivers to the hub may come at any time.                  *)
(***************************************************************************)
EXTENDS RealtimeBus

CONSTANTS
  Connections,  \* websocket connections that can be opened
  Tickets,      \* tickets that can be issued
  Buffer        \* events a connection's channel holds

ASSUME HubAssumption == Buffer \in Nat \ {0} /\ None \notin Tickets

VARIABLES
  stage,      \* how far each replica's shutdown has come
  issued,     \* tickets that were ever issued
  tickets,    \* websocket_tickets
  connection  \* what each connection is doing

hubVars == <<stage, issued, tickets, connection>>

Stages == {"serving", "draining", "closed", "exited"}

NoConnection == [replica |-> None, ticket |-> None, stage |-> "new", listed |-> FALSE, sending |-> FALSE,
                 socket |-> FALSE, read |-> FALSE, write |-> FALSE, pending |-> 0]

\* The connections in a hub's map.
Listed(r) == {c \in Connections : connection[c].replica = r /\ connection[c].listed}

\* Issue.
Issue(t) ==
  /\ t \notin issued
  /\ issued' = issued \cup {t} /\ tickets' = tickets \cup {t}
  /\ UNCHANGED <<stage, connection>>

\* Mutant: the ticket stays in its table.
Spent_Kept(t) == tickets
Spent(t) == tickets \ {t}

\* Consume: one statement deletes the ticket and answers whose it was; then the
\* connection is upgraded.
Open(c, r, t) ==
  /\ stage[r] # "exited"
  /\ connection[c].stage = "new"
  /\ t \in tickets
  /\ tickets' = Spent(t)
  /\ connection' = [connection EXCEPT ![c] =
       [NoConnection EXCEPT !.replica = r, !.ticket = t, !.stage = "upgraded", !.socket = TRUE]]
  /\ UNCHANGED <<stage, issued>>

\* A ticket expires, or is spent by a handler that refuses the role afterwards.
Waste(t) ==
  /\ t \in tickets
  /\ tickets' = tickets \ {t}
  /\ UNCHANGED <<stage, issued, connection>>

\* addConnection, and the two pumps.
Register(c) ==
  /\ connection[c].stage = "upgraded"
  /\ connection' = [connection EXCEPT ![c] =
       [connection[c] EXCEPT !.stage = "served", !.listed = TRUE, !.sending = TRUE, !.read = TRUE, !.write = TRUE]]
  /\ UNCHANGED <<stage, issued, tickets>>

\* The user has no such role.
Reject(c) ==
  /\ connection[c].stage = "upgraded"
  /\ connection' = [connection EXCEPT ![c] = [connection[c] EXCEPT !.stage = "ended", !.socket = FALSE]]
  /\ UNCHANGED <<stage, issued, tickets>>

\* writePump sends an event; a closed channel still gives what it holds.
Write(c) ==
  /\ connection[c].write /\ connection[c].pending > 0
  /\ connection' = [connection EXCEPT ![c] = [connection[c] EXCEPT !.pending = connection[c].pending - 1]]
  /\ UNCHANGED <<stage, issued, tickets>>

\* Mutant: the socket stays open.
WriteEnded_Quietly(c) == [connection[c] EXCEPT !.write = FALSE]
WriteEnded(c) == [connection[c] EXCEPT !.write = FALSE, !.socket = FALSE]

\* writePump ends: its channel is closed and empty, or a write or a ping fails.
MustStopWriting(c) == ~connection[c].socket \/ (~connection[c].sending /\ connection[c].pending = 0)
EndWrite(c) ==
  /\ connection[c].write
  /\ connection' = [connection EXCEPT ![c] = WriteEnded(c)]
  /\ UNCHANGED <<stage, issued, tickets>>

\* Mutant: removeConnection leaves the map alone.
Removed_StaysListed(c) == [connection[c] EXCEPT !.sending = FALSE]
Removed(c) == [connection[c] EXCEPT !.listed = FALSE, !.sending = FALSE]

\* readPump ends: the client left or the socket is closed.
EndRead(c) ==
  /\ connection[c].read
  /\ connection' = [connection EXCEPT ![c] = [Removed(c) EXCEPT !.read = FALSE, !.socket = FALSE]]
  /\ UNCHANGED <<stage, issued, tickets>>

HasRoom(c) == connection[c].pending < Buffer

\* Deliver: an event goes to every connection of the map whose channel has room.
Deliver(r) ==
  /\ stage[r] # "exited" /\ Listed(r) # {}
  /\ connection' = [c \in Connections |->
       IF c \in Listed(r) /\ HasRoom(c)
         THEN [connection[c] EXCEPT !.pending = connection[c].pending + 1]
         ELSE connection[c]]
  /\ UNCHANGED <<stage, issued, tickets>>

----------------------------------------------------------------------------
(* The coordinator *)

\* MarkDraining and the cancellation of the workers.
Drain(r) ==
  /\ stage[r] = "serving"
  /\ stage' = [stage EXCEPT ![r] = "draining"]
  /\ UNCHANGED <<issued, tickets, connection>>

\* Hub.Close.  The server still serves: a handler may register a connection later.
CloseHub(r) ==
  /\ stage[r] = "draining"
  /\ stage' = [stage EXCEPT ![r] = "closed"]
  /\ connection' = [c \in Connections |->
       IF c \in Listed(r) THEN [Removed(c) EXCEPT !.socket = FALSE] ELSE connection[c]]
  /\ UNCHANGED <<issued, tickets>>

\* The server is shut down, the workers are done and the process ends.
Exit(r) ==
  /\ stage[r] = "closed"
  /\ stage' = [stage EXCEPT ![r] = "exited"]
  /\ connection' = [c \in Connections |->
       IF connection[c].replica = r
         THEN [NoConnection EXCEPT !.replica = r, !.ticket = connection[c].ticket, !.stage = "ended"]
         ELSE connection[c]]
  /\ UNCHANGED <<issued, tickets>>

----------------------------------------------------------------------------
HubInit ==
  /\ stage = [r \in Replicas |-> "serving"]
  /\ issued = {} /\ tickets = {}
  /\ connection = [c \in Connections |-> NoConnection]

HubNext ==
  \/ \E t \in Tickets : Issue(t) \/ Waste(t)
  \/ \E c \in Connections :
       \/ \E r \in Replicas, t \in Tickets : Open(c, r, t)
       \/ Register(c) \/ Reject(c) \/ Write(c) \/ EndWrite(c) \/ EndRead(c)
  \/ \E r \in Replicas : Deliver(r) \/ Drain(r) \/ CloseHub(r) \/ Exit(r)

HubSpec == HubInit /\ [][HubNext]_hubVars

\* Pumps go on and stop when they must; a coordinator that began to stop goes on.
HubFairness ==
  /\ \A r \in Replicas : WF_hubVars(CloseHub(r)) /\ WF_hubVars(Exit(r))
  /\ \A c \in Connections :
       /\ WF_hubVars(Write(c))
       /\ WF_hubVars(MustStopWriting(c) /\ EndWrite(c))
       /\ WF_hubVars(~connection[c].socket /\ EndRead(c))

----------------------------------------------------------------------------
(* Properties *)

\* One ticket opens one connection, on whichever replicas it is shown at once; and
\* a hub sends on open channels alone: a connection in its map was not closed, by its
\* own pumps or by the hub.
OnlyOpenIsListed ==
  /\ \A c, d \in Connections : connection[c].ticket = connection[d].ticket /\ connection[c].ticket # None => c = d
  /\ \A c \in Connections : connection[c].listed => connection[c].sending

\* When one pump of a connection has ended, or its hub has closed, the other
\* ends as well and the hub forgets the connection.
Ending(c) ==
  /\ connection[c].stage = "served"
  /\ ~connection[c].read \/ ~connection[c].write \/ stage[connection[c].replica] = "closed"
Forgotten(c) == ~connection[c].read /\ ~connection[c].write /\ ~connection[c].listed /\ ~connection[c].socket
PumpsEndTogether == \A c \in Connections : Ending(c) ~> Forgotten(c)
=============================================================================
