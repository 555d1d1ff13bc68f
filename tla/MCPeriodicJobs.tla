--------------------------- MODULE MCPeriodicJobs ---------------------------
(* The instance of PeriodicJobs and Authorizations for TLC.  Its states are of three
   sorts, that it does not mix: attempts whose callbacks race; orders whose sync races
   for the calendars of users that connect one at a time; orders that are notified. *)
EXTENDS PeriodicJobs

Pair == <<CHOOSE u \in Users : TRUE, CHOOSE u \in Users : u # CHOOSE v \in Users : TRUE>>

Started == {a \in Attempts : attempt[a] # NoAttempt}
Serving == {c \in Callbacks : callback[c] # Idle}
Booked == {o \in Orders : stage[o] # Unbooked}

Bounded ==
  /\ \A a \in Started : \A b \in Attempts : b < a => b \in Started
  /\ Started # {} => Booked = {} /\ revoked = {}
  /\ Booked # {} => Serving \subseteq {CHOOSE c \in Callbacks : TRUE}
  /\ granted > 0 => \A r \in Replicas : job[r]["urgent"] = Resting

MCNext == Next /\ Bounded'
MCSpec == Init /\ [][MCNext]_vars /\ Fairness
=============================================================================
