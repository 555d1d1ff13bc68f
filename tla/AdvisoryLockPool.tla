---------------------------- MODULE AdvisoryLockPool ----------------------------
(***************************************************************************)
(* Advisory locks and connections: PostgresAdvisoryLock, whose transaction   *)
(* keeps a connection of its instance's pool while the operation under the   *)
(* lock asks the same pool for another one, and the calls without a lock     *)
(* that share the pool.  sql.DB hands out connections and PostgreSQL grants  *)
(* locks (external) in the order they were asked for.                        *)
(***************************************************************************)
EXTENDS Integers, FiniteSets

CONSTANTS
  Instances,    \* of the API, each with its pool
  Callers,      \* requests and jobs that run at once
  LockKeys,     \* resources of one namespace, or names of jobs
  MaxOpenConns, \* size of a pool
  MaxQueries,   \* bound: statements and units of work of one operation
  Nobody

ASSUME PoolAssumption == MaxOpenConns \in Nat \ {0} /\ MaxQueries \in Nat /\ Nobody \notin Callers

VARIABLES
  caller,\* what each caller is doing
  open,  \* connections of each pool that are in use
  owner  \* whose transaction holds each lock

pvars == <<caller, open, owner>>

\* A call under a lock waits for it or only tries; a plain one uses no lock.
Kinds == {"wait", "try", "plain"}
NoCall == [pc |-> "idle", instance |-> Nobody, key |-> Nobody, kind |-> "plain", queries |-> 0]
Ended(c) == caller' = [caller EXCEPT ![c] = NoCall]
Moves(c, from, to) == caller[c].pc = from /\ caller' = [caller EXCEPT ![c].pc = to]

HasRoom(i) == open[i] < MaxOpenConns
Borrow(c) == open' = [open EXCEPT ![caller[c].instance] = @ + 1]
GiveBack(c) == open' = [open EXCEPT ![caller[c].instance] = @ - 1]
Freed(c) == [k \in LockKeys |-> IF owner[k] = c THEN Nobody ELSE owner[k]]

----------------------------------------------------------------------------
(* A call *)

Arrive(c, i, k, kind) ==
  /\ caller[c] = NoCall
  /\ caller' = [caller EXCEPT ![c] =
       [pc |-> IF kind = "plain" THEN "asking" ELSE "beginning",
        instance |-> i, key |-> k, kind |-> kind, queries |-> 0]]
  /\ UNCHANGED <<open, owner>>

\* BeginTx: the lock's transaction gets its connection.
OpenTransaction(c) ==
  /\ Moves(c, "beginning", "locking") /\ HasRoom(caller[c].instance)
  /\ Borrow(c)
  /\ UNCHANGED owner

\* pg_advisory_xact_lock, or pg_try_advisory_xact_lock that finds it free.
Lock(c) ==
  /\ Moves(c, "locking", "working") /\ owner[caller[c].key] = Nobody
  /\ owner' = [owner EXCEPT ![caller[c].key] = c]
  /\ UNCHANGED open

\* Mutant: the transaction of a try is left open.
RollbackTry_Missing(c) == UNCHANGED open
RollbackTry(c) == GiveBack(c)

\* pg_try_advisory_xact_lock says no.
TryInVain(c) ==
  /\ caller[c].pc = "locking" /\ caller[c].kind = "try" /\ owner[caller[c].key] # Nobody
  /\ Ended(c) /\ RollbackTry(c)
  /\ UNCHANGED owner

\* The operation needs a connection of its own, several times.
Ask(c) ==
  /\ caller[c].pc = "working" /\ caller[c].queries < MaxQueries
  /\ caller' = [caller EXCEPT ![c].pc = "asking", ![c].queries = @ + 1]
  /\ UNCHANGED <<open, owner>>

Query(c) ==
  /\ Moves(c, "asking", "querying") /\ HasRoom(caller[c].instance)
  /\ Borrow(c)
  /\ UNCHANGED owner

\* The statement or the unit of work is done.
Answered(c) ==
  /\ caller[c].pc = "querying"
  /\ IF caller[c].kind = "plain" THEN Ended(c) ELSE caller' = [caller EXCEPT ![c].pc = "working"]
  /\ GiveBack(c)
  /\ UNCHANGED owner

\* Mutant: an operation that fails leaves the lock's transaction open.
Release_Leaks(c, failed) ==
  IF failed THEN UNCHANGED <<open, owner>> ELSE owner' = Freed(c) /\ GiveBack(c)
\* Commit, or rollbackAdvisoryLock when the operation failed.
Release(c, failed) == owner' = Freed(c) /\ GiveBack(c)

EndOperation(c, failed) ==
  /\ caller[c].pc = "working"
  /\ Ended(c) /\ Release(c, failed)

\* The caller's context ends while it waits: for its transaction, for the lock, or for a
\* connection, which the operation answers with an error.
Cancel(c) ==
  /\ Ended(c)
  /\ \/ caller[c].pc = "beginning" /\ UNCHANGED <<open, owner>>
     \/ caller[c].pc = "locking" /\ GiveBack(c) /\ UNCHANGED owner
     \/ /\ caller[c].pc = "asking"
        /\ IF caller[c].kind = "plain" THEN UNCHANGED <<open, owner>> ELSE Release(c, TRUE)

\* The process dies: PostgreSQL ends its sessions.
Crash(i) ==
  LET dead == {c \in Callers : caller[c].instance = i} IN
  /\ dead # {}
  /\ caller' = [c \in Callers |-> IF c \in dead THEN NoCall ELSE caller[c]]
  /\ open' = [open EXCEPT ![i] = 0]
  /\ owner' = [k \in LockKeys |-> IF owner[k] \in dead THEN Nobody ELSE owner[k]]

PoolInit ==
  /\ caller = [c \in Callers |-> NoCall]
  /\ open = [i \in Instances |-> 0]
  /\ owner = [k \in LockKeys |-> Nobody]

\* What a call does without waiting for another.
Proceed(c) ==
  \/ TryInVain(c) \/ Ask(c) \/ Answered(c)
  \/ \E failed \in BOOLEAN : EndOperation(c, failed)

PoolNext ==
  \/ \E c \in Callers :
       \/ \E i \in Instances, k \in LockKeys, kind \in Kinds : Arrive(c, i, k, kind)
       \/ OpenTransaction(c) \/ Lock(c) \/ Query(c) \/ Proceed(c) \/ Cancel(c)
  \/ \E i \in Instances : Crash(i)

\* A call goes on; pool and lock serve those who wait in their order.
PoolFairness ==
  \A c \in Callers :
    WF_pvars(Proceed(c)) /\ SF_pvars(OpenTransaction(c) \/ Query(c)) /\ SF_pvars(Lock(c))

PoolSpec == PoolInit /\ [][PoolNext]_pvars /\ PoolFairness

----------------------------------------------------------------------------
(* Properties *)

LockTransactions(i) ==
  {c \in Callers : /\ caller[c].instance = i /\ caller[c].kind # "plain"
                   /\ caller[c].pc \in {"locking", "working", "asking", "querying"}}

\* Every connection of an instance is held by the transaction of a lock while one of
\* them, under its lock, asks for another.
Starved(i) ==
  /\ Cardinality(LockTransactions(i)) = MaxOpenConns
  /\ \E c \in LockTransactions(i) : caller[c].pc = "asking"

\* Locks and pools hold up no call, whatever was cancelled, failed or died, but when the
\* transactions of locks have used up a pool that one of their operations needs.
CallsEnd ==
  \A c \in Callers : caller[c].pc # "idle" ~> (caller[c].pc = "idle" \/ \E i \in Instances : Starved(i))
=============================================================================
