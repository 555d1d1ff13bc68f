--------------------------- MODULE Authorizations ---------------------------
(***************************************************************************)
(* How users authorise the service to use an account of theirs elsewhere:  *)
(* paymentaccount.Service (a provider's Mercado Pago account) and          *)
(* calendarconnection.Service (a user's Google calendar), over             *)
(* payment_account_authorization_attempts, provider_payment_accounts,      *)
(* google_calendar_authorization_attempts and google_calendar_connections. *)
(*                                                                         *)
(* An attempt is started, its user is sent away and comes back with a code *)
(* that is exchanged for credentials, or with a refusal.  The callback can *)
(* come more than once: several find the attempt open, and the conditional *)
(* update that consumes it decides between them.                           *)
(***************************************************************************)
EXTENDS Naturals, FiniteSets

CONSTANTS
  Users,      \* users; all of them may offer services, and so link an account
  Attempts,   \* ids of attempts
  Callbacks,  \* goroutines that serve callbacks
  Accounts,   \* accounts at the payment provider
  MaxGrants,  \* bound: how many grants of a calendar Google gives
  None        \* no account

ASSUME AuthorizationsAssumption == MaxGrants \in Nat /\ None \notin Accounts

VARIABLES
  attempt,    \* rows of both tables of attempts
  account,    \* the payment account of each provider, None without one
  connection, \* the grant in the calendar connection of each user, NoGrant without one
  callback,   \* what each callback is doing
  granted,    \* how many grants Google has given: a refresh token and its calendar each
  revoked,    \* grants that were revoked
  settled     \* history: how many operations took each attempt as theirs to consume

authorizations == <<attempt, account, connection, callback, granted, revoked, settled>>

Kinds == {"payment", "calendar"}
NoGrant == 0
Grants == 1..MaxGrants

NoAttempt == [kind |-> "none", user |-> None, consumed |-> FALSE, expired |-> FALSE]
Idle == [pc |-> "idle", attempt |-> None, user |-> None, account |-> None, grant |-> NoGrant]

End(c) == callback' = [callback EXCEPT ![c] = Idle]

----------------------------------------------------------------------------
\* StartAuthorization: a provider whose account is linked is refused; a user whose
\* calendar is connected may connect another.
StartAuthorization(a, kind, u) ==
  /\ attempt[a] = NoAttempt
  /\ kind = "payment" => account[u] = None
  /\ attempt' = [attempt EXCEPT ![a] = [NoAttempt EXCEPT !.kind = kind, !.user = u]]
  /\ UNCHANGED <<account, connection, callback, granted, revoked, settled>>

\* Ten minutes pass.
ExpireAttempt(a) ==
  /\ attempt[a] # NoAttempt /\ ~attempt[a].expired
  /\ attempt' = [attempt EXCEPT ![a].expired = TRUE]
  /\ UNCHANGED <<account, connection, callback, granted, revoked, settled>>

\* findActiveAuthorizationAttempt of a callback that brings a code or a refusal.
FindActive(c, a) ==
  /\ callback[c].pc = "idle"
  /\ attempt[a] # NoAttempt /\ ~attempt[a].consumed /\ ~attempt[a].expired
  /\ \E pc \in {"exchange", "consume"} :
       callback' = [callback EXCEPT
         ![c] = [Idle EXCEPT !.pc = pc, !.attempt = a, !.user = attempt[a].user]]
  /\ UNCHANGED <<attempt, account, connection, granted, revoked, settled>>

\* ConnectWithAuthorizationCode: a signed-in application brings a code of its own.
ConnectWithCode(c, u) ==
  /\ callback[c].pc = "idle"
  /\ callback' = [callback EXCEPT ![c] = [Idle EXCEPT !.pc = "exchange", !.user = u]]
  /\ UNCHANGED <<attempt, account, connection, granted, revoked, settled>>

\* Google has a grant for the code.
ExchangeForGrant(c) ==
  /\ callback[c].pc = "exchange"
  /\ callback[c].attempt # None => attempt[callback[c].attempt].kind = "calendar"
  /\ granted < MaxGrants
  /\ granted' = granted + 1
  /\ callback' = [callback EXCEPT ![c].pc = "save", ![c].grant = granted + 1]
  /\ UNCHANGED <<attempt, account, connection, revoked, settled>>

\* Mercado Pago has credentials of an account for the code.
ExchangeForAccount(c, x) ==
  /\ callback[c].pc = "exchange"
  /\ callback[c].attempt # None /\ attempt[callback[c].attempt].kind = "payment"
  /\ callback' = [callback EXCEPT ![c].pc = "save", ![c].account = x]
  /\ UNCHANGED <<attempt, account, connection, granted, revoked, settled>>

\* The attempt is given up: its credentials are incomplete, or its code cannot be
\* used.  The latter gives up only a payment's attempt; a calendar's stays open.
ExchangeGivesUp(c) ==
  /\ callback[c].pc = "exchange" /\ callback[c].attempt # None
  /\ callback' = [callback EXCEPT ![c].pc = "consume"]
  /\ UNCHANGED <<attempt, account, connection, granted, revoked, settled>>

\* Mutant: the update does not ask whether the attempt was consumed.
IsOpen_Always(a) == TRUE

\* WHERE id = $1 AND consumed_on IS NULL.
IsOpen(a) == ~attempt[a].consumed

\* consumeAuthorizationAttempt, when it affects a row.
Settle(a) ==
  /\ IsOpen(a)
  /\ attempt' = [attempt EXCEPT ![a].consumed = TRUE]
  /\ settled' = [settled EXCEPT ![a] = @ + 1]

\* Consume of an attempt that was refused or given up; it is an error if another
\* operation consumed it first.
Consume(c) ==
  /\ callback[c].pc = "consume"
  /\ \/ Settle(callback[c].attempt)
     \/ ~IsOpen(callback[c].attempt) /\ UNCHANGED <<attempt, settled>>
  /\ End(c)
  /\ UNCHANGED <<account, connection, granted, revoked>>

\* The unique constraints of provider_payment_accounts.
IsUnlinked(u, x) == account[u] = None /\ \A v \in Users : account[v] # x

\* PaymentAccountRepository.SaveFromAuthorization: the account is inserted and the
\* attempt consumed, or neither.
SaveAccount(c) ==
  LET cb == callback[c] IN
  /\ cb.pc = "save" /\ cb.account # None
  /\ \/ /\ IsUnlinked(cb.user, cb.account) /\ Settle(cb.attempt)
        /\ account' = [account EXCEPT ![cb.user] = cb.account]
     \/ /\ ~(IsUnlinked(cb.user, cb.account) /\ IsOpen(cb.attempt))
        /\ UNCHANGED <<attempt, account, settled>>
  /\ End(c)
  /\ UNCHANGED <<connection, granted, revoked>>

\* GoogleCalendarConnectionRepository.SaveFromAuthorization, which replaces the
\* user's connection, and Save, which has no attempt to consume.
SaveConnection(c) ==
  LET cb == callback[c] IN
  /\ cb.pc = "save" /\ cb.grant # NoGrant
  /\ \/ /\ IF cb.attempt = None THEN UNCHANGED <<attempt, settled>> ELSE Settle(cb.attempt)
        /\ connection' = [connection EXCEPT ![cb.user] = cb.grant]
     \/ /\ cb.attempt # None /\ ~IsOpen(cb.attempt)
        /\ UNCHANGED <<attempt, connection, settled>>
  /\ End(c)
  /\ UNCHANGED <<account, granted, revoked>>

\* A callback fails at any of its steps, or its process dies: nothing was written.
Abandon(c) ==
  /\ callback[c].pc # "idle"
  /\ End(c)
  /\ UNCHANGED <<attempt, account, connection, granted, revoked, settled>>

\* A user revokes a grant at Google.
Revoke(g) ==
  /\ g <= granted /\ g \notin revoked
  /\ revoked' = revoked \cup {g}
  /\ UNCHANGED <<attempt, account, connection, callback, granted, settled>>

AuthorizationsInit ==
  /\ attempt = [a \in Attempts |-> NoAttempt]
  /\ account = [u \in Users |-> None]
  /\ connection = [u \in Users |-> NoGrant]
  /\ callback = [c \in Callbacks |-> Idle]
  /\ granted = 0 /\ revoked = {}
  /\ settled = [a \in Attempts |-> 0]

AuthorizationsNext ==
  \/ \E a \in Attempts, kind \in Kinds, u \in Users : StartAuthorization(a, kind, u)
  \/ \E a \in Attempts : ExpireAttempt(a)
  \/ \E g \in Grants : Revoke(g)
  \/ \E c \in Callbacks :
       \/ \E a \in Attempts : FindActive(c, a)
       \/ \E u \in Users : ConnectWithCode(c, u)
       \/ \E x \in Accounts : ExchangeForAccount(c, x)
       \/ ExchangeForGrant(c)
       \/ ExchangeGivesUp(c)
       \/ Consume(c)
       \/ SaveAccount(c)
       \/ SaveConnection(c)
       \/ Abandon(c)

----------------------------------------------------------------------------
(* Properties *)

\* However many callbacks of an attempt find it open, one of them settles it: it
\* links one account or calendar, or is given up and links none.  No account of the
\* payment provider is linked to two users.
AttemptSettlesOnce ==
  /\ \A a \in Attempts : settled[a] = (IF attempt[a].consumed THEN 1 ELSE 0)
  /\ \A u, v \in Users : account[u] # None /\ account[u] = account[v] => u = v
=============================================================================
