----------------------------- MODULE Installations -----------------------------
(***************************************************************************)
(* One phone that pushes are sent to: installation.Service, which binds an *)
(* installed app to a login, its row, which push.Publisher reads and       *)
(* invalidates, and the app and Firebase (external).  A row is read,       *)
(* changed in memory and written if its revision is still the one read.    *)
(* Installations share nothing but the uniqueness of tokens.               *)
(***************************************************************************)
EXTENDS Integers

CONSTANTS
  Handlers,    \* requests about the phone and deliveries to it that run at once
  MaxLogins,   \* bound: logins on the phone
  MaxTokens,   \* bound: registration tokens Firebase gives it
  MaxRevision  \* bound: revisions of its row

ASSUME InstallationsAssumption ==
  MaxLogins \in Nat /\ MaxTokens \in Nat /\ MaxRevision \in Nat

VARIABLES
  login,     \* the app's login, by its binding_id
  token,     \* the app's token: Firebase refuses the earlier ones
  sent,      \* registrations the app has sent; each may arrive late, and again
  removals,  \* logins whose removal it has sent
  row,       \* its row in installations
  handler,   \* what each request or delivery is doing
  ended      \* history: logins of the row that were removed or replaced, and the revision that did it

ivars == <<login, token, sent, removals, row, handler, ended>>

\* Bindings and tokens are numbered as they are made; 0 is none.
Logins == 1..MaxLogins
TokensGiven == 1..MaxTokens

\* The row before there is one has revision 0.
NoRow == [binding |-> 0, token |-> 0, enabled |-> FALSE, revoked |-> FALSE, revision |-> 0]
Exists(r) == r.revision > 0

Resting == [pc |-> "idle", copy |-> NoRow]

----------------------------------------------------------------------------
(* The app and Firebase *)

\* A registration names the earlier login it replaces, or none.
Ask(binding, t) ==
  \E p \in 0..(binding - 1) : sent' = sent \cup {[binding |-> binding, previous |-> p, token |-> t]}

\* A user logs in; the app that is opened for the first time gets a token.
LogIn ==
  /\ login < MaxLogins /\ MaxTokens > 0
  /\ login' = login + 1
  /\ token' = IF token = 0 THEN 1 ELSE token
  /\ Ask(login', token')
  /\ UNCHANGED <<removals, row, handler, ended>>

\* Firebase replaces the app's token.
Refresh ==
  /\ login > 0 /\ token < MaxTokens
  /\ token' = token + 1
  /\ Ask(login, token')
  /\ UNCHANGED <<login, removals, row, handler, ended>>

\* The app registers again, with what it now knows of earlier logins.
Repeat ==
  /\ login > 0
  /\ Ask(login, token)
  /\ UNCHANGED <<login, token, removals, row, handler, ended>>

LogOut ==
  /\ login > 0
  /\ removals' = removals \cup {login}
  /\ UNCHANGED <<login, token, sent, row, handler, ended>>

----------------------------------------------------------------------------
(* Register and Unregister *)

\* Mutant: a login that was removed may register again.
Renews_Revoked(r, m) == IF r.binding = m.binding THEN TRUE ELSE m.previous = r.binding
\* Register on the row that was found: its own login, unless that was removed or its
\* token was refused, or the login that replaces it.
Renews(r, m) ==
  IF r.binding = m.binding
    THEN r.enabled \/ (~r.revoked /\ r.token # m.token)
    ELSE m.previous = r.binding

Registered(r, m) ==
  [r EXCEPT !.binding = m.binding, !.token = m.token, !.enabled = TRUE, !.revoked = FALSE]

\* FindByID and the decision; what is refused changes nothing.
StartRegistration(h, m) ==
  /\ handler[h] = Resting
  /\ m \in sent
  /\ IF Exists(row) THEN Renews(row, m) ELSE m.previous = 0
  /\ handler' = [handler EXCEPT ![h] = [pc |-> "saving", copy |-> Registered(row, m)]]
  /\ UNCHANGED <<login, token, sent, removals, row, ended>>

StartRemoval(h, b) ==
  /\ handler[h] = Resting
  /\ b \in removals
  /\ Exists(row) /\ row.binding = b
  /\ handler' = [handler EXCEPT ![h] =
       [pc |-> "saving", copy |-> [row EXCEPT !.enabled = FALSE, !.revoked = TRUE]]]
  /\ UNCHANGED <<login, token, sent, removals, row, ended>>

\* Mutant: the row is written whatever its revision.
IsCurrent_Always(r) == TRUE
\* INSERT ... ON CONFLICT DO NOTHING, or UPDATE ... WHERE revision = ...
IsCurrent(r) == row.revision = r.revision

\* History: the login that a save of this copy replaces, or removes.
Ends(copy) ==
  {b \in {row.binding} : Exists(row) /\ copy.binding # b} \cup {b \in {copy.binding} : copy.revoked}

\* InstallationRepository.Save.
Save(h) ==
  LET copy == handler[h].copy IN
  /\ handler[h].pc = "saving"
  /\ IsCurrent(copy) /\ row.revision < MaxRevision
  /\ row' = [copy EXCEPT !.revision = row.revision + 1]
  /\ ended' = ended \cup {[binding |-> b, revision |-> row.revision + 1] : b \in Ends(copy)}
  /\ handler' = [handler EXCEPT ![h] = Resting]
  /\ UNCHANGED <<login, token, sent, removals>>

----------------------------------------------------------------------------
(* Delivery of a push *)

\* Mutant: rows that are disabled are found too.
IsTarget_Disabled(r) == Exists(r)
\* FindByUserID.
IsTarget(r) == Exists(r) /\ r.enabled

StartDelivery(h) ==
  /\ handler[h] = Resting
  /\ IsTarget(row)
  /\ handler' = [handler EXCEPT ![h] = [pc |-> "sending", copy |-> row]]
  /\ UNCHANGED <<login, token, sent, removals, row, ended>>

\* Mutant: every failed push invalidates the token.
IsInvalid_Always(t) == TRUE
\* Firebase calls a token unregistered that it has replaced.
IsInvalid(t) == t # token

\* ErrInvalidToken: Invalidate on the copy, which is saved.
PushRefused(h) ==
  /\ handler[h].pc = "sending"
  /\ IsInvalid(handler[h].copy.token)
  /\ handler' = [handler EXCEPT ![h] =
       [pc |-> "saving", copy |-> [handler[h].copy EXCEPT !.enabled = FALSE]]]
  /\ UNCHANGED <<login, token, sent, removals, row, ended>>

\* The handler is done: Firebase took the push or failed otherwise, the time of the
\* batch is up, the save meets another revision or another phone's token, or the
\* process died.
Done(h) ==
  /\ handler[h] # Resting
  /\ handler' = [handler EXCEPT ![h] = Resting]
  /\ UNCHANGED <<login, token, sent, removals, row, ended>>

InstallationsInit ==
  /\ login = 0 /\ token = 0
  /\ sent = {} /\ removals = {}
  /\ row = NoRow
  /\ handler = [h \in Handlers |-> Resting]
  /\ ended = {}

InstallationsNext ==
  \/ LogIn \/ Refresh \/ Repeat \/ LogOut
  \/ \E h \in Handlers :
       \/ \E m \in sent : StartRegistration(h, m)
       \/ \E b \in removals : StartRemoval(h, b)
       \/ StartDelivery(h) \/ PushRefused(h)
       \/ Save(h) \/ Done(h)

InstallationsSpec == InstallationsInit /\ [][InstallationsNext]_ivars

----------------------------------------------------------------------------
(* Properties *)

\* A phone is not bound again to a login that was removed, or that another one replaced,
\* although its registrations come late or twice, race the removal and are written over
\* one another; and what is still being sent for such a login is sent by deliveries that
\* had read the row before the login ended.  Those do send: nothing calls them back.
EndedStaysOut ==
  \A e \in ended :
    /\ row.enabled => row.binding # e.binding
    /\ \A h \in Handlers :
         handler[h].pc = "sending" /\ handler[h].copy.binding = e.binding
           => handler[h].copy.revision < e.revision

\* A delivery whose token was refused, however late its save, never silences a phone
\* that registered its current token meanwhile: that takes a removal of its own login.
CurrentStays ==
  [][row.enabled /\ row.token = token /\ ~row'.enabled
       => row'.binding = row.binding /\ row'.binding \in removals]_row
=============================================================================
