------------------------------- MODULE Categories -------------------------------
(***************************************************************************)
(* One category: category.Service, whose unit of work locks its row, and    *)
(* what joins it in a transaction that shares the row: a provider who        *)
(* registers (provider.Service) or a request to one of its providers        *)
(* (jobrequest.Service).  That two categories never have one name is the    *)
(* unique index's alone, and left out.                                      *)
(***************************************************************************)
EXTENDS Integers, Sequences

CONSTANTS
  Editors,     \* edits of the category that run at once
  Joiners,     \* registrations and requests, each of which joins it once
  Names,       \* names it may be given
  MaxVersion   \* bound: versions of it

ASSUME CategoriesAssumption == MaxVersion \in Nat /\ Names # {}

VARIABLES
  category,  \* its row in categories; version 0 before there is one
  trail,     \* its audit events: the state each began and ended with
  joined,    \* the providers and requests that were stored
  editing,   \* what each edit is doing
  joining    \* what each registration or request is doing

cvars == <<category, trail, joined, editing, joining>>

Row(name, enabled, version) == [name |-> name, enabled |-> enabled, version |-> version]
AnyName == CHOOSE n \in Names : TRUE
NoCategory == Row(AnyName, TRUE, 0)

\* An edit says what the category should be; what it leaves out is what its page
\* showed, which it may change only while the version is the page's.
NoEdit == [expected |-> 0, name |-> AnyName, enabled |-> TRUE, confirms |-> FALSE]
NotEditing == [pc |-> "idle", edit |-> NoEdit, next |-> NoCategory]

----------------------------------------------------------------------------
(* CreateCategory and EditCategory *)

CreateCategory(name) ==
  /\ category.version = 0 /\ MaxVersion > 0
  /\ category' = Row(name, TRUE, 1)
  /\ trail' = <<[expected |-> 0, from |-> TRUE, to |-> TRUE]>>
  /\ UNCHANGED <<joined, editing, joining>>

\* An operator opens the list or the impact of a change, and posts an edit later.
ReadCategory(e) ==
  /\ editing[e] = NotEditing /\ category.version > 0
  /\ \E name \in Names, enabled, confirms \in BOOLEAN :
       editing' = [editing EXCEPT ![e] =
         [NotEditing EXCEPT !.pc = "posted",
            !.edit = [expected |-> category.version, name |-> name,
                      enabled |-> enabled, confirms |-> confirms]]]
  /\ UNCHANGED <<category, trail, joined, joining>>

InEdit == \E e \in Editors : editing[e].pc = "saving"
InJoin == \E j \in Joiners : joining[j] = "inserting"

\* Mutant: the row is read without FOR UPDATE.
MayLock_Always == TRUE
\* FOR UPDATE waits for whoever holds or shares the row.
MayLock == ~InEdit /\ ~InJoin

\* Category.Edit on the row that was read; ongoing is what the impact said of orders.
IsRefused(edit, ongoing) ==
  \/ category.version # edit.expected
  \/ category.enabled /\ ~edit.enabled /\ ongoing /\ ~edit.confirms

\* An edit that is refused or changes nothing saves nothing.
LockCategory(e) ==
  LET edit == editing[e].edit
      next == Row(edit.name, edit.enabled, category.version + 1) IN
  /\ editing[e].pc = "posted" /\ MayLock
  /\ \E ongoing \in BOOLEAN :
       editing' = [editing EXCEPT ![e] =
         IF IsRefused(edit, ongoing) \/ (next.name = category.name /\ next.enabled = category.enabled)
           THEN NotEditing
           ELSE [@ EXCEPT !.pc = "saving", !.next = next]]
  /\ UNCHANGED <<category, trail, joined, joining>>

\* Row and audit event are committed together; the event carries the change of state.
CommitEdit(e) ==
  LET next == editing[e].next IN
  /\ editing[e].pc = "saving" /\ next.version <= MaxVersion
  /\ category' = next
  /\ trail' = Append(trail, [expected |-> editing[e].edit.expected,
                             from |-> category.enabled, to |-> next.enabled])
  /\ editing' = [editing EXCEPT ![e] = NotEditing]
  /\ UNCHANGED <<joined, joining>>

\* The name belongs to another category, a statement fails or the process dies.
AbandonEdit(e) ==
  /\ editing[e] # NotEditing
  /\ editing' = [editing EXCEPT ![e] = NotEditing]
  /\ UNCHANGED <<category, trail, joined, joining>>

----------------------------------------------------------------------------
(* RegisterProvider and the creation of a request *)

\* A registration looks at the category before its transaction, a request does not.
StartJoin(j, registers) ==
  /\ joining[j] = "idle" /\ category.version > 0
  /\ registers => category.enabled
  /\ joining' = [joining EXCEPT ![j] = "started"]
  /\ UNCHANGED <<category, trail, joined, editing>>

\* Mutant: the row is read without FOR SHARE.
MayShare_Always == TRUE
\* FOR SHARE waits for an edit that holds the row.
MayShare == ~InEdit

\* Mutant: the category is not looked at again.
IsEnabled_Always == TRUE
\* RequireEnabled.
IsEnabled == category.enabled

ShareCategory(j) ==
  /\ joining[j] = "started" /\ MayShare
  /\ joining' = [joining EXCEPT ![j] = IF IsEnabled THEN "inserting" ELSE "idle"]
  /\ UNCHANGED <<category, trail, joined, editing>>

CommitJoin(j) ==
  /\ joining[j] = "inserting"
  /\ joined' = joined \cup {j}
  /\ joining' = [joining EXCEPT ![j] = "done"]
  /\ UNCHANGED <<category, trail, editing>>

AbandonJoin(j) ==
  /\ joining[j] \in {"started", "inserting"}
  /\ joining' = [joining EXCEPT ![j] = "idle"]
  /\ UNCHANGED <<category, trail, joined, editing>>

CategoriesInit ==
  /\ category = NoCategory /\ trail = <<>> /\ joined = {}
  /\ editing = [e \in Editors |-> NotEditing]
  /\ joining = [j \in Joiners |-> "idle"]

CategoriesNext ==
  \/ \E name \in Names : CreateCategory(name)
  \/ \E e \in Editors : ReadCategory(e) \/ LockCategory(e) \/ CommitEdit(e) \/ AbandonEdit(e)
  \/ \E j \in Joiners :
       \/ \E registers \in BOOLEAN : StartJoin(j, registers)
       \/ ShareCategory(j) \/ CommitJoin(j) \/ AbandonJoin(j)

CategoriesSpec == CategoriesInit /\ [][CategoriesNext]_cvars

----------------------------------------------------------------------------
(* Properties *)

\* Read in order, the audit events lead to the state of the category, and each edit
\* was made knowing the one before it.
TrailTellsState ==
  /\ Len(trail) = category.version
  /\ trail # <<>> => trail[Len(trail)].to = category.enabled
  /\ \A k \in 2..Len(trail) : trail[k].expected = k - 1 /\ trail[k].from = trail[k - 1].to

\* However edits, registrations and requests interleave, no provider and no request is
\* stored while their category is disabled, and the audit trail tells its state.
NoneJoinsDisabled ==
  [][TrailTellsState' /\ (joined' # joined => category.enabled)]_<<category, trail, joined>>
=============================================================================
