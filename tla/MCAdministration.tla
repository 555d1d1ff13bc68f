---------------------------- MODULE MCAdministration ----------------------------
(***************************************************************************)
(* Claims, a review and its moderation, a category and what joins it, and    *)
(* uploaded files.  They share no state, so each is explored with the others *)
(* at rest.                                                                  *)
(***************************************************************************)
EXTENDS Claims, ReviewModeration, Categories, Files, TLC

all == <<vars, rvars, cvars, fvars>>

Symmetric == Permutations(Calls) \cup Permutations(Keys) \cup Permutations(Operations)

MCInit == Init /\ ModerationInit /\ CategoriesInit /\ FilesInit

MCNext ==
  \/ ModerationInit /\ CategoriesInit /\ FilesInit /\ Next /\ UNCHANGED <<rvars, cvars, fvars>>
  \/ Init /\ CategoriesInit /\ FilesInit /\ ModerationNext /\ UNCHANGED <<vars, cvars, fvars>>
  \/ Init /\ ModerationInit /\ FilesInit /\ CategoriesNext /\ UNCHANGED <<vars, rvars, fvars>>
  \/ Init /\ ModerationInit /\ CategoriesInit /\ FilesNext /\ UNCHANGED <<vars, rvars, cvars>>

MCSpec == MCInit /\ [][MCNext]_all
=============================================================================
