--------------------------------- MODULE Files ---------------------------------
(***************************************************************************)
(* Uploaded files: file.Service, which signs an address for the app to put  *)
(* the object at, looks at the object when the app confirms, and saves the  *)
(* row; the claims that attach evidence; the storage, and the app that may   *)
(* put again while the address is valid (external).                         *)
(***************************************************************************)
EXTENDS Integers

CONSTANTS
  FileIds,     \* files that can be asked for
  Uploads,     \* confirmations and claims that run at once
  Contents,    \* what an app may put, of the declared type and size
  Acceptable,  \* the contents that decode as what they are declared to be
  Purposes,    \* of which "evidence" and "recording" are looked into
  NoContent    \* no object, or nothing was looked into

ASSUME FilesAssumption == Acceptable \subseteq Contents /\ NoContent \notin Contents

VARIABLES
  file,      \* the rows of files, with what the confirmation found in the object
  object,    \* the storage's objects
  evidence,  \* claim_images
  upload     \* what each confirmation or claim is doing

fvars == <<file, object, evidence, upload>>

\* A row that is absent has no purpose yet.
Absent == [status |-> "absent", purpose |-> "none", found |-> NoContent]
Unused == [pc |-> "idle", file |-> NoContent, found |-> NoContent]

IsEvidence(f) == file[f].purpose = "evidence"
\* The purposes whose objects are read and decoded, and not only compared in size.
IsInspected(f) == file[f].purpose \in {"evidence", "recording"}

----------------------------------------------------------------------------
(* The app and the storage *)

\* RequestUpload: signs the address and saves the row; the app has the address after it.
RequestUpload(f, purpose) ==
  /\ file[f] = Absent
  /\ file' = [file EXCEPT ![f] = [Absent EXCEPT !.status = "pending", !.purpose = purpose]]
  /\ UNCHANGED <<object, evidence, upload>>

\* Mutant: evidence is signed like any other file.
IsCreateOnly_Never(f) == FALSE
\* If-None-Match is among the signed headers of an evidence's address.
IsCreateOnly(f) == IsEvidence(f)

\* The app puts an object, again and late if it likes.
PutObject(f, content) ==
  /\ file[f] # Absent
  /\ IsCreateOnly(f) => object[f] = NoContent
  /\ object' = [object EXCEPT ![f] = content]
  /\ UNCHANGED <<file, evidence, upload>>

----------------------------------------------------------------------------
(* ConfirmUpload *)

\* The row is found, and the object by its type and size.
StartConfirm(u, f) ==
  /\ upload[u] = Unused
  /\ file[f] # Absent /\ object[f] # NoContent
  /\ upload' = [upload EXCEPT ![u] =
       [Unused EXCEPT !.pc = IF IsInspected(f) THEN "inspecting" ELSE "saving", !.file = f]]
  /\ UNCHANGED <<file, object, evidence>>

\* Mutant: an image whose size is right is taken.
IsAcceptable_Always(content) == TRUE
\* The decoder of images, or the parser of audio or video and its policy.
IsAcceptable(content) == content \in Acceptable

\* ReadObject: a second look at the object, which may be another one by now.
InspectObject(u) ==
  LET content == object[upload[u].file] IN
  /\ upload[u].pc = "inspecting"
  /\ upload' = [upload EXCEPT ![u] =
       IF IsAcceptable(content) THEN [@ EXCEPT !.pc = "saving", !.found = content] ELSE Unused]
  /\ UNCHANGED <<file, object, evidence>>

\* Save: the row, with the metadata of a recording, replaces what was there.
SaveConfirmed(u) ==
  /\ upload[u].pc = "saving"
  /\ file' = [file EXCEPT ![upload[u].file].status = "confirmed",
                          ![upload[u].file].found = upload[u].found]
  /\ upload' = [upload EXCEPT ![u] = Unused]
  /\ UNCHANGED <<object, evidence>>

----------------------------------------------------------------------------
(* A claim with the file *)

\* Mutant: a claim may name a file that was never confirmed.
IsAvailable_Requested(f) == IsEvidence(f)
\* isAvailableImageForPolicy.
IsAvailable(f) == file[f].status = "confirmed" /\ IsEvidence(f)

\* ValidateClaimEvidenceImages; the claim is inserted later.
ValidateEvidence(u, f) ==
  /\ upload[u] = Unused /\ IsAvailable(f)
  /\ upload' = [upload EXCEPT ![u] = [Unused EXCEPT !.pc = "claiming", !.file = f]]
  /\ UNCHANGED <<file, object, evidence>>

AttachEvidence(u) ==
  /\ upload[u].pc = "claiming"
  /\ evidence' = evidence \cup {upload[u].file}
  /\ upload' = [upload EXCEPT ![u] = Unused]
  /\ UNCHANGED <<file, object>>

\* A check or the storage fails, the claim is refused, or the process dies.
AbandonUpload(u) ==
  /\ upload[u] # Unused
  /\ upload' = [upload EXCEPT ![u] = Unused]
  /\ UNCHANGED <<file, object, evidence>>

FilesInit ==
  /\ file = [f \in FileIds |-> Absent]
  /\ object = [f \in FileIds |-> NoContent]
  /\ evidence = {}
  /\ upload = [u \in Uploads |-> Unused]

FilesNext ==
  \/ \E f \in FileIds :
       \/ \E purpose \in Purposes : RequestUpload(f, purpose)
       \/ \E content \in Contents : PutObject(f, content)
       \/ \E u \in Uploads : StartConfirm(u, f) \/ ValidateEvidence(u, f)
  \/ \E u \in Uploads :
       InspectObject(u) \/ SaveConfirmed(u) \/ AttachEvidence(u) \/ AbandonUpload(u)

FilesSpec == FilesInit /\ [][FilesNext]_fvars

----------------------------------------------------------------------------
(* Properties *)

\* The evidence of a claim is the very object that was looked into and accepted,
\* whatever the app puts later or meanwhile; a recording's row tells of an object that
\* was accepted, though another one may have replaced it.
EvidenceStands ==
  /\ \A f \in evidence : object[f] = file[f].found /\ object[f] \in Acceptable
  /\ \A f \in FileIds :
       file[f].purpose = "recording" /\ file[f].status = "confirmed" => file[f].found \in Acceptable
=============================================================================
