----------------------- MODULE MCIdentityVerification -----------------------
(* The instance of IdentityVerification for TLC. *)
EXTENDS IdentityVerification
=============================================================================
