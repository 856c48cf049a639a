---------------------------- MODULE MCAdmission ----------------------------
(* Small instances of Admission for TLC.                                   *)
EXTENDS Admission, TLC

CONSTANTS sk, none

MCRpm == sk :> 1
MCQuota == "free" :> 1 @@ "enterprise" :> none
Symmetry == Permutations(Handshakes)
=============================================================================
