------------------------ MODULE EnrollmentProfileMC --------------------------
(* Small instances of EnrollmentProfile for TLC.                           *)
EXTENDS EnrollmentProfile
=============================================================================
