---------------------------- MODULE EnrollmentMC -----------------------------
(* Small instances of Enrollment for TLC.                                  *)
EXTENDS Enrollment, TLC

WorkerSymmetry == Permutations(Workers)
=============================================================================
