----------------------- MODULE InstallApplicationsMC -------------------------
(* Small instances of InstallApplications for TLC.                         *)
EXTENDS InstallApplications
=============================================================================
