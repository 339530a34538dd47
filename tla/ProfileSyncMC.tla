----------------------------- MODULE ProfileSyncMC -----------------------------
(* ProfileSync for TLC.                                                      *)
EXTENDS ProfileSync

AllRequests == {"post", "delete", "postShared", "deleteShared"}

=============================================================================
