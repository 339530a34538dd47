--------------------------- MODULE CommandQueueMC ----------------------------
(* Small instances of CommandQueue for TLC.                                *)
EXTENDS CommandQueue
=============================================================================
