---------------------------- MODULE CommandPromise ----------------------------
(***************************************************************************)
(* What a reader of the command table may rely on, of every command that   *)
(* MicroMDM ever gave a UUID: its row is made once and waits for the       *)
(* answer; once it has one it does not wait again, and an acknowledgement  *)
(* or an error stays for good.  Any other answer may be forgotten, like a  *)
(* command that waits.                                                     *)
(***************************************************************************)
CONSTANT UUIDs

VARIABLE phase    \* of every command

Phases == {"new", "pending", "finished", "rejected", "forgotten"}

Init == phase = [u \in UUIDs |-> "new"]

Become(us, p) == phase' = [u \in UUIDs |-> IF u \in us THEN p ELSE phase[u]]

Record(u) == phase[u] = "new" /\ Become({u}, "pending")

Finish(u) == phase[u] = "pending" /\ Become({u}, "finished")

\* An answer that is neither an acknowledgement nor an error.
Reject(u) == phase[u] = "pending" /\ Become({u}, "rejected")

\* Rows are deleted, many at once; or no row is made of the command.
Forget(us) ==
    /\ \A u \in us : phase[u] \in {"new", "pending", "rejected"}
    /\ Become(us, "forgotten")

Next ==
    \/ \E u \in UUIDs : Record(u) \/ Finish(u) \/ Reject(u)
    \/ \E us \in SUBSET UUIDs : Forget(us)

Spec == Init /\ [][Next]_phase
=============================================================================
