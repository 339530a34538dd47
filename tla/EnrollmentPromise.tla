-------------------------- MODULE EnrollmentPromise --------------------------
(***************************************************************************)
(* What the administrator is promised about the enrolment of one device:   *)
(* between the moment the device enrols and the moment it counts as set    *)
(* up, every mandatory command has been queued for it, in this enrolment;  *)
(* and a device that counts as set up stays so until it enrols again or    *)
(* leaves.                                                                 *)
(***************************************************************************)
CONSTANT Mandatory    \* the commands every enrolling device has to get

VARIABLES
    phase,  \* where the device is
    got     \* the mandatory commands queued since it last enrolled or left

promiseVars == <<phase, got>>

Phases == {"out", "enrolled", "configured"}

Init == phase = "out" /\ got = {}

\* The device leaves, or is about to enrol again.
Leave == phase' = "out" /\ got' = {}

Enroll == phase = "out" /\ phase' = "enrolled" /\ UNCHANGED got

Queue(c) == got' = got \cup {c} /\ UNCHANGED phase

Configure ==
    /\ phase = "enrolled"
    /\ Mandatory \subseteq got
    /\ phase' = "configured"
    /\ UNCHANGED got

Next ==
    \/ Leave
    \/ Enroll
    \/ \E c \in Mandatory : Queue(c)
    \/ Configure

Spec == Init /\ [][Next]_promiseVars
=============================================================================
