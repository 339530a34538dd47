------------------------- MODULE InstallApplications --------------------------
(***************************************************************************)
(* The packages that are posted for all devices: sent to the devices that  *)
(* are there, and saved for those that enrol later, whose initial tasks    *)
(* read the table.  A request lists the devices first and saves second; a  *)
(* device may enrol, and a run of its tasks read the table, at any point   *)
(* of it, and a device may enrol again while a run for it is going.        *)
(*                                                                         *)
(* A request that names devices instead of "*" does nothing: its save asks *)
(* the table of devices for columns of another one, and what would push    *)
(* asks the commands for a column they do not have; both return the error. *)
(***************************************************************************)
EXTENDS Naturals, Sequences, FiniteSets, SequencesExt

CONSTANTS
    Devices,      \* the devices there may be
    Packages,     \* by manifest URL
    Callers,      \* goroutines that serve the API
    Workers,      \* goroutines that run initial tasks
    FaultKinds,   \* the faults that may happen
    MaxFaults     \* bound: how many of them

ASSUME InstallApplicationsAssumption ==
    /\ IsFiniteSet(Packages)
    /\ FaultKinds \subseteq {"failed", "refused", "database", "crash"}
    /\ MaxFaults \in Nat

\* A device: not known yet; enrolled, and not set up; or set up.
Phases == {"out", "enrolled", "done"}

\* Ghost: when a run of the initial tasks has read the table: before the device enrolled
\* last; between list and save of a request whose list the device is not in; or soundly.
Readings == {"sound", "between", "before"}

\* A run of the initial tasks: for no device, yet to read the table, or with the packages
\* it has still to send.
Runs == [pc : {"none"}] \cup
        [pc : {"load"}, device : Devices] \cup
        [pc : {"push"}, device : Devices, todo : SUBSET Packages, read : Readings]

NoRun == [pc |-> "none"]

\* A request: its next statement, the packages left of it, those that are not only for
\* devices that enrol, the devices listed, and those left for the first package.
\* Ghost: owed, the packages it will have brought to every device if nothing fails.
Calls ==
    [pc : {"none", "save", "push"},
     apps : Seq(Packages),
     now : SUBSET Packages,
     devices : SUBSET Devices,
     left : SUBSET Devices,
     owed : SUBSET Packages]

NoCall == [pc |-> "none", apps |-> <<>>, now |-> {}, devices |-> {}, left |-> {}, owed |-> {}]

VARIABLES
    saved,    \* the table shared_install_applications
    phase,    \* the devices
    run,      \* the runs of the initial tasks
    got,      \* the packages MicroMDM queued for a device since it enrolled
    call,     \* the requests
    faults,   \* how many faults have happened
    refused,  \* ghost: the packages MicroMDM refused for a device since it enrolled
    due,      \* ghost: what was saved when a device enrolled
    by,       \* ghost: the reading of the run that set a device up
    posted    \* ghost: the packages some request was owing and has been through with

device == <<phase, run, due, by>>
queue  == <<got, refused>>
vars   == <<saved, device, queue, call, faults, posted>>

-----------------------------------------------------------------------------
Init ==
    /\ saved = {}
    /\ phase \in [Devices -> {"out", "done"}]
    /\ run = [w \in Workers |-> NoRun]
    /\ got = [d \in Devices |-> {}]
    /\ call = [c \in Callers |-> NoCall]
    /\ faults = 0
    /\ refused = [d \in Devices |-> {}]
    /\ due = [d \in Devices |-> {}]
    /\ by = [d \in Devices |-> "sound"]
    /\ posted = {}

Fault(kind) ==
    /\ kind \in FaultKinds
    /\ faults < MaxFaults
    /\ faults' = faults + 1

Known == {d \in Devices : phase[d] # "out"}

\* Whether a package is in the queue already is asked, but the question has an error for
\* an answer, which is not read.  An answer of MicroMDM that is an error goes for a command
\* that was sent.
Sent(d, p) ==
    \/ got' = [got EXCEPT ![d] = @ \cup {p}] /\ UNCHANGED <<refused, faults>>
    \/ refused' = [refused EXCEPT ![d] = @ \cup {p}] /\ Fault("refused") /\ UNCHANGED got

\* A send that failed may have been carried out nevertheless.
NotSent(d, p) ==
    /\ Fault("failed")
    /\ \/ got' = [got EXCEPT ![d] = @ \cup {p}]
       \/ UNCHANGED got
    /\ UNCHANGED refused

-----------------------------------------------------------------------------
(* The initial tasks of a device, as far as packages go.                    *)

HasRead(w) == run[w].pc = "push"

Going(w, r) == run' = [run EXCEPT ![w] = r]

\* ResetDevice, of a device that is new, comes back or checks out.  It asks nothing of the
\* runs that are going for the device, which go on with what they have read.
Enroll(d) ==
    /\ phase' = [phase EXCEPT ![d] = "enrolled"]
    /\ run' = [w \in Workers |-> IF HasRead(w) /\ run[w].device = d
                                 THEN [run[w] EXCEPT !.read = "before"] ELSE run[w]]
    /\ got' = [got EXCEPT ![d] = {}]
    /\ refused' = [refused EXCEPT ![d] = {}]
    /\ due' = [due EXCEPT ![d] = saved]
    /\ UNCHANGED <<saved, call, faults, by, posted>>

\* Any message of a device that is not set up starts a run, however many are going.
RunInitialTasks(w) ==
    /\ run[w].pc = "none"
    /\ \E d \in Devices : phase[d] = "enrolled" /\ Going(w, [pc |-> "load", device |-> d])
    /\ UNCHANGED <<saved, phase, queue, call, faults, due, by, posted>>

\* The rows of packages for one device, read afterwards, do not exist.  An error gives the
\* run up.
LoadPackages(w) ==
    /\ run[w].pc = "load"
    /\ LET d    == run[w].device
           read == IF \E c \in Callers : call[c].pc = "save" /\ d \notin call[c].devices
                     THEN "between" ELSE "sound"
       IN \/ /\ Going(w, [pc |-> "push", device |-> d, todo |-> saved, read |-> read])
             /\ UNCHANGED faults
          \/ Going(w, NoRun) /\ Fault("database")
    /\ UNCHANGED <<saved, phase, queue, call, due, by, posted>>

\* Mutant: an error is passed over, as the one of a package for one device is.
PushPackageGoesOn(w) ==
    /\ HasRead(w)
    /\ \E p \in run[w].todo :
         /\ Going(w, [run[w] EXCEPT !.todo = @ \ {p}])
         /\ Sent(run[w].device, p) \/ NotSent(run[w].device, p)
    /\ UNCHANGED <<saved, phase, call, due, by, posted>>

PushPackage(w) ==
    /\ HasRead(w)
    /\ \E p \in run[w].todo :
         \/ Sent(run[w].device, p) /\ Going(w, [run[w] EXCEPT !.todo = @ \ {p}])
         \/ NotSent(run[w].device, p) /\ Going(w, NoRun)
    /\ UNCHANGED <<saved, phase, call, due, by, posted>>

\* The rest of the tasks, which may fail.  The device counts as set up from now on, even
\* when it has enrolled again since the run began.
FinishTasks(w) ==
    /\ HasRead(w) /\ run[w].todo = {}
    /\ Going(w, NoRun)
    /\ LET d == run[w].device
       IN \/ /\ phase' = [phase EXCEPT ![d] = "done"]
             /\ by' = [by EXCEPT ![d] = IF phase[d] = "done" /\ run[w].read # "sound"
                                         THEN @ ELSE run[w].read]
             /\ UNCHANGED faults
          \/ (Fault("failed") \/ Fault("database")) /\ UNCHANGED <<phase, by>>
    /\ UNCHANGED <<saved, queue, call, due, posted>>

-----------------------------------------------------------------------------
(* PostInstallApplicationHandler, for all devices.                          *)

Step(c, r) == call' = [call EXCEPT ![c] = r]

\* A list that could not be read is an empty one; the request goes on.
PostInstallApplication(c) ==
    /\ call[c].pc = "none"
    /\ \E ps \in (SUBSET Packages) \ {{}} : \E apps \in SetToSeqs(ps), now \in SUBSET ps :
         LET listing(ds, owed) == [pc |-> "save", apps |-> apps, now |-> now,
                                   devices |-> ds, left |-> ds, owed |-> owed]
         IN \/ Step(c, listing(Known, now)) /\ UNCHANGED faults
            \/ Step(c, listing({}, {})) /\ Fault("database")
    /\ UNCHANGED <<saved, device, queue, posted>>

\* One variable serves all packages of a request.  After the first it has the id of a row,
\* so that the next is not looked up without it, not found, and not inserted under it:
\* the error is logged, and ends the saving.
SaveSharedInstallApplications(c) ==
    /\ call[c].pc = "save"
    /\ \/ saved' = saved \cup {Head(call[c].apps)} /\ UNCHANGED faults
       \/ UNCHANGED saved /\ Fault("database")
    /\ Step(c, [call[c] EXCEPT !.pc = "push", !.owed = @ \cap saved'])
    /\ UNCHANGED <<device, queue, posted>>

\* Mutant: a device whose initial tasks are not through is left to them.
PushToDone(c) ==
    /\ call[c].pc = "push"
    /\ call[c].apps # <<>> /\ Head(call[c].apps) \in call[c].now
    /\ \E d \in call[c].left :
         LET p == Head(call[c].apps)
         IN \/ /\ IF phase[d] = "done" THEN Sent(d, p) ELSE UNCHANGED <<queue, faults>>
               /\ Step(c, [call[c] EXCEPT !.left = @ \ {d}])
            \/ /\ NotSent(d, p)
               /\ Step(c, [call[c] EXCEPT !.left = {}, !.owed = @ \ {p}])
    /\ UNCHANGED <<saved, device, posted>>

\* The first send that fails ends the loop over the devices.
PushSharedInstallApplication(c) ==
    /\ call[c].pc = "push"
    /\ call[c].apps # <<>> /\ Head(call[c].apps) \in call[c].now
    /\ \E d \in call[c].left :
         LET p == Head(call[c].apps)
         IN \/ Sent(d, p) /\ Step(c, [call[c] EXCEPT !.left = @ \ {d}])
            \/ NotSent(d, p) /\ Step(c, [call[c] EXCEPT !.left = {}, !.owed = @ \ {p}])
    /\ UNCHANGED <<saved, device, posted>>

\* Mutant: the devices are listed again for every package.
NextPackageListsAgain(c) ==
    /\ call[c].pc = "push"
    /\ call[c].apps # <<>>
    /\ call[c].left = {} \/ Head(call[c].apps) \notin call[c].now
    /\ posted' = posted \cup ({Head(call[c].apps)} \cap call[c].owed)
    /\ Step(c, [call[c] EXCEPT !.apps = Tail(@), !.left = Known])
    /\ UNCHANGED <<saved, device, queue, faults>>

NextPackage(c) ==
    /\ call[c].pc = "push"
    /\ call[c].apps # <<>>
    /\ call[c].left = {} \/ Head(call[c].apps) \notin call[c].now
    /\ posted' = posted \cup ({Head(call[c].apps)} \cap call[c].owed)
    /\ Step(c, [call[c] EXCEPT !.apps = Tail(@), !.left = call[c].devices])
    /\ UNCHANGED <<saved, device, queue, faults>>

Return(c) ==
    /\ call[c].pc = "push" /\ call[c].apps = <<>>
    /\ Step(c, NoCall)
    /\ UNCHANGED <<saved, device, queue, faults, posted>>

\* Requests and initial tasks are gone.
Crash ==
    /\ Fault("crash")
    /\ call' = [c \in Callers |-> NoCall]
    /\ run' = [w \in Workers |-> NoRun]
    /\ UNCHANGED <<saved, phase, queue, due, by, posted>>

-----------------------------------------------------------------------------
Next ==
    \/ \E d \in Devices : Enroll(d)
    \/ \E w \in Workers :
         RunInitialTasks(w) \/ LoadPackages(w) \/ PushPackage(w) \/ FinishTasks(w)
    \/ \E c \in Callers :
         \/ PostInstallApplication(c)
         \/ SaveSharedInstallApplications(c)
         \/ PushSharedInstallApplication(c)
         \/ NextPackage(c)
         \/ Return(c)
    \/ Crash

Spec == Init /\ [][Next]_vars

-----------------------------------------------------------------------------
(* Properties.                                                              *)

TypeOK ==
    /\ saved \subseteq Packages
    /\ phase \in [Devices -> Phases]
    /\ run \in [Workers -> Runs]
    /\ got \in [Devices -> SUBSET Packages]
    /\ call \in [Callers -> Calls]
    /\ \A c \in Callers : call[c].left \subseteq call[c].devices
    /\ faults \in 0..MaxFaults
    /\ refused \in [Devices -> SUBSET Packages]
    /\ due \in [Devices -> SUBSET Packages]
    /\ by \in [Devices -> Readings]
    /\ posted \subseteq Packages

\* What was posted for a device has been queued for it, or refused by MicroMDM, which
\* goes unnoticed, since it enrolled.
Has(d, p) == p \in got[d] \cup refused[d]

\* A device that counts as set up has been sent, in this enrolment, every package that was
\* saved when it enrolled, and has got them but for those MicroMDM refused; whatever sends
\* or statements fail, whatever is posted and however many runs are going meanwhile.  Only
\* a run that had read the table before the device enrolled can set it up without.
InstalledAtEnrollment ==
    \A d \in Devices :
      phase[d] = "done" /\ by[d] # "before" => \A p \in due[d] : Has(d, p)

\* A package that was posted for all devices, and saved, and no send of which failed, has
\* been sent to every device that counts as set up, whenever it enrolled, and however
\* often: but to one that a run set up which had read the table before the device
\* enrolled, or after a request had listed the devices without it and before it saved.
PostReaches ==
    \A p \in posted : \A d \in Devices :
      phase[d] = "done" /\ by[d] = "sound" => Has(d, p)
=============================================================================
