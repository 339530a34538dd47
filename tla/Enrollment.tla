------------------------------ MODULE Enrollment ------------------------------
(***************************************************************************)
(* What mdmdirector does with the webhook events of ONE device, from the   *)
(* moment it authenticates until its initial tasks are done.               *)
(*                                                                         *)
(* Every webhook request is a goroutine (a worker).  A worker takes one    *)
(* step per database statement that reads or writes the device's flags,    *)
(* and one step per command it posts to MicroMDM, so that everything that  *)
(* can happen between two of them can happen here: another event of the    *)
(* same device, the start-up fetch of the device list, the death of the    *)
(* process.                                                                *)
(*                                                                         *)
(* What the handler does after the enrolment logic (acknowledgement of a   *)
(* command, information requests, lock and erase, profile verification)    *)
(* touches none of these variables and is left to other modules.           *)
(***************************************************************************)
EXTENDS Naturals, FiniteSets

CONSTANTS
    Topics,               \* bound: the kinds of event that arrive
    Workers,              \* goroutines that serve the webhook
    Profiles,             \* payload identifiers of profiles
    SharedProfiles,       \* those with an installed row in shared_profiles
    Apps,                 \* rows of shared_install_applications
    MaxBuild,             \* build versions are 1..MaxBuild, 0 is ""
    ClearDeviceOnEnroll,  \* -clear-device-on-enroll
    PushNewBuild,         \* -push-new-build
    FetchAtStart,         \* is FetchDevicesFromMDM part of the run?
    FaultKinds,           \* the faults that may happen
    MaxFaults             \* bound: how many of them

ASSUME EnrollmentAssumption ==
    /\ SharedProfiles \subseteq Profiles
    /\ Topics \subseteq {"Authenticate", "TokenUpdate", "CheckOut", "Acknowledge", "QueryResponses"}
    /\ MaxBuild \in Nat
    /\ MaxFaults \in Nat
    /\ {ClearDeviceOnEnroll, PushNewBuild, FetchAtStart} \subseteq BOOLEAN
    /\ FaultKinds \subseteq {"failed", "refused", "database", "crash"}

-----------------------------------------------------------------------------
(* Commands, events, rows and workers.                                     *)

InstallDeviceProfile(p) == <<"InstallProfile", "device", p>>
InstallSharedProfile(p) == <<"InstallProfile", "shared", p>>
InstallApplication(a)   == <<"InstallApplication", a>>
ProfileList             == <<"ProfileList">>
DeviceConfigured        == <<"DeviceConfigured">>

Commands ==
    {InstallDeviceProfile(p) : p \in Profiles}
      \cup {InstallSharedProfile(p) : p \in SharedProfiles}
      \cup {InstallApplication(a) : a \in Apps}
      \cup {ProfileList, DeviceConfigured}

\* The commands whose failure aborts the initial tasks.
Mandatory == {InstallApplication(a) : a \in Apps} \cup {ProfileList, DeviceConfigured}

Builds == 0..MaxBuild

\* The webhook events, with the two fields of their payload that matter here.
\* Only Authenticate and the answer to DeviceInformation carry a build.
Events ==
    [topic : {"Authenticate", "QueryResponses"}, build : Builds \ {0}, awaiting : {FALSE}]
      \cup [topic : {"QueryResponses"}, build : Builds \ {0}, awaiting : {TRUE}]
      \cup [topic : {"TokenUpdate"}, build : {0}, awaiting : BOOLEAN]
      \cup [topic : {"CheckOut", "Acknowledge"}, build : {0}, awaiting : {FALSE}]

NoEvent == [topic |-> "Acknowledge", build |-> 0, awaiting |-> FALSE]

\* The row of the device in table devices; all FALSE while it does not exist.
NoRow == [exists |-> FALSE, auth |-> FALSE, token |-> FALSE, tasksRun |-> FALSE, build |-> 0]

Rows == [exists : BOOLEAN, auth : BOOLEAN, token : BOOLEAN, tasksRun : BOOLEAN, build : Builds]

\* Rows an earlier enrolment may have left: set up, or reset by a CheckOut.
KnownRows ==
    {[exists |-> TRUE, auth |-> done, token |-> done, tasksRun |-> done, build |-> build] :
       done \in BOOLEAN, build \in Builds}

ProfileRow == {"absent", "installed", "removed"}

ProgramCounters ==
    {"idle", "clear", "reset", "token", "reread", "find", "write", "tasks", "load",
     "device", "shared", "apps", "configured", "save", "build"}

\* What RunInitialTasks or InstallAllProfiles was called for: inside
\* UpdateDevice, after it, or because of a new build.
Jobs == {"none", "inner", "outer", "repush"}

Snapshots == [found : BOOLEAN, token : BOOLEAN, tasksRun : BOOLEAN]

NoSnapshot == [found |-> FALSE, token |-> FALSE, tasksRun |-> FALSE]

WorkerStates ==
    [pc : ProgramCounters,
     event : Events \cup {NoEvent},
     nested : BOOLEAN,            \* in the UpdateDevice for the QueryResponses
     second : BOOLEAN,            \* in UpdateDevice's lookup by serial number
     snap : Snapshots,            \* the row as UpdateDevice last read it
     force : BOOLEAN,             \* SetTokenUpdate saw the tasks not run
     job : Jobs,
     left : SUBSET (Profiles \cup Apps),  \* still to send in this stage
     skip : SUBSET Profiles,              \* InstallAllProfiles' skipProfiles
     upgraded : BOOLEAN]          \* ghost: it stored a newer build, no push yet

IdleWorker ==
    [pc |-> "idle", event |-> NoEvent, nested |-> FALSE, second |-> FALSE,
     snap |-> NoSnapshot, force |-> FALSE, job |-> "none", left |-> {},
     skip |-> {}, upgraded |-> FALSE]

VARIABLES
    row,             \* the device in table devices
    deviceProfiles,  \* its rows in table device_profiles
    worker,          \* the goroutines that serve the webhook
    fetched,         \* FetchDevicesFromMDM is over
    faults,          \* how many faults have happened
    tried,           \* ghost: commands posted in this enrolment
    queued,          \* ghost: commands MicroMDM queued in this enrolment
    enrolled,        \* ghost: an Authenticate has reset the row, no CheckOut since
    unread           \* ghost: in this enrolment the device's profiles could not be read

vars == <<row, deviceProfiles, worker, fetched, faults, tried, queued, enrolled, unread>>

-----------------------------------------------------------------------------
Init ==
    /\ \/ row = NoRow /\ deviceProfiles = [p \in Profiles |-> "absent"]
       \/ row \in KnownRows /\ deviceProfiles \in [Profiles -> ProfileRow]
    /\ worker = [w \in Workers |-> IdleWorker]
    /\ fetched = ~FetchAtStart
    /\ faults = 0
    /\ tried = {}
    /\ queued = {}
    /\ enrolled = FALSE
    /\ unread = FALSE

\* The fault that a step needs happens.
Fault(kind) ==
    /\ kind \in FaultKinds /\ faults < MaxFaults
    /\ faults' = faults + 1

Goto(w, s) == worker' = [worker EXCEPT ![w] = s]

Busy(w, pc) == worker[w].pc = pc

\* SendCommand: err is the outcome its caller sees.  The HTTP status of the
\* answer is not looked at, so an error answer of MicroMDM is a success; and
\* when no answer comes back, the command may have been queued or not.
SendCommand(c, err) ==
    /\ tried' = tried \cup {c}
    /\ \/ /\ ~err
          /\ queued' = queued \cup {c}
          /\ UNCHANGED faults
       \/ /\ ~err
          /\ Fault("refused")
          /\ UNCHANGED queued
       \/ /\ err
          /\ Fault("failed")
          /\ queued' \in {queued, queued \cup {c}}

ClearedProfiles ==
    IF ClearDeviceOnEnroll THEN [p \in Profiles |-> "absent"] ELSE deviceProfiles

-----------------------------------------------------------------------------
(* Where a worker goes when a call returns.                                *)

\* The rest of the handler: the answer to DeviceInformation is a second
\* UpdateDevice, every other event ends.
Respond(s) ==
    IF s.event.topic = "QueryResponses" /\ ~s.nested
      THEN [s EXCEPT !.pc = "find", !.nested = TRUE, !.second = FALSE, !.job = "none",
                     !.left = {}, !.skip = {}]
      ELSE IdleWorker

\* UpdateDevice has returned the row it read.
AfterUpdate(s) ==
    IF s.nested THEN IdleWorker
    ELSE IF s.force \/ (~s.snap.tasksRun /\ s.snap.token)
      THEN [s EXCEPT !.pc = "tasks", !.job = "outer", !.left = {}, !.skip = {}]
    ELSE IF PushNewBuild
      THEN [s EXCEPT !.pc = "build", !.job = "none", !.left = {}, !.skip = {}]
    ELSE Respond(s)

\* RunInitialTasks or InstallAllProfiles has returned, with or without error:
\* its callers log the error and go on.
AfterJob(s) ==
    CASE s.job = "inner"  -> AfterUpdate(s)
      [] s.job = "repush" -> Respond(s)
      [] OTHER            -> IdleWorker

-----------------------------------------------------------------------------
(* The webhook handler.                                                    *)

EntryPoint(topic) ==
    CASE topic \in {"Authenticate", "CheckOut"} -> "clear"
      [] topic = "TokenUpdate" -> "token"
      [] OTHER -> "find"

\* A webhook request arrives.  Authenticate and CheckOut end the enrolment there
\* was, and with it what was sent in it.
WebhookHandler(w, e) ==
    /\ Busy(w, "idle")
    /\ e.topic \in Topics
    /\ Goto(w, [IdleWorker EXCEPT !.pc = EntryPoint(e.topic), !.event = e])
    /\ IF e.topic \in {"Authenticate", "CheckOut"}
         THEN /\ enrolled' = FALSE
              /\ tried' = {}
              /\ queued' = {}
              /\ unread' = FALSE
         ELSE UNCHANGED <<enrolled, tried, queued, unread>>
    /\ UNCHANGED <<row, deviceProfiles, fetched, faults>>

\* ResetDevice, first half.
ClearCommands(w) ==
    /\ Busy(w, "clear")
    /\ deviceProfiles' = ClearedProfiles
    /\ Goto(w, [worker[w] EXCEPT !.pc = "reset"])
    /\ UNCHANGED <<row, fetched, faults, tried, queued, enrolled, unread>>

\* Mutant: initial_tasks_run survives the reset.
ResetDeviceKeepsTasks(w) ==
    /\ Busy(w, "reset")
    /\ row' = [row EXCEPT !.auth = FALSE, !.token = FALSE]
    /\ enrolled' = (worker[w].event.topic = "Authenticate")
    /\ Goto(w, [worker[w] EXCEPT !.pc = "find"])
    /\ UNCHANGED <<deviceProfiles, fetched, faults, tried, queued, unread>>

\* ResetDevice, second half: an UPDATE of no row when there is none.  An
\* Authenticate thereby begins an enrolment.
ResetDevice(w) ==
    /\ Busy(w, "reset")
    /\ row' = [row EXCEPT !.auth = FALSE, !.token = FALSE, !.tasksRun = FALSE]
    /\ enrolled' = (worker[w].event.topic = "Authenticate")
    /\ Goto(w, [worker[w] EXCEPT !.pc = "find"])
    /\ UNCHANGED <<deviceProfiles, fetched, faults, tried, queued, unread>>

SetTokenUpdate(w) ==
    /\ Busy(w, "token")
    /\ row' = [row EXCEPT !.auth = row.exists, !.token = row.exists]
    /\ Goto(w, [worker[w] EXCEPT !.pc = "reread"])
    /\ UNCHANGED <<deviceProfiles, fetched, faults, tried, queued, enrolled, unread>>

\* SetTokenUpdate's GetDevice; without a row its caller gets the payload
\* back, whose InitialTasksRun is false.
RereadDevice(w) ==
    /\ Busy(w, "reread")
    /\ Goto(w, [worker[w] EXCEPT !.pc = "find", !.force = ~row.tasksRun])
    /\ UNCHANGED <<row, deviceProfiles, fetched, faults, tried, queued, enrolled, unread>>

-----------------------------------------------------------------------------
(* UpdateDevice.                                                           *)

\* The payload UpdateDevice is called with: the answer to DeviceInformation
\* is empty outside its QueryResponses.
Payload(s) ==
    IF s.event.topic = "QueryResponses" /\ ~s.nested THEN NoEvent ELSE s.event

HasSerial(s) == Payload(s).topic \in {"Authenticate", "QueryResponses"}

\* A payload with a serial number is looked up by it too; then UpdateDevice may run
\* the initial tasks itself.
AfterWrite(s) ==
    IF HasSerial(s) /\ ~s.second THEN [s EXCEPT !.pc = "find", !.second = TRUE]
    ELSE IF Payload(s).awaiting THEN [s EXCEPT !.pc = "tasks", !.job = "inner"]
    ELSE AfterUpdate(s)

\* Mutant: UpdateDevice returns the payload instead of the row.
FindDevicePayload(w) ==
    /\ Busy(w, "find")
    /\ Goto(w, [worker[w] EXCEPT
                  !.pc = "write", !.snap = [NoSnapshot EXCEPT !.found = row.exists]])
    /\ UNCHANGED <<row, deviceProfiles, fetched, faults, tried, queued, enrolled, unread>>

\* The SELECT by UDID or, the second time, by serial number.
FindDevice(w) ==
    /\ Busy(w, "find")
    /\ Goto(w, [worker[w] EXCEPT
                  !.pc = "write",
                  !.snap = [found |-> row.exists, token |-> row.token,
                            tasksRun |-> row.tasksRun]])
    /\ UNCHANGED <<row, deviceProfiles, fetched, faults, tried, queued, enrolled, unread>>

\* The INSERT, which loses against a row that has appeared meanwhile, or the
\* UPDATE, which leaves a column alone when the payload's field is empty.
\* An error of UpdateDeviceBools, which follows, keeps the call from running the tasks, as
\* an error of their first statement does.
WriteDevice(w) ==
    LET s == worker[w]
        build == Payload(s).build
        newer == row.tasksRun /\ row.build # 0 /\ build > row.build
        t == [s EXCEPT !.upgraded = @ \/ newer]
    IN  /\ Busy(w, "write")
        /\ row' = IF s.snap.found \/ row.exists
                    THEN IF s.snap.found /\ build # 0
                           THEN [row EXCEPT !.build = build] ELSE row
                    ELSE [NoRow EXCEPT !.exists = TRUE, !.build = build]
        /\ Goto(w, AfterWrite(t))
        /\ UNCHANGED <<deviceProfiles, fetched, faults, tried, queued, enrolled, unread>>

-----------------------------------------------------------------------------
(* RunInitialTasks.                                                        *)

\* Its GetDevice and ClearCommands.
RunInitialTasks(w) ==
    /\ Busy(w, "tasks")
    /\ deviceProfiles' = ClearedProfiles
    /\ Goto(w, [worker[w] EXCEPT !.pc = "load", !.upgraded = FALSE])
    /\ UNCHANGED <<row, fetched, faults, tried, queued, enrolled, unread>>

\* InstallAllProfiles: SELECT of the device's own profiles.  When it fails the error
\* is logged, and the device has none.
LoadDeviceProfiles(w) ==
    /\ Busy(w, "load")
    /\ \E own \in SUBSET Profiles :
         /\ \/ /\ own = {p \in Profiles : deviceProfiles[p] = "installed"}
               /\ UNCHANGED <<faults, unread>>
            \/ own = {} /\ Fault("database") /\ unread' = TRUE
         /\ Goto(w, [worker[w] EXCEPT !.pc = "device", !.left = own, !.skip = own])
    /\ UNCHANGED <<row, deviceProfiles, fetched, tried, queued, enrolled>>

\* PushProfiles: an error is logged and the next profile is sent.
PushProfile(w, p) ==
    /\ Busy(w, "device") /\ p \in worker[w].left
    /\ \E err \in BOOLEAN : SendCommand(InstallDeviceProfile(p), err)
    /\ Goto(w, [worker[w] EXCEPT !.left = @ \ {p}])
    /\ UNCHANGED <<row, deviceProfiles, fetched, enrolled, unread>>

\* The SELECT of the shared profiles, whose error is logged too.
LoadSharedProfiles(w) ==
    /\ Busy(w, "device") /\ worker[w].left = {}
    /\ \E shared \in SUBSET Profiles :
         /\ \/ shared = SharedProfiles \ worker[w].skip /\ UNCHANGED faults
            \/ shared = {} /\ Fault("database")
         /\ Goto(w, [worker[w] EXCEPT !.pc = "shared", !.left = shared])
    /\ UNCHANGED <<row, deviceProfiles, fetched, tried, queued, enrolled, unread>>

\* PushSharedProfiles: a device-specific row shadows the shared profile, also
\* one that says the profile is removed; an error gives up the rest.
PushSharedProfile(w, p) ==
    /\ Busy(w, "shared") /\ p \in worker[w].left
    /\ deviceProfiles[p] = "absent"
    /\ \E err \in BOOLEAN :
         /\ SendCommand(InstallSharedProfile(p), err)
         /\ Goto(w, [worker[w] EXCEPT !.left = IF err THEN {} ELSE @ \ {p}])
    /\ UNCHANGED <<row, deviceProfiles, fetched, enrolled, unread>>

SkipSharedProfile(w, p) ==
    /\ Busy(w, "shared") /\ p \in worker[w].left
    /\ deviceProfiles[p] # "absent"
    /\ Goto(w, [worker[w] EXCEPT !.left = @ \ {p}])
    /\ UNCHANGED <<row, deviceProfiles, fetched, faults, tried, queued, enrolled, unread>>

\* Mutant: the error is logged, and the initial tasks go on.
RequestProfileListSwallows(w) ==
    /\ Busy(w, "shared") /\ worker[w].left = {}
    /\ \E err \in BOOLEAN : SendCommand(ProfileList, err)
    /\ Goto(w, IF worker[w].job = "repush"
                 THEN AfterJob(worker[w])
                 ELSE [worker[w] EXCEPT !.pc = "apps", !.left = Apps])
    /\ UNCHANGED <<row, deviceProfiles, fetched, enrolled, unread>>

\* The end of InstallAllProfiles; the initial tasks go on with the packages.
RequestProfileList(w) ==
    /\ Busy(w, "shared") /\ worker[w].left = {}
    /\ \E err \in BOOLEAN :
         /\ SendCommand(ProfileList, err)
         /\ Goto(w, IF err \/ worker[w].job = "repush"
                      THEN AfterJob(worker[w])
                      ELSE [worker[w] EXCEPT !.pc = "apps", !.left = Apps])
    /\ UNCHANGED <<row, deviceProfiles, fetched, enrolled, unread>>

\* Mutant: the package is sent as if it were a shared profile.
PushApplicationAsProfile(w, a) ==
    /\ Busy(w, "apps") /\ a \in worker[w].left
    /\ \E err \in BOOLEAN :
         /\ SendCommand(InstallSharedProfile(a), err)
         /\ Goto(w, IF err THEN AfterJob(worker[w])
                           ELSE [worker[w] EXCEPT !.left = @ \ {a}])
    /\ UNCHANGED <<row, deviceProfiles, fetched, enrolled, unread>>

\* InstallBootstrapPackages.  The packages of the device alone are never sent:
\* the query of PushInstallApplication fails and the package is passed over.
PushSharedInstallApplication(w, a) ==
    /\ Busy(w, "apps") /\ a \in worker[w].left
    /\ \E err \in BOOLEAN :
         /\ SendCommand(InstallApplication(a), err)
         /\ Goto(w, IF err THEN AfterJob(worker[w])
                           ELSE [worker[w] EXCEPT !.left = @ \ {a}])
    /\ UNCHANGED <<row, deviceProfiles, fetched, enrolled, unread>>

\* Mutant: it does not wait for the last package.
SendDeviceConfiguredEarly(w) ==
    /\ Busy(w, "apps") \/ Busy(w, "configured")
    /\ \E err \in BOOLEAN :
         /\ SendCommand(DeviceConfigured, err)
         /\ Goto(w, IF err THEN AfterJob(worker[w])
                    ELSE [worker[w] EXCEPT !.pc = IF @ = "apps" THEN "configured" ELSE "save"])
    /\ UNCHANGED <<row, deviceProfiles, fetched, enrolled, unread>>

\* SendDeviceConfigured sends the command twice.
SendDeviceConfigured(w) ==
    /\ \/ Busy(w, "apps") /\ worker[w].left = {}
       \/ Busy(w, "configured")
    /\ \E err \in BOOLEAN :
         /\ SendCommand(DeviceConfigured, err)
         /\ Goto(w, IF err THEN AfterJob(worker[w])
                    ELSE [worker[w] EXCEPT !.pc = IF @ = "apps" THEN "configured" ELSE "save"])
    /\ UNCHANGED <<row, deviceProfiles, fetched, enrolled, unread>>

\* Mutant: only initial_tasks_run is written.
SaveTasksOnly(w) ==
    /\ Busy(w, "save")
    /\ row' = [row EXCEPT !.tasksRun = row.exists]
    /\ Goto(w, AfterJob(worker[w]))
    /\ UNCHANGED <<deviceProfiles, fetched, faults, tried, queued, enrolled, unread>>

SaveDeviceConfigured(w) ==
    /\ Busy(w, "save")
    /\ row' = IF row.exists
                THEN [row EXCEPT !.auth = TRUE, !.token = TRUE, !.tasksRun = TRUE]
                ELSE row
    /\ Goto(w, AfterJob(worker[w]))
    /\ UNCHANGED <<deviceProfiles, fetched, faults, tried, queued, enrolled, unread>>

-----------------------------------------------------------------------------
\* pushOnNewBuild compares the payload's build with the row's, and the row
\* has been written by this very event.
PushOnNewBuild(w) ==
    LET s == worker[w]
        build == IF s.event.topic = "QueryResponses" THEN 0 ELSE s.event.build
    IN  /\ Busy(w, "build")
        /\ Goto(w, IF row.exists /\ row.build # 0 /\ row.build < build
                     THEN [s EXCEPT !.pc = "load", !.job = "repush", !.upgraded = FALSE]
                     ELSE Respond(s))
        /\ UNCHANGED <<row, deviceProfiles, fetched, faults, tried, queued, enrolled, unread>>

-----------------------------------------------------------------------------
(* The statements that fail.                                               *)

\* Where a worker goes when its statement fails.  The handler logs what ResetDevice
\* returns and goes on, takes a row it cannot read for one whose tasks have not run
\* when a token has come, and for one that is not enrolled otherwise; InstallAllProfiles
\* gives up the shared profiles that are left, RunInitialTasks everything that is left.
AfterError(s) ==
    CASE s.pc \in {"clear", "reset"} -> [s EXCEPT !.pc = "find"]
      [] s.pc \in {"token", "reread"} -> [s EXCEPT !.pc = "find", !.force = TRUE]
      [] s.pc = "find" -> AfterWrite(IF s.second THEN s ELSE [s EXCEPT !.snap = NoSnapshot])
      [] s.pc = "write" -> IF s.snap.found
                             THEN AfterUpdate([s EXCEPT !.snap = NoSnapshot])
                             ELSE AfterWrite(s)
      [] s.pc = "shared" -> [s EXCEPT !.left = {}]
      [] s.pc = "build" -> Respond(s)
      [] OTHER -> AfterJob(s)

\* The statements of LoadDeviceProfiles and LoadSharedProfiles have their errors there,
\* and in the other stages there are none.
DatabaseError(w) ==
    /\ \/ worker[w].pc \in {"clear", "reset", "token", "reread", "find", "write", "tasks",
                            "apps", "save", "build"}
       \/ Busy(w, "shared") /\ worker[w].left # {}
    /\ Fault("database")
    /\ Goto(w, AfterError(worker[w]))
    /\ UNCHANGED <<row, deviceProfiles, fetched, tried, queued, enrolled, unread>>

-----------------------------------------------------------------------------
(* The other actors.                                                       *)

\* FetchDevicesFromMDM reaches this device in MicroMDM's list: a row is made
\* for it when there is none, and the tasks of an enrolled one count as done.
FetchDevicesFromMDM ==
    /\ ~fetched
    /\ fetched' = TRUE
    /\ \E known \in BOOLEAN :
         row' = IF row.exists THEN row
                ELSE [exists |-> TRUE, auth |-> known, token |-> known,
                      tasksRun |-> known, build |-> 0]
    /\ UNCHANGED <<deviceProfiles, worker, faults, tried, queued, enrolled, unread>>

\* The process dies and is started again; what its goroutines were doing is
\* lost.
Crash ==
    /\ Fault("crash")
    /\ worker' = [w \in Workers |-> IdleWorker]
    /\ fetched' = ~FetchAtStart
    /\ UNCHANGED <<row, deviceProfiles, tried, queued, enrolled, unread>>

-----------------------------------------------------------------------------
\* The next step of a request that is being handled.
Handle(w) ==
    \/ ClearCommands(w)
    \/ ResetDevice(w)
    \/ SetTokenUpdate(w)
    \/ RereadDevice(w)
    \/ FindDevice(w)
    \/ WriteDevice(w)
    \/ RunInitialTasks(w)
    \/ LoadDeviceProfiles(w)
    \/ \E p \in Profiles : PushProfile(w, p)
    \/ LoadSharedProfiles(w)
    \/ \E p \in SharedProfiles : PushSharedProfile(w, p)
    \/ \E p \in SharedProfiles : SkipSharedProfile(w, p)
    \/ RequestProfileList(w)
    \/ \E a \in Apps : PushSharedInstallApplication(w, a)
    \/ SendDeviceConfigured(w)
    \/ SaveDeviceConfigured(w)
    \/ PushOnNewBuild(w)
    \/ DatabaseError(w)

Next ==
    \/ \E w \in Workers, e \in Events : WebhookHandler(w, e)
    \/ \E w \in Workers : Handle(w)
    \/ FetchDevicesFromMDM
    \/ Crash

Spec == Init /\ [][Next]_vars

\* The overlaps that do harm.  An Authenticate or a CheckOut arrives while another one
\* is resetting the device, or while a run of the initial tasks is posting; and the
\* start-up fetch comes to a device that is enrolled and has no row yet.
Resetting == {"clear", "reset"}
Posting == {"device", "shared", "apps", "configured", "save"}

Apart ==
    /\ \A w \in Workers :
         worker[w].pc = "idle" /\ worker'[w].pc \in Resetting =>
           \A v \in Workers : worker[v].pc \notin Resetting \cup Posting
    /\ ~fetched /\ fetched' => (enrolled => row.exists)

\* Requests overlap in every other way.
ApartSpec == Init /\ [][Next /\ Apart]_vars

\* A request that is being handled goes on, and the device goes on reporting.
FairSpec ==
    /\ Spec
    /\ \A w \in Workers : WF_vars(Handle(w))
    /\ WF_vars(\E w \in Workers, e \in Events : WebhookHandler(w, e))

-----------------------------------------------------------------------------
(* Properties.                                                             *)

TypeOK ==
    /\ row \in Rows
    /\ deviceProfiles \in [Profiles -> ProfileRow]
    /\ worker \in [Workers -> WorkerStates]
    /\ fetched \in BOOLEAN
    /\ faults \in 0..MaxFaults
    /\ tried \in SUBSET Commands
    /\ queued \in SUBSET Commands
    /\ enrolled \in BOOLEAN
    /\ unread \in BOOLEAN

\* The three flags of a row never contradict each other, whatever the
\* interleaving of the statements that write them: a device whose initial tasks
\* have run counts as enrolled, and no flag is set without a row.  (RunInitialTasks
\* is skipped on initial_tasks_run alone, and started on token_update_recieved.)
FlagsConsistent ==
    /\ row.auth = row.token
    /\ row.tasksRun => row.token
    /\ row.token => row.exists

\* When a device counts as set up, MicroMDM has queued in THIS enrolment every
\* command of the initial tasks whose failure aborts them: the bootstrap packages,
\* the request for the profile list and DeviceConfigured.
ConfiguredAfterTasks == enrolled /\ row.tasksRun => Mandatory \subseteq queued

\* Setup Assistant is released last: DeviceConfigured is not posted before the packages
\* and the profile list request were queued; unless the SELECT of the device's profiles
\* failed in this enrolment, every one of them was posted; and if nothing ever failed,
\* every shared profile that no device-specific row shadows was posted.
ReleasedLast ==
    DeviceConfigured \in tried =>
        /\ ProfileList \in queued
        /\ \A a \in Apps : InstallApplication(a) \in queued
        /\ ~unread => \A p \in Profiles :
             deviceProfiles[p] = "installed" => InstallDeviceProfile(p) \in tried
        /\ faults = 0 => \A p \in SharedProfiles :
             deviceProfiles[p] = "absent" => InstallSharedProfile(p) \in tried

\* Without the overlaps that do harm the webhook handler, with its failing sends and
\* its crashes, implements the promise: a device is never shown as set up before its
\* mandatory commands are queued, nor shown as not set up again while enrolled.
Promise ==
    INSTANCE EnrollmentPromise
      WITH phase <- IF ~enrolled THEN "out"
                    ELSE IF row.tasksRun THEN "configured" ELSE "enrolled",
           got <- queued \cap Mandatory

PromiseKept == Promise!Spec

\* README: the packages can be installed at enrollment.  When the device counts as
\* set up, MicroMDM has queued every package.
PackagesAtEnrollment ==
    enrolled /\ row.tasksRun => \A a \in Apps : InstallApplication(a) \in queued

\* README, -push-new-build: an event by which a device that is set up gets a newer
\* build stored does not end without its profiles having been pushed again.
NewBuildRepushed ==
    [][\A w \in Workers : worker[w].upgraded => worker'[w].pc # "idle"]_vars

\* Initial tasks that were aborted, or lost in a crash, are run again: a device
\* whose token was received ends up set up, unless it is reset.
TasksEventuallyRun == (row.token /\ ~row.tasksRun) ~> (row.tasksRun \/ ~row.token)

=============================================================================
