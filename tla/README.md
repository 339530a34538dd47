# A TLA+ development of mdmdirector

mdmdirector sits beside a MicroMDM server. MicroMDM calls its webhook for
every event of every device; operators call its API; and it posts commands back to
MicroMDM, which queues them for the devices. What it wants of a device (profiles,
packages, lock, erase) and what it knows of it is kept in a PostgreSQL database.
There is no lock and no transaction anywhere: every request is a goroutine that
reads rows, posts commands, and writes rows, and any two of them may be interleaved
at any statement.

This directory holds TLA+ models of that behaviour, TLC configurations that check
them on small instances, and theorems that TLAPS proves for all instances.

    tlc -workers 2 -config EnrollmentApart.cfg EnrollmentMC
    tlapm EnrollmentProofs.tla

Paths below are relative to `src/director/` unless they start with `src/`.

## 1. Inventory

### The system's parts

| part | code | state it keeps | operations |
|---|---|---|---|
| webhook handler and enrolment | `webhook.go`, `initial_tasks.go` | none of its own; the flags `authenticate_recieved`, `token_update_recieved`, `initial_tasks_run` and `build_version` of the device's row | `WebhookHandler`, `ResetDevice`, `SetTokenUpdate`, `RunInitialTasks`, `SendDeviceConfigured`, `pushOnNewBuild`, `RequestDeviceUpdate` |
| device table | `device.go`, `src/types/device.go` | table `devices`, one row per UDID | `UpdateDevice`, `GetDevice`, `PostDeviceCommandHandler`, list and detail handlers |
| command table, MicroMDM client | `command.go`, `src/types/command.go` | table `commands`, keyed by the UUID MicroMDM gave | `SendCommand`, `UpdateCommand`, `ClearCommands`, `DeletePendingCommands`, `InspectCommandQueue`, `clearCommandQueue` |
| erase, lock, PINs | `erase_lock.go` | `lock`, `erase`, `unlock_pin` of the row; table `unlock_pins` | `EraseLockDevice`, `generatePin`, `escrowPin`, `checkForExistingCommand` |
| profiles | `profile.go` | tables `device_profiles`, `shared_profiles`, `profile_lists` | post, delete, push; `VerifyMDMProfiles` compares the device's list with the tables |
| install applications | `install_application.go` | table `shared_install_applications` (and `device_install_applications`, which stays empty) | post, push, `InstallBootstrapPackages` |
| information requests | `device.go`, `security_info.go`, `certificate.go` | time stamps in the row | `RequestAllDeviceInfo` and the handling of the answers |
| certificates, enrolment profile renewal | `certificate.go`, `enrollment_profile.go` | tables of certificates | decision to reinstall an enrolment profile that is about to expire |
| scheduled check-in, push queue | `schedule_push.go`, `redis.go` | Redis queue (taskq), `next_push` of the row | `ScheduledCheckin`, `processScheduledCheckin`, `pushAll`, `PushDevice` |
| background tasks | `background_tasks.go` | `DevicesFetchedFromMDM` | `FetchDevicesFromMDM`; `RetryCommands` and `UnconfiguredDevices` are not started |
| start-up, flags, database | `src/main.go`, `src/utils`, `src/db` | flags | wiring |
| metrics, logs, health | `prometheus.go`, `log.go`, `healthcheck.go` | counters | reads only |

### How they interact

* MicroMDM calls `/webhook`, one goroutine per call. `Authenticate` and `CheckOut`
  reset the device's flags; `TokenUpdate` sets two of them and starts the initial
  tasks; every event with a payload updates the row, and may start the initial tasks
  too, if an earlier attempt did not finish.
* The initial tasks post profiles, the packages and `DeviceConfigured` one by one
  through `SendCommand` and then set `initial_tasks_run`, and the two other flags with it.
* An idle device with the flag `lock` or `erase` set causes a call of
  `EraseLockDevice`; so does the API with `push_now`.
* The scheduled check-in deletes PINs that are more than 30 minutes old, empties the
  operators' PINs that are no longer needed, and pushes the devices that have not been
  heard of. It waits for the fetch of the device list that runs once after the start.
* A `ProfileList` answer is compared with the tables, and profiles are installed or
  removed until they agree.

### What makes it hard, and what makes it correct

| part | hard behaviour | what must be true |
|---|---|---|
| enrolment | failing posts half way, error answers that look like answers, a crash between two steps, two requests of one device, an enrolment that starts while the tasks of the last one run, the start-up fetch in between | a device that counts as set up has got its mandatory commands in this enrolment; Setup Assistant is released last; the flags of a row agree; aborted tasks are run again |
| erase and lock | API and webhook calls overlap; the queue is inspected and used later; the escrow fails; a PIN expires between two statements | no PIN reaches a device that escrow does not have; no command twice; one recent PIN; an operator's PIN is kept while it is needed; an erase is queued in the end |
| command table | the row is written after the post; answers may be handled in any order; an error answer has no UUID | an answered command is never pending again, and an acknowledgement or an error is never forgotten; a pending row stands for a queued command |
| profiles | the same profile is stored, pushed, reported and removed by different goroutines; a push precedes the save; one failing post ends the loop | the device's list and the tables converge; a profile that is wanted is not removed |
| scheduled check-in | the fetch fails, panics or cannot be decoded; two check-ins; an endless loop | every device is pushed; check-ins do not overlap |
| information requests | read and write of `last_info_requested` are apart | not more than one request in an interval; aborted requests are repeated |
| enrolment profile | files and certificates are replaced between the comparison and the send; one certificate or file that cannot be used ends the handling of a whole answer | the SCEP certificate is renewed in time; a wrong signature is replaced; a device whose profile is in order is left alone |
| install applications | devices enrol between the listing of the devices and the save, and again while their tasks run; an error answer goes for sent; a failing send ends the loop | a device that is set up has every package that was saved for it, and every package posted |

`PROJECT.json` lists the hazards one by one, each at its line, with the properties
that cover it or the reason why none does.

## 2. Plan

Modules, in this order; all but the last two points are done.

1. **Enrollment** with the abstract **EnrollmentPromise**: the life of a
   device's flags. Everything else a deployment does depends on it.
2. **EraseLock**: the one part whose failure destroys data or locks a device
   with a PIN nobody has.
3. **ScheduledCheckin**: start-up fetch, wait, semaphore, `pushAll`, the queue of
   pushes, and the information requested of a device that reports.
4. **ProfileSync**: post and delete through the API, `VerifyMDMProfiles`, the list of
   profiles the device reports.
5. **CommandQueue** with the abstract **CommandPromise**: the command table against
   MicroMDM's queue, with the row made after the post, answers that nobody reads,
   `ClearCommands`, `DeletePendingCommands` and the empty UUID.
6. **EnrollmentProfile**: the two decisions to send a device its enrolment profile again.
   **InstallApplications**: packages posted for all devices while devices enrol.
7. Not done: requests of several profiles in ProfileSync; the comparison of build versions as
   a pure operator.
8. Not done: **DeviceLife**, Enrollment with MicroMDM's delivery of events and the
   check-in's pushes, for the properties that are about a device rather than about its row (an
   `Authenticate` lost in a crash, a `TokenUpdate` for an unknown device).

Each component's theorems are in its module of proofs. What they assume of the order of
requests is the one overlap that does harm, and no more (section 5). Still worth proving: what is true
of a device's row once such an overlap has happened.

## 3. The modules

### Enrollment

One device. `row` is its row of `devices` (three flags and the build version, a
number; `NoRow` while there is none), `deviceProfiles` its rows of `device_profiles`
(absent, installed, removed), `worker[w]` what a goroutine that serves a webhook
request has read and where it is, `fetched` whether `FetchDevicesFromMDM` is over.
Ghost variables `tried`, `queued` and `enrolled` record the commands that were posted,
those MicroMDM queued, and whether an enrolment is open, and `unread` whether the SELECT of the
device's profiles failed in it; no guard reads them.

One action per database statement on the flags and one per post:

| action | code |
|---|---|
| `WebhookHandler(w, e)` | entry of `webhook.go:41`, event `e` |
| `ClearCommands`, `ResetDevice` | `initial_tasks.go:103`, in two statements |
| `SetTokenUpdate`, `RereadDevice` | `device.go:467`, the UPDATE and the SELECT after it |
| `FindDevice`, `WriteDevice` | `device.go:20` `UpdateDevice`: SELECT, then INSERT or UPDATE; a payload with a serial number goes through both twice |
| `RunInitialTasks`, `LoadDeviceProfiles`, `PushProfile`, `LoadSharedProfiles`, `PushSharedProfile`, `SkipSharedProfile`, `RequestProfileList`, `PushSharedInstallApplication`, `SendDeviceConfigured`, `SaveDeviceConfigured` | `initial_tasks.go:11`, `profile.go:1285`, `install_application.go:218`, `initial_tasks.go:57` |
| `PushOnNewBuild` | `webhook.go:267` |
| `DatabaseError` | a statement of any of these fails; the call goes on at `AfterError` |
| `FetchDevicesFromMDM` | `background_tasks.go:152`, when it reaches this device |
| `Crash` | the process dies and starts again |

`AfterWrite`, `AfterUpdate`, `AfterJob`, `AfterError` and `Respond` say where a goroutine continues when a
statement or a call returns; an error ends the call it happened in, is logged, and the caller goes on as
the code does. The two SELECTs of `InstallAllProfiles` (`profile.go:1297`, `:1312`) only log theirs: the tasks
go on without the profiles, and `DeviceConfigured` is posted nevertheless. `ReleasedLast` names the first
(`unread`); of shared profiles it speaks only where nothing has failed. `SendCommand` has three outcomes: success; failure, when the command may
nevertheless have been queued; and *refused*, MicroMDM's error answer, which the code
cannot tell from a success because it never reads the status (`command.go:52`).

**EnrollmentPromise** is the abstract specification: a device is out, enrolled
or configured, and gets from enrolled to configured only when all its mandatory
commands have been queued in this enrolment. `Enrollment!Promise` instantiates
it: `phase` is read off `enrolled` and `tasksRun`, `got` off `queued`.

### EraseLock

One device. `lock`, `erase`, `fixed` are the columns of its row, `unlockPins` its rows
of `unlock_pins` in order of `pin_set`, of which the first `expired` are older than
30 minutes; `call[w]` is a running call of `EraseLockDevice`; `checkin` is the next of the
check-in's two statements; `queue`, `held` and `escrowed` are MicroMDM's queue (its lock
and erase commands), the command the device last carried out, and the escrow server.

| action | code |
|---|---|
| `PostDeviceCommand`, `PostClearQueue` | `device.go:186` |
| `RequestDeviceUpdate` | `webhook.go:233`, up to the call |
| `GetDevice`, `LookupPin`, `ScanPin`, `InsertPin`, `InspectCommandQueue`, `ClearCommandQueue`, `EscrowPin`, `SendCommand` | the statements and requests of `EraseLockDevice`, `erase_lock.go:28`, in their order |
| `DeleteRandomUnlockPins`, `ResetFixedPin` | `schedule_push.go:110` and `:116` |
| `PinExpires`, `DeviceObeys`, `Crash` | time, the device, the process |

The flags are read in `GetDevice` and acted on at the end of the call, whatever has
happened to them meanwhile; so are the PIN and the inspected queue. `LookupPin` and `ScanPin` are the two
SELECTs of `erase_lock.go:178`: the row the first has found is read again by the second, and when the check-in
has deleted it in between, or either fails, the PIN is empty.

### ScheduledCheckin

Any number of devices that are set up, and neither to be locked nor to be erased. `known` is
the table `devices`, `recent` the devices whose `last_info_requested` is within
`info-request-interval`. `fetch`, `scheduler`, `checkin[c]` and `worker[w]` are the
goroutines; `fetched` is `DevicesFetchedFromMDM`, `waits` the scheduler's counter, `sem`
the number of tokens in its channel. `pushQueue` and `named` are in Redis: the messages of
a device, and whether the message of this period was given its name. `woken` are the
devices a push has been sent to. Ghosts: `missed`, the devices whose row the fetch could
not write or that its answer withheld, and `posted`, what was asked of a device in this interval; no guard reads them.

| action | code |
|---|---|
| `FetchDevices`, `FetchPanics`, `FirstOrCreate(d)`, `FinishFetch` | `background_tasks.go:152`; with no answer the nil response is used at `:175`; a body that cannot be read or decoded is logged (`:182`, `:187`), and the fetch goes on with the devices that were decoded, or none |
| `WaitForFetch` | one turn of the loop at `schedule_push.go:36`, which may read the flag's old value |
| `StartCheckin(c)` | the endless loop at `schedule_push.go:68` |
| `ListDevices(c)`, `AddToQueue(c, d)`, `FinishPushAll(c)`, `FinishCheckin(c)` | `pushAll`, `schedule_push.go:142`, and the goroutine around it |
| `ConsumePush(d)`, `PushDeviceHandler(d)` | the queue's consumer and the API, both through `PushDevice`, `schedule_push.go:257` |
| `NewPeriod` | the next period of `once-in` |
| `DeviceReports(w, d)`, `RequestDeviceUpdate(w)`, `RequestInfo(w, info)`, `Stamp(w)` | `webhook.go:97` to `:140`, the second half of `webhook.go:233`, and `device.go:491` |
| `ProcessDeviceConfigured(d)` | `initial_tasks.go:57`, the other statement that writes `last_info_requested` |
| `IntervalPasses(d)`, `Crash` | time, the process |

`deviceNeedsPush` is not there: it says no only before `next_push`, and `next_push` is
only ever set to the present. `Restart` says what a new process finds: main purges the
queue and goes on when that fails (`src/main.go:380`), and the names stay, so that a purged
message is not added again in its period. It is assumed that something starts the process
again when it has died.

### ProfileSync

One device that is set up, and any number of profiles. `deviceProfiles` and `sharedProfiles`
are the rows of the two tables (of a profile, its hashed UUID stands for its content; one row
per identifier in the first, whose key it is, any number in the second), `has` what is on the
device, with its signer (the present certificate, another, or one that cannot be parsed), `enrolment` what a
verification finds of the enrolment profile (good, not listed, or the end of it), `queue` MicroMDM's profile
commands. `call[c]` is a request of the API and `verify[w]` a run of `VerifyMDMProfiles`, each
at its next statement with what it has read. Ghost: `kept`, the identifiers whose last call is
a post that was answered without an error; no guard reads it. The tables and the device hold
anything at the start, but for two rows of one shared profile.

| action | code |
|---|---|
| `PostProfileHandler(c)`, `DeleteProfileHandler(c)` | `profile.go:32` and `:458`: a request of one profile, for the device or for all (`*`) |
| `SavedDeviceProfileDiffers`, `PushPosted`, `CleanupOldProfiles`, `SaveProfile`, `UpdateInstalled` | `ProcessDeviceProfiles`, `profile.go:250`, for a post |
| `SavedProfileIsPresent`, `RemoveDeleted`, `SaveProfile`, `UpdateInstalled` | the same for a delete |
| `DeleteOldShared`, `CreateShared`, `CheckOwn`, `PushShared` | `SaveSharedProfiles`, `profile.go:663`, and `PushSharedProfiles`, `:783` |
| `DisableSharedProfiles` | `profile.go:427`; the list it then removes from the devices is empty |
| `RequestProfileList`, `DeviceObeys`, `DeviceAnswers(w)` | the requested list, the device, and its answer at `webhook.go:144` |
| `LoadDeviceProfiles(w)`, `CompareProfiles(w)`, `PushProfile(w)`, `CheckSharedProfile(w)`, `SendSharedProfile(w)`, `DeleteDeviceProfile(w)`, `FinishVerification(w)` | `VerifyMDMProfiles`, `profile.go:866`, and the four functions it calls |
| `Crash` | the process dies: the goroutines are gone |

`validateProfileInProfileList`, `ProfilesForVerification`, `ToInstall` and `ToRemove` are the pure
part. The row of a profile that is deleted before it was ever posted is made as installed,
because gorm leaves a false out of an INSERT where the column has a default, and put right by
`UpdateInstalled`; when that fails the row stays as it is (`HalfSaved`) and the device is sent an
empty profile at every verification.

Three things end every verification of a device before anything is installed, and `Converges` names them
(`Unverifiable`): a list of no profiles at all (`profile.go:900`), an enrolment profile that cannot be compared or
replaced (`:960`), and a listed signer certificate that cannot be parsed (`:1093`). The enrolment profile is as
good or as bad throughout a behaviour; how it changes is in EnrollmentProfile.

### CommandQueue

One device. `commands` is the table: of each UUID the status of its row, where `sent` is the
empty status a row is made with; `NoUUID` is the key of the row an error answer leaves. `setup`
is what the flags of the device's row say of its initial tasks: reset, due or done.
`queue` is MicroMDM's queue for the device, `events` its calls of the webhook, in order.
`routine[g]` is a goroutine: where it is in the handler, the event it has not dealt with
yet, and the command it has sent and not made a row of yet. `listed` is a `DeletePendingCommands`
between its SELECT and its DELETE. `lost` are the commands whose answer was never recorded or
never will be; no guard reads it.

| action | code |
|---|---|
| `SendCommand(g)`, `CreateRow(g)` | `command.go:21`, the POST and the INSERT after it |
| `Receive(w)`, `ClearCommands(w)`, `ResetDevice(w)`, `SetTokenUpdate(w)`, `UpdateDevice(w)`, `FinishTasks(w)` | `webhook.go:41` and the initial tasks it may run, of which only what touches commands is there |
| `UpdateCommand(w)`, `Respond(w)` | `command.go:88` and the rest of the handler |
| `SelectPending`, `DeletePending` | `DeletePendingCommands`, `command.go:302` |
| `ClearCommandQueue` | `command.go:357`: MicroMDM's queue, not the table |
| `DeviceAnswers`, `DeviceConnects`, `Crash` | the device, the process |

A handler whose device has its tasks due runs them and returns (`webhook.go:114`): the answer
it was called with is not recorded. `DeletePending` deletes what was read as pending *and still
is*, and every pending row when nothing but the empty key was read.

`UpdateCommand` stores whatever status an answer has (`command.go:163`), and `ClearCommands` deletes every row
whose status is not Acknowledged or Error (`:223`): `CommandFormatError` stands for all those it does not know.

**CommandPromise** is what a reader of the table may rely on: a command is new, then pending, then finished, by
an acknowledgement or an error and for good, or rejected, by any other answer; it never waits again, and is
forgotten at most while it waits or when it was rejected. `CommandQueue!Promise`
reads the phase off the row and off the goroutines that have still to make it.

### EnrollmentProfile

One device that is set up. `config` are three flags of the process, `file` the enrolment
profile on disk (missing, of no use, or good, with its signer), `signing` the generation of the
signing certificate; `mdm` and `others` are what is on the device: the signer of its
enrolment profile (which the parser may not understand), whether the SCEP certificate that came with it is about to expire, and
the kinds of its other certificates. `handler[w]` is an answer that is being handled.

| action | code |
|---|---|
| `RotateSigningCert`, `ReplaceFile`, `CertificateAges` | operators and time |
| `RequestList(l)`, `DeviceObeys`, `DeviceAnswers(w)` | the requested lists, the device, its answer |
| `ParseCertificates(w)`, `ReplaceCertificates(w)`, `ValidateScepCert(w)`, `FinishCertificates(w)` | `processCertificateList`, `certificate.go:30`, and `validateScepCert`, `:75` |
| `LoadSigningKey(w)`, `EnsureCertOnEnrollmentProfile(w)`, `VerifyProfiles(w)` | `VerifyMDMProfiles` up to `profile.go:957`, `enrollment_profile.go:87`, and what follows it |
| `ReadEnrollmentProfile(w)`, `SignEnrollmentProfile(w)`, `SendEnrollmentProfile(w)` | `reinstallEnrollmentProfile`, `enrollment_profile.go:16`, and the part of `PushProfiles` that signs and sends |
| `Crash` | the process dies |

Loading the certificate, comparing, reading the file, signing and sending are steps of their own, between which
the operators may replace either. A file that cannot be read or whose signer has expired ends the goroutine; one
signed beforehand is sent by `SendCommand`, whose error comes back, any other by `PushProfiles`, which loads the
signing certificate once more, and logs the error. `Sent` and `GoOn` say where the goroutine goes on. A signer that
cannot be parsed ends the verification (`Unparsable`, `enrollment_profile.go:113`).

### InstallApplications

Any number of devices. `saved` is the table `shared_install_applications`; a device is out, enrolled, or set up;
`run[w]` is a run of its initial tasks, which has yet to read the table or has packages left to send (`todo`). Any
number of runs may be going for one device, and it may enrol again meanwhile: `Enroll` asks nothing of them. `got`
is what MicroMDM has queued for a device since it enrolled. `call[c]` is a request, at its next statement, with the
devices it has listed. Ghosts, which no guard reads: `due`, what was saved when a device enrolled; `refused`, the
packages MicroMDM answered with an error, which goes for sent (`command.go:52`); `posted`, the packages some request
has brought to every device it listed; `read` of a run, and `by` of a device, say when the run, or the run that
set the device up, had read the table: `before` the device enrolled last, `between` the list and the save of a
request that has not listed it, or `sound`.

| action | code |
|---|---|
| `Enroll(d)` | `ResetDevice`, `initial_tasks.go:103` |
| `RunInitialTasks(w)`, `LoadPackages(w)`, `PushPackage(w)`, `FinishTasks(w)` | `initial_tasks.go:11` and `InstallBootstrapPackages`, `install_application.go:218` |
| `PostInstallApplication(c)` | `install_application.go:13`: reads the request, lists the devices |
| `SaveSharedInstallApplications(c)` | `install_application.go:175`: only the first package of a request is saved, as the variable it is saved from is reused with its id |
| `PushSharedInstallApplication(c)`, `NextPackage(c)`, `Return(c)` | the loop at `install_application.go:37` and the function it calls |
| `Crash` | the process dies |

### EnrollmentMC, EraseLockMC, ScheduledCheckinMC, ProfileSyncMC, CommandQueueMC, EnrollmentProfileMC, InstallApplicationsMC

The symmetry sets and the values TLC uses. Goroutines are interchangeable, and so are random PINs:
nothing in the modules orders them. No run with a liveness property uses symmetry.

## 4. The runs

| run | configuration | result |
|---|---|---|
| `enrollment_apart` | two requests at a time that overlap as `ApartSpec` allows, a profile that is both the device's and shared, one package, every topic, the start-up fetch, one failed post, failing statement or crash | holds: `TypeOK`, `ConfiguredAfterTasks`, `ReleasedLast`, `PromiseKept` |
| `enrollment_concurrent` | two requests at a time that overlap in every way, pushes on a new build, the start-up fetch, one fault of any kind; liveness | holds: `FlagsConsistent`, `TasksEventuallyRun` |
| `enrollment_refused` | one request at a time, one error answer | violates `PackagesAtEnrollment` |
| `enrollment_new_build` | a device that is set up reports a newer build | violates `NewBuildRepushed` |
| `erase_lock_serial` | one call at a time, two random PINs and one of an operator, two faults of any kind, failing lookups among them; liveness | holds: `TypeOK`, `NoDuplicate`, `OneRecentPin`, `EraseEventuallyQueued`, `OperatorPinKept` |
| `erase_lock_concurrent` | two calls at a time, escrow server, two faults of any kind | holds: `PinEscrowed` |
| `scheduled_checkin` | one device, one request of it at a time, two check-ins, two faults of any kind; liveness | holds: `TypeOK`, `FetchedAll`, `OneCheckin`, `InfoOncePerInterval`, `InfoEventuallyRequested` |
| `profile_sync_serial` | one identifier, two versions, signed; one API call of any kind and one verification at a time, whatever the tables and the device hold, whatever signer it lists, two faults of any kind; liveness | holds: `TypeOK`, `PostedKept`, `OneSharedRow`, `LeftAlone`, `Converges` |
| `command_queue` | events handled one at a time, a second goroutine that sends, two commands, one answer put off, three kinds of last answers, one fault of any kind; liveness | holds: `TypeOK`, `PendingIsOpen`, `PromiseKept`, `CommandsSettle` |
| `enrollment_profile` | every combination of the flags, every device, two signing certificates, one answer at a time, one fault of any kind; liveness | holds: `TypeOK`, `Renewed`, `Resigned`, `NotSentAgain`, `ProfilesVerifiedOrStuck` |
| `install_applications` | one device that enrols again and again, two runs of its tasks at once, two packages, one request at a time, one fault of any kind | holds: `TypeOK`, `InstalledAtEnrollment`, `PostReaches` |
| `erase_lock_lookup` | one call at a time, one failing lookup | violates `PinPresent` |

What the three violations show:

* **An error answer counts as a sent command** (`command.go:52`). The status is not
  read and the error body decodes without error into an empty response. The initial
  tasks go on, the device counts as set up, and the package is never sent, though
  `README.md:3` says it is installed at enrollment.
* **A new build never pushes anything** (`webhook.go:275`). The row `pushOnNewBuild`
  reads has been written by the very event it is compared with; for the answer to
  `DeviceInformation` the build it compares is empty. `README.md:54` promises the push.
* **A failing lookup locks with an empty PIN** (`erase_lock.go:178`). An error other than
  "no such row" falls through to "Found a saved one" (`erase_lock.go:201`).

Some properties hold but for one kind of overlap of two requests, which no document of the
repository speaks of. Each of these overlaps is a definition of the module, so that it can be
excluded and nothing else with it; TLC finds the property violated when the configuration has
two requests (`Workers` or `Callers` with two elements) that may overlap in every way, and finds it to hold, with the
same two requests, when they may not overlap in this one:

* `ConfiguredAfterTasks`, `ReleasedLast`, `PromiseKept` of Enrollment (`Apart`): the device enrols
  again while the tasks of its last enrolment are still posting; their `SaveDeviceConfigured` (`initial_tasks.go:95`) sets the flag
  that `ResetDevice` has just cleared, and the tasks of the new enrolment are never run. Two `Authenticate`s at once do the
  same, when the tasks start between the end of the first and the reset by the second; and the start-up
  fetch makes an enrolled device that has no row yet one that counts as set up.
* `NoDuplicate` (`SendsApart`): two calls inspect the queue before either sends (`erase_lock.go:60`), and the
  same lock or erase is queued twice; `OneRecentPin` (`InsertsApart`): both look for a PIN before either
  saves one.
* `PostedKept` (`CallsApart`): a post whose version is stored already has nothing to save, yet cleans
  up the other versions of the identifier, after it compared (`profile.go:297`). What a post
  of another version has saved in between is deleted, and neither version is in the table.
* `OneSharedRow` (`CreatesApart`): two posts of a shared profile that both delete before either creates leave two
  rows, and every verification then sends the device the version it does not have, for ever.
* `InfoOncePerInterval` (`AsksApart`): two answers that read `last_info_requested` before either writes
  it ask for everything twice (`webhook.go:254`).
* `PendingIsOpen`, `PromiseKept` of CommandQueue (`InTurn`): a NotNow and the Acknowledged that follows it
  are handled by two goroutines (`command.go:163`), and the NotNow is written last: a finished
  command is pending again and stays so.

InstallApplications leaves no overlap out. Its properties name, by ghosts, the two runs of the initial tasks that set
up a device without a package: one that had read the table before the device enrolled again (`initial_tasks.go:95`),
and, for `PostReaches`, one that read it between the list and the save of a request (`install_application.go:28`).
With either exception taken away, TLC finds the property violated.

### The bounds, and why they are enough

* `Workers`: one or two. All the races are between two requests, as a request
  communicates with another through the row and MicroMDM's queue only; the theorems below
  hold for any number.
* `Profiles`, `Apps`: the loops treat their elements alike, so one element that
  fails and one that does not, one shadowed and one not, show what a loop can do.
  In `enrollment_apart` one profile is both, so that the device's own shadows the shared one.
  `enrollment_concurrent` has none, because its properties do not depend on what is posted
  and its liveness needs the whole graph; with a package it was run once, with the same result.
* `MaxBuild`: 1, or 2 where builds are compared. `enrollment_apart` was run with 2 once, and with
  `ClearDeviceOnEnroll`, with the same result.
* `MaxFaults`: one or two. A second fault hits the retry of what the first one aborted.
* `Topics`: `enrollment_concurrent` leaves out `CheckOut` and `QueryResponses`: the
  first writes what an `Authenticate` writes, the second runs `UpdateDevice` twice.
* One worker in the runs of EraseLock, ScheduledCheckin and CommandQueue that check `NoDuplicate`,
  `OneRecentPin`, `InfoOncePerInterval`, `PendingIsOpen` and `PromiseKept`, and one caller for
  `PostedKept` and `OneSharedRow`: these runs check liveness too, which needs the whole graph. With two,
  and the overlap of section 4 excluded, the same properties were checked once by themselves
  (between 30 000 and 4.7 million states), before they were proved for any number.
* `RandomPins`, `MaxPins`: two PINs are what it takes to have an old and a new
  one. `MaxPins` bounds the rows between two clean-ups, so `InsertPin` waits for the
  check-in where the code would not. One random PIN in `erase_lock_concurrent`, and none of an operator,
  can be told from no escrow, which is all `PinEscrowed` needs; `OperatorPinKept` is checked with one call at a
  time: two take too long, and the theorem is for any number.
* The queue of EraseLock has no bound of its own: a type is queued only when the inspected
  queue has none of it.

* `Devices` in ScheduledCheckin: one. The actions of different devices share the fetch and
  the check-in only, whose loops treat them alike, and no fault or row of one is seen by
  another. `WaitLimit` stands for the 10 turns of the scheduler's wait; with 1 it can both
  end by the flag and by the counter. `MaxBacklog` bounds the messages of one device in
  Redis: `NewPeriod` waits until the consumer has taken one. With 2 a message of an earlier
  period can still be there when the next is added.

* `Ids` in ProfileSync: one. Different identifiers share no row; they share the queue,
  whose order between them does not matter, and the loops of a verification, which an error
  ends: the faults do the same to a single one. `Versions`: two, the old one and the new.
  `MaxCalls`: one, as the tables and the device begin with whatever earlier calls may have
  left. The same properties were checked with two identifiers (one
  version, no fault) and with two workers (no fault); they take too long to be kept.

* `MaxCommands`, `MaxEvents`, `MaxDeferrals` in CommandQueue: two commands are what
  `DeletePendingCommands` needs to read one and find another, one deferral is what it
  takes to have two answers to a command, and MicroMDM waits until a handler
  has taken an event, so that `MaxEvents` of 1 has one event handled and one waiting.
* `MaxSigning` in EnrollmentProfile: two, so that the certificate can be replaced once between any two
  steps. `Others`: a certificate of another issuer and one that cannot be parsed; the device begins with any set
  of them. A second one of the SCEP issuer that expires (`short`) was added once, with the same result; it takes
  five minutes.
* `Devices` in InstallApplications: one, `Workers` two, as the runs of a device's tasks overlap among themselves
  and with its enrolments. `Packages`: two, as the first package of a request is saved where the second is not.
  `Callers`: one, as requests only add to the table. Checked once: two devices with one package and two runs,
  two devices with two packages and one run (the loop over devices that a failing send ends), one device with two
  faults; all hold. The theorems are for any number.

### Fairness

* A goroutine that is serving a request goes on (`WF` on `Handle(w)` and
  `EraseLockDevice(w)`): the Go scheduler runs every runnable goroutine, and a post that
  gets no answer is a failed post.
* Webhook requests keep arriving (`WF` on `WebhookHandler` of some event, on
  `RequestDeviceUpdate`): the scheduled check-in pushes a device until it is heard of, and
  a device that is pushed reports. No particular event is promised.
* `ProcessScheduledCheckin` comes round: `ScheduledCheckin` is an endless loop.
* In ScheduledCheckin every goroutine goes on but for the fetch, which may hang on
  MicroMDM; periods come and go; and a device that has a push waiting reports sooner or
  later (`schedule_push.go:263`, the expiration of the push). That is a strong fairness
  condition, because the goroutine that would serve it is busy and free in turn.
* In ProfileSync calls and verifications go on, the list is requested again and again
  (`InfoEventuallyRequested` of ScheduledCheckin is the reason), and the device carries out what is
  queued and answers. The queue itself is fair: it is first in, first out.
* In CommandQueue handlers go on, a goroutine that has posted a command comes to its INSERT, and the
  device answers what is queued. That is strong fairness, since the queue of events is full
  and has room in turn. A goroutine need not send anything, nor the API be called.
* In EnrollmentProfile handlers go on, both lists are requested again and again, and the device
  deals with the head of its queue (strong: the goroutine that would take the answer is
  busy and free in turn). No file need ever be replaced.
* InstallApplications has safety properties only: nothing resends a package whose post failed.
* No fairness on the API, on faults, on the fetch or on the expiry of a PIN.

`TasksEventuallyRun` starts from a row whose token was received: a device that never
sends a TokenUpdate is promised nothing. It ends too when the row is reset.

## 5. The theorems

In seven modules, one for each component, `EnrollmentProofs` to `InstallApplicationsProofs`; every leaf
is checked by TLAPS.

| theorem | states | assumptions |
|---|---|---|
| `EnrollmentProofs!TypeCorrect` | `Spec => []TypeOK` | none |
| `EnrollmentProofs!FlagsAlwaysConsistent` | `Spec => []FlagsConsistent` | none: any number of goroutines and any fault |
| `EnrollmentProofs!SetUpAfterTasks` | `ApartSpec => []ConfiguredAfterTasks` | `Accepting` |
| `EnrollmentProofs!PromiseIsKept` | `ApartSpec => PromiseKept` | `Accepting` |
| `EnrollmentProofs!AlwaysReleasedLast` | `ApartSpec => []ReleasedLast` | `Accepting` |
| `EnrollmentProofs!OneAtATimeIsApart` | `Spec => ApartSpec` | at most one worker, no start-up fetch |
| `EraseLockProofs!TypeCorrect` | `Spec => []TypeOK` | none |
| `EraseLockProofs!PinAlwaysEscrowed` | `Spec => []PinEscrowed` | none: any number of calls and any fault |
| `EraseLockProofs!OperatorPinStays` | `Spec => OperatorPinKept` | none: any number of calls and any fault |
| `EraseLockProofs!NeverTwice` | `Spec /\ []SendsApart => []NoDuplicate` | none: any number of goroutines and any fault |
| `EraseLockProofs!NeverTwoPins` | `Spec /\ []InsertsApart => []OneRecentPin` | none: any number of goroutines and any fault |
| `ScheduledCheckinProofs!TypeCorrect` | `Spec => []TypeOK` | none |
| `ScheduledCheckinProofs!FetchedMeansStored` | `Spec => []FetchedAll` | none |
| `ScheduledCheckinProofs!NoOverlap` | `Spec => []OneCheckin` | none |
| `ScheduledCheckinProofs!AskedOnce` | `Spec /\ []AsksApart => []InfoOncePerInterval` | none: any number of devices and goroutines |
| `ProfileSyncProofs!TypeCorrect` | `Spec => []TypeOK` | none |
| `ProfileSyncProofs!DeviceLeftAlone` | `Spec => LeftAlone` | none: any number of goroutines and any fault |
| `ProfileSyncProofs!PostedStays` | `Spec /\ []CallsApart => []PostedKept` | none: any number of goroutines and any fault |
| `ProfileSyncProofs!NoSharedDuplicate` | `Spec /\ []CreatesApart => []OneSharedRow` | none: any number of goroutines and any fault |
| `CommandQueueProofs!TypeCorrect` | `Spec => []TypeOK` | none |
| `CommandQueueProofs!PendingStaysOpen` | `Spec /\ []InTurn => []PendingIsOpen` | none: any number of goroutines and any fault |
| `CommandQueueProofs!PromiseIsKept` | `Spec /\ []InTurn => PromiseKept` | none: any number of goroutines and any fault |
| `EnrollmentProfileProofs!TypeCorrect` | `Spec => []TypeOK` | none |
| `EnrollmentProfileProofs!NeverSentAgain` | `Spec => NotSentAgain` | none: any number of goroutines and any fault |
| `InstallApplicationsProofs!TypeCorrect` | `Spec => []TypeOK` | none |
| `InstallApplicationsProofs!SetUpWithPackages` | `Spec => []InstalledAtEnrollment` | none: any number of requests, runs and enrolments at once, and any fault, error answers included |
| `InstallApplicationsProofs!PostAlwaysReaches` | `Spec => []PostReaches` | none: any number of requests, runs and enrolments at once, and any fault, error answers included |

"None" is none beyond the named assumption of the module on its constants.
`Accepting` says that MicroMDM's error answers do not occur; the run `enrollment_refused` shows that it
cannot be dropped. The other hypotheses are the overlaps of section 4, excluded one by
one, and section 4 says what happens with each:

* `Apart`, in `ApartSpec`, is about steps: no `Authenticate` or `CheckOut` begins while another one is
  resetting the device or a run of the tasks is posting, and the start-up fetch does not come to a device
  that is enrolled and has no row. The tasks may begin while a reset is under way, two
  runs of the tasks may post at once, and a crash may end anything anywhere.
* `SendsApart`, `InsertsApart`, `AsksApart`, `CallsApart`, `CreatesApart` and `InTurn` are about states, and
  only about two requests that touch the same command, PIN, device, profile or UUID.

`OneAtATimeIsApart` and four lemmas (`OneCallIsApart` in EraseLock and ProfileSync, `OneByOneIsApart` in
ScheduledCheckin, `OneByOneIsInTurn` in CommandQueue) show that all of them hold of
requests that come one at a time, whatever fails: a MicroMDM that waits for each answer, and an operator
who does, keep every one of these properties.

`FlagsConsistent` is inductive together with types: every statement that sets a flag
sets the others as it must, and none writes a flag it read before.

`ConfiguredAfterTasks` is not inductive: the flag is set at the end of a run of the tasks,
so the invariant has to say what a run has achieved when it has come so far.
`SetUpInv` strengthens it by the state of every request under way (`Progress`), which relates its
program counter to `queued`: past the profile list, `ProfileList` is queued; in the packages, every
package is either left or queued; when saving, all of `Mandatory` is. Nothing else than
the opening of an enrolment takes a command out of `queued`, so another request's steps keep that, and the enrolment
opens with an `Authenticate`, when by `Apart` no run of the tasks is posting. The flag is off once the
reset is over, as nobody else may set it meanwhile (`ResetsApart`).
The refinement theorem uses the same invariant: the only step that reaches
`configured` is `SaveDeviceConfigured`, and there all of `Mandatory` is queued.

`ReleasedLast` needs more of each request (`Posted`): which of the device's profiles and of the shared
ones are still to be posted at each stage, unless the rows could not be read (`unread`), and that no run for a new build ever comes to
`DeviceConfigured`. A second run of the tasks clears the device's profiles again, which would
uncover shared profiles that were shadowed, but for `Cleared`: once `DeviceConfigured` was posted there is
nothing left to clear.

`PinEscrowed` is strengthened to `EscrowInv`: the PIN of every call that is about to
send is in escrow (`CallSound`). Nothing ever leaves escrow, so the steps of other calls
keep it; `SendCommand` then adds a command with an escrowed PIN, `DeviceObeys` moves one.
`NoDuplicate` needs `QueueInv`: what a call has inspected is true of the queue until it sends. The steps of
other calls keep it because they add a command of another type only (`SendsApart`). `OneRecentPin`
needs `PinInv`: while a call is about to insert a PIN there is no recent one.

In ScheduledCheckin, `TypeOK` bounds the queue, and needs `Room`: a message may be added only
while its name is free, and the name becomes free only when there is room.
`FetchedAll` needs what the fetch has done so far (`Fetching`): the devices of the list
that are not left have their row, were refused, or were not decoded. `OneCheckin` needs `Token`: a check-in
runs only while the channel holds its token. `AskedOnce` needs `Asked`: what was asked of a
device in this interval is what the one request of it that is asking has already sent, or it is written
in `last_info_requested`, which needs the row to be there (`HasRow`).

In ProfileSync, types need the shape of a call (`CallShape`: it is about one profile, which
has content in a post). `LeftAlone` says that `Steady` holds after every step but a call of
the API. Its core is `NothingToDo`: where the device has what the tables want, no row is to
be installed and none removed. It needs that a profile on the device has content
(`HasShape`) and that a shared profile that passed the check is still in one of the two lists
(`CheckedShape`), so that nothing is sent when both are empty. `PostedStays` needs
`Working`: what each call has compared with the row of its profile still holds when it acts on it. The steps of the
others are about other identifiers (`OthersWork`), by `CallsApart`. `NoSharedDuplicate` needs
`Dropped`: a shared profile whose rows a call has deleted has none when the call makes the next.

In CommandQueue the invariant has two parts. `OrderInv`: MicroMDM's queue has no UUID twice; after the
final answer of a command, among the events that wait and those that are being handled, no other
answer to it comes (`EventOrder`, `InOrder`), and one goroutine handles it (`OneHandler`). The device answers in
order, so this is true of what waits; of what is handled it is, as long as no answer overtakes the NotNow before it
(`InTurn`). `TableInv` says of every UUID
that it is `Sound`: one that was never given has left no trace, a finished one has nothing to come, one whose
row is still to be made has no row and one goroutine that makes it, and what waits for an answer will get
it or has lost it. `PendingIsOpen` is the last of these; the refinement follows step by step, as only `CreateRow` makes
a row, of a command that is new, and only `UpdateCommand` ends the wait of one.

In EnrollmentProfile, `NotSentAgain` says that `Steady` holds after every step but those of time and of
the operators; it is an invariant under these steps as it stands, given the type of the handler.

In InstallApplications, `InstalledAtEnrollment` needs what a run of the tasks has left (`EnrolmentInv`: of what was
due, a device has all but the `todo` of each run that is going for it and did not read `before`), and that the
table only grows. `PostReaches` needs `PostInv`, about those who have read the table soundly, devices set up and runs
alike: before its save a request has their devices all in its list (`Listed`); after it they have each package it
owes, or it is in the `todo` of the run, or they are left in the request's loop (`Owing`); and what is posted they have
or are about to send (`Reached`). Whoever reads the table later finds the package there.

## 6. What is only model-checked, and what is not modelled

Only model-checked: the liveness properties (`TasksEventuallyRun`,
`EraseEventuallyQueued`, `InfoEventuallyRequested`, `Converges`, `CommandsSettle`, `Renewed`, `Resigned`,
`ProfilesVerifiedOrStuck`); liveness under fairness is beyond the prover. Every invariant and every property
of steps that the passing runs check is a theorem.

Not modelled, and why:

* The posts of packages for single devices: `SaveInstallApplications` asks the table of devices for columns
  of another one and `InstallAppInQueue` asks the commands for a column they do not have, so that nothing is
  saved or pushed and no state changes.
* Gaps of the code that the models have, and the properties therefore name or exclude: only the first
  package of a request is saved for later devices (`install_application.go:184`); a device that reads the
  table between the list and the save of a request gets the package from neither (`between`), and a run that
  outlives an enrolment sets the device up in the next one (`before`); a package, a profile or a command that MicroMDM
  refuses goes for sent (`refused`); an answer that is neither Acknowledged nor Error is forgotten
  (`rejected`); a list of devices that cannot be decoded sets the flag (`missed`); profiles that could not be
  read are not installed before `DeviceConfigured` (`unread`).
* What ends an answer of the device early is modelled, and the liveness properties name it: a certificate
  that cannot be parsed (`certificate.go:42`, a nil certificate is used), `-sign` without a usable
  `-enrollment-profile` (`enrollment_profile.go:120`, every verification ends before the profiles), a signer
  certificate that cannot be parsed (`profile.go:1093`, likewise), and an empty list (`profile.go:900`).
* An `Authenticate` whose reset fails opens no enrolment in Enrollment: the row says what it said before.
* The error of `UpdateDeviceBools` (`device.go:57`): it keeps `UpdateDevice` from running the initial tasks, which an
  error of their first statement does too, with the same state after it (`DatabaseError` at `tasks`).
* In ProfileSync requests of several profiles or devices, with the repeated pushes of
  `profile.go:267`; the renewal of the enrolment profile inside `VerifyMDMProfiles` is in
  EnrollmentProfile, and only its failure is there.
* The time stamps of the answers (`src/types/update_last_recieved.go`): only
  `deviceNeedsPush` reads them, and does not depend on them.
* The pauses between the chunks of `pushAll`, and the clean-up of orphaned certificates and
  profile lists, which nothing reads.
* Parsing and signing of profiles and certificates, metrics, logs, the health check:
  no state that another part reads.
* `RetryCommands`, `UnconfiguredDevices`, `ExpireCommands`, `CommandInQueue`:
  nothing calls them.
* Build versions are numbers in Enrollment; the comparison of versions as strings is
  planned as an operator of its own.
* In EraseLock other commands in the device's queue: `checkForExistingCommand` looks
  only for its own type, and a clearing takes them all.
