--------------------------- MODULE ScheduledCheckin ---------------------------
(***************************************************************************)
(* How mdmdirector keeps hearing from its devices: the fetch of MicroMDM's  *)
(* device list at start-up, the endless scheduled check-in, the queue of    *)
(* pushes in Redis with its consumer, and the information it requests from  *)
(* a device that reports to be idle.                                        *)
(*                                                                          *)
(* The devices are set up (module Enrollment) and neither to be locked nor  *)
(* to be erased (module EraseLock).  The fetch, the scheduler, each         *)
(* check-in, the consumer and each webhook request are goroutines.          *)
(***************************************************************************)
EXTENDS Naturals, FiniteSets

CONSTANTS
    Devices,      \* UDIDs
    MdmDevices,   \* the devices in MicroMDM's list
    Workers,      \* goroutines that serve the webhook
    Checkins,     \* goroutines that process a check-in
    WaitLimit,    \* bound: the scheduler waits this often, and once more (10)
    MaxBacklog,   \* bound: messages of a device in the queue of pushes
    FaultKinds,   \* the faults that may happen
    MaxFaults     \* bound: how many of them

ASSUME CheckinAssumption ==
    /\ MdmDevices \subseteq Devices
    /\ WaitLimit \in Nat
    /\ MaxBacklog \in Nat \ {0}
    /\ MaxFaults \in Nat
    /\ FaultKinds \subseteq {"fetch", "failed", "database", "redis", "crash"}

\* What RequestAllDeviceInfo asks for, in its order.
Infos == {"ProfileList", "SecurityInfo", "DeviceInformation", "CertificateList"}

After(info) ==
    CASE info = "ProfileList" -> "SecurityInfo"
      [] info = "SecurityInfo" -> "DeviceInformation"
      [] info = "DeviceInformation" -> "CertificateList"
      [] info = "CertificateList" -> "stamp"

VARIABLES
    known,      \* the devices with a row in table devices
    recent,     \* those whose last_info_requested is within info-request-interval
    fetch,      \* the goroutine of FetchDevicesFromMDM: where it is, what is left
    missed,     \* ghost: the devices it could not read, or not write the row of
    fetched,    \* DevicesFetchedFromMDM
    scheduler,  \* "wait" or "loop"
    waits,      \* ScheduledCheckin's counter
    sem,        \* how many tokens are in its channel
    checkin,    \* the goroutines that process a check-in
    pushQueue,  \* messages in the queue of pushes, per device
    named,      \* the devices whose message of this period was given its name
    woken,      \* the devices that have a push waiting
    worker,     \* the goroutines that serve an idle device
    posted,     \* ghost: what was requested of a device in this interval
    faults      \* how many faults have happened

table == <<known, recent>>
start == <<fetch, missed, fetched, scheduler, waits>>
rounds == <<sem, checkin>>
redis == <<pushQueue, named>>
idle  == <<worker, posted>>
vars  == <<table, start, rounds, redis, woken, idle, faults>>

NoCheckin == [pc |-> "none", left |-> {}]

-----------------------------------------------------------------------------
\* What is in memory when the process has just started.
Started ==
    [fetch |-> [pc |-> "request", left |-> {}],
     checkin |-> [c \in Checkins |-> NoCheckin],
     worker |-> [w \in Workers |-> [pc |-> "idle", device |-> {}]]]

Init ==
    /\ known \in SUBSET Devices
    /\ recent = {}
    /\ fetch = Started.fetch /\ missed = {} /\ fetched = FALSE
    /\ scheduler = "wait" /\ waits = 0
    /\ sem = 0 /\ checkin = Started.checkin
    /\ pushQueue = [d \in Devices |-> 0]
    /\ named = {}
    /\ woken = {}
    /\ worker = Started.worker
    /\ posted = [d \in Devices |-> {}]
    /\ faults = 0

Fault(kind) ==
    /\ kind \in FaultKinds
    /\ faults < MaxFaults
    /\ faults' = faults + 1

\* The process dies and main starts again; it purges the queue of pushes, and
\* only logs when that fails.  The names of the messages stay in Redis.
Restart ==
    /\ fetch' = Started.fetch /\ missed' = {} /\ fetched' = FALSE
    /\ scheduler' = "wait" /\ waits' = 0
    /\ sem' = 0 /\ checkin' = Started.checkin
    /\ pushQueue' \in {pushQueue, [d \in Devices |-> 0]}
    /\ worker' = Started.worker
    /\ UNCHANGED <<table, named, woken, posted>>

Crash == Fault("crash") /\ Restart

-----------------------------------------------------------------------------
(* FetchDevicesFromMDM.                                                     *)

\* Mutant: the flag is set when the list is there.
FetchDevicesEarlyFlag ==
    /\ fetch.pc = "request"
    /\ fetch' = [pc |-> "store", left |-> MdmDevices]
    /\ fetched' = TRUE
    /\ UNCHANGED <<table, missed, scheduler, waits, rounds, redis, woken, idle, faults>>

\* The request for the list.  An error answer ends the goroutine for good, and the
\* flag stays as it is.  The error of a body that cannot be read or decoded is only
\* logged, and the loop runs over what there is, if anything.
FetchDevices ==
    /\ fetch.pc = "request"
    /\ \/ /\ fetch' = [pc |-> "store", left |-> MdmDevices]
          /\ UNCHANGED <<missed, faults>>
       \/ /\ fetch' = [pc |-> "over", left |-> {}]
          /\ UNCHANGED missed /\ Fault("fetch")
       \/ \E decoded \in SUBSET MdmDevices :
            /\ fetch' = [pc |-> "store", left |-> decoded]
            /\ missed' = MdmDevices \ decoded /\ Fault("fetch")
    /\ UNCHANGED <<table, fetched, scheduler, waits, rounds, redis, woken, idle>>

\* No answer: the response that is used next is nil, and the process dies.
FetchPanics ==
    /\ fetch.pc = "request"
    /\ Fault("fetch")
    /\ Restart

\* A row for a device that has none; an error is logged and the next one follows.
FirstOrCreate(d) ==
    /\ fetch.pc = "store" /\ d \in fetch.left
    /\ fetch' = [fetch EXCEPT !.left = @ \ {d}]
    /\ \/ known' = known \cup {d} /\ UNCHANGED <<missed, faults>>
       \/ missed' = missed \cup {d} /\ UNCHANGED known /\ Fault("database")
    /\ UNCHANGED <<recent, fetched, scheduler, waits, rounds, redis, woken, idle>>

FinishFetch ==
    /\ fetch.pc = "store" /\ fetch.left = {}
    /\ fetch' = [fetch EXCEPT !.pc = "over"]
    /\ fetched' = TRUE
    /\ UNCHANGED <<table, missed, scheduler, waits, rounds, redis, woken, idle, faults>>

FetchDevicesFromMDM ==
    \/ FetchDevices
    \/ FetchPanics
    \/ \E d \in Devices : FirstOrCreate(d)
    \/ FinishFetch

-----------------------------------------------------------------------------
(* ScheduledCheckin.                                                        *)

\* Mutant: the scheduler waits until the flag is set.
WaitForFetchForEver ==
    /\ scheduler = "wait"
    /\ IF fetched
         THEN scheduler' = "loop" /\ UNCHANGED waits
         ELSE UNCHANGED <<scheduler, waits>>
    /\ UNCHANGED <<table, fetch, missed, fetched, rounds, redis, woken, idle, faults>>

\* One turn of the first loop.  Nothing orders the read of the flag after the write
\* in the other goroutine, so that it may see the old value.
WaitForFetch ==
    /\ scheduler = "wait"
    /\ \E seen \in {fetched, FALSE} :
         IF seen
           THEN scheduler' = "loop" /\ UNCHANGED waits
           ELSE /\ waits' = waits + 1
                /\ scheduler' = IF waits' > WaitLimit THEN "loop" ELSE "wait"
    /\ UNCHANGED <<table, fetch, missed, fetched, rounds, redis, woken, idle, faults>>

\* Mutant: the channel has room for two.
StartCheckinTwo(c) ==
    /\ scheduler = "loop" /\ sem < 2
    /\ checkin[c].pc = "none"
    /\ sem' = sem + 1
    /\ checkin' = [checkin EXCEPT ![c] = [pc |-> "list", left |-> {}]]
    /\ UNCHANGED <<table, start, redis, woken, idle, faults>>

\* The second loop: a token into the channel, which has room for one, and a goroutine.
StartCheckin(c) ==
    /\ scheduler = "loop" /\ sem < 1
    /\ checkin[c].pc = "none"
    /\ sem' = sem + 1
    /\ checkin' = [checkin EXCEPT ![c] = [pc |-> "list", left |-> {}]]
    /\ UNCHANGED <<table, start, redis, woken, idle, faults>>

\* pushAll: every row.  deviceNeedsPush says no only before next_push, which is never
\* set to a time to come.  An error of the query ends the check-in.
ListDevices(c) ==
    /\ checkin[c].pc = "list"
    /\ \/ /\ checkin' = [checkin EXCEPT ![c] = [pc |-> "push", left |-> known]]
          /\ UNCHANGED faults
       \/ /\ checkin' = [checkin EXCEPT ![c] = [pc |-> "rest", left |-> {}]]
          /\ Fault("database")
    /\ UNCHANGED <<table, start, sem, redis, woken, idle>>

\* Mutant: the message is given no name.
AddToQueueAlways(c, d) ==
    /\ checkin[c].pc = "push" /\ d \in checkin[c].left
    /\ checkin' = [checkin EXCEPT ![c].left = @ \ {d}]
    /\ pushQueue' = [pushQueue EXCEPT ![d] = @ + 1]
    /\ UNCHANGED <<table, start, sem, named, woken, idle, faults>>

\* pushAll: a message at most once in a period.  When Redis fails, the name may
\* have been taken already.
AddToQueue(c, d) ==
    /\ checkin[c].pc = "push" /\ d \in checkin[c].left
    /\ checkin' = [checkin EXCEPT ![c].left = @ \ {d}]
    /\ \/ /\ named' = named \cup {d}
          /\ pushQueue' = IF d \in named THEN pushQueue ELSE [pushQueue EXCEPT ![d] = @ + 1]
          /\ UNCHANGED faults
       \/ /\ named' \in {named, named \cup {d}}
          /\ UNCHANGED pushQueue
          /\ Fault("redis")
    /\ UNCHANGED <<table, start, sem, woken, idle>>

\* The clean-up after pushAll touches other tables.
FinishPushAll(c) ==
    /\ checkin[c].pc = "push" /\ checkin[c].left = {}
    /\ checkin' = [checkin EXCEPT ![c].pc = "rest"]
    /\ UNCHANGED <<table, start, sem, redis, woken, idle, faults>>

\* At least a minute is over; the token is taken out of the channel.
FinishCheckin(c) ==
    /\ checkin[c].pc = "rest"
    /\ sem' = sem - 1
    /\ checkin' = [checkin EXCEPT ![c] = NoCheckin]
    /\ UNCHANGED <<table, start, redis, woken, idle, faults>>

ProcessScheduledCheckin(c) ==
    \/ ListDevices(c)
    \/ \E d \in Devices : AddToQueue(c, d)
    \/ FinishPushAll(c)
    \/ FinishCheckin(c)

\* PushDevice: with no answer the push may be on its way or not.
PushDevice(d) ==
    \/ woken' = woken \cup {d} /\ UNCHANGED faults
    \/ woken' \in {woken, woken \cup {d}} /\ Fault("failed")

\* The consumer of the queue.  The error of a push is logged, and the message is gone.
ConsumePush(d) ==
    /\ pushQueue[d] > 0
    /\ pushQueue' = [pushQueue EXCEPT ![d] = @ - 1]
    /\ PushDevice(d)
    /\ UNCHANGED <<table, start, rounds, named, idle>>

\* The API's push.
PushDeviceHandler(d) ==
    /\ PushDevice(d)
    /\ UNCHANGED <<table, start, rounds, redis, idle>>

\* The next period of once-in begins: a message gets another name.
NewPeriod ==
    /\ \A d \in Devices : pushQueue[d] < MaxBacklog
    /\ named' = {}
    /\ UNCHANGED <<table, start, rounds, pushQueue, woken, idle, faults>>

-----------------------------------------------------------------------------
(* The idle device.                                                         *)

Goto(w, pc) == worker' = [worker EXCEPT ![w].pc = pc]

Return(w) == worker' = [worker EXCEPT ![w] = Started.worker[w]]

At(w, pc) == worker[w].pc = pc

\* The device of a worker that is busy.
DeviceOf(w) == CHOOSE d \in Devices : worker[w].device = {d}

\* A device reports to be idle, pushed or not; UpdateDevice makes its row, and the
\* request goes on when it cannot.
DeviceReports(w, d) ==
    /\ At(w, "idle")
    /\ worker' = [worker EXCEPT ![w] = [pc |-> "read", device |-> {d}]]
    /\ \/ known' = known \cup {d} /\ UNCHANGED faults
       \/ UNCHANGED known /\ Fault("database")
    /\ woken' = woken \ {d}
    /\ UNCHANGED <<recent, start, rounds, redis, posted>>

\* Mutant: last_info_requested is not looked at.
RequestDeviceUpdateAlways(w) ==
    /\ At(w, "read")
    /\ Goto(w, "ProfileList")
    /\ UNCHANGED <<table, start, rounds, redis, woken, posted, faults>>

\* RequestDeviceUpdate reads last_info_requested.  After an error, which is only
\* logged, it is the zero time, which is long ago.
RequestDeviceUpdate(w) ==
    /\ At(w, "read")
    /\ \/ /\ IF DeviceOf(w) \in recent THEN Return(w) ELSE Goto(w, "ProfileList")
          /\ UNCHANGED faults
       \/ /\ Goto(w, "ProfileList")
          /\ Fault("database")
    /\ UNCHANGED <<table, start, rounds, redis, woken, posted>>

\* RequestAllDeviceInfo: one of the four requests; an error ends the call.
RequestInfo(w, info) ==
    /\ At(w, info)
    /\ posted' = [posted EXCEPT ![DeviceOf(w)] = @ \cup {info}]
    /\ \/ Goto(w, After(info)) /\ UNCHANGED faults
       \/ Return(w) /\ Fault("failed")
    /\ UNCHANGED <<table, start, rounds, redis, woken>>

\* RequestAllDeviceInfo: last_info_requested is now, if there is a row to update.
Stamp(w) ==
    /\ At(w, "stamp")
    /\ Return(w)
    /\ \/ recent' = recent \cup (worker[w].device \cap known) /\ UNCHANGED faults
       \/ UNCHANGED recent /\ Fault("database")
    /\ UNCHANGED <<known, start, rounds, redis, woken, posted>>

RequestAllDeviceInfo(w) ==
    \/ RequestDeviceUpdate(w)
    \/ \E info \in Infos : RequestInfo(w, info)
    \/ Stamp(w)

\* The end of the initial tasks of a device writes last_info_requested too.
ProcessDeviceConfigured(d) ==
    /\ d \in known
    /\ recent' = recent \cup {d}
    /\ UNCHANGED <<known, start, rounds, redis, woken, idle, faults>>

\* info-request-interval has passed since last_info_requested.
IntervalPasses(d) ==
    /\ d \in recent
    /\ recent' = recent \ {d}
    /\ posted' = [posted EXCEPT ![d] = {}]
    /\ UNCHANGED <<known, start, rounds, redis, woken, worker, faults>>

-----------------------------------------------------------------------------
Next ==
    \/ FetchDevicesFromMDM
    \/ WaitForFetch
    \/ \E c \in Checkins : StartCheckin(c)
    \/ \E c \in Checkins : ProcessScheduledCheckin(c)
    \/ \E d \in Devices : ConsumePush(d)
    \/ \E d \in Devices : PushDeviceHandler(d)
    \/ NewPeriod
    \/ \E w \in Workers, d \in Devices : DeviceReports(w, d)
    \/ \E w \in Workers : RequestAllDeviceInfo(w)
    \/ \E d \in Devices : ProcessDeviceConfigured(d)
    \/ \E d \in Devices : IntervalPasses(d)
    \/ Crash

Spec == Init /\ [][Next]_vars

\* Every goroutine goes on, time passes, and a device that has a push waiting reports.
FairSpec ==
    /\ Spec
    /\ WF_vars(WaitForFetch)
    /\ WF_vars(\E c \in Checkins : StartCheckin(c))
    /\ \A c \in Checkins : WF_vars(ProcessScheduledCheckin(c))
    /\ \A d \in Devices : WF_vars(ConsumePush(d))
    /\ WF_vars(NewPeriod)
    /\ \A d \in Devices : SF_vars(\E w \in Workers : d \in woken /\ DeviceReports(w, d))
    /\ \A w \in Workers : WF_vars(RequestAllDeviceInfo(w))

-----------------------------------------------------------------------------
(* Properties.                                                              *)

TypeOK ==
    /\ known \subseteq Devices /\ recent \subseteq known
    /\ fetch \in [pc : {"request", "store", "over"}, left : SUBSET MdmDevices]
    /\ missed \subseteq MdmDevices /\ fetched \in BOOLEAN
    /\ scheduler \in {"wait", "loop"} /\ waits \in 0..WaitLimit + 1
    /\ sem \in Nat
    /\ checkin \in [Checkins -> [pc : {"none", "list", "push", "rest"}, left : SUBSET known]]
    /\ pushQueue \in [Devices -> 0..MaxBacklog]
    /\ named \subseteq Devices /\ woken \subseteq Devices
    /\ worker \in [Workers -> [pc : Infos \cup {"idle", "read", "stamp"},
                               device : {{}} \cup {{d} : d \in Devices}]]
    /\ posted \in [Devices -> SUBSET Infos]
    /\ faults \in 0..MaxFaults

\* The flag the scheduler waits for says what it is read as: every device of
\* MicroMDM's list has a row, but for those whose row the database refused or that an
\* answer which could not be decoded withheld, even when requests of devices are served
\* meanwhile and the process dies.
FetchedAll == fetched => MdmDevices \subseteq known \cup missed

\* The channel lets one check-in run at a time: the goroutines the endless loop
\* starts never overlap.
OneCheckin == \A b, c \in Checkins : checkin[b].pc # "none" /\ checkin[c].pc # "none" => b = c

\* The overlap that does harm: two requests of a device are both between the look at its
\* last_info_requested and the write of it.
AsksApart ==
    \A v, w \in Workers :
      /\ worker[v].pc \in Infos \cup {"stamp"} /\ worker[w].pc \in Infos \cup {"stamp"}
      /\ worker[v].device = worker[w].device
      => v = w

\* README, info-request-interval: with nothing failing, no information is requested of
\* a device twice within the interval.
InfoOncePerInterval ==
    faults = 0 =>
      \A w \in Workers : worker[w].pc \in Infos => worker[w].pc \notin posted[DeviceOf(w)]

\* A device that was not asked lately is asked sooner or later for its information,
\* all of it: in spite of a fetch that fails or brings the process down, of lost
\* pushes, aborted requests and crashes.
InfoEventuallyRequested ==
    \A d \in Devices : (d \in known /\ d \notin recent) ~> (d \in recent)

=============================================================================
