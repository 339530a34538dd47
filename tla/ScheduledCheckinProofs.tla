------------------------ MODULE ScheduledCheckinProofs ------------------------
(* Theorems about ScheduledCheckin.                                          *)
EXTENDS ScheduledCheckin, TLAPS

WorkerPCs == Infos \cup {"idle", "read", "stamp"}

\* A goroutine that serves a device has one.
Serving == \A w \in Workers : worker[w].pc # "idle" => worker[w].device # {}

\* The message of this period may be added to the queue of pushes.
Room == \A d \in Devices : d \notin named => pushQueue[d] < MaxBacklog

\* The scheduler's counter while it waits.
Counting == scheduler = "wait" => waits <= WaitLimit

\* The token stands for the check-in that runs.
Token ==
    /\ sem \in {0, 1}
    /\ sem = 0 => \A c \in Checkins : checkin[c].pc = "none"
    /\ OneCheckin

\* The flag is not set before the list is there; the devices of the list the fetch has
\* dealt with have their row or were missed.
Fetching ==
    /\ fetch.pc = "request" => ~fetched
    /\ fetch.pc = "store" => MdmDevices \subseteq known \cup missed \cup fetch.left
    /\ FetchedAll

IInv == TypeOK /\ Serving /\ Room /\ Counting /\ Token /\ Fetching

-----------------------------------------------------------------------------
(* The parts of the state a step leaves alone.                               *)

LEMMA FaultType ==
    ASSUME NEW kind, Fault(kind), faults \in 0..MaxFaults
    PROVE  faults' \in 0..MaxFaults
BY CheckinAssumption DEF Fault

\* The device of a busy worker.
LEMMA DeviceOfBusy ==
    ASSUME TypeOK, Serving, NEW w \in Workers, worker[w].pc # "idle"
    PROVE  /\ DeviceOf(w) \in Devices
           /\ worker[w].device = {DeviceOf(w)}
<1>1. worker[w].device \in {{}} \cup {{d} : d \in Devices}
  BY DEF TypeOK
<1>2. PICK d \in Devices : worker[w].device = {d}
  BY <1>1 DEF Serving
<1>3. \A e \in Devices : worker[w].device = {e} => e = d
  BY <1>2
<1> QED
  BY <1>2, <1>3 DEF DeviceOf

\* Rows are added, never deleted: what refers to them stays well typed.
LEMMA MoreRows ==
    ASSUME TypeOK, known \subseteq known', UNCHANGED checkin
    PROVE  checkin' \in [Checkins -> [pc : {"none", "list", "push", "rest"},
                                      left : SUBSET known']]
BY DEF TypeOK

\* A worker moves to another program counter, or is done.
LEMMA WorkerMoves ==
    ASSUME TypeOK, Serving, NEW w \in Workers, worker[w].pc # "idle",
           \/ Return(w)
           \/ \E pc \in WorkerPCs : Goto(w, pc)
    PROVE  /\ worker' \in [Workers -> [pc : WorkerPCs,
                                       device : {{}} \cup {{d} : d \in Devices}]]
           /\ Serving'
<1>1. worker \in [Workers -> [pc : WorkerPCs, device : {{}} \cup {{d} : d \in Devices}]]
  BY DEF TypeOK, WorkerPCs
<1>2. Started.worker[w] = [pc |-> "idle", device |-> {}]
  BY DEF Started
<1>3. CASE Return(w)
  BY <1>1, <1>2, <1>3 DEF Return, WorkerPCs, Serving
<1>4. ASSUME NEW pc \in WorkerPCs, Goto(w, pc)
      PROVE  /\ worker' \in [Workers -> [pc : WorkerPCs,
                                         device : {{}} \cup {{d} : d \in Devices}]]
             /\ Serving'
  <2>1. worker' = [worker EXCEPT ![w] = [@ EXCEPT !.pc = pc]]
    BY <1>4 DEF Goto
  <2>2. [worker[w] EXCEPT !.pc = pc] \in [pc : WorkerPCs, device : {{}} \cup {{d} : d \in Devices}]
    BY <1>1
  <2>3. [worker[w] EXCEPT !.pc = pc].device = worker[w].device
    BY <1>1
  <2> QED
    BY <1>1, <2>1, <2>2, <2>3 DEF Serving
<1> QED
  BY <1>3, <1>4

-----------------------------------------------------------------------------
(* The invariant.                                                            *)

LEMMA InitIInv == Init => IInv
<1> SUFFICES ASSUME Init PROVE IInv
  OBVIOUS
<1> USE CheckinAssumption DEF Init, Started, NoCheckin
<1>1. worker \in [Workers -> [pc : WorkerPCs, device : {{}} \cup {{d} : d \in Devices}]]
  BY DEF WorkerPCs
<1>2. TypeOK
  <2>1. /\ known \subseteq Devices /\ recent \subseteq known
        /\ missed \subseteq MdmDevices /\ fetched \in BOOLEAN
        /\ scheduler \in {"wait", "loop"} /\ waits \in 0..WaitLimit + 1
        /\ named \subseteq Devices /\ woken \subseteq Devices
        /\ faults \in 0..MaxFaults /\ sem \in Nat
    <3> HIDE DEF Started, NoCheckin
    <3>1. waits = 0 /\ faults = 0 /\ sem = 0
      OBVIOUS
    <3>2. waits \in 0..WaitLimit + 1 /\ faults \in 0..MaxFaults /\ sem \in Nat
      BY <3>1
    <3> QED
      BY <3>2, Zenon
  <2>2. /\ fetch \in [pc : {"request", "store", "over"}, left : SUBSET MdmDevices]
        /\ checkin \in [Checkins -> [pc : {"none", "list", "push", "rest"}, left : SUBSET known]]
    <3>1. fetch = [pc |-> "request", left |-> {}]
      OBVIOUS
    <3>2. checkin = [c \in Checkins |-> [pc |-> "none", left |-> {}]]
      OBVIOUS
    <3> HIDE DEF Init, Started, NoCheckin
    <3> QED
      BY <3>1, <3>2
  <2>3. /\ pushQueue \in [Devices -> 0..MaxBacklog]
        /\ posted \in [Devices -> SUBSET Infos]
    OBVIOUS
  <2> HIDE DEF Init, Started, NoCheckin
  <2> QED
    BY <1>1, <2>1, <2>2, <2>3 DEF TypeOK, WorkerPCs
<1>3. Serving /\ Room /\ Counting
  BY DEF Serving, Room, Counting
<1>4. Token /\ Fetching
  BY DEF Token, OneCheckin, Fetching, FetchedAll
<1> QED
  BY <1>2, <1>3, <1>4 DEF IInv

\* A new process starts from a state the invariant allows.
LEMMA RestartStep ==
    ASSUME IInv, Restart, faults' \in 0..MaxFaults
    PROVE  IInv'
<1> USE CheckinAssumption
<1>1. worker' \in [Workers -> [pc : WorkerPCs, device : {{}} \cup {{d} : d \in Devices}]]
  BY DEF Restart, Started, WorkerPCs
<1>2. checkin' \in [Checkins -> [pc : {"none", "list", "push", "rest"}, left : SUBSET known']]
  BY DEF Restart, Started, NoCheckin
<1>3. pushQueue' \in [Devices -> 0..MaxBacklog] /\ Room'
  BY DEF Restart, IInv, TypeOK, Room
<1>4. TypeOK'
  <2>1. /\ fetch' \in [pc : {"request", "store", "over"}, left : SUBSET MdmDevices]
        /\ missed' = {} /\ fetched' = FALSE /\ scheduler' = "wait"
        /\ waits' \in 0..WaitLimit + 1 /\ sem' \in Nat
        /\ UNCHANGED <<known, recent, named, woken, posted>>
    <3>1. fetch' = [pc |-> "request", left |-> {}]
      BY DEF Restart, Started
    <3>2. fetch' \in [pc : {"request", "store", "over"}, left : SUBSET MdmDevices]
      BY <3>1
    <3> QED
      BY <3>2 DEF Restart, table
  <2> QED
    BY <1>1, <1>2, <1>3, <2>1 DEF IInv, TypeOK, WorkerPCs
<1>5. Serving' /\ Counting'
  BY DEF Restart, Started, Serving, Counting
<1>6. Token' /\ Fetching'
  BY DEF Restart, Started, NoCheckin, Token, OneCheckin, Fetching, FetchedAll
<1> QED
  BY <1>3, <1>4, <1>5, <1>6 DEF IInv

LEMMA FetchStep == ASSUME IInv, FetchDevicesFromMDM PROVE IInv'
<1> USE CheckinAssumption DEF IInv
<1>1. ASSUME FetchDevices PROVE IInv'
  <2>1. faults' \in 0..MaxFaults
    BY <1>1, FaultType DEF FetchDevices, TypeOK
  <2>2. TypeOK'
    BY <1>1, <2>1 DEF FetchDevices, TypeOK, table, rounds, redis, idle
  <2>3. Serving' /\ Room' /\ Counting' /\ Token'
    BY <1>1 DEF FetchDevices, table, rounds, redis, idle, Serving, Room, Counting, Token, OneCheckin
  <2>4. Fetching'
    <3>1. ~fetched /\ fetched' = fetched
      BY <1>1 DEF FetchDevices, Fetching
    <3>2. FetchedAll'
      BY <3>1 DEF FetchedAll
    <3>3. fetch'.pc = "store" => MdmDevices \subseteq (known \cup missed \cup fetch.left)'
      <4>1. CASE fetch' = [pc |-> "store", left |-> MdmDevices]
        BY <4>1
      <4>2. CASE fetch' = [pc |-> "over", left |-> {}]
        BY <4>2
      <4>3. ASSUME NEW decoded \in SUBSET MdmDevices,
                   fetch' = [pc |-> "store", left |-> decoded], missed' = MdmDevices \ decoded
            PROVE  MdmDevices \subseteq (known \cup missed \cup fetch.left)'
        BY <4>3
      <4> QED
        BY <1>1, <4>1, <4>2, <4>3 DEF FetchDevices
    <3> QED
      BY <3>1, <3>2, <3>3 DEF Fetching
  <2> QED
    BY <2>2, <2>3, <2>4
<1>2. ASSUME FetchPanics PROVE IInv'
  BY <1>2, FaultType, RestartStep DEF FetchPanics, TypeOK
<1>3. ASSUME NEW d \in Devices, FirstOrCreate(d) PROVE IInv'
  <2>1. faults' \in 0..MaxFaults
    BY <1>3, FaultType DEF FirstOrCreate, TypeOK
  <2>2. known \subseteq known' /\ UNCHANGED <<checkin, worker>>
    BY <1>3 DEF FirstOrCreate, rounds, idle
  <2>3. fetch' \in [pc : {"request", "store", "over"}, left : SUBSET MdmDevices]
        /\ fetch'.pc = "store" /\ fetch'.left = fetch.left \ {d} /\ d \in MdmDevices
    BY <1>3 DEF FirstOrCreate, TypeOK
  <2>4. TypeOK'
    BY <1>3, <2>1, <2>2, <2>3, MoreRows DEF FirstOrCreate, TypeOK, WorkerPCs, rounds, redis, idle
  <2>5. Serving' /\ Room' /\ Counting' /\ Token'
    BY <1>3 DEF FirstOrCreate, rounds, redis, idle, Serving, Room, Counting, Token, OneCheckin
  <2>6. Fetching'
    BY <1>3, <2>3 DEF FirstOrCreate, Fetching, FetchedAll
  <2> QED
    BY <2>4, <2>5, <2>6
<1>4. ASSUME FinishFetch PROVE IInv'
  <2>1. TypeOK'
    BY <1>4 DEF FinishFetch, TypeOK, table, rounds, redis, idle
  <2>2. Serving' /\ Room' /\ Counting' /\ Token'
    BY <1>4 DEF FinishFetch, table, rounds, redis, idle, Serving, Room, Counting, Token, OneCheckin
  <2>3. Fetching'
    BY <1>4 DEF FinishFetch, TypeOK, table, Fetching, FetchedAll
  <2> QED
    BY <2>1, <2>2, <2>3
<1> QED
  BY <1>1, <1>2, <1>3, <1>4 DEF FetchDevicesFromMDM

LEMMA SchedulerStep ==
    ASSUME IInv, WaitForFetch \/ \E c \in Checkins : StartCheckin(c) \/ ProcessScheduledCheckin(c)
    PROVE  IInv'
<1> USE CheckinAssumption DEF IInv
<1>1. ASSUME WaitForFetch PROVE IInv'
  <2>1. /\ scheduler' \in {"wait", "loop"} /\ waits' \in 0..WaitLimit + 1
        /\ Counting'
    BY <1>1 DEF WaitForFetch, TypeOK, Counting
  <2>2. TypeOK'
    BY <1>1, <2>1 DEF WaitForFetch, TypeOK, table, rounds, redis, idle
  <2>3. Serving' /\ Room' /\ Token' /\ Fetching'
    BY <1>1 DEF WaitForFetch, table, rounds, redis, idle, Serving, Room, Token, OneCheckin,
                Fetching, FetchedAll
  <2> QED
    BY <2>1, <2>2, <2>3
<1>2. ASSUME NEW c \in Checkins, StartCheckin(c) PROVE IInv'
  <2>1. TypeOK'
    BY <1>2 DEF StartCheckin, TypeOK, table, start, redis, idle
  <2>2. Serving' /\ Room' /\ Counting' /\ Fetching'
    BY <1>2 DEF StartCheckin, table, start, redis, idle, Serving, Room, Counting, Fetching, FetchedAll
  <2>3. sem = 0 /\ sem' = 1
    BY <1>2 DEF StartCheckin, Token
  <2>4. \A b \in Checkins : b # c => checkin'[b].pc = "none"
    BY <1>2, <2>3 DEF StartCheckin, Token, TypeOK
  <2> QED
    BY <2>1, <2>2, <2>3, <2>4 DEF Token, OneCheckin
<1>3. ASSUME NEW c \in Checkins, ListDevices(c) PROVE IInv'
  <2>1. faults' \in 0..MaxFaults
    BY <1>3, FaultType DEF ListDevices, TypeOK
  <2>2. TypeOK'
    <3>1. PICK left \in SUBSET known, pc \in {"push", "rest"} :
            checkin' = [checkin EXCEPT ![c] = [pc |-> pc, left |-> left]]
      BY <1>3 DEF ListDevices
    <3>2. checkin' \in [Checkins -> [pc : {"none", "list", "push", "rest"}, left : SUBSET known]]
      BY <3>1 DEF TypeOK
    <3> QED
      BY <1>3, <2>1, <3>2 DEF ListDevices, TypeOK, table, start, redis, idle
  <2>3. Serving' /\ Room' /\ Counting' /\ Fetching'
    BY <1>3 DEF ListDevices, table, start, redis, idle, Serving, Room, Counting, Fetching, FetchedAll
  <2>4. \A b \in Checkins : checkin'[b].pc # "none" => checkin[b].pc # "none"
    BY <1>3 DEF ListDevices, TypeOK
  <2> QED
    BY <1>3, <2>2, <2>3, <2>4 DEF ListDevices, Token, OneCheckin
<1>4. ASSUME NEW c \in Checkins, NEW d \in Devices, AddToQueue(c, d) PROVE IInv'
  <2>1. faults' \in 0..MaxFaults
    BY <1>4, FaultType DEF AddToQueue, TypeOK
  <2>2. checkin' \in [Checkins -> [pc : {"none", "list", "push", "rest"}, left : SUBSET known]]
        /\ \A b \in Checkins : checkin'[b].pc = checkin[b].pc
    BY <1>4 DEF AddToQueue, TypeOK
  <2>3. pushQueue' \in [Devices -> 0..MaxBacklog] /\ named' \subseteq Devices /\ Room'
    <3>1. CASE pushQueue' = pushQueue
      BY <1>4, <3>1 DEF AddToQueue, TypeOK, Room
    <3>2. CASE d \notin named /\ pushQueue' = [pushQueue EXCEPT ![d] = @ + 1]
                 /\ named' = named \cup {d}
      <4>1. pushQueue[d] \in 0..MaxBacklog /\ pushQueue[d] < MaxBacklog
        BY <3>2 DEF TypeOK, Room
      <4>2. pushQueue[d] + 1 \in 0..MaxBacklog
        BY <4>1
      <4> QED
        BY <3>2, <4>2 DEF TypeOK, Room
    <3> QED
      BY <1>4, <3>1, <3>2 DEF AddToQueue
  <2>4. TypeOK'
    BY <1>4, <2>1, <2>2, <2>3 DEF AddToQueue, TypeOK, table, start, idle
  <2>5. Serving' /\ Counting' /\ Fetching'
    BY <1>4 DEF AddToQueue, table, start, idle, Serving, Counting, Fetching, FetchedAll
  <2>6. Token'
    BY <1>4, <2>2 DEF AddToQueue, Token, OneCheckin
  <2> QED
    BY <2>3, <2>4, <2>5, <2>6
<1>5. ASSUME NEW c \in Checkins, FinishPushAll(c) PROVE IInv'
  <2>1. TypeOK' /\ \A b \in Checkins : checkin'[b].pc # "none" => checkin[b].pc # "none"
    BY <1>5 DEF FinishPushAll, TypeOK, table, start, redis, idle
  <2>2. Serving' /\ Room' /\ Counting' /\ Fetching'
    BY <1>5 DEF FinishPushAll, table, start, redis, idle, Serving, Room, Counting, Fetching,
                FetchedAll
  <2> QED
    BY <1>5, <2>1, <2>2 DEF FinishPushAll, Token, OneCheckin
<1>6. ASSUME NEW c \in Checkins, FinishCheckin(c) PROVE IInv'
  <2>1. sem = 1 /\ sem' = 0
    BY <1>6 DEF FinishCheckin, Token
  <2>2. \A b \in Checkins : checkin'[b].pc = "none"
    BY <1>6 DEF FinishCheckin, NoCheckin, Token, OneCheckin, TypeOK
  <2>3. TypeOK'
    BY <1>6, <2>1 DEF FinishCheckin, NoCheckin, TypeOK, table, start, redis, idle
  <2>4. Serving' /\ Room' /\ Counting' /\ Fetching'
    BY <1>6 DEF FinishCheckin, table, start, redis, idle, Serving, Room, Counting, Fetching,
                FetchedAll
  <2> QED
    BY <2>1, <2>2, <2>3, <2>4 DEF Token, OneCheckin
<1> QED
  BY <1>1, <1>2, <1>3, <1>4, <1>5, <1>6 DEF ProcessScheduledCheckin

LEMMA PushStep ==
    ASSUME IInv,
           \/ \E d \in Devices : ConsumePush(d) \/ PushDeviceHandler(d)
           \/ NewPeriod
    PROVE  IInv'
<1> USE CheckinAssumption DEF IInv
<1>1. ASSUME NEW d \in Devices, PushDevice(d)
      PROVE  woken' \subseteq Devices /\ faults' \in 0..MaxFaults
  BY <1>1, FaultType DEF PushDevice, TypeOK
<1>2. ASSUME NEW d \in Devices, ConsumePush(d) PROVE IInv'
  <2>1. pushQueue' \in [Devices -> 0..MaxBacklog] /\ Room'
    BY <1>2 DEF ConsumePush, TypeOK, Room
  <2>2. TypeOK'
    BY <1>1, <1>2, <2>1 DEF ConsumePush, TypeOK, table, start, rounds, idle
  <2>3. Serving' /\ Counting' /\ Token' /\ Fetching'
    BY <1>2 DEF ConsumePush, table, start, rounds, idle, Serving, Counting, Token, OneCheckin,
                Fetching, FetchedAll
  <2> QED
    BY <2>1, <2>2, <2>3
<1>3. ASSUME NEW d \in Devices, PushDeviceHandler(d) PROVE IInv'
  <2>1. TypeOK'
    BY <1>1, <1>3 DEF PushDeviceHandler, TypeOK, table, start, rounds, redis, idle
  <2>2. Serving' /\ Room' /\ Counting' /\ Token' /\ Fetching'
    BY <1>3 DEF PushDeviceHandler, table, start, rounds, redis, idle, Serving, Room, Counting,
                Token, OneCheckin, Fetching, FetchedAll
  <2> QED
    BY <2>1, <2>2
<1>4. ASSUME NewPeriod PROVE IInv'
  <2>1. TypeOK' /\ Room'
    BY <1>4 DEF NewPeriod, TypeOK, Room, table, start, rounds, idle
  <2>2. Serving' /\ Counting' /\ Token' /\ Fetching'
    BY <1>4 DEF NewPeriod, table, start, rounds, idle, Serving, Counting, Token, OneCheckin,
                Fetching, FetchedAll
  <2> QED
    BY <2>1, <2>2
<1> QED
  BY <1>2, <1>3, <1>4

LEMMA DeviceStep ==
    ASSUME IInv,
           \/ \E w \in Workers, d \in Devices : DeviceReports(w, d)
           \/ \E w \in Workers : RequestAllDeviceInfo(w)
           \/ \E d \in Devices : ProcessDeviceConfigured(d) \/ IntervalPasses(d)
    PROVE  IInv'
<1> USE CheckinAssumption DEF IInv
<1>1. ASSUME NEW w \in Workers, NEW d \in Devices, DeviceReports(w, d) PROVE IInv'
  <2>1. known \subseteq known' /\ known' \subseteq Devices /\ faults' \in 0..MaxFaults
    BY <1>1, FaultType DEF DeviceReports, TypeOK
  <2>2. checkin' \in [Checkins -> [pc : {"none", "list", "push", "rest"}, left : SUBSET known']]
    BY <1>1, <2>1, MoreRows DEF DeviceReports, rounds
  <2>3. {d} \in {{}} \cup {{e} : e \in Devices}
    OBVIOUS
  <2>4. worker' \in [Workers -> [pc : WorkerPCs, device : {{}} \cup {{e} : e \in Devices}]]
    BY <1>1, <2>3 DEF DeviceReports, TypeOK, WorkerPCs
  <2>5. TypeOK'
    BY <1>1, <2>1, <2>2, <2>4 DEF DeviceReports, TypeOK, WorkerPCs, start, rounds, redis
  <2>6. Serving'
    BY <1>1 DEF DeviceReports, Serving, TypeOK
  <2>7. Room' /\ Counting' /\ Token' /\ Fetching'
    BY <1>1 DEF DeviceReports, start, rounds, redis, Room, Counting, Token, OneCheckin, Fetching,
                FetchedAll
  <2> QED
    BY <2>5, <2>6, <2>7
<1>2. ASSUME NEW w \in Workers, RequestDeviceUpdate(w) PROVE IInv'
  <2>1. faults' \in 0..MaxFaults
    BY <1>2, FaultType DEF RequestDeviceUpdate, TypeOK
  <2>2. worker[w].pc # "idle" /\ known' = known /\ (Return(w) \/ Goto(w, "ProfileList"))
    BY <1>2 DEF RequestDeviceUpdate, At, table
  <2>3. /\ worker' \in [Workers -> [pc : WorkerPCs, device : {{}} \cup {{d} : d \in Devices}]]
        /\ Serving'
    BY <2>2, WorkerMoves DEF WorkerPCs, Infos
  <2>4. TypeOK'
    BY <1>2, <2>1, <2>3 DEF RequestDeviceUpdate, TypeOK, WorkerPCs, table, start, rounds, redis
  <2>5. Room' /\ Counting' /\ Token' /\ Fetching'
    BY <1>2 DEF RequestDeviceUpdate, table, start, rounds, redis, Room, Counting, Token, OneCheckin,
                Fetching, FetchedAll
  <2> QED
    BY <2>3, <2>4, <2>5
<1>3. ASSUME NEW w \in Workers, NEW info \in Infos, RequestInfo(w, info) PROVE IInv'
  <2>1. faults' \in 0..MaxFaults
    BY <1>3, FaultType DEF RequestInfo, TypeOK
  <2>2. After(info) \in WorkerPCs
    BY DEF After, WorkerPCs, Infos
  <2>3. worker[w].pc # "idle" /\ known' = known /\ (Return(w) \/ Goto(w, After(info)))
    BY <1>3 DEF RequestInfo, At, table, Infos
  <2>4. /\ worker' \in [Workers -> [pc : WorkerPCs, device : {{}} \cup {{d} : d \in Devices}]]
        /\ Serving'
    BY <2>2, <2>3, WorkerMoves
  <2>5. posted' \in [Devices -> SUBSET Infos]
    BY <1>3 DEF RequestInfo, TypeOK
  <2>6. TypeOK'
    BY <1>3, <2>1, <2>4, <2>5 DEF RequestInfo, TypeOK, WorkerPCs, table, start, rounds, redis
  <2>7. Room' /\ Counting' /\ Token' /\ Fetching'
    BY <1>3 DEF RequestInfo, table, start, rounds, redis, Room, Counting, Token, OneCheckin,
                Fetching, FetchedAll
  <2> QED
    BY <2>4, <2>6, <2>7
<1>4. ASSUME NEW w \in Workers, Stamp(w) PROVE IInv'
  <2>1. faults' \in 0..MaxFaults
    BY <1>4, FaultType DEF Stamp, TypeOK
  <2>2. worker[w].pc # "idle" /\ known' = known /\ Return(w)
    BY <1>4 DEF Stamp, At
  <2>3. /\ worker' \in [Workers -> [pc : WorkerPCs, device : {{}} \cup {{d} : d \in Devices}]]
        /\ Serving'
    BY <2>2, WorkerMoves
  <2>4. recent' \subseteq known'
    BY <1>4, <2>2 DEF Stamp, TypeOK
  <2>5. TypeOK'
    BY <1>4, <2>1, <2>3, <2>4 DEF Stamp, TypeOK, WorkerPCs, start, rounds, redis
  <2>6. Room' /\ Counting' /\ Token' /\ Fetching'
    BY <1>4 DEF Stamp, start, rounds, redis, Room, Counting, Token, OneCheckin, Fetching, FetchedAll
  <2> QED
    BY <2>3, <2>5, <2>6
<1>5. ASSUME NEW d \in Devices, ProcessDeviceConfigured(d) PROVE IInv'
  <2>1. TypeOK'
    BY <1>5 DEF ProcessDeviceConfigured, TypeOK, start, rounds, redis, idle
  <2>2. Serving' /\ Room' /\ Counting' /\ Token' /\ Fetching'
    BY <1>5 DEF ProcessDeviceConfigured, start, rounds, redis, idle, Serving, Room, Counting, Token,
                OneCheckin, Fetching, FetchedAll
  <2> QED
    BY <2>1, <2>2
<1>6. ASSUME NEW d \in Devices, IntervalPasses(d) PROVE IInv'
  <2>1. TypeOK'
    BY <1>6 DEF IntervalPasses, TypeOK, start, rounds, redis
  <2>2. Serving' /\ Room' /\ Counting' /\ Token' /\ Fetching'
    BY <1>6 DEF IntervalPasses, start, rounds, redis, Serving, Room, Counting, Token, OneCheckin,
                Fetching, FetchedAll
  <2> QED
    BY <2>1, <2>2
<1> QED
  BY <1>1, <1>2, <1>3, <1>4, <1>5, <1>6 DEF RequestAllDeviceInfo

LEMMA NextIInv == IInv /\ [Next]_vars => IInv'
<1> SUFFICES ASSUME IInv, [Next]_vars PROVE IInv'
  OBVIOUS
<1>1. CASE UNCHANGED vars
  <2>1. TypeOK' /\ Serving' /\ Room'
    BY <1>1 DEF IInv, vars, table, start, rounds, redis, idle, TypeOK, Serving, Room
  <2>2. Counting' /\ Token' /\ Fetching'
    BY <1>1 DEF IInv, vars, table, start, rounds, Counting, Token, OneCheckin, Fetching, FetchedAll
  <2> QED
    BY <2>1, <2>2 DEF IInv
<1>2. CASE Crash
  BY <1>2, FaultType, RestartStep DEF Crash, IInv, TypeOK
<1> QED
  BY <1>1, <1>2, FetchStep, SchedulerStep, PushStep, DeviceStep DEF Next

LEMMA Invariance == Spec => []IInv
BY InitIInv, NextIInv, PTL DEF Spec

-----------------------------------------------------------------------------
(* Requests within the interval, where no two requests of a device are both  *)
(* between the read and the write of last_info_requested.                    *)

\* What RequestAllDeviceInfo has asked for when it has come to pc.
Before(pc) ==
    CASE pc = "ProfileList" -> {}
      [] pc = "SecurityInfo" -> {"ProfileList"}
      [] pc = "DeviceInformation" -> {"ProfileList", "SecurityInfo"}
      [] pc = "CertificateList" -> {"ProfileList", "SecurityInfo", "DeviceInformation"}
      [] pc = "stamp" -> Infos

Asking(w, d) == worker[w].pc \in Infos \cup {"stamp"} /\ worker[w].device = {d}

\* Nothing was asked of a device in this interval, but by the request that is under
\* way, or it says so in last_info_requested.
Asked ==
    faults = 0 =>
      /\ \A w \in Workers, d \in Devices : Asking(w, d) => posted[d] \subseteq Before(worker[w].pc)
      /\ \A d \in Devices :
           d \in recent \/ posted[d] = {} \/ \E w \in Workers : Asking(w, d)

\* With nothing failing, the device a goroutine serves has a row.
HasRow == faults = 0 => \A w \in Workers : worker[w].device \subseteq known

LEMMA BeforeAfter ==
    ASSUME NEW info \in Infos
    PROVE  /\ info \notin Before(info)
           /\ After(info) \in Infos \cup {"stamp"}
           /\ Before(After(info)) = Before(info) \cup {info}
BY DEF Before, After, Infos

LEMMA NoFault ==
    ASSUME NEW kind, Fault(kind), TypeOK PROVE faults' # 0
BY CheckinAssumption DEF Fault, TypeOK

\* A step that leaves the workers and what they asked alone.
LEMMA AskedKept ==
    ASSUME Asked, faults' = 0 => faults = 0, recent \subseteq recent', UNCHANGED <<worker, posted>>
    PROVE  Asked'
BY DEF Asked, Asking

LEMMA AskedDevice ==
    ASSUME IInv, AsksApart, AsksApart', Asked, HasRow,
           \/ \E w \in Workers, d \in Devices : DeviceReports(w, d)
           \/ \E w \in Workers : RequestAllDeviceInfo(w)
           \/ \E d \in Devices : ProcessDeviceConfigured(d) \/ IntervalPasses(d)
    PROVE  Asked'
<1> SUFFICES ASSUME faults' = 0 PROVE Asked'
  BY DEF Asked
<1> USE DEF IInv
<1>1. ASSUME NEW w \in Workers, NEW d \in Devices, DeviceReports(w, d) PROVE Asked'
  <2>1. worker[w].pc = "idle" /\ worker'[w].pc = "read"
        /\ \A v \in Workers : v # w => worker'[v] = worker[v]
    BY <1>1 DEF DeviceReports, At, TypeOK
  <2>2. \A v \in Workers, e \in Devices : Asking(v, e) <=> Asking(v, e)'
    BY <2>1 DEF Asking, Infos
  <2>3. \A v \in Workers, e \in Devices : Asking(v, e) => worker'[v] = worker[v]
    BY <2>1 DEF Asking, Infos
  <2>4. faults = 0 /\ UNCHANGED <<posted, recent>>
    BY <1>1, NoFault DEF DeviceReports
  <2> QED
    BY <2>2, <2>3, <2>4 DEF Asked
<1>2. ASSUME NEW w \in Workers, RequestDeviceUpdate(w) PROVE Asked'
  <2>1. faults = 0 /\ UNCHANGED <<posted, recent>>
        /\ IF DeviceOf(w) \in recent THEN Return(w) ELSE Goto(w, "ProfileList")
    BY <1>2, NoFault DEF RequestDeviceUpdate, table
  <2>2. worker[w].pc = "read" /\ worker[w].pc # "idle"
    BY <1>2 DEF RequestDeviceUpdate, At
  <2>3. DeviceOf(w) \in Devices /\ worker[w].device = {DeviceOf(w)}
    BY <2>2, DeviceOfBusy
  <2>4. \A e \in Devices : ~Asking(w, e)
    BY <2>2 DEF Asking, Infos
  <2>a. \A v \in Workers : v # w => worker'[v] = worker[v]
    BY <2>1 DEF Return, Goto, TypeOK
  <2>b. \A v \in Workers, e \in Devices : v # w => (Asking(v, e)' <=> Asking(v, e))
    BY <2>a DEF Asking
  <2>5. CASE DeviceOf(w) \in recent
    <3>1. worker'[w].pc = "idle"
      BY <2>1, <2>5 DEF Return, Started, TypeOK
    <3>2. \A e \in Devices : ~Asking(w, e)'
      BY <3>1 DEF Asking, Infos
    <3>3. \A v \in Workers, e \in Devices : Asking(v, e)' <=> Asking(v, e)
      BY <2>4, <2>b, <3>2
    <3>4. \A v \in Workers, e \in Devices : Asking(v, e) => worker'[v] = worker[v]
      BY <2>4, <2>a
    <3> QED
      BY <2>1, <3>3, <3>4 DEF Asked
  <2>6. CASE DeviceOf(w) \notin recent
    <3>1. worker'[w].pc = "ProfileList" /\ worker'[w].device = {DeviceOf(w)}
      BY <2>1, <2>3, <2>6 DEF Goto, TypeOK
    <3>2. \A v \in Workers : ~Asking(v, DeviceOf(w))
      BY <2>3, <2>4, <2>a, <3>1 DEF AsksApart, Asking, Infos
    <3>3. posted[DeviceOf(w)] = {}
      BY <2>1, <2>3, <2>6, <3>2 DEF Asked
    <3>4. \A e \in Devices : Asking(w, e)' => e = DeviceOf(w)
      BY <3>1 DEF Asking
    <3>5. ASSUME NEW v \in Workers, NEW e \in Devices, Asking(v, e)'
          PROVE  posted[e] \subseteq Before(worker'[v].pc)
      BY <2>1, <2>a, <2>b, <3>3, <3>4, <3>5 DEF Asked
    <3>6. \A e \in Devices :
            (\E v \in Workers : Asking(v, e)) => \E v \in Workers : Asking(v, e)'
      BY <2>4, <2>b
    <3> QED
      BY <2>1, <3>5, <3>6 DEF Asked
  <2> QED
    BY <2>5, <2>6
<1>3. ASSUME NEW w \in Workers, NEW info \in Infos, RequestInfo(w, info) PROVE Asked'
  <2>1. faults = 0 /\ UNCHANGED recent /\ Goto(w, After(info))
    BY <1>3, NoFault DEF RequestInfo, table
  <2>2. worker[w].pc = info /\ worker[w].pc # "idle"
    BY <1>3 DEF RequestInfo, At, Infos
  <2>3. PICK d \in Devices : d = DeviceOf(w) /\ worker[w].device = {d}
    BY <2>2, DeviceOfBusy
  <2>4. worker'[w].pc = After(info) /\ worker'[w].device = {d}
    BY <2>1, <2>3 DEF Goto, TypeOK
  <2>5. /\ posted'[d] = posted[d] \cup {info}
        /\ \A e \in Devices : e # d => posted'[e] = posted[e]
    BY <1>3, <2>3 DEF RequestInfo, TypeOK
  <2>6. Asking(w, d) /\ Asking(w, d)'
    BY <2>2, <2>3, <2>4, BeforeAfter DEF Asking
  <2>7. posted'[d] \subseteq Before(worker'[w].pc)
    BY <2>1, <2>2, <2>3, <2>4, <2>5, <2>6, BeforeAfter DEF Asked
  <2>8. \A v \in Workers : v # w => worker'[v] = worker[v]
    BY <2>1 DEF Goto, TypeOK
  <2>9. \A v \in Workers : Asking(v, d)' => v = w
    BY <2>6 DEF AsksApart, Asking
  <2>10. \A e \in Devices : Asking(w, e) \/ Asking(w, e)' => e = d
    BY <2>3, <2>4 DEF Asking
  <2>11. \A v \in Workers, e \in Devices : e # d => (Asking(v, e)' <=> Asking(v, e))
    BY <2>8, <2>10 DEF Asking
  <2>12. ASSUME NEW v \in Workers, NEW e \in Devices, Asking(v, e)'
         PROVE  posted'[e] \subseteq Before(worker'[v].pc)
    BY <2>1, <2>5, <2>7, <2>8, <2>9, <2>10, <2>11, <2>12 DEF Asked
  <2>13. \A e \in Devices : e \in recent \/ posted'[e] = {} \/ \E v \in Workers : Asking(v, e)'
    BY <2>1, <2>5, <2>6, <2>11 DEF Asked
  <2> QED
    BY <2>1, <2>12, <2>13 DEF Asked
<1>4. ASSUME NEW w \in Workers, Stamp(w) PROVE Asked'
  <2> DEFINE d == DeviceOf(w)
  <2>1. faults = 0 /\ UNCHANGED <<known, posted>> /\ Return(w)
        /\ recent' = recent \cup (worker[w].device \cap known)
    BY <1>4, NoFault DEF Stamp
  <2>2. worker[w].pc # "idle"
    BY <1>4 DEF Stamp, At
  <2>3. d \in Devices /\ worker[w].device = {d}
    BY <2>2, DeviceOfBusy
  <2>4. worker'[w].pc = "idle" /\ d \in recent'
    BY <2>1, <2>3 DEF Return, Started, TypeOK, HasRow
  <2> HIDE DEF d
  <2>5. \A e \in Devices : Asking(w, e) => e = d
    BY <2>3 DEF Asking
  <2>6. \A e \in Devices : ~Asking(w, e)'
    BY <2>4 DEF Asking, Infos
  <2>7. \A v \in Workers : v # w => worker'[v] = worker[v]
    BY <2>1 DEF Return, TypeOK
  <2>8. \A v \in Workers, e \in Devices : v # w => (Asking(v, e)' <=> Asking(v, e))
    BY <2>7 DEF Asking
  <2>9. ASSUME NEW v \in Workers, NEW e \in Devices, Asking(v, e)'
        PROVE  posted[e] \subseteq Before(worker'[v].pc)
    BY <2>1, <2>6, <2>7, <2>8, <2>9 DEF Asked
  <2>10. \A e \in Devices : e \in recent' \/ posted[e] = {} \/ \E v \in Workers : Asking(v, e)'
    BY <2>1, <2>4, <2>5, <2>8 DEF Asked
  <2> QED
    BY <2>1, <2>9, <2>10 DEF Asked
<1>5. ASSUME NEW d \in Devices, ProcessDeviceConfigured(d) PROVE Asked'
  BY <1>5, AskedKept DEF ProcessDeviceConfigured, idle
<1>6. ASSUME NEW d \in Devices, IntervalPasses(d) PROVE Asked'
  <2>1. faults = 0 /\ UNCHANGED worker /\ recent' = recent \ {d}
    BY <1>6 DEF IntervalPasses
  <2>2. posted'[d] = {} /\ \A e \in Devices : e # d => posted'[e] = posted[e]
    BY <1>6 DEF IntervalPasses, TypeOK
  <2> QED
    BY <2>1, <2>2 DEF Asked, Asking
<1> QED
  BY <1>1, <1>2, <1>3, <1>4, <1>5, <1>6 DEF RequestAllDeviceInfo

LEMMA AskedNext ==
    ASSUME IInv, AsksApart, AsksApart', Asked, HasRow, [Next]_vars PROVE Asked'
<1> SUFFICES ASSUME faults' = 0 PROVE Asked'
  BY DEF Asked
<1>1. \A kind : ~Fault(kind)
  BY NoFault DEF IInv
<1>2. CASE UNCHANGED vars
  BY <1>2, AskedKept DEF vars, table, idle
<1>3. CASE FetchDevicesFromMDM
  BY <1>1, <1>3, AskedKept DEF FetchDevicesFromMDM, FetchDevices, FetchPanics, FirstOrCreate,
                               FinishFetch, table, idle
<1>4. CASE WaitForFetch
  BY <1>4, AskedKept DEF WaitForFetch, table, idle
<1>5. ASSUME NEW c \in Checkins, StartCheckin(c) PROVE Asked'
  BY <1>5, AskedKept DEF StartCheckin, table, idle
<1>6. ASSUME NEW c \in Checkins, ProcessScheduledCheckin(c) PROVE Asked'
  BY <1>1, <1>6, AskedKept DEF ProcessScheduledCheckin, ListDevices, AddToQueue, FinishPushAll,
                               FinishCheckin, table, idle
<1>7. ASSUME NEW d \in Devices, ConsumePush(d) \/ PushDeviceHandler(d) PROVE Asked'
  BY <1>1, <1>7, AskedKept DEF ConsumePush, PushDeviceHandler, PushDevice, table, idle
<1>8. CASE NewPeriod
  BY <1>8, AskedKept DEF NewPeriod, table, idle
<1>9. CASE Crash
  BY <1>1, <1>9 DEF Crash
<1> QED
  BY <1>2, <1>3, <1>4, <1>5, <1>6, <1>7, <1>8, <1>9, AskedDevice DEF Next

LEMMA HasRowNext ==
    ASSUME IInv, HasRow, [Next]_vars PROVE HasRow'
<1> SUFFICES ASSUME faults' = 0 PROVE HasRow'
  BY DEF HasRow
<1>1. \A kind : ~Fault(kind)
  BY NoFault DEF IInv
<1>2. CASE known \subseteq known' /\ (faults' = 0 => faults = 0) /\ UNCHANGED worker
  BY <1>2 DEF HasRow
<1>3. ASSUME NEW w \in Workers, NEW d \in Devices, DeviceReports(w, d) PROVE HasRow'
  <2>1. faults = 0 /\ known' = known \cup {d}
        /\ worker' = [worker EXCEPT ![w] = [pc |-> "read", device |-> {d}]]
    BY <1>1, <1>3 DEF DeviceReports
  <2> QED
    BY <2>1 DEF HasRow, IInv, TypeOK
<1>4. ASSUME NEW w \in Workers, RequestAllDeviceInfo(w) PROVE HasRow'
  <2>1. faults = 0 /\ known' = known /\ (Return(w) \/ \E pc : Goto(w, pc))
    BY <1>1, <1>4 DEF RequestAllDeviceInfo, RequestDeviceUpdate, RequestInfo, Stamp, table
  <2>2. \A v \in Workers : worker'[v].device \subseteq worker[v].device
    BY <2>1 DEF Return, Goto, Started, IInv, TypeOK
  <2> QED
    BY <2>1, <2>2 DEF HasRow
<1>5. CASE FetchDevicesFromMDM
  BY <1>1, <1>2, <1>5 DEF FetchDevicesFromMDM, FetchDevices, FetchPanics, FirstOrCreate,
                          FinishFetch, table, idle
<1>6. ASSUME NEW c \in Checkins, StartCheckin(c) \/ ProcessScheduledCheckin(c) PROVE HasRow'
  BY <1>1, <1>2, <1>6 DEF StartCheckin, ProcessScheduledCheckin, ListDevices, AddToQueue,
                          FinishPushAll, FinishCheckin, table, idle
<1>7. ASSUME NEW d \in Devices,
             ConsumePush(d) \/ PushDeviceHandler(d) \/ ProcessDeviceConfigured(d) \/ IntervalPasses(d)
      PROVE  HasRow'
  BY <1>1, <1>2, <1>7 DEF ConsumePush, PushDeviceHandler, PushDevice, ProcessDeviceConfigured,
                          IntervalPasses, table, idle
<1>8. CASE WaitForFetch \/ NewPeriod \/ UNCHANGED vars
  BY <1>2, <1>8 DEF WaitForFetch, NewPeriod, vars, table, idle
<1>9. CASE Crash
  BY <1>1, <1>9 DEF Crash
<1> QED
  BY <1>3, <1>4, <1>5, <1>6, <1>7, <1>8, <1>9 DEF Next

LEMMA AskedInit == Init => Asked /\ HasRow
BY DEF Init, Asked, HasRow, Asking, Started, Infos

-----------------------------------------------------------------------------
(* The theorems.                                                             *)

\* Every variable keeps to its type, and the queue of pushes to its bound: a message
\* is added once in a period for each device.
THEOREM TypeCorrect == Spec => []TypeOK
<1>1. IInv => TypeOK
  BY DEF IInv
<1> QED
  BY <1>1, Invariance, PTL

\* DevicesFetchedFromMDM is never set before the rows are there of all the devices whose
\* row was neither refused by the database nor withheld by an answer that could not be
\* decoded, however often the process dies and whatever requests are served meanwhile.
THEOREM FetchedMeansStored == Spec => []FetchedAll
<1>1. IInv => FetchedAll
  BY DEF IInv, Fetching
<1> QED
  BY <1>1, Invariance, PTL

\* Check-ins never overlap, for any number of goroutines.
THEOREM NoOverlap == Spec => []OneCheckin
<1>1. IInv => OneCheckin
  BY DEF IInv, Token
<1> QED
  BY <1>1, Invariance, PTL

\* With nothing failing and no two requests of a device both between the read and the
\* write of last_info_requested, no information is requested twice within
\* info-request-interval, for any number of devices and of goroutines.
THEOREM AskedOnce == Spec /\ []AsksApart => []InfoOncePerInterval
<1>1. IInv /\ Asked => InfoOncePerInterval
  <2> SUFFICES ASSUME IInv, Asked, faults = 0, NEW w \in Workers, worker[w].pc \in Infos
               PROVE  worker[w].pc \notin posted[DeviceOf(w)]
    BY DEF InfoOncePerInterval
  <2>1. worker[w].pc # "idle"
    BY DEF Infos
  <2>2. DeviceOf(w) \in Devices /\ worker[w].device = {DeviceOf(w)}
    BY <2>1, DeviceOfBusy DEF IInv
  <2>3. Asking(w, DeviceOf(w))
    BY <2>2 DEF Asking
  <2> QED
    BY <2>2, <2>3, BeforeAfter DEF Asked
<1>2. IInv /\ AsksApart /\ AsksApart' /\ Asked /\ HasRow /\ [Next]_vars => Asked' /\ HasRow'
  BY AskedNext, HasRowNext
<1> QED
  BY <1>1, <1>2, AskedInit, Invariance, PTL DEF Spec

\* Requests that are served one at a time do not overlap in that way.
LEMMA OneByOneIsApart == ASSUME \A v, w \in Workers : v = w PROVE Spec => []AsksApart
<1>1. AsksApart
  BY DEF AsksApart
<1> QED
  BY <1>1, PTL
=============================================================================
