--------------------------- MODULE EnrollmentProofs ---------------------------
(* Theorems about Enrollment.                                               *)
EXTENDS Enrollment, TLAPS

-----------------------------------------------------------------------------
(* The records workers are made of.                                         *)

LEMMA IdleType == IdleWorker \in WorkerStates
BY DEF IdleWorker, WorkerStates, NoEvent, NoSnapshot, Snapshots, ProgramCounters, Jobs

LEMMA RespondType ==
    ASSUME NEW s \in WorkerStates PROVE Respond(s) \in WorkerStates
<1> DEFINE t == [s EXCEPT !.pc = "find", !.nested = TRUE, !.second = FALSE,
                          !.job = "none", !.left = {}, !.skip = {}]
<1>1. t \in WorkerStates
  BY DEF WorkerStates, ProgramCounters, Jobs
<1> QED
  BY <1>1, IdleType DEF Respond

LEMMA AfterUpdateType ==
    ASSUME NEW s \in WorkerStates PROVE AfterUpdate(s) \in WorkerStates
<1>1. [s EXCEPT !.pc = "tasks", !.job = "outer", !.left = {}, !.skip = {}] \in WorkerStates
  BY DEF WorkerStates, ProgramCounters, Jobs
<1>2. [s EXCEPT !.pc = "build", !.job = "none", !.left = {}, !.skip = {}] \in WorkerStates
  BY DEF WorkerStates, ProgramCounters, Jobs
<1> QED
  BY <1>1, <1>2, IdleType, RespondType DEF AfterUpdate

LEMMA AfterJobType ==
    ASSUME NEW s \in WorkerStates PROVE AfterJob(s) \in WorkerStates
BY IdleType, RespondType, AfterUpdateType DEF AfterJob

LEMMA AfterWriteType ==
    ASSUME NEW s \in WorkerStates PROVE AfterWrite(s) \in WorkerStates
<1>1. [s EXCEPT !.pc = "find", !.second = TRUE] \in WorkerStates
  BY DEF WorkerStates, ProgramCounters
<1>2. [s EXCEPT !.pc = "tasks", !.job = "inner"] \in WorkerStates
  BY DEF WorkerStates, ProgramCounters, Jobs
<1> QED
  BY <1>1, <1>2, AfterUpdateType DEF AfterWrite

LEMMA AfterErrorType ==
    ASSUME NEW s \in WorkerStates PROVE AfterError(s) \in WorkerStates
<1>1. [s EXCEPT !.pc = "find"] \in WorkerStates
  BY DEF WorkerStates, ProgramCounters
<1>2. [s EXCEPT !.pc = "find", !.force = TRUE] \in WorkerStates
  BY DEF WorkerStates, ProgramCounters
<1>3. [s EXCEPT !.snap = NoSnapshot] \in WorkerStates
  BY DEF WorkerStates, NoSnapshot, Snapshots
<1>4. [s EXCEPT !.left = {}] \in WorkerStates
  BY DEF WorkerStates
<1> QED
  BY <1>1, <1>2, <1>3, <1>4, AfterWriteType, AfterUpdateType, AfterJobType, RespondType
     DEF AfterError

LEMMA GotoType ==
    ASSUME worker \in [Workers -> WorkerStates], NEW w \in Workers,
           NEW s \in WorkerStates, Goto(w, s)
    PROVE  worker' \in [Workers -> WorkerStates]
BY DEF Goto

\* SendCommand keeps the types, and grows both ghost sets by at most c.
LEMMA SendCommandStep ==
    ASSUME TypeOK, NEW c \in Commands, NEW err \in BOOLEAN, SendCommand(c, err)
    PROVE  /\ faults' \in 0..MaxFaults
           /\ tried' \in SUBSET Commands
           /\ queued' \in SUBSET Commands
           /\ queued \subseteq queued'
           /\ queued' \subseteq queued \cup {c}
           /\ (~err /\ "refused" \notin FaultKinds) => c \in queued'
BY EnrollmentAssumption DEF TypeOK, SendCommand, Fault

LEMMA PayloadType ==
    ASSUME NEW s \in WorkerStates PROVE Payload(s).build \in Builds
<1>1. NoEvent.build \in Builds
  BY EnrollmentAssumption DEF NoEvent, Builds
<1>2. \A e \in Events : e.build \in Builds
  <2> SUFFICES ASSUME NEW e \in Events PROVE e.build \in Builds
    OBVIOUS
  <2>1. e.build \in Builds \/ e.build = 0
    BY DEF Events
  <2> QED
    BY <2>1, EnrollmentAssumption DEF Builds
<1>3. s.event \in Events \cup {NoEvent}
  BY DEF WorkerStates
<1> QED
  BY <1>1, <1>2, <1>3 DEF Payload

-----------------------------------------------------------------------------
(* Types.                                                                   *)

LEMMA TypeInit == Init => TypeOK
<1> SUFFICES ASSUME Init PROVE TypeOK
  OBVIOUS
<1>1. row \in Rows
  <2>1. CASE row = NoRow
    BY <2>1, EnrollmentAssumption DEF NoRow, Rows, Builds
  <2>2. CASE row \in KnownRows
    <3>1. PICK done \in BOOLEAN, build \in Builds :
            row = [exists |-> TRUE, auth |-> done, token |-> done, tasksRun |-> done,
                   build |-> build]
      BY <2>2 DEF KnownRows
    <3> QED
      BY <3>1 DEF Rows
  <2> QED
    BY <2>1, <2>2 DEF Init
<1>2. deviceProfiles \in [Profiles -> ProfileRow]
  BY DEF Init, ProfileRow
<1>3. faults \in 0..MaxFaults
  BY EnrollmentAssumption DEF Init
<1> QED
  BY <1>1, <1>2, <1>3, IdleType, EnrollmentAssumption DEF Init, TypeOK

\* ClearCommands leaves a device_profiles table.
LEMMA ClearedType ==
    ASSUME deviceProfiles \in [Profiles -> ProfileRow]
    PROVE  ClearedProfiles \in [Profiles -> ProfileRow]
BY DEF ClearedProfiles, ProfileRow

\* The steps of a worker that only move it.
LEMMA MoveType ==
    ASSUME TypeOK, NEW w \in Workers, NEW s \in WorkerStates, Goto(w, s),
           faults' \in 0..MaxFaults, unread' \in BOOLEAN,
           UNCHANGED <<row, deviceProfiles, fetched, tried, queued, enrolled>>
    PROVE  TypeOK'
BY GotoType DEF TypeOK

\* A fault is counted.
LEMMA FaultType ==
    ASSUME TypeOK, NEW kind, Fault(kind) PROVE faults' \in 0..MaxFaults /\ faults' # 0
<1>1. faults \in Nat /\ faults <= MaxFaults /\ MaxFaults \in Nat
  BY EnrollmentAssumption DEF TypeOK
<1> QED
  BY <1>1 DEF Fault

\* The steps of a worker that send a command.
LEMMA SendType ==
    ASSUME TypeOK, NEW w \in Workers, NEW s \in WorkerStates, Goto(w, s),
           NEW c \in Commands, NEW err \in BOOLEAN, SendCommand(c, err),
           UNCHANGED <<row, deviceProfiles, fetched, enrolled, unread>>
    PROVE  TypeOK'
BY GotoType, SendCommandStep DEF TypeOK

LEMMA WriteDeviceType ==
    ASSUME TypeOK, NEW w \in Workers, WriteDevice(w) PROVE TypeOK'
<1> DEFINE s == worker[w]
           build == Payload(s).build
           newer == row.tasksRun /\ row.build # 0 /\ build > row.build
           t == [s EXCEPT !.upgraded = @ \/ newer]
<1>1. s \in WorkerStates
  BY DEF TypeOK
<1>2. build \in Builds
  BY <1>1, PayloadType
<1>3. row' \in Rows
  BY <1>2, EnrollmentAssumption DEF WriteDevice, TypeOK, Rows, NoRow, Builds
<1>4. t \in WorkerStates
  BY <1>1 DEF WorkerStates, TypeOK, Rows
<1>5. AfterWrite(t) \in WorkerStates
  BY <1>4, AfterWriteType
<1>6. Goto(w, AfterWrite(t))
  BY DEF WriteDevice
<1> QED
  BY <1>3, <1>5, <1>6, GotoType DEF WriteDevice, TypeOK

LEMMA HandleType ==
    ASSUME TypeOK, NEW w \in Workers, Handle(w) PROVE TypeOK'
<1> DEFINE s == worker[w]
<1>0. s \in WorkerStates
  BY DEF TypeOK
<1>1. CASE ClearCommands(w)
  <2>1. [s EXCEPT !.pc = "reset"] \in WorkerStates
    BY <1>0 DEF WorkerStates, ProgramCounters
  <2> QED
    BY <1>1, <2>1, GotoType, ClearedType DEF ClearCommands, TypeOK
<1>2. CASE ResetDevice(w)
  <2>1. [s EXCEPT !.pc = "find"] \in WorkerStates
    BY <1>0 DEF WorkerStates, ProgramCounters
  <2>2. row' \in Rows
    BY <1>2 DEF ResetDevice, TypeOK, Rows
  <2> QED
    BY <1>2, <2>1, <2>2, GotoType DEF ResetDevice, TypeOK
<1>3. CASE SetTokenUpdate(w)
  <2>1. [s EXCEPT !.pc = "reread"] \in WorkerStates
    BY <1>0 DEF WorkerStates, ProgramCounters
  <2>2. row' \in Rows
    BY <1>3 DEF SetTokenUpdate, TypeOK, Rows
  <2> QED
    BY <1>3, <2>1, <2>2, GotoType DEF SetTokenUpdate, TypeOK
<1>4. CASE RereadDevice(w)
  <2>1. [s EXCEPT !.pc = "find", !.force = ~row.tasksRun] \in WorkerStates
    BY <1>0 DEF WorkerStates, ProgramCounters, TypeOK, Rows
  <2> QED
    BY <1>4, <2>1, MoveType DEF RereadDevice, TypeOK
<1>5. CASE FindDevice(w)
  <2> DEFINE snap == [found |-> row.exists, token |-> row.token, tasksRun |-> row.tasksRun]
  <2>1. snap \in Snapshots
    BY DEF Snapshots, TypeOK, Rows
  <2>2. [s EXCEPT !.pc = "write", !.snap = snap] \in WorkerStates
    BY <1>0, <2>1 DEF WorkerStates, ProgramCounters
  <2> QED
    BY <1>5, <2>2, MoveType DEF FindDevice, TypeOK
<1>6. CASE WriteDevice(w)
  BY <1>6, WriteDeviceType
<1>7. CASE RunInitialTasks(w)
  <2>1. [s EXCEPT !.pc = "load", !.upgraded = FALSE] \in WorkerStates
    BY <1>0 DEF WorkerStates, ProgramCounters
  <2> QED
    BY <1>7, <2>1, GotoType, ClearedType DEF RunInitialTasks, TypeOK
<1>8. CASE LoadDeviceProfiles(w)
  <2>1. PICK own \in SUBSET Profiles :
          Goto(w, [s EXCEPT !.pc = "device", !.left = own, !.skip = own])
    BY <1>8 DEF LoadDeviceProfiles
  <2>2. [s EXCEPT !.pc = "device", !.left = own, !.skip = own] \in WorkerStates
    BY <1>0 DEF WorkerStates, ProgramCounters
  <2>3. faults' \in 0..MaxFaults /\ unread' \in BOOLEAN
    BY <1>8, FaultType DEF LoadDeviceProfiles, TypeOK
  <2> QED
    BY <1>8, <2>1, <2>2, <2>3, MoveType DEF LoadDeviceProfiles
<1>9. ASSUME NEW p \in Profiles, PushProfile(w, p) PROVE TypeOK'
  <2>1. [s EXCEPT !.left = @ \ {p}] \in WorkerStates
    BY <1>0 DEF WorkerStates
  <2>2. InstallDeviceProfile(p) \in Commands
    BY DEF Commands
  <2> QED
    BY <1>9, <2>1, <2>2, SendType DEF PushProfile
<1>10. CASE LoadSharedProfiles(w)
  <2>1. PICK shared \in SUBSET Profiles :
          Goto(w, [s EXCEPT !.pc = "shared", !.left = shared])
    BY <1>10 DEF LoadSharedProfiles
  <2>2. [s EXCEPT !.pc = "shared", !.left = shared] \in WorkerStates
    BY <1>0 DEF WorkerStates, ProgramCounters
  <2>3. faults' \in 0..MaxFaults /\ unread' \in BOOLEAN
    BY <1>10, FaultType DEF LoadSharedProfiles, TypeOK
  <2> QED
    BY <1>10, <2>1, <2>2, <2>3, MoveType DEF LoadSharedProfiles
<1>11. ASSUME NEW p \in SharedProfiles, PushSharedProfile(w, p) PROVE TypeOK'
  <2>1. PICK err \in BOOLEAN :
          /\ SendCommand(InstallSharedProfile(p), err)
          /\ Goto(w, [s EXCEPT !.left = IF err THEN {} ELSE @ \ {p}])
    BY <1>11 DEF PushSharedProfile
  <2>2. [s EXCEPT !.left = IF err THEN {} ELSE @ \ {p}] \in WorkerStates
    BY <1>0 DEF WorkerStates
  <2>3. InstallSharedProfile(p) \in Commands
    BY <1>11 DEF Commands
  <2> QED
    BY <1>11, <2>1, <2>2, <2>3, SendType DEF PushSharedProfile
<1>12. ASSUME NEW p \in SharedProfiles, SkipSharedProfile(w, p) PROVE TypeOK'
  <2>1. [s EXCEPT !.left = @ \ {p}] \in WorkerStates
    BY <1>0 DEF WorkerStates
  <2> QED
    BY <1>12, <2>1, MoveType DEF SkipSharedProfile, TypeOK
<1>13. ASSUME RequestProfileList(w) PROVE TypeOK'
  <2>1. PICK err \in BOOLEAN :
          /\ SendCommand(ProfileList, err)
          /\ Goto(w, IF err \/ s.job = "repush" THEN AfterJob(s)
                      ELSE [s EXCEPT !.pc = "apps", !.left = Apps])
    BY <1>13 DEF RequestProfileList
  <2>2. [s EXCEPT !.pc = "apps", !.left = Apps] \in WorkerStates
    BY <1>0 DEF WorkerStates, ProgramCounters
  <2>3. \E r \in WorkerStates : Goto(w, r)
    BY <1>0, <2>1, <2>2, AfterJobType
  <2>4. ProfileList \in Commands
    BY DEF Commands
  <2> QED
    BY <1>13, <2>1, <2>3, <2>4, SendType DEF RequestProfileList
<1>14. ASSUME NEW a \in Apps, PushSharedInstallApplication(w, a) PROVE TypeOK'
  <2>1. PICK err \in BOOLEAN :
          /\ SendCommand(InstallApplication(a), err)
          /\ Goto(w, IF err THEN AfterJob(s) ELSE [s EXCEPT !.left = @ \ {a}])
    BY <1>14 DEF PushSharedInstallApplication
  <2>2. [s EXCEPT !.left = @ \ {a}] \in WorkerStates
    BY <1>0 DEF WorkerStates
  <2>3. \E r \in WorkerStates : Goto(w, r)
    BY <1>0, <2>1, <2>2, AfterJobType
  <2>4. InstallApplication(a) \in Commands
    BY DEF Commands
  <2> QED
    BY <1>14, <2>1, <2>3, <2>4, SendType DEF PushSharedInstallApplication
<1>15. ASSUME SendDeviceConfigured(w) PROVE TypeOK'
  <2>1. PICK err \in BOOLEAN :
          /\ SendCommand(DeviceConfigured, err)
          /\ Goto(w, IF err THEN AfterJob(s)
                      ELSE [s EXCEPT !.pc = IF @ = "apps" THEN "configured" ELSE "save"])
    BY <1>15 DEF SendDeviceConfigured
  <2>2. [s EXCEPT !.pc = IF @ = "apps" THEN "configured" ELSE "save"] \in WorkerStates
    BY <1>0 DEF WorkerStates, ProgramCounters
  <2>3. \E r \in WorkerStates : Goto(w, r)
    BY <1>0, <2>1, <2>2, AfterJobType
  <2>4. DeviceConfigured \in Commands
    BY DEF Commands
  <2> QED
    BY <1>15, <2>1, <2>3, <2>4, SendType DEF SendDeviceConfigured
<1>16. CASE SaveDeviceConfigured(w)
  <2>1. row' \in Rows
    BY <1>16 DEF SaveDeviceConfigured, TypeOK, Rows
  <2> QED
    BY <1>0, <1>16, <2>1, GotoType, AfterJobType DEF SaveDeviceConfigured, TypeOK
<1>17. CASE PushOnNewBuild(w)
  <2>1. [s EXCEPT !.pc = "load", !.job = "repush", !.upgraded = FALSE] \in WorkerStates
    BY <1>0 DEF WorkerStates, ProgramCounters, Jobs
  <2>2. \E r \in WorkerStates : Goto(w, r)
    BY <1>0, <1>17, <2>1, RespondType DEF PushOnNewBuild
  <2> QED
    BY <1>17, <2>2, MoveType DEF PushOnNewBuild, TypeOK
<1>18. CASE DatabaseError(w)
  <2>1. faults' \in 0..MaxFaults /\ unread' \in BOOLEAN
    BY <1>18, FaultType DEF DatabaseError, TypeOK
  <2> QED
    BY <1>0, <1>18, <2>1, AfterErrorType, MoveType DEF DatabaseError
<1> QED
  BY <1>1, <1>2, <1>3, <1>4, <1>5, <1>6, <1>7, <1>8, <1>9, <1>10, <1>11, <1>12,
     <1>13, <1>14, <1>15, <1>16, <1>17, <1>18 DEF Handle

LEMMA TypeStep == TypeOK /\ [Next]_vars => TypeOK'
<1> SUFFICES ASSUME TypeOK, [Next]_vars PROVE TypeOK'
  OBVIOUS
<1>1. ASSUME NEW w \in Workers, NEW e \in Events, WebhookHandler(w, e) PROVE TypeOK'
  <2>1. [IdleWorker EXCEPT !.pc = EntryPoint(e.topic), !.event = e] \in WorkerStates
    BY IdleType DEF WorkerStates, EntryPoint, ProgramCounters
  <2> QED
    BY <1>1, <2>1, GotoType DEF WebhookHandler, TypeOK
<1>2. ASSUME NEW w \in Workers, Handle(w) PROVE TypeOK'
  BY <1>2, HandleType
<1>3. CASE FetchDevicesFromMDM
  <2>1. row' \in Rows
    BY <1>3, EnrollmentAssumption DEF FetchDevicesFromMDM, TypeOK, Rows, Builds
  <2> QED
    BY <1>3, <2>1 DEF FetchDevicesFromMDM, TypeOK
<1>4. CASE Crash
  BY <1>4, IdleType, FaultType, EnrollmentAssumption DEF Crash, TypeOK
<1>5. CASE UNCHANGED vars
  BY <1>5 DEF vars, TypeOK
<1> QED
  BY <1>1, <1>2, <1>3, <1>4, <1>5 DEF Next

\* Whatever the instance, the state keeps its type: the worker records and the
\* device row that the webhook handler's statements build are the declared ones.
THEOREM TypeCorrect == Spec => []TypeOK
BY TypeInit, TypeStep, PTL DEF Spec

-----------------------------------------------------------------------------
(* The flags of the row.                                                    *)

LEMMA FlagsInit == Init => FlagsConsistent
<1> SUFFICES ASSUME Init PROVE FlagsConsistent
  OBVIOUS
<1>1. CASE row = NoRow
  BY <1>1 DEF NoRow, FlagsConsistent
<1>2. CASE row \in KnownRows
  BY <1>2 DEF KnownRows, FlagsConsistent
<1> QED
  BY <1>1, <1>2 DEF Init

\* Five statements write the flags; each keeps them consistent from any
\* consistent row, so no interleaving of them can break that.
LEMMA FlagsStep == TypeOK /\ FlagsConsistent /\ [Next]_vars => FlagsConsistent'
<1> SUFFICES ASSUME TypeOK, FlagsConsistent, [Next]_vars PROVE FlagsConsistent'
  OBVIOUS
<1>0. row \in Rows
  BY DEF TypeOK
<1>1. CASE UNCHANGED row
  BY <1>1 DEF FlagsConsistent
<1>2. ASSUME NEW w \in Workers, ResetDevice(w) PROVE FlagsConsistent'
  BY <1>0, <1>2 DEF ResetDevice, FlagsConsistent, Rows
<1>3. ASSUME NEW w \in Workers, SetTokenUpdate(w) PROVE FlagsConsistent'
  BY <1>0, <1>3 DEF SetTokenUpdate, FlagsConsistent, Rows
<1>4. ASSUME NEW w \in Workers, WriteDevice(w) PROVE FlagsConsistent'
  BY <1>0, <1>4 DEF WriteDevice, FlagsConsistent, Rows, NoRow
<1>5. ASSUME NEW w \in Workers, SaveDeviceConfigured(w) PROVE FlagsConsistent'
  BY <1>0, <1>5 DEF SaveDeviceConfigured, FlagsConsistent, Rows
<1>6. CASE FetchDevicesFromMDM
  BY <1>0, <1>6 DEF FetchDevicesFromMDM, FlagsConsistent, Rows
<1> QED
  BY <1>1, <1>2, <1>3, <1>4, <1>5, <1>6
     DEF Next, Handle, WebhookHandler, ClearCommands, RereadDevice, FindDevice,
         RunInitialTasks, LoadDeviceProfiles, PushProfile, LoadSharedProfiles,
         PushSharedProfile, SkipSharedProfile, RequestProfileList,
         PushSharedInstallApplication, SendDeviceConfigured, PushOnNewBuild,
         DatabaseError, Crash, vars

\* However many requests are handled at a time, and wherever the process dies, the
\* flags of the device's row agree: the handler's decisions to start the initial
\* tasks or to leave them never rest on a contradictory row.
THEOREM FlagsAlwaysConsistent == Spec => []FlagsConsistent
BY FlagsInit, FlagsStep, TypeCorrect, PTL DEF Spec

-----------------------------------------------------------------------------
(* The overlaps that do harm are left out.                                  *)

\* MicroMDM accepts what it answers: there are no error answers.
Accepting == "refused" \notin FaultKinds

\* What a worker has had queued by the time it is at a program counter, got being
\* what MicroMDM has queued and live whether the device is enrolled: the inductive
\* core of ConfiguredAfterTasks.
Progress(s, got, live) ==
    /\ s.pc \in {"clear", "reset"} => ~live
    /\ s.pc \in {"apps", "configured", "save"} => ProfileList \in got
    /\ s.pc = "apps" => \A a \in Apps : a \in s.left \/ InstallApplication(a) \in got
    /\ s.pc \in {"configured", "save"} =>
         /\ DeviceConfigured \in got
         /\ \A a \in Apps : InstallApplication(a) \in got

\* Two requests never reset the device at a time.
ResetsApart ==
    \A v, w \in Workers :
      worker[v].pc \in Resetting /\ worker[w].pc \in Resetting => v = w

SetUpInv ==
    /\ TypeOK
    /\ ConfiguredAfterTasks
    /\ ResetsApart
    /\ \A w \in Workers : Progress(worker[w], queued, enrolled)

\* Where a worker goes after a call, it has nothing to show yet.
Fresh(s) == s.pc \in {"idle", "find", "tasks", "build"}

LEMMA FreshCalls ==
    ASSUME NEW s \in WorkerStates
    PROVE  Fresh(IdleWorker) /\ Fresh(Respond(s)) /\ Fresh(AfterUpdate(s)) /\ Fresh(AfterJob(s))
<1>1. Fresh(IdleWorker)
  BY DEF Fresh, IdleWorker
<1>2. Fresh(Respond(s))
  BY <1>1 DEF Fresh, Respond, WorkerStates
<1>3. Fresh(AfterUpdate(s))
  BY <1>1, <1>2 DEF Fresh, AfterUpdate, WorkerStates
<1>4. Fresh(AfterJob(s))
  BY <1>1, <1>2, <1>3 DEF AfterJob
<1> QED
  BY <1>1, <1>2, <1>3, <1>4

\* A step takes a worker from s to t: t has what its place asks for, and only a
\* request that arrives begins to reset the device.
Advance(s, t, got, live) ==
    /\ Progress(t, got, live)
    /\ t.pc \in Resetting => s.pc \in Resetting

LEMMA FreshWrite ==
    ASSUME NEW s \in WorkerStates PROVE Fresh(AfterWrite(s))
<1>1. /\ Fresh([s EXCEPT !.pc = "find", !.second = TRUE])
      /\ Fresh([s EXCEPT !.pc = "tasks", !.job = "inner"])
  BY DEF Fresh, WorkerStates
<1> QED
  BY <1>1, FreshCalls DEF AfterWrite

\* After a failing statement, but for one of the shared profiles, neither.
LEMMA FreshError ==
    ASSUME NEW s \in WorkerStates, s.pc # "shared" PROVE Fresh(AfterError(s))
<1>1. /\ Fresh([s EXCEPT !.pc = "find"])
      /\ Fresh([s EXCEPT !.pc = "find", !.force = TRUE])
  BY DEF Fresh, WorkerStates
<1>2. [s EXCEPT !.snap = NoSnapshot] \in WorkerStates
  BY DEF WorkerStates, NoSnapshot, Snapshots
<1> QED
  BY <1>1, <1>2, FreshWrite, FreshCalls DEF AfterError

LEMMA FreshProgress ==
    ASSUME NEW s, NEW t, Fresh(t), NEW got, NEW live PROVE Advance(s, t, got, live)
BY DEF Fresh, Progress, Advance, Resetting

\* What was queued stays queued.
LEMMA ProgressGrows ==
    ASSUME NEW s, NEW got, NEW more, NEW live, Progress(s, got, live), got \subseteq more
    PROVE  Progress(s, more, live)
BY DEF Progress

\* The enrolment is open or not: it matters to those who reset the device only.
LEMMA ProgressElsewhere ==
    ASSUME NEW s, NEW got, NEW live, NEW other, Progress(s, got, live), s.pc \notin Resetting
    PROVE  Progress(s, got, other)
BY DEF Progress, Resetting

\* A worker that moves has what its new place asks for, and the others lose nothing.
LEMMA AdvanceMove ==
    ASSUME SetUpInv, NEW w \in Workers, NEW s, Goto(w, s),
           Advance(worker[w], s, queued', enrolled'), queued \subseteq queued',
           enrolled' = enrolled \/ worker[w].pc \in Resetting
    PROVE  /\ ResetsApart'
           /\ \A v \in Workers : Progress(worker'[v], queued', enrolled')
<1>1. worker' = [worker EXCEPT ![w] = s] /\ worker \in [Workers -> WorkerStates]
  BY DEF Goto, SetUpInv, TypeOK
<1>2. \A v \in Workers : worker'[v].pc \in Resetting => worker[v].pc \in Resetting
  BY <1>1 DEF Advance
<1>3. ResetsApart'
  BY <1>2 DEF ResetsApart, SetUpInv
<1>4. ASSUME NEW v \in Workers, v # w PROVE Progress(worker'[v], queued', enrolled')
  <2>1. worker'[v] = worker[v]
    BY <1>1, <1>4
  <2>2. Progress(worker[v], queued', enrolled)
    BY ProgressGrows DEF SetUpInv
  <2>3. enrolled' = enrolled \/ worker[v].pc \notin Resetting
    BY <1>4 DEF SetUpInv, ResetsApart
  <2> QED
    BY <2>1, <2>2, <2>3, ProgressElsewhere
<1>5. Progress(worker'[w], queued', enrolled')
  BY <1>1 DEF Advance
<1> QED
  BY <1>3, <1>4, <1>5

LEMMA SetUpInit == Init => SetUpInv
<1> SUFFICES ASSUME Init PROVE SetUpInv
  OBVIOUS
<1>1. TypeOK
  BY TypeInit
<1>2. ConfiguredAfterTasks
  BY DEF Init, ConfiguredAfterTasks
<1>3. \A w \in Workers : worker[w] = IdleWorker
  BY DEF Init
<1>4. \A w \in Workers : Progress(worker[w], queued, enrolled)
  BY <1>3, IdleType, FreshCalls, FreshProgress DEF Advance
<1>5. ResetsApart
  BY <1>3 DEF ResetsApart, IdleWorker, Resetting
<1> QED
  BY <1>1, <1>2, <1>4, <1>5 DEF SetUpInv

\* A step that changes neither the row nor the enrolment keeps the property: it
\* can only add to what was queued.
LEMMA ConfiguredKept ==
    ASSUME ConfiguredAfterTasks, row' = row, enrolled' = enrolled, queued \subseteq queued'
    PROVE  ConfiguredAfterTasks'
BY DEF ConfiguredAfterTasks

Kept ==
    /\ ConfiguredAfterTasks'
    /\ ResetsApart'
    /\ \A v \in Workers : Progress(worker'[v], queued', enrolled')

\* A step of a worker that sends nothing and leaves row and enrolment alone.
LEMMA SilentStep ==
    ASSUME SetUpInv, NEW w \in Workers, NEW s, Goto(w, s),
           Advance(worker[w], s, queued, enrolled),
           row' = row, enrolled' = enrolled, queued' = queued
    PROVE  Kept
BY AdvanceMove, ConfiguredKept DEF SetUpInv, Kept

\* The same for a step that sends a command.
LEMMA SendStep ==
    ASSUME SetUpInv, NEW w \in Workers, NEW s, Goto(w, s),
           Advance(worker[w], s, queued', enrolled),
           queued \subseteq queued', row' = row, enrolled' = enrolled
    PROVE  Kept
BY AdvanceMove, ConfiguredKept DEF SetUpInv, Kept

LEMMA SetUpHandle ==
    ASSUME Accepting, SetUpInv, NEW w \in Workers, Handle(w) PROVE Kept
<1> DEFINE s == worker[w]
<1>0. TypeOK /\ s \in WorkerStates /\ Progress(s, queued, enrolled)
  BY DEF SetUpInv, TypeOK
<1>1. CASE ClearCommands(w)
  <2>1. Advance(s, [s EXCEPT !.pc = "reset"], queued, enrolled)
    BY <1>0, <1>1 DEF ClearCommands, Busy, Progress, WorkerStates, Advance, Resetting
  <2> QED
    BY <1>1, <2>1, SilentStep DEF ClearCommands, Kept
<1>2. CASE ResetDevice(w)
  <2>1. Advance(s, [s EXCEPT !.pc = "find"], queued', enrolled')
    BY <1>0 DEF Progress, WorkerStates, Advance, Resetting
  <2>2. ConfiguredAfterTasks'
    BY <1>0, <1>2 DEF ResetDevice, ConfiguredAfterTasks, TypeOK, Rows
  <2> QED
    BY <1>0, <1>2, <2>1, <2>2, AdvanceMove DEF ResetDevice, Busy, Resetting, Kept
<1>3. CASE SetTokenUpdate(w)
  <2>1. Advance(s, [s EXCEPT !.pc = "reread"], queued', enrolled')
    BY <1>0 DEF Progress, WorkerStates, Advance, Resetting
  <2>2. ConfiguredAfterTasks'
    BY <1>0, <1>3 DEF SetTokenUpdate, ConfiguredAfterTasks, TypeOK, Rows, SetUpInv
  <2> QED
    BY <1>0, <1>3, <2>1, <2>2, AdvanceMove DEF SetTokenUpdate, Kept
<1>4. CASE RereadDevice(w)
  <2>1. Advance(s, [s EXCEPT !.pc = "find", !.force = ~row.tasksRun], queued, enrolled)
    BY <1>0 DEF Progress, WorkerStates, Advance, Resetting
  <2> QED
    BY <1>4, <2>1, SilentStep DEF RereadDevice, Kept
<1>5. CASE FindDevice(w)
  <2> DEFINE snap == [found |-> row.exists, token |-> row.token, tasksRun |-> row.tasksRun]
  <2>1. Advance(s, [s EXCEPT !.pc = "write", !.snap = snap], queued, enrolled)
    BY <1>0 DEF Progress, WorkerStates, Advance, Resetting
  <2> QED
    BY <1>5, <2>1, SilentStep DEF FindDevice, Kept
<1>6. CASE WriteDevice(w)
  <2> DEFINE build == Payload(s).build
             newer == row.tasksRun /\ row.build # 0 /\ build > row.build
             t == [s EXCEPT !.upgraded = @ \/ newer]
  <2>1. t \in WorkerStates
    BY <1>0 DEF WorkerStates, TypeOK, Rows
  <2>2. Fresh(AfterWrite(t))
    BY <2>1, FreshWrite
  <2>3. Goto(w, AfterWrite(t))
    BY <1>6 DEF WriteDevice
  <2> HIDE DEF t
  <2>4. row'.tasksRun => row.tasksRun
    BY <1>0, <1>6 DEF WriteDevice, TypeOK, Rows, NoRow
  <2>5. ConfiguredAfterTasks'
    BY <1>6, <2>4 DEF WriteDevice, SetUpInv, ConfiguredAfterTasks
  <2> QED
    BY <1>0, <1>6, <2>2, <2>3, <2>5, FreshProgress, AdvanceMove DEF WriteDevice, Kept
<1>7. CASE RunInitialTasks(w)
  <2>1. Advance(s, [s EXCEPT !.pc = "load", !.upgraded = FALSE], queued, enrolled)
    BY <1>0 DEF Progress, WorkerStates, Advance, Resetting
  <2> QED
    BY <1>7, <2>1, SilentStep DEF RunInitialTasks, Kept
<1>8. CASE LoadDeviceProfiles(w)
  <2>1. PICK own \in SUBSET Profiles :
          Goto(w, [s EXCEPT !.pc = "device", !.left = own, !.skip = own])
    BY <1>8 DEF LoadDeviceProfiles
  <2>2. Advance(s, [s EXCEPT !.pc = "device", !.left = own, !.skip = own], queued, enrolled)
    BY <1>0 DEF Progress, WorkerStates, Advance, Resetting
  <2> QED
    BY <1>8, <2>1, <2>2, SilentStep DEF LoadDeviceProfiles, Kept
<1>9. ASSUME NEW p \in Profiles, PushProfile(w, p) PROVE Kept
  <2>1. queued \subseteq queued'
    BY <1>0, <1>9, SendCommandStep DEF PushProfile, Commands
  <2>2. Advance(s, [s EXCEPT !.left = @ \ {p}], queued', enrolled)
    BY <1>0, <1>9 DEF PushProfile, Busy, Progress, WorkerStates, Advance, Resetting
  <2> QED
    BY <1>9, <2>1, <2>2, SendStep DEF PushProfile, Kept
<1>10. CASE LoadSharedProfiles(w)
  <2>1. PICK shared \in SUBSET Profiles :
          Goto(w, [s EXCEPT !.pc = "shared", !.left = shared])
    BY <1>10 DEF LoadSharedProfiles
  <2>2. Advance(s, [s EXCEPT !.pc = "shared", !.left = shared], queued, enrolled)
    BY <1>0 DEF Progress, WorkerStates, Advance, Resetting
  <2> QED
    BY <1>10, <2>1, <2>2, SilentStep DEF LoadSharedProfiles, Kept
<1>11. ASSUME NEW p \in SharedProfiles, PushSharedProfile(w, p) PROVE Kept
  <2>1. PICK err \in BOOLEAN :
          /\ SendCommand(InstallSharedProfile(p), err)
          /\ Goto(w, [s EXCEPT !.left = IF err THEN {} ELSE @ \ {p}])
    BY <1>11 DEF PushSharedProfile
  <2>2. queued \subseteq queued'
    BY <1>0, <2>1, SendCommandStep DEF Commands
  <2>3. Advance(s, [s EXCEPT !.left = IF err THEN {} ELSE @ \ {p}], queued', enrolled)
    BY <1>0, <1>11 DEF PushSharedProfile, Busy, Progress, WorkerStates, Advance, Resetting
  <2> QED
    BY <1>11, <2>1, <2>2, <2>3, SendStep DEF PushSharedProfile, Kept
<1>12. ASSUME NEW p \in SharedProfiles, SkipSharedProfile(w, p) PROVE Kept
  <2>1. Advance(s, [s EXCEPT !.left = @ \ {p}], queued, enrolled)
    BY <1>0, <1>12 DEF SkipSharedProfile, Busy, Progress, WorkerStates, Advance, Resetting
  <2> QED
    BY <1>12, <2>1, SilentStep DEF SkipSharedProfile, Kept
<1>13. CASE RequestProfileList(w)
  <2>1. PICK err \in BOOLEAN :
          /\ SendCommand(ProfileList, err)
          /\ Goto(w, IF err \/ s.job = "repush" THEN AfterJob(s)
                      ELSE [s EXCEPT !.pc = "apps", !.left = Apps])
    BY <1>13 DEF RequestProfileList
  <2>2. queued \subseteq queued' /\ (~err => ProfileList \in queued')
    BY <1>0, <2>1, SendCommandStep DEF Commands, Accepting
  <2>3. ~err => Advance(s, [s EXCEPT !.pc = "apps", !.left = Apps], queued', enrolled)
    BY <1>0, <2>2 DEF Progress, WorkerStates, Advance, Resetting
  <2>4. Advance(s, AfterJob(s), queued', enrolled)
    BY <1>0, FreshCalls, FreshProgress
  <2>5. \E r : Goto(w, r) /\ Advance(s, r, queued', enrolled)
    BY <2>1, <2>3, <2>4
  <2> QED
    BY <1>13, <2>2, <2>5, SendStep DEF RequestProfileList, Kept
<1>14. ASSUME NEW a \in Apps, PushSharedInstallApplication(w, a) PROVE Kept
  <2>1. PICK err \in BOOLEAN :
          /\ SendCommand(InstallApplication(a), err)
          /\ Goto(w, IF err THEN AfterJob(s) ELSE [s EXCEPT !.left = @ \ {a}])
    BY <1>14 DEF PushSharedInstallApplication
  <2>2. queued \subseteq queued' /\ (~err => InstallApplication(a) \in queued')
    BY <1>0, <2>1, SendCommandStep DEF Commands, Accepting
  <2>3. ~err => Advance(s, [s EXCEPT !.left = @ \ {a}], queued', enrolled)
    BY <1>0, <1>14, <2>2
       DEF PushSharedInstallApplication, Busy, Progress, WorkerStates, Advance, Resetting
  <2>4. Advance(s, AfterJob(s), queued', enrolled)
    BY <1>0, FreshCalls, FreshProgress
  <2>5. \E r : Goto(w, r) /\ Advance(s, r, queued', enrolled)
    BY <2>1, <2>3, <2>4
  <2> QED
    BY <1>14, <2>2, <2>5, SendStep DEF PushSharedInstallApplication, Kept
<1>15. CASE SendDeviceConfigured(w)
  <2>1. PICK err \in BOOLEAN :
          /\ SendCommand(DeviceConfigured, err)
          /\ Goto(w, IF err THEN AfterJob(s)
                      ELSE [s EXCEPT !.pc = IF @ = "apps" THEN "configured" ELSE "save"])
    BY <1>15 DEF SendDeviceConfigured
  <2>2. queued \subseteq queued' /\ (~err => DeviceConfigured \in queued')
    BY <1>0, <2>1, SendCommandStep DEF Commands, Accepting
  <2>3. ~err => Advance(s, [s EXCEPT !.pc = IF @ = "apps" THEN "configured" ELSE "save"],
                         queued', enrolled)
    BY <1>0, <1>15, <2>2 DEF SendDeviceConfigured, Busy, Progress, WorkerStates, Advance, Resetting
  <2>4. Advance(s, AfterJob(s), queued', enrolled)
    BY <1>0, FreshCalls, FreshProgress
  <2>5. \E r : Goto(w, r) /\ Advance(s, r, queued', enrolled)
    BY <2>1, <2>3, <2>4
  <2> QED
    BY <1>15, <2>2, <2>5, SendStep DEF SendDeviceConfigured, Kept
<1>16. CASE SaveDeviceConfigured(w)
  <2>1. Advance(s, AfterJob(s), queued', enrolled')
    BY <1>0, FreshCalls, FreshProgress
  <2>2. Mandatory \subseteq queued
    BY <1>0, <1>16 DEF SaveDeviceConfigured, Busy, Progress, Mandatory
  <2>3. ConfiguredAfterTasks'
    BY <1>16, <2>2 DEF SaveDeviceConfigured, ConfiguredAfterTasks
  <2> QED
    BY <1>0, <1>16, <2>1, <2>3, AdvanceMove DEF SaveDeviceConfigured, Kept
<1>17. CASE PushOnNewBuild(w)
  <2>1. Advance(s, [s EXCEPT !.pc = "load", !.job = "repush", !.upgraded = FALSE], queued, enrolled)
    BY <1>0 DEF Progress, WorkerStates, Advance, Resetting
  <2>2. Advance(s, Respond(s), queued, enrolled)
    BY <1>0, FreshCalls, FreshProgress
  <2>3. \E r : Goto(w, r) /\ Advance(s, r, queued, enrolled)
    BY <1>17, <2>1, <2>2 DEF PushOnNewBuild
  <2> QED
    BY <1>17, <2>3, SilentStep DEF PushOnNewBuild, Kept
<1>18. CASE DatabaseError(w)
  <2>1. Advance(s, AfterError(s), queued, enrolled)
    <3>1. CASE s.pc = "shared"
      <4>1. AfterError(s) = [s EXCEPT !.left = {}]
        BY <3>1 DEF AfterError
      <4> QED
        BY <1>0, <3>1, <4>1 DEF Progress, WorkerStates, Advance, Resetting
    <3>2. CASE s.pc # "shared"
      BY <1>0, <3>2, FreshError, FreshProgress
    <3> QED
      BY <3>1, <3>2
  <2> QED
    BY <1>18, <2>1, SilentStep DEF DatabaseError, Kept
<1> QED
  BY <1>1, <1>2, <1>3, <1>4, <1>5, <1>6, <1>7, <1>8, <1>9, <1>10, <1>11, <1>12,
     <1>13, <1>14, <1>15, <1>16, <1>17, <1>18 DEF Handle

\* Who arrives to reset the device finds no one who has anything to show for it.
LEMMA ArrivalStep ==
    ASSUME SetUpInv, Apart, NEW w \in Workers, NEW e \in Events, WebhookHandler(w, e)
    PROVE  Kept
<1> DEFINE s == [IdleWorker EXCEPT !.pc = EntryPoint(e.topic), !.event = e]
<1>1. s.pc = EntryPoint(e.topic) /\ s.pc \in {"clear", "token", "find"}
  BY DEF IdleWorker, EntryPoint
<1>2. s.pc = "clear" <=> e.topic \in {"Authenticate", "CheckOut"}
  BY <1>1 DEF EntryPoint
<1>3. Goto(w, s) /\ worker[w].pc = "idle"
  BY DEF WebhookHandler, Busy
<1>4. ConfiguredAfterTasks'
  BY DEF WebhookHandler, ConfiguredAfterTasks, SetUpInv
<1> HIDE DEF s
<1>5. CASE s.pc # "clear"
  <2>1. queued' = queued /\ enrolled' = enrolled
    BY <1>2, <1>5 DEF WebhookHandler
  <2>2. Advance(worker[w], s, queued, enrolled)
    BY <1>1, <1>5 DEF Advance, Progress, Resetting
  <2> QED
    BY <1>3, <1>4, <2>1, <2>2, AdvanceMove DEF Kept
<1>6. CASE s.pc = "clear"
  <2>1. worker' = [worker EXCEPT ![w] = s] /\ worker \in [Workers -> WorkerStates]
    BY <1>3 DEF Goto, SetUpInv, TypeOK
  <2>2. \A v \in Workers : worker[v].pc \notin Resetting \cup Posting
    BY <1>3, <1>6, <2>1 DEF Apart, Resetting
  <2>3. ~enrolled'
    BY <1>2, <1>6 DEF WebhookHandler
  <2>4. ResetsApart'
    BY <2>1, <2>2 DEF ResetsApart
  <2>5. Progress(s, queued', enrolled')
    BY <1>6, <2>3 DEF Progress
  <2>6. \A v \in Workers : Progress(worker[v], queued', enrolled')
    BY <2>2 DEF Progress, Resetting, Posting
  <2> QED
    BY <1>4, <2>1, <2>4, <2>5, <2>6 DEF Kept
<1> QED
  BY <1>5, <1>6

LEMMA SetUpStep == Accepting /\ SetUpInv /\ [Next /\ Apart]_vars => SetUpInv'
<1> SUFFICES ASSUME Accepting, SetUpInv, [Next /\ Apart]_vars PROVE SetUpInv'
  OBVIOUS
<1>0. TypeOK'
  BY TypeStep DEF SetUpInv
<1>1. ASSUME NEW w \in Workers, NEW e \in Events, WebhookHandler(w, e), Apart PROVE Kept
  BY <1>1, ArrivalStep
<1>2. ASSUME NEW w \in Workers, Handle(w) PROVE Kept
  BY <1>2, SetUpHandle
<1>3. ASSUME FetchDevicesFromMDM, Apart PROVE Kept
  <2>1. enrolled => row' = row
    BY <1>3 DEF FetchDevicesFromMDM, Apart
  <2>2. UNCHANGED <<worker, queued, enrolled>>
    BY <1>3 DEF FetchDevicesFromMDM
  <2> QED
    BY <2>1, <2>2 DEF Kept, SetUpInv, ConfiguredAfterTasks, ResetsApart
<1>4. ASSUME Crash PROVE Kept
  <2>1. \A v \in Workers : worker'[v] = IdleWorker
    BY <1>4 DEF Crash
  <2>2. Fresh(IdleWorker)
    BY IdleType, FreshCalls
  <2>3. \A v \in Workers : Progress(worker'[v], queued', enrolled')
    BY <2>1, <2>2, FreshProgress DEF Advance
  <2>4. ResetsApart'
    BY <2>1 DEF ResetsApart, IdleWorker, Resetting
  <2>5. ConfiguredAfterTasks'
    BY <1>4, ConfiguredKept DEF Crash, SetUpInv
  <2> QED
    BY <2>3, <2>4, <2>5 DEF Kept
<1>5. ASSUME UNCHANGED vars PROVE Kept
  BY <1>5 DEF vars, SetUpInv, Kept, ConfiguredAfterTasks, ResetsApart
<1> QED
  BY <1>0, <1>1, <1>2, <1>3, <1>4, <1>5 DEF Next, Kept, SetUpInv

\* Whatever is left out of a step of ApartSpec, it is a step of Spec.
LEMMA ApartIsSpec == ApartSpec => Spec
<1>1. [Next /\ Apart]_vars => [Next]_vars
  OBVIOUS
<1> QED
  BY <1>1, PTL DEF ApartSpec, Spec

\* Requests that come one at a time, after the start-up fetch, never overlap in the
\* ways that do harm: ApartSpec leaves out nothing they do, crashes included, so that
\* what is proved of it holds for a MicroMDM that waits for its answers.
THEOREM OneAtATimeIsApart ==
    ASSUME \A v, w \in Workers : v = w, ~FetchAtStart PROVE Spec => ApartSpec
<1>1. Init => fetched
  BY EnrollmentAssumption DEF Init
<1>2. fetched /\ [Next]_vars => fetched'
  BY EnrollmentAssumption
     DEF Next, Handle, WebhookHandler, ClearCommands, ResetDevice, SetTokenUpdate,
         RereadDevice, FindDevice, WriteDevice, RunInitialTasks, LoadDeviceProfiles,
         PushProfile, LoadSharedProfiles, PushSharedProfile, SkipSharedProfile,
         RequestProfileList, PushSharedInstallApplication, SendDeviceConfigured,
         SaveDeviceConfigured, PushOnNewBuild, DatabaseError, FetchDevicesFromMDM, Crash, vars
<1>3. fetched /\ [Next]_vars => [Next /\ Apart]_vars
  <2>1. fetched => Apart
    BY DEF Apart, Resetting, Posting
  <2> QED
    BY <2>1
<1> QED
  BY <1>1, <1>2, <1>3, PTL DEF Spec, ApartSpec

\* A device that counts as set up has had every mandatory command queued in this
\* enrolment, for any number of requests, profiles, packages, failing sends and
\* crashes, as long as no run of the initial tasks is posting when the device enrols
\* again.
THEOREM SetUpAfterTasks == ASSUME Accepting PROVE ApartSpec => []ConfiguredAfterTasks
<1>1. Init => SetUpInv
  BY SetUpInit
<1>2. SetUpInv /\ [Next /\ Apart]_vars => SetUpInv'
  BY SetUpStep
<1>3. SetUpInv => ConfiguredAfterTasks
  BY DEF SetUpInv
<1> QED
  BY <1>1, <1>2, <1>3, PTL DEF ApartSpec

-----------------------------------------------------------------------------
(* The promise is kept.                                                     *)

\* What a step of the code is to the promise when it leaves the phase alone and
\* has at most one command queued.
LEMMA QueueStep ==
    ASSUME row'.tasksRun = row.tasksRun, enrolled' = enrolled, NEW c, queued \subseteq queued',
           queued' \subseteq queued \cup {c}
    PROVE  [Promise!Next]_(Promise!promiseVars)
<1>1. CASE queued' \cap Mandatory = queued \cap Mandatory
  BY <1>1 DEF Promise!promiseVars
<1>2. CASE queued' \cap Mandatory # queued \cap Mandatory
  <2>1. c \in Mandatory /\ queued' \cap Mandatory = (queued \cap Mandatory) \cup {c}
    BY <1>2
  <2>2. Promise!Queue(c)
    BY <2>1 DEF Promise!Queue
  <2> QED
    BY <2>1, <2>2 DEF Promise!Next
<1> QED
  BY <1>1, <1>2

LEMMA QuietStep ==
    ASSUME row'.tasksRun = row.tasksRun, enrolled' = enrolled, queued' = queued
    PROVE  [Promise!Next]_(Promise!promiseVars)
BY DEF Promise!promiseVars

LEMMA PromiseStep ==
    SetUpInv /\ FlagsConsistent /\ [Next /\ Apart]_vars
      => [Promise!Next]_(Promise!promiseVars)
<1> SUFFICES ASSUME SetUpInv, FlagsConsistent, [Next /\ Apart]_vars
             PROVE  [Promise!Next]_(Promise!promiseVars)
  OBVIOUS
<1>0. TypeOK /\ row \in Rows
  BY DEF SetUpInv, TypeOK
<1>1. ASSUME NEW w \in Workers, NEW e \in Events, WebhookHandler(w, e)
      PROVE  [Promise!Next]_(Promise!promiseVars)
  <2>1. CASE e.topic \in {"Authenticate", "CheckOut"}
    <3>1. Promise!Leave
      BY <1>1, <2>1 DEF WebhookHandler, Promise!Leave
    <3> QED
      BY <3>1 DEF Promise!Next
  <2>2. CASE e.topic \notin {"Authenticate", "CheckOut"}
    BY <1>1, <2>2, QuietStep DEF WebhookHandler
  <2> QED
    BY <2>1, <2>2
<1>2. ASSUME NEW w \in Workers, ResetDevice(w) PROVE [Promise!Next]_(Promise!promiseVars)
  <2>1. ~enrolled /\ ~row'.tasksRun /\ queued' = queued
    BY <1>0, <1>2 DEF SetUpInv, Progress, ResetDevice, Busy, Rows
  <2>2. CASE enrolled'
    <3>1. Promise!Enroll
      BY <2>1, <2>2 DEF Promise!Enroll
    <3> QED
      BY <3>1 DEF Promise!Next
  <2>3. CASE ~enrolled'
    BY <2>1, <2>3 DEF Promise!promiseVars
  <2> QED
    BY <2>2, <2>3
<1>3. ASSUME NEW w \in Workers, SaveDeviceConfigured(w)
      PROVE  [Promise!Next]_(Promise!promiseVars)
  <2>1. Mandatory \subseteq queued
    BY <1>3 DEF SaveDeviceConfigured, Busy, SetUpInv, Progress, Mandatory
  <2>2. enrolled' = enrolled /\ queued' = queued
    BY <1>3 DEF SaveDeviceConfigured
  <2>3. row'.tasksRun = row.tasksRun \/ (~row.tasksRun /\ row'.tasksRun)
    BY <1>0, <1>3 DEF SaveDeviceConfigured, Rows
  <2>4. CASE enrolled /\ ~row.tasksRun /\ row'.tasksRun
    <3>1. Promise!Configure
      BY <2>1, <2>2, <2>4 DEF Promise!Configure
    <3> QED
      BY <3>1 DEF Promise!Next
  <2>5. CASE ~enrolled
    BY <2>2, <2>5 DEF Promise!promiseVars
  <2> QED
    BY <2>2, <2>3, <2>4, <2>5, QuietStep
<1>4. ASSUME NEW w \in Workers, NEW c \in Commands, NEW err \in BOOLEAN,
             SendCommand(c, err), row' = row, enrolled' = enrolled
      PROVE  [Promise!Next]_(Promise!promiseVars)
  BY <1>0, <1>4, SendCommandStep, QueueStep
<1>5. ASSUME NEW w \in Workers,
             \/ SetTokenUpdate(w) \/ WriteDevice(w) \/ ClearCommands(w) \/ RereadDevice(w)
             \/ FindDevice(w) \/ RunInitialTasks(w) \/ LoadDeviceProfiles(w)
             \/ LoadSharedProfiles(w) \/ PushOnNewBuild(w) \/ DatabaseError(w)
             \/ \E p \in SharedProfiles : SkipSharedProfile(w, p)
      PROVE  [Promise!Next]_(Promise!promiseVars)
  <2>1. row'.tasksRun = row.tasksRun
    BY <1>0, <1>5
       DEF SetTokenUpdate, WriteDevice, ClearCommands, RereadDevice, FindDevice,
           RunInitialTasks, LoadDeviceProfiles, LoadSharedProfiles, PushOnNewBuild,
           DatabaseError, SkipSharedProfile, Rows, NoRow, FlagsConsistent
  <2>2. enrolled' = enrolled /\ queued' = queued
    BY <1>5
       DEF SetTokenUpdate, WriteDevice, ClearCommands, RereadDevice, FindDevice,
           RunInitialTasks, LoadDeviceProfiles, LoadSharedProfiles, PushOnNewBuild,
           DatabaseError, SkipSharedProfile
  <2> QED
    BY <2>1, <2>2, QuietStep
<1>6. ASSUME NEW w \in Workers,
             \/ \E p \in Profiles : PushProfile(w, p)
             \/ \E p \in SharedProfiles : PushSharedProfile(w, p)
             \/ RequestProfileList(w)
             \/ \E a \in Apps : PushSharedInstallApplication(w, a)
             \/ SendDeviceConfigured(w)
      PROVE  [Promise!Next]_(Promise!promiseVars)
  <2>1. \E c \in Commands, err \in BOOLEAN : SendCommand(c, err)
    BY <1>6 DEF Commands, PushProfile, PushSharedProfile, RequestProfileList,
                PushSharedInstallApplication, SendDeviceConfigured
  <2>2. row' = row /\ enrolled' = enrolled
    BY <1>6 DEF PushProfile, PushSharedProfile, RequestProfileList,
                PushSharedInstallApplication, SendDeviceConfigured
  <2> QED
    BY <1>4, <2>1, <2>2
<1>7. ASSUME FetchDevicesFromMDM, Apart PROVE [Promise!Next]_(Promise!promiseVars)
  <2>1. enrolled' = enrolled /\ queued' = queued
    BY <1>7 DEF FetchDevicesFromMDM
  <2>2. CASE enrolled
    BY <1>7, <2>1, <2>2, QuietStep DEF FetchDevicesFromMDM, Apart
  <2>3. CASE ~enrolled
    BY <2>1, <2>3 DEF Promise!promiseVars
  <2> QED
    BY <2>2, <2>3
<1>8. CASE Crash
  BY <1>8, QuietStep DEF Crash
<1>9. CASE UNCHANGED vars
  BY <1>9, QuietStep DEF vars
<1> QED
  BY <1>1, <1>2, <1>3, <1>5, <1>6, <1>7, <1>8, <1>9 DEF Next, Handle

\* Without the overlaps that do harm, the webhook handler implements the enrolment
\* promise for every instance: each of its steps is a step of the promise or nothing
\* to it.
THEOREM PromiseIsKept == ASSUME Accepting PROVE ApartSpec => PromiseKept
<1>1. Init => Promise!Init
  BY DEF Init, Promise!Init
<1>2. Init => SetUpInv
  BY SetUpInit
<1>3. SetUpInv /\ [Next /\ Apart]_vars => SetUpInv'
  BY SetUpStep
<1>4. SetUpInv /\ FlagsConsistent /\ [Next /\ Apart]_vars
        => [Promise!Next]_(Promise!promiseVars)
  BY PromiseStep
<1>5. ApartSpec => []FlagsConsistent
  BY ApartIsSpec, FlagsAlwaysConsistent
<1> QED
  BY <1>1, <1>2, <1>3, <1>4, <1>5, PTL DEF ApartSpec, PromiseKept, Promise!Spec

-----------------------------------------------------------------------------
(* Setup Assistant is released last.                                        *)

\* The stages in which DeviceConfigured is sent, and those of one run of
\* InstallAllProfiles and what follows it.
Releasing == {"apps", "configured", "save"}
Underway == {"load"} \cup Posting

\* What a run of the initial tasks has posted by the time it is at a program counter,
\* own being the device's rows, sent what was posted, calm whether nothing has failed and
\* read whether the rows could be read: the inductive core of ReleasedLast.  A run for a
\* new build posts too, but never comes to DeviceConfigured.
Posted(s, own, sent, calm, read) ==
    /\ s.pc \in Releasing => s.job # "repush"
    /\ s.job # "repush" =>
         /\ s.pc \in {"device", "shared"} => \A p \in s.skip : own[p] = "installed"
         /\ s.pc \in Posting /\ read =>
              \A p \in Profiles : own[p] = "installed" =>
                (s.pc = "device" /\ p \in s.left) \/ InstallDeviceProfile(p) \in sent
         /\ s.pc \in {"shared"} \cup Releasing /\ calm =>
              \A p \in SharedProfiles : own[p] = "absent" =>
                (s.pc = "shared" /\ p \in s.left) \/ InstallSharedProfile(p) \in sent
         /\ s.pc \in Underway /\ ClearDeviceOnEnroll =>
              \A p \in Profiles : own[p] = "absent"

\* A clearing of the rows has nothing left to clear once DeviceConfigured was posted.
Cleared ==
    DeviceConfigured \in tried /\ ClearDeviceOnEnroll =>
        \A p \in Profiles : deviceProfiles[p] = "absent"

ReleaseInv ==
    /\ ReleasedLast
    /\ Cleared
    /\ \A w \in Workers : Posted(worker[w], deviceProfiles, tried, faults = 0, ~unread)

LEMMA OutsidePosted ==
    ASSUME NEW s, s.pc \notin Underway, NEW own, NEW sent, NEW calm, NEW read
    PROVE  Posted(s, own, sent, calm, read)
BY DEF Posted, Underway, Posting, Releasing

LEMMA FreshPosted ==
    ASSUME NEW s, Fresh(s), NEW own, NEW sent, NEW calm, NEW read
    PROVE  Posted(s, own, sent, calm, read)
<1>1. s.pc \notin Underway
  BY DEF Fresh, Underway, Posting, Releasing
<1> QED
  BY <1>1, OutsidePosted

\* What was posted stays posted, and what has failed has failed.
LEMMA PostedGrows ==
    ASSUME NEW s, NEW own, NEW sent, NEW more, NEW calm, NEW calmer,
           NEW read, NEW reader, Posted(s, own, sent, calm, read), sent \subseteq more,
           calmer => calm, reader => read
    PROVE  Posted(s, own, more, calmer, reader)
BY DEF Posted

\* SendCommand posts one command, and a failure is counted.
LEMMA SendPosts ==
    ASSUME TypeOK, NEW c, NEW err \in BOOLEAN, SendCommand(c, err)
    PROVE  /\ tried' = tried \cup {c}
           /\ queued \subseteq queued'
           /\ faults' = 0 => faults = 0 /\ ~err
BY FaultType DEF SendCommand

\* Clearing the rows takes nothing from a run of the tasks that has cleared them.
LEMMA PostedCleared ==
    ASSUME NEW s, NEW sent, NEW calm, NEW read,
           Posted(s, deviceProfiles, sent, calm, read),
           SharedProfiles \subseteq Profiles,
           s.pc \in {"device", "shared"} => s.skip \subseteq Profiles
    PROVE  Posted(s, ClearedProfiles, sent, calm, read)
<1>1. CASE ~ClearDeviceOnEnroll
  BY <1>1 DEF ClearedProfiles
<1>2. CASE ClearDeviceOnEnroll
  <2>1. \A p \in Profiles : ClearedProfiles[p] = "absent"
    BY <1>2 DEF ClearedProfiles
  <2>2. s.pc \in Underway /\ s.job # "repush" =>
          \A p \in Profiles : deviceProfiles[p] = "absent"
    BY <1>2 DEF Posted
  <2>3. s.pc \in Underway /\ s.job # "repush" =>
          \A p \in Profiles : ClearedProfiles[p] = deviceProfiles[p]
    BY <2>1, <2>2
  <2> QED
    BY <2>1, <2>3 DEF Posted, Underway, Posting, Releasing
<1> QED
  BY <1>1, <1>2

\* Where nothing has to be posted yet, it does not matter what was.
LEMMA PostedNothing ==
    ASSUME NEW s, NEW own, NEW sent, NEW other, NEW calm, NEW read,
           NEW again, Posted(s, own, sent, calm, read), s.pc \notin Posting
    PROVE  Posted(s, own, other, calm, again)
BY DEF Posted, Posting, Releasing

\* A worker moves, and the others keep what they have.
LEMMA PostedMove ==
    ASSUME TypeOK, NEW w \in Workers, NEW s, Goto(w, s),
           Posted(s, deviceProfiles', tried', faults' = 0, ~unread'),
           \A v \in Workers : Posted(worker[v], deviceProfiles', tried', faults' = 0, ~unread')
    PROVE  \A v \in Workers : Posted(worker'[v], deviceProfiles', tried', faults' = 0, ~unread')
BY DEF TypeOK, Goto

\* The statements that post nothing and leave the rows of the device alone.
LEMMA QuietRelease ==
    ASSUME TypeOK, ReleaseInv, NEW w \in Workers, NEW s, Goto(w, s),
           Posted(s, deviceProfiles, tried, faults' = 0, ~unread'),
           UNCHANGED <<deviceProfiles, tried, queued>>,
           faults' = 0 => faults = 0, ~unread' => ~unread
    PROVE  ReleaseInv'
<1>1. \A v \in Workers : Posted(worker[v], deviceProfiles', tried', faults' = 0, ~unread')
  BY PostedGrows DEF ReleaseInv
<1>2. \A v \in Workers : Posted(worker'[v], deviceProfiles', tried', faults' = 0, ~unread')
  BY <1>1, PostedMove
<1>3. ReleasedLast' /\ Cleared'
  BY DEF ReleaseInv, ReleasedLast, Cleared
<1> QED
  BY <1>2, <1>3 DEF ReleaseInv

\* A step that posts any other command than DeviceConfigured.
LEMMA PostRelease ==
    ASSUME TypeOK, ReleaseInv, NEW w \in Workers, NEW s, Goto(w, s),
           NEW c \in Commands \ {DeviceConfigured}, NEW err \in BOOLEAN, SendCommand(c, err),
           Posted(s, deviceProfiles, tried \cup {c}, faults' = 0, ~unread),
           UNCHANGED <<deviceProfiles, unread>>
    PROVE  ReleaseInv'
<1>1. tried' = tried \cup {c} /\ queued \subseteq queued' /\ (faults' = 0 => faults = 0)
  BY SendPosts
<1>2. \A v \in Workers : Posted(worker'[v], deviceProfiles', tried', faults' = 0, ~unread')
  BY <1>1, PostedGrows, PostedMove DEF ReleaseInv
<1>3. DeviceConfigured \in tried' <=> DeviceConfigured \in tried
  BY <1>1
<1>4. ReleasedLast' /\ Cleared'
  BY <1>1, <1>3 DEF ReleaseInv, ReleasedLast, Cleared
<1> QED
  BY <1>2, <1>4 DEF ReleaseInv

\* ClearCommands, of the reset or of the initial tasks.
LEMMA ClearRelease ==
    ASSUME TypeOK, ReleaseInv, NEW w \in Workers, NEW s, Goto(w, s),
           s.pc \in {"reset", "load"}, deviceProfiles' = ClearedProfiles,
           UNCHANGED <<faults, tried, queued, unread>>
    PROVE  ReleaseInv'
<1>1. ClearDeviceOnEnroll => \A p \in Profiles : deviceProfiles'[p] = "absent"
  BY DEF ClearedProfiles
<1>2. DeviceConfigured \in tried => \A p \in Profiles : deviceProfiles'[p] = deviceProfiles[p]
  BY <1>1 DEF ReleaseInv, Cleared, ClearedProfiles
<1>3. SharedProfiles \subseteq Profiles
  BY EnrollmentAssumption
<1>4. ReleasedLast' /\ Cleared'
  BY <1>1, <1>2, <1>3 DEF ReleaseInv, ReleasedLast, Cleared
<1>5. Posted(s, deviceProfiles', tried', faults' = 0, ~unread')
  BY <1>1 DEF Posted, Underway, Posting, Releasing
<1>6. \A v \in Workers : worker[v].skip \subseteq Profiles
  BY DEF TypeOK, WorkerStates
<1>7. \A v \in Workers : Posted(worker[v], deviceProfiles', tried', faults' = 0, ~unread')
  BY <1>3, <1>6, PostedCleared DEF ReleaseInv
<1> QED
  BY <1>4, <1>5, <1>7, PostedMove DEF ReleaseInv

\* DeviceConfigured is one command, and none of the others.
LEMMA OtherCommands ==
    /\ \A p \in Profiles : InstallDeviceProfile(p) \in Commands \ {DeviceConfigured}
    /\ \A p \in SharedProfiles : InstallSharedProfile(p) \in Commands \ {DeviceConfigured}
    /\ \A a \in Apps : InstallApplication(a) \in Commands \ {DeviceConfigured}
    /\ ProfileList \in Commands \ {DeviceConfigured}
BY DEF Commands, InstallDeviceProfile, InstallSharedProfile, InstallApplication, ProfileList,
       DeviceConfigured

LEMMA ReleaseHandle ==
    ASSUME SetUpInv, ReleaseInv, NEW w \in Workers, Handle(w) PROVE ReleaseInv'
<1> DEFINE s == worker[w]
<1>0. /\ TypeOK /\ s \in WorkerStates /\ Progress(s, queued, enrolled)
      /\ Posted(s, deviceProfiles, tried, faults = 0, ~unread)
  BY DEF SetUpInv, TypeOK, ReleaseInv
<1>S. SharedProfiles \subseteq Profiles /\ deviceProfiles \in [Profiles -> ProfileRow]
  BY <1>0, EnrollmentAssumption DEF TypeOK
<1>1. CASE ClearCommands(w)
  <2>1. [s EXCEPT !.pc = "reset"].pc = "reset"
    BY <1>0 DEF WorkerStates
  <2> QED
    BY <1>0, <1>1, <2>1, ClearRelease DEF ClearCommands
<1>2. ASSUME NEW r, Goto(w, r), r.pc \notin Underway,
             UNCHANGED <<deviceProfiles, faults, tried, queued, unread>>
      PROVE  ReleaseInv'
  BY <1>0, <1>2, OutsidePosted, QuietRelease
<1>3. CASE ResetDevice(w) \/ FindDevice(w)
  <2> DEFINE snap == [found |-> row.exists, token |-> row.token, tasksRun |-> row.tasksRun]
  <2>1. /\ [s EXCEPT !.pc = "find"].pc \notin Underway
        /\ [s EXCEPT !.pc = "write", !.snap = snap].pc \notin Underway
    BY <1>0 DEF WorkerStates, Underway, Posting, Releasing
  <2> QED
    BY <1>2, <1>3, <2>1 DEF ResetDevice, FindDevice
<1>4. CASE SetTokenUpdate(w) \/ RereadDevice(w)
  <2>1. /\ [s EXCEPT !.pc = "reread"].pc \notin Underway
        /\ [s EXCEPT !.pc = "find", !.force = ~row.tasksRun].pc \notin Underway
    BY <1>0 DEF WorkerStates, Underway, Posting, Releasing
  <2> QED
    BY <1>2, <1>4, <2>1 DEF SetTokenUpdate, RereadDevice
<1>5. ASSUME NEW r, Goto(w, r), Fresh(r), UNCHANGED <<deviceProfiles, tried, queued, unread>>,
             faults' = 0 => faults = 0
      PROVE  ReleaseInv'
  BY <1>0, <1>5, FreshPosted, QuietRelease
<1>6. CASE WriteDevice(w)
  <2> DEFINE build == Payload(s).build
             newer == row.tasksRun /\ row.build # 0 /\ build > row.build
             t == [s EXCEPT !.upgraded = @ \/ newer]
  <2>1. t \in WorkerStates
    BY <1>0 DEF WorkerStates, TypeOK, Rows
  <2>2. Fresh(AfterWrite(t))
    BY <2>1, FreshWrite
  <2>3. Goto(w, AfterWrite(t))
    BY <1>6 DEF WriteDevice
  <2> HIDE DEF t
  <2> QED
    BY <1>5, <1>6, <2>2, <2>3 DEF WriteDevice
<1>7. CASE RunInitialTasks(w)
  <2>1. [s EXCEPT !.pc = "load", !.upgraded = FALSE].pc = "load"
    BY <1>0 DEF WorkerStates
  <2> QED
    BY <1>0, <1>7, <2>1, ClearRelease DEF RunInitialTasks
<1>8. CASE LoadDeviceProfiles(w)
  <2>1. PICK own \in SUBSET Profiles :
          /\ \/ /\ own = {p \in Profiles : deviceProfiles[p] = "installed"}
                /\ UNCHANGED <<faults, unread>>
             \/ own = {} /\ Fault("database") /\ unread' = TRUE
          /\ Goto(w, [s EXCEPT !.pc = "device", !.left = own, !.skip = own])
    BY <1>8 DEF LoadDeviceProfiles
  <2> DEFINE r == [s EXCEPT !.pc = "device", !.left = own, !.skip = own]
  <2>2. r.pc = "device" /\ r.left = own /\ r.skip = own /\ r.job = s.job /\ s.pc = "load"
    BY <1>0, <1>8 DEF LoadDeviceProfiles, Busy, WorkerStates
  <2>3. Goto(w, r) /\ (faults' = 0 => faults = 0) /\ (~unread' => ~unread)
    BY <1>0, <2>1, FaultType
  <2> HIDE DEF r
  <2>4. Posted(r, deviceProfiles, tried, faults' = 0, ~unread')
    BY <1>0, <2>1, <2>2 DEF Posted, Underway, Posting, Releasing
  <2> QED
    BY <1>0, <1>8, <2>3, <2>4, QuietRelease DEF LoadDeviceProfiles
<1>9. ASSUME NEW p \in Profiles, PushProfile(w, p) PROVE ReleaseInv'
  <2> DEFINE c == InstallDeviceProfile(p)
             r == [s EXCEPT !.left = @ \ {p}]
  <2>1. PICK err \in BOOLEAN : SendCommand(c, err)
    BY <1>9 DEF PushProfile
  <2>2. r.pc = s.pc /\ r.left = s.left \ {p} /\ r.skip = s.skip /\ r.job = s.job /\ s.pc = "device"
    BY <1>0, <1>9 DEF PushProfile, Busy, WorkerStates
  <2>3. Goto(w, r) /\ UNCHANGED <<deviceProfiles, unread>>
    BY <1>9 DEF PushProfile
  <2> HIDE DEF r
  <2>4. Posted(r, deviceProfiles, tried \cup {c}, faults' = 0, ~unread)
    BY <1>0, <2>2 DEF Posted, Underway, Posting, Releasing
  <2> QED
    BY <1>0, <2>1, <2>3, <2>4, OtherCommands, PostRelease
<1>10. CASE LoadSharedProfiles(w)
  <2>1. PICK shared \in SUBSET Profiles :
          /\ \/ shared = SharedProfiles \ s.skip /\ UNCHANGED faults
             \/ shared = {} /\ Fault("database")
          /\ Goto(w, [s EXCEPT !.pc = "shared", !.left = shared])
    BY <1>10 DEF LoadSharedProfiles
  <2> DEFINE r == [s EXCEPT !.pc = "shared", !.left = shared]
  <2>2. /\ r.pc = "shared" /\ r.left = shared /\ r.skip = s.skip
        /\ r.job = s.job /\ s.pc = "device" /\ s.left = {}
    BY <1>0, <1>10 DEF LoadSharedProfiles, Busy, WorkerStates
  <2>3. Goto(w, r) /\ (faults' = 0 => faults = 0)
    BY <1>0, <2>1, FaultType
  <2>4. faults' = 0 => shared = SharedProfiles \ s.skip
    BY <1>0, <2>1, FaultType
  <2> HIDE DEF r
  <2>5. Posted(r, deviceProfiles, tried, faults' = 0, ~unread)
    BY <1>0, <1>S, <2>2, <2>3, <2>4 DEF Posted, Underway, Posting, Releasing
  <2> QED
    BY <1>0, <1>10, <2>3, <2>5, QuietRelease DEF LoadSharedProfiles
<1>11. ASSUME NEW p \in SharedProfiles, PushSharedProfile(w, p) PROVE ReleaseInv'
  <2> DEFINE c == InstallSharedProfile(p)
  <2>1. PICK err \in BOOLEAN :
          /\ SendCommand(c, err)
          /\ Goto(w, [s EXCEPT !.left = IF err THEN {} ELSE @ \ {p}])
    BY <1>11 DEF PushSharedProfile
  <2> DEFINE r == [s EXCEPT !.left = IF err THEN {} ELSE @ \ {p}]
  <2>2. /\ r.pc = s.pc /\ r.left = IF err THEN {} ELSE s.left \ {p}
        /\ r.skip = s.skip /\ r.job = s.job /\ s.pc = "shared"
    BY <1>0, <1>11 DEF PushSharedProfile, Busy, WorkerStates
  <2>3. Goto(w, r) /\ UNCHANGED <<deviceProfiles, unread>>
    BY <1>11, <2>1 DEF PushSharedProfile
  <2>4. faults' = 0 => faults = 0 /\ ~err
    BY <1>0, <2>1, SendPosts
  <2> HIDE DEF r
  <2>5. Posted(r, deviceProfiles, tried \cup {c}, faults' = 0, ~unread)
    BY <1>0, <2>2, <2>4 DEF Posted, Underway, Posting, Releasing
  <2> QED
    BY <1>0, <2>1, <2>3, <2>5, OtherCommands, PostRelease
<1>12. ASSUME NEW p \in SharedProfiles, SkipSharedProfile(w, p) PROVE ReleaseInv'
  <2> DEFINE r == [s EXCEPT !.left = @ \ {p}]
  <2>1. /\ r.pc = s.pc /\ r.left = s.left \ {p} /\ r.skip = s.skip /\ r.job = s.job
        /\ s.pc = "shared" /\ deviceProfiles[p] # "absent"
    BY <1>0, <1>12 DEF SkipSharedProfile, Busy, WorkerStates
  <2>2. Goto(w, r)
    BY <1>12 DEF SkipSharedProfile
  <2> HIDE DEF r
  <2>3. Posted(r, deviceProfiles, tried, faults = 0, ~unread)
    BY <1>0, <2>1 DEF Posted, Underway, Posting, Releasing
  <2> QED
    BY <1>0, <1>12, <2>2, <2>3, QuietRelease DEF SkipSharedProfile
<1>13. CASE RequestProfileList(w)
  <2>1. PICK err \in BOOLEAN :
          /\ SendCommand(ProfileList, err)
          /\ Goto(w, IF err \/ s.job = "repush" THEN AfterJob(s)
                      ELSE [s EXCEPT !.pc = "apps", !.left = Apps])
    BY <1>13 DEF RequestProfileList
  <2> DEFINE r == [s EXCEPT !.pc = "apps", !.left = Apps]
  <2>2. r.pc = "apps" /\ r.job = s.job /\ s.pc = "shared" /\ s.left = {}
    BY <1>0, <1>13 DEF RequestProfileList, Busy, WorkerStates
  <2>3. UNCHANGED <<deviceProfiles, unread>> /\ (faults' = 0 => faults = 0)
    BY <1>0, <1>13, <2>1, SendPosts DEF RequestProfileList
  <2>4. Posted(AfterJob(s), deviceProfiles, tried \cup {ProfileList}, faults' = 0, ~unread)
    BY <1>0, FreshCalls, FreshPosted
  <2>5. \E t : /\ Goto(w, t)
              /\ Posted(t, deviceProfiles, tried \cup {ProfileList}, faults' = 0, ~unread)
    <3>1. CASE err \/ s.job = "repush"
      BY <2>1, <2>4, <3>1
    <3>2. CASE ~(err \/ s.job = "repush")
      <4>1. Goto(w, r)
        BY <2>1, <3>2
      <4> HIDE DEF r
      <4>2. Posted(r, deviceProfiles, tried \cup {ProfileList}, faults' = 0, ~unread)
        BY <1>0, <2>2, <2>3, <3>2 DEF Posted, Underway, Posting, Releasing
      <4> QED BY <4>1, <4>2
    <3> QED BY <3>1, <3>2
  <2> QED
    BY <1>0, <2>1, <2>3, <2>5, OtherCommands, PostRelease
<1>14. ASSUME NEW a \in Apps, PushSharedInstallApplication(w, a) PROVE ReleaseInv'
  <2> DEFINE c == InstallApplication(a)
             r == [s EXCEPT !.left = @ \ {a}]
  <2>1. PICK err \in BOOLEAN :
          SendCommand(c, err) /\ Goto(w, IF err THEN AfterJob(s) ELSE r)
    BY <1>14 DEF PushSharedInstallApplication
  <2>2. r.pc = s.pc /\ r.job = s.job /\ s.pc = "apps"
    BY <1>0, <1>14 DEF PushSharedInstallApplication, Busy, WorkerStates
  <2>3. UNCHANGED <<deviceProfiles, unread>> /\ (faults' = 0 => faults = 0)
    BY <1>0, <1>14, <2>1, SendPosts DEF PushSharedInstallApplication
  <2>4. Posted(AfterJob(s), deviceProfiles, tried \cup {c}, faults' = 0, ~unread)
    BY <1>0, FreshCalls, FreshPosted
  <2> HIDE DEF r
  <2>5. Posted(r, deviceProfiles, tried \cup {c}, faults' = 0, ~unread)
    BY <1>0, <2>2, <2>3 DEF Posted, Underway, Posting, Releasing
  <2>6. \E t : Goto(w, t) /\ Posted(t, deviceProfiles, tried \cup {c}, faults' = 0, ~unread)
    BY <2>1, <2>4, <2>5
  <2> QED
    BY <1>0, <2>1, <2>3, <2>6, OtherCommands, PostRelease
<1>15. CASE SendDeviceConfigured(w)
  <2> DEFINE r == [s EXCEPT !.pc = IF @ = "apps" THEN "configured" ELSE "save"]
  <2>1. PICK err \in BOOLEAN :
          SendCommand(DeviceConfigured, err) /\ Goto(w, IF err THEN AfterJob(s) ELSE r)
    BY <1>15 DEF SendDeviceConfigured
  <2>2. /\ s.pc \in {"apps", "configured"} /\ (s.pc = "apps" => s.left = {})
        /\ r.pc \in {"configured", "save"} /\ r.job = s.job
    BY <1>0, <1>15 DEF SendDeviceConfigured, Busy, WorkerStates
  <2>3. /\ UNCHANGED <<deviceProfiles, unread>>
        /\ tried \subseteq tried' /\ queued \subseteq queued'
        /\ faults' = 0 => faults = 0
    BY <1>0, <1>15, <2>1, SendPosts DEF SendDeviceConfigured
  <2>4. Posted(AfterJob(s), deviceProfiles, tried', faults' = 0, ~unread')
    BY <1>0, FreshCalls, FreshPosted
  <2> HIDE DEF r
  <2>5. Posted(r, deviceProfiles, tried', faults' = 0, ~unread')
    BY <1>0, <2>2, <2>3 DEF Posted, Underway, Posting, Releasing
  <2>6. \E t : Goto(w, t) /\ Posted(t, deviceProfiles', tried', faults' = 0, ~unread')
    BY <2>1, <2>3, <2>4, <2>5
  <2>7. \A v \in Workers : Posted(worker'[v], deviceProfiles', tried', faults' = 0, ~unread')
    BY <1>0, <2>3, <2>6, PostedGrows, PostedMove DEF ReleaseInv
  <2>8. ProfileList \in queued /\ \A a \in Apps : InstallApplication(a) \in queued
    BY <1>0, <2>2 DEF Progress
  <2>9. ~unread => \A p \in Profiles :
          deviceProfiles[p] = "installed" => InstallDeviceProfile(p) \in tried
    BY <1>0, <2>2 DEF Posted, Underway, Posting, Releasing
  <2>10. faults = 0 => \A p \in SharedProfiles :
           deviceProfiles[p] = "absent" => InstallSharedProfile(p) \in tried
    BY <1>0, <2>2 DEF Posted, Releasing
  <2>11. ClearDeviceOnEnroll => \A p \in Profiles : deviceProfiles[p] = "absent"
    BY <1>0, <2>2 DEF Posted, Underway, Posting, Releasing
  <2>12. ReleasedLast' /\ Cleared'
    BY <2>3, <2>8, <2>9, <2>10, <2>11 DEF ReleasedLast, Cleared
  <2> QED
    BY <2>7, <2>12 DEF ReleaseInv
<1>16. CASE SaveDeviceConfigured(w)
  BY <1>0, <1>5, <1>16, FreshCalls DEF SaveDeviceConfigured
<1>17. CASE PushOnNewBuild(w)
  <2> DEFINE r == [s EXCEPT !.pc = "load", !.job = "repush", !.upgraded = FALSE]
  <2>1. r.pc = "load" /\ r.job = "repush"
    BY <1>0 DEF WorkerStates
  <2>2. /\ Goto(w, r) \/ Goto(w, Respond(s))
        /\ UNCHANGED <<deviceProfiles, faults, tried, queued, unread>>
    BY <1>17 DEF PushOnNewBuild
  <2> HIDE DEF r
  <2>3. Posted(r, deviceProfiles, tried, faults = 0, ~unread)
    BY <2>1 DEF Posted, Releasing
  <2>4. Posted(Respond(s), deviceProfiles, tried, faults = 0, ~unread)
    BY <1>0, FreshCalls, FreshPosted
  <2> QED
    BY <1>0, <2>2, <2>3, <2>4, QuietRelease
<1>18. CASE DatabaseError(w)
  <2>1. /\ Goto(w, AfterError(s)) /\ UNCHANGED <<deviceProfiles, tried, queued, unread>>
        /\ faults' # 0
    BY <1>0, <1>18, FaultType DEF DatabaseError
  <2>2. CASE s.pc # "shared"
    BY <1>0, <1>5, <2>1, <2>2, FreshError
  <2>3. CASE s.pc = "shared"
    <3> DEFINE r == [s EXCEPT !.left = {}]
    <3>1. r.pc = s.pc /\ r.left = {} /\ r.skip = s.skip /\ r.job = s.job
      BY <1>0 DEF WorkerStates
    <3>2. Goto(w, r)
      BY <2>1, <2>3 DEF AfterError
    <3> HIDE DEF r
    <3>3. Posted(r, deviceProfiles, tried, faults' = 0, ~unread)
      BY <1>0, <2>1, <2>3, <3>1 DEF Posted, Underway, Posting, Releasing
    <3> QED
      BY <1>0, <2>1, <3>2, <3>3, QuietRelease
  <2> QED
    BY <2>2, <2>3
<1> QED
  BY <1>1, <1>3, <1>4, <1>6, <1>7, <1>8, <1>9, <1>10, <1>11, <1>12, <1>13, <1>14, <1>15,
     <1>16, <1>17, <1>18 DEF Handle

LEMMA ReleaseStep == SetUpInv /\ ReleaseInv /\ [Next /\ Apart]_vars => ReleaseInv'
<1> SUFFICES ASSUME SetUpInv, ReleaseInv, [Next /\ Apart]_vars PROVE ReleaseInv'
  OBVIOUS
<1>0. TypeOK
  BY DEF SetUpInv
<1>1. ASSUME NEW w \in Workers, NEW e \in Events, WebhookHandler(w, e), Apart
      PROVE  ReleaseInv'
  <2> DEFINE s == [IdleWorker EXCEPT !.pc = EntryPoint(e.topic), !.event = e]
  <2>1. s.pc = EntryPoint(e.topic) /\ s.pc \notin Underway
    <3>1. s.pc = EntryPoint(e.topic)
      BY DEF IdleWorker
    <3> HIDE DEF s
    <3> QED
      BY <3>1 DEF EntryPoint, Underway, Posting
  <2>2. Goto(w, s) /\ worker[w].pc = "idle" /\ UNCHANGED <<deviceProfiles, faults>>
    BY <1>1 DEF WebhookHandler, Busy
  <2>3. worker'[w] = s
    BY <1>0, <2>2 DEF TypeOK, Goto
  <2> HIDE DEF s
  <2>4. CASE e.topic \notin {"Authenticate", "CheckOut"}
    <3>1. UNCHANGED <<tried, queued, unread>>
      BY <1>1, <2>4 DEF WebhookHandler
    <3> QED
      BY <1>0, <2>1, <2>2, <3>1, OutsidePosted, QuietRelease
  <2>5. CASE e.topic \in {"Authenticate", "CheckOut"}
    <3>1. worker'[w].pc \in Resetting
      BY <2>1, <2>3, <2>5 DEF EntryPoint, Resetting
    <3>2. \A v \in Workers : worker[v].pc \notin Posting
      BY <1>1, <2>2, <3>1 DEF Apart
    <3>3. \A v \in Workers : Posted(worker[v], deviceProfiles', tried', faults' = 0, ~unread')
      BY <2>2, <3>2, PostedNothing DEF ReleaseInv
    <3>4. \A v \in Workers : Posted(worker'[v], deviceProfiles', tried', faults' = 0, ~unread')
      BY <1>0, <2>1, <2>2, <3>3, OutsidePosted, PostedMove
    <3>5. ReleasedLast' /\ Cleared'
      BY <1>1, <2>5 DEF WebhookHandler, ReleasedLast, Cleared
    <3> QED
      BY <3>4, <3>5 DEF ReleaseInv
  <2> QED
    BY <2>4, <2>5
<1>2. ASSUME NEW w \in Workers, Handle(w) PROVE ReleaseInv'
  BY <1>2, ReleaseHandle
<1>3. CASE FetchDevicesFromMDM
  BY <1>3 DEF FetchDevicesFromMDM, ReleaseInv, ReleasedLast, Cleared
<1>4. CASE Crash
  <2>2. faults' # 0
    BY <1>0, <1>4, FaultType DEF Crash
  <2>3. \A v \in Workers : Posted(worker'[v], deviceProfiles', tried', faults' = 0, ~unread')
    BY <1>4, IdleType, FreshCalls, FreshPosted DEF Crash
  <2>4. ReleasedLast' /\ Cleared'
    BY <1>4, <2>2 DEF Crash, ReleasedLast, Cleared, ReleaseInv
  <2> QED
    BY <2>3, <2>4 DEF ReleaseInv
<1>5. CASE UNCHANGED vars
  BY <1>5 DEF vars, ReleaseInv, ReleasedLast, Cleared
<1> QED
  BY <1>1, <1>2, <1>3, <1>4, <1>5 DEF Next

\* Setup Assistant is released last, for any number of requests, profiles, packages,
\* failing sends, failing statements and crashes, without the overlaps that do harm:
\* DeviceConfigured is never posted before the packages and the profile list, nor before
\* the device's profiles as long as they could be read in this enrolment.
THEOREM AlwaysReleasedLast == ASSUME Accepting PROVE ApartSpec => []ReleasedLast
<1>1. Init => SetUpInv /\ ReleaseInv
  <2> SUFFICES ASSUME Init PROVE SetUpInv /\ ReleaseInv
    OBVIOUS
  <2>1. \A w \in Workers : Posted(worker[w], deviceProfiles, tried, faults = 0, ~unread)
    BY IdleType, FreshCalls, FreshPosted DEF Init
  <2>2. ReleasedLast /\ Cleared
    BY DEF Init, ReleasedLast, Cleared
  <2> QED
    BY <2>1, <2>2, SetUpInit DEF ReleaseInv
<1>2. SetUpInv /\ ReleaseInv /\ [Next /\ Apart]_vars => SetUpInv' /\ ReleaseInv'
  BY SetUpStep, ReleaseStep
<1>3. ReleaseInv => ReleasedLast
  BY DEF ReleaseInv
<1> QED
  BY <1>1, <1>2, <1>3, PTL DEF ApartSpec

=============================================================================
