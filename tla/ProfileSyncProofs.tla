-------------------------- MODULE ProfileSyncProofs --------------------------
(* Theorems about ProfileSync.                                               *)
EXTENDS ProfileSync, SequenceTheorems, TLAPS

CallPCs == {"none", "compare", "push", "cleanup", "present", "remove", "save", "bool",
            "drop", "create", "check", "send", "disable"}

\* The steps of a call that has a profile with content.
PostPCs == {"compare", "push", "cleanup", "drop", "create", "check", "send"}

CallType == [pc : CallPCs, profile : {{}} \cup {{p} : p \in Profiles},
             push : BOOLEAN, differs : BOOLEAN]

RunType == [pc : {"none", "load", "compare", "act", "send"},
            list : [Ids -> Copies], rows : [Ids -> Rows],
            install : SUBSET Candidates, remove : SUBSET Candidates,
            checked : SUBSET Candidates]

\* A call that is under way is about one profile.
CallShape ==
    \A c \in Callers : call[c].pc # "none" =>
      \E p \in Profiles : /\ call[c].profile = {p}
                          /\ call[c].pc \in PostPCs => p.uuid \in Versions

\* A profile on the device has content.
HasShape == \A id \in Ids : has[id].uuid = NoUUID => has[id] = NotThere

\* The shared profile that passed the check is still to be dealt with.
CheckedShape ==
    \A w \in Workers :
      /\ verify[w].pc # "send" => verify[w].checked = {}
      /\ verify[w].checked \subseteq verify[w].install \cup verify[w].remove

IInv == TypeOK /\ CallShape /\ HasShape /\ CheckedShape

-----------------------------------------------------------------------------
(* The parts of the state a step leaves alone or changes.                    *)

LEMMA FaultType ==
    ASSUME faults \in 0..MaxFaults, NoFault \/ \E kind \in FaultKinds : Fault(kind)
    PROVE  faults' \in 0..MaxFaults
BY ProfileAssumption DEF Fault, NoFault

LEMMA CommandTypes ==
    /\ \A p \in Profiles : InstallProfile(p) \in Commands
    /\ \A id \in Ids : RemoveProfile(id) \in Commands
    /\ ProfileList \in Commands
BY DEF Commands

LEMMA SendType ==
    ASSUME queue \in Seq(Commands), faults \in 0..MaxFaults,
           NEW command \in Commands, NEW sent \in BOOLEAN, SendCommand(command, sent)
    PROVE  queue' \in Seq(Commands) /\ faults' \in 0..MaxFaults
<1>1. Append(queue, command) \in Seq(Commands)
  BY AppendProperties
<1>2. queue' \in Seq(Commands)
  BY <1>1 DEF SendCommand
<1>3. NoFault \/ \E kind \in FaultKinds : Fault(kind)
  BY DEF SendCommand, Fault
<1> QED
  BY <1>2, <1>3, FaultType

LEMMA ProfileOfCall ==
    ASSUME CallShape, NEW c \in Callers, call[c].pc # "none"
    PROVE  /\ ProfileOf(c) \in Profiles
           /\ ProfileOf(c).id \in Ids /\ ProfileOf(c).uuid \in UUIDs
           /\ call[c].profile = {ProfileOf(c)}
           /\ call[c].pc \in PostPCs => ProfileOf(c).uuid \in Versions
<1>1. PICK p \in Profiles : /\ call[c].profile = {p}
                            /\ call[c].pc \in PostPCs => p.uuid \in Versions
  BY DEF CallShape
<1>2. \A q \in Profiles : call[c].profile = {q} => q = p
  BY <1>1
<1>3. ProfileOf(c) = p
  BY <1>1, <1>2 DEF ProfileOf
<1> QED
  BY <1>1, <1>3 DEF Profiles

LEMMA NoCallType == NoCall \in CallType /\ NoCall.pc = "none"
BY DEF NoCall, CallType, CallPCs

\* A call goes on with the same profile.
LEMMA GotoType ==
    ASSUME call \in [Callers -> CallType], CallShape, NEW c \in Callers,
           call[c].pc # "none", NEW pc \in CallPCs,
           pc \in PostPCs => call[c].pc \in PostPCs,
           NEW differs \in BOOLEAN,
           call' = [call EXCEPT ![c] = [@ EXCEPT !.pc = pc, !.differs = differs]]
    PROVE  call' \in [Callers -> CallType] /\ CallShape'
<1>1. [call[c] EXCEPT !.pc = pc, !.differs = differs] \in CallType
  BY DEF CallType
<1>2. call'[c].profile = call[c].profile /\ call'[c].pc = pc
  BY DEF CallType
<1>3. call' \in [Callers -> CallType]
  BY <1>1
<1>4. CallShape'
  BY <1>2 DEF CallShape
<1> QED
  BY <1>3, <1>4

LEMMA GotoStep ==
    ASSUME call \in [Callers -> CallType], CallShape, NEW c \in Callers,
           call[c].pc # "none", NEW pc \in CallPCs,
           pc \in PostPCs => call[c].pc \in PostPCs, Goto(c, pc)
    PROVE  call' \in [Callers -> CallType] /\ CallShape'
<1>1. PICK differs \in BOOLEAN : differs = call[c].differs
  BY DEF CallType
<1>2. [call[c] EXCEPT !.pc = pc] = [call[c] EXCEPT !.pc = pc, !.differs = differs]
  BY <1>1 DEF CallType
<1>3. call' = [call EXCEPT ![c] = [@ EXCEPT !.pc = pc, !.differs = differs]]
  BY <1>2 DEF Goto
<1> QED
  BY <1>3, GotoType

LEMMA ReplyStep ==
    ASSUME call \in [Callers -> CallType], CallShape, kept \subseteq Ids,
           NEW c \in Callers, call[c].pc # "none", NEW posted \in BOOLEAN, Reply(c, posted)
    PROVE  call' \in [Callers -> CallType] /\ CallShape' /\ kept' \subseteq Ids
<1>1. call' = [call EXCEPT ![c] = NoCall]
  BY DEF Reply
<1>2. call' \in [Callers -> CallType]
  BY <1>1, NoCallType
<1>3. CallShape'
  BY <1>1, NoCallType DEF CallShape
<1>4. kept' \subseteq Ids
  BY ProfileOfCall DEF Reply
<1> QED
  BY <1>2, <1>3, <1>4

LEMMA TypeParts ==
    TypeOK <=>
      /\ deviceProfiles \in [Ids -> Rows] /\ sharedProfiles \subseteq SharedRows
      /\ has \in [Ids -> Copies] /\ enrolment \in Enrolments /\ queue \in Seq(Commands)
      /\ call \in [Callers -> CallType] /\ verify \in [Workers -> RunType]
      /\ calls \in 0..MaxCalls /\ kept \subseteq Ids /\ faults \in 0..MaxFaults
BY DEF TypeOK, CallType, CallPCs, RunType

LEMMA TypePartsNext ==
    TypeOK' <=>
      /\ deviceProfiles' \in [Ids -> Rows] /\ sharedProfiles' \subseteq SharedRows
      /\ has' \in [Ids -> Copies] /\ enrolment' \in Enrolments /\ queue' \in Seq(Commands)
      /\ call' \in [Callers -> CallType] /\ verify' \in [Workers -> RunType]
      /\ calls' \in 0..MaxCalls /\ kept' \subseteq Ids /\ faults' \in 0..MaxFaults
BY DEF TypeOK, CallType, CallPCs, RunType

\* What a step of the API has to show.
LEMMA ApiInv ==
    ASSUME IInv, UNCHANGED <<has, enrolment, verify>>,
           deviceProfiles' \in [Ids -> Rows], sharedProfiles' \subseteq SharedRows,
           queue' \in Seq(Commands), call' \in [Callers -> CallType], CallShape',
           calls' \in 0..MaxCalls, kept' \subseteq Ids, faults' \in 0..MaxFaults
    PROVE  IInv'
<1>1. TypeOK'
  BY TypeParts, TypePartsNext DEF IInv
<1>2. HasShape' /\ CheckedShape'
  BY DEF IInv, HasShape, CheckedShape
<1> QED
  BY <1>1, <1>2 DEF IInv

-----------------------------------------------------------------------------
(* The invariant.                                                            *)

LEMMA RowTypes ==
    /\ NoRow \in Rows /\ NotThere \in Copies
    /\ \A uuid \in UUIDs : [state |-> "removed", uuid |-> uuid] \in Rows
    /\ \A uuid \in UUIDs : [state |-> "installed", uuid |-> uuid] \in Rows
BY DEF NoRow, Rows, NotThere, Copies, Signers, UUIDs

LEMMA FreshRun ==
    ASSUME NEW list \in [Ids -> Copies]
    PROVE  /\ Verification(list) \in RunType /\ NoVerification \in RunType
           /\ Verification(list).checked = {} /\ NoVerification.checked = {}
<1>1. NoRow \in Rows /\ NotThere \in Copies
  BY RowTypes
<1>2. \A l \in [Ids -> Copies] : Verification(l) \in RunType
  BY <1>1 DEF Verification, RunType
<1>3. [id \in Ids |-> NotThere] \in [Ids -> Copies]
  BY <1>1
<1>4. Verification([id \in Ids |-> NotThere]) \in RunType
  BY <1>2, <1>3
<1>5. NoVerification \in RunType
  BY <1>4 DEF NoVerification, RunType
<1>6. Verification(list).checked = {} /\ NoVerification.checked = {}
  BY DEF Verification, NoVerification
<1> QED
  BY <1>2, <1>5, <1>6

LEMMA InitIInv == Init => IInv
<1> SUFFICES ASSUME Init PROVE IInv
  OBVIOUS
<1>1. deviceProfiles \in [Ids -> Rows]
  BY RowTypes DEF Init, Rows, UUIDs
<1>2. has \in [Ids -> Copies] /\ HasShape
  <2>1. has \in [Ids -> {NotThere} \cup [uuid : Versions, signer : Signers]]
    BY DEF Init
  <2>2. \A copy \in [uuid : Versions, signer : Signers] : copy \in Copies /\ copy.uuid # NoUUID
    BY ProfileAssumption DEF Copies, UUIDs
  <2> QED
    BY <2>1, <2>2, RowTypes DEF HasShape
<1>3. call \in [Callers -> CallType] /\ CallShape
  BY NoCallType DEF Init, CallShape
<1>4. verify \in [Workers -> RunType] /\ CheckedShape
  BY FreshRun, <1>2 DEF Init, CheckedShape
<1>5. queue \in Seq(Commands)
  BY EmptySeq DEF Init
<1>6. calls = 0 /\ faults = 0
  BY DEF Init
<1>7. calls \in 0..MaxCalls /\ faults \in 0..MaxFaults
  BY <1>6, ProfileAssumption
<1>8. sharedProfiles \subseteq SharedRows /\ enrolment \in Enrolments /\ kept \subseteq Ids
  BY DEF Init
<1> QED
  BY <1>1, <1>2, <1>3, <1>4, <1>5, <1>7, <1>8, TypeParts DEF IInv

\* The last version a posted profile has is one with content.
LEMMA NewCallType ==
    ASSUME NEW pc \in CallPCs, NEW id \in Ids, NEW uuid \in UUIDs, NEW push \in BOOLEAN
    PROVE  /\ Call(pc, [id |-> id, uuid |-> uuid], push) \in CallType
           /\ [id |-> id, uuid |-> uuid] \in Profiles
BY DEF Call, CallType, Profiles

LEMMA NewCall ==
    ASSUME call \in [Callers -> CallType], CallShape, NEW c \in Callers,
           NEW pc \in CallPCs, NEW id \in Ids, NEW uuid \in UUIDs, NEW push \in BOOLEAN,
           pc \in PostPCs => uuid \in Versions,
           call' = [call EXCEPT ![c] = Call(pc, [id |-> id, uuid |-> uuid], push)]
    PROVE  call' \in [Callers -> CallType] /\ CallShape'
<1>1. call' \in [Callers -> CallType]
  BY NewCallType
<1>2. Call(pc, [id |-> id, uuid |-> uuid], push).pc = pc
      /\ Call(pc, [id |-> id, uuid |-> uuid], push).profile = {[id |-> id, uuid |-> uuid]}
  BY DEF Call
<1>3. CallShape'
  BY <1>2, NewCallType DEF CallShape
<1> QED
  BY <1>1, <1>3

LEMMA PostStep == ASSUME IInv, NEW c \in Callers, PostProfileHandler(c) PROVE IInv'
<1>1. PICK id \in Ids, uuid \in Versions, push \in BOOLEAN :
        \/ /\ call' = [call EXCEPT ![c] = Call("compare", [id |-> id, uuid |-> uuid], push)]
           /\ kept' = kept \ {id}
        \/ /\ call' = [call EXCEPT ![c] = Call("drop", [id |-> id, uuid |-> uuid], push)]
           /\ UNCHANGED kept
  BY DEF PostProfileHandler
<1>2. "compare" \in CallPCs /\ "drop" \in CallPCs /\ uuid \in UUIDs
  BY DEF CallPCs, UUIDs
<1>3. call' \in [Callers -> CallType] /\ CallShape'
  BY <1>1, <1>2, NewCall, TypeParts DEF IInv
<1>4. calls' \in 0..MaxCalls
  BY ProfileAssumption, TypeParts DEF IInv, PostProfileHandler
<1>5. kept' \subseteq Ids
  BY <1>1, TypeParts DEF IInv
<1> QED
  BY <1>3, <1>4, <1>5, ApiInv, TypeParts DEF IInv, PostProfileHandler, tables

LEMMA DeleteStep == ASSUME IInv, NEW c \in Callers, DeleteProfileHandler(c) PROVE IInv'
<1>1. PICK id \in Ids, push \in BOOLEAN :
        \/ /\ call' = [call EXCEPT ![c] = Call("present", [id |-> id, uuid |-> NoUUID], push)]
           /\ kept' = kept \ {id}
        \/ /\ call' = [call EXCEPT ![c] = Call("disable", [id |-> id, uuid |-> NoUUID], push)]
           /\ UNCHANGED kept
  BY DEF DeleteProfileHandler
<1>2. "present" \in CallPCs \ PostPCs /\ "disable" \in CallPCs \ PostPCs /\ NoUUID \in UUIDs
  BY DEF CallPCs, PostPCs, UUIDs
<1>3. call' \in [Callers -> CallType] /\ CallShape'
  BY <1>1, <1>2, NewCall, TypeParts DEF IInv
<1>4. calls' \in 0..MaxCalls
  BY ProfileAssumption, TypeParts DEF IInv, DeleteProfileHandler
<1>5. kept' \subseteq Ids
  BY <1>1, TypeParts DEF IInv
<1> QED
  BY <1>3, <1>4, <1>5, ApiInv, TypeParts DEF IInv, DeleteProfileHandler, tables

\* A step of a call that leaves the tables alone.
LEMMA ReadStep ==
    ASSUME IInv, UNCHANGED <<tables, has, enrolment, verify, calls>>,
           queue' \in Seq(Commands), call' \in [Callers -> CallType], CallShape',
           kept' \subseteq Ids, faults' \in 0..MaxFaults
    PROVE  IInv'
BY ApiInv, TypeParts DEF IInv, tables

LEMMA SavedType ==
    ASSUME NEW row \in Rows, NEW p \in Profiles
    PROVE  Saved(row, p) \in Rows
BY DEF Saved, Rows, Profiles

LEMMA DeviceStep ==
    ASSUME IInv, NEW c \in Callers, ProcessDeviceProfiles(c)
    PROVE  IInv'
<1> DEFINE p == ProfileOf(c)
<1>1. call \in [Callers -> CallType] /\ CallShape /\ kept \subseteq Ids /\ queue \in Seq(Commands)
      /\ faults \in 0..MaxFaults /\ deviceProfiles \in [Ids -> Rows]
  BY TypeParts DEF IInv
<1>2. call[c].pc # "none"
  BY DEF ProcessDeviceProfiles, SavedDeviceProfileDiffers, PushPosted, CleanupOldProfiles,
         SavedProfileIsPresent, RemoveDeleted, SaveProfile, UpdateInstalled, At
<1>3. p \in Profiles /\ p.id \in Ids /\ p.uuid \in UUIDs
  BY <1>1, <1>2, ProfileOfCall
<1>4. InstallProfile(p) \in Commands /\ RemoveProfile(p.id) \in Commands
  BY <1>3, CommandTypes
<1>5. /\ {"push", "cleanup", "remove", "save", "bool"} \subseteq CallPCs
      /\ {"compare", "push", "cleanup"} \subseteq PostPCs
      /\ {"remove", "save", "bool"} \cap PostPCs = {}
  BY DEF CallPCs, PostPCs
<1> HIDE DEF p
<1>6. ASSUME SavedDeviceProfileDiffers(c) PROVE IInv'
  <2>1. PICK differs \in BOOLEAN, pc \in {"push", "cleanup"} :
          call' = [call EXCEPT ![c].differs = differs, ![c].pc = pc]
    BY <1>6 DEF SavedDeviceProfileDiffers
  <2>2. call' = [call EXCEPT ![c] = [@ EXCEPT !.pc = pc, !.differs = differs]]
    BY <2>1, <1>1 DEF CallType
  <2>3. call[c].pc \in PostPCs
    BY <1>6, <1>5 DEF SavedDeviceProfileDiffers, At
  <2>4. call' \in [Callers -> CallType] /\ CallShape'
    BY <1>1, <1>2, <1>5, <2>2, <2>3, GotoType
  <2>5. faults' \in 0..MaxFaults
    BY <1>1, <1>6, FaultType DEF SavedDeviceProfileDiffers, Fault
  <2> QED
    BY <1>1, <1>6, <2>4, <2>5, ReadStep DEF SavedDeviceProfileDiffers
<1>7. ASSUME PushPosted(c) PROVE IInv'
  <2>1. call' \in [Callers -> CallType] /\ CallShape'
    BY <1>1, <1>2, <1>5, <1>7, GotoStep DEF PushPosted, At
  <2>2. queue' \in Seq(Commands) /\ faults' \in 0..MaxFaults
    BY <1>1, <1>4, <1>7, SendType DEF PushPosted, p
  <2> QED
    BY <1>1, <1>7, <2>1, <2>2, ReadStep DEF PushPosted
<1>8. ASSUME CleanupOldProfiles(c) PROVE IInv'
  <2>1. (Goto(c, "save") /\ UNCHANGED kept) \/ \E posted \in BOOLEAN : Reply(c, posted)
    BY <1>8 DEF CleanupOldProfiles
  <2>2. call' \in [Callers -> CallType] /\ CallShape' /\ kept' \subseteq Ids
    BY <1>1, <1>2, <1>5, <2>1, GotoStep, ReplyStep
  <2>3. deviceProfiles' \in [Ids -> Rows]
    BY <1>1, <1>8, RowTypes DEF CleanupOldProfiles
  <2>4. faults' \in 0..MaxFaults
    BY <1>1, <1>8, FaultType DEF CleanupOldProfiles, Fault
  <2> QED
    BY <1>1, <1>8, <2>2, <2>3, <2>4, ApiInv, TypeParts DEF CleanupOldProfiles, IInv
<1>9. ASSUME SavedProfileIsPresent(c) PROVE IInv'
  <2>1. Goto(c, "remove") \/ Goto(c, "save")
    BY <1>9 DEF SavedProfileIsPresent
  <2>2. call' \in [Callers -> CallType] /\ CallShape'
    BY <1>1, <1>2, <1>5, <2>1, GotoStep
  <2>3. faults' \in 0..MaxFaults
    BY <1>1, <1>9, FaultType DEF SavedProfileIsPresent, Fault
  <2> QED
    BY <1>1, <1>9, <2>2, <2>3, ReadStep DEF SavedProfileIsPresent
<1>10. ASSUME RemoveDeleted(c) PROVE IInv'
  <2>1. (Goto(c, "save") /\ UNCHANGED kept) \/ Reply(c, FALSE)
    BY <1>10 DEF RemoveDeleted
  <2>2. call' \in [Callers -> CallType] /\ CallShape' /\ kept' \subseteq Ids
    BY <1>1, <1>2, <1>5, <2>1, GotoStep, ReplyStep
  <2>3. queue' \in Seq(Commands) /\ faults' \in 0..MaxFaults
    BY <1>1, <1>4, <1>10, SendType DEF RemoveDeleted, p
  <2> QED
    BY <1>10, <2>2, <2>3, ReadStep DEF RemoveDeleted
<1>11. ASSUME SaveProfile(c) PROVE IInv'
  <2>1. (Goto(c, "bool") /\ UNCHANGED kept) \/ Reply(c, FALSE)
    BY <1>11 DEF SaveProfile
  <2>2. call' \in [Callers -> CallType] /\ CallShape' /\ kept' \subseteq Ids
    BY <1>1, <1>2, <1>5, <2>1, GotoStep, ReplyStep
  <2>3. deviceProfiles' \in [Ids -> Rows]
    <3>1. \/ deviceProfiles' = [deviceProfiles EXCEPT ![p.id] = Saved(deviceProfiles[p.id], p)]
          \/ UNCHANGED deviceProfiles
      BY <1>11 DEF SaveProfile, p
    <3>2. Saved(deviceProfiles[p.id], p) \in Rows
      BY <1>1, <1>3, SavedType
    <3> QED
      BY <1>1, <3>1, <3>2
  <2>4. faults' \in 0..MaxFaults
    BY <1>1, <1>11, FaultType DEF SaveProfile, Fault
  <2> QED
    BY <1>1, <1>11, <2>2, <2>3, <2>4, ApiInv, TypeParts DEF SaveProfile, IInv
<1>12. ASSUME UpdateInstalled(c) PROVE IInv'
  <2>1. \E posted \in BOOLEAN : Reply(c, posted)
    BY <1>12 DEF UpdateInstalled
  <2>2. call' \in [Callers -> CallType] /\ CallShape' /\ kept' \subseteq Ids
    BY <1>1, <1>2, <2>1, ReplyStep
  <2>3. deviceProfiles' \in [Ids -> Rows]
    <3>1. PICK new \in {"absent", "installed", "removed"} :
            \/ deviceProfiles' = [deviceProfiles EXCEPT ![p.id].state = new]
            \/ UNCHANGED deviceProfiles
      BY <1>1, <1>3, <1>12 DEF UpdateInstalled, p, Rows
    <3>2. [deviceProfiles[p.id] EXCEPT !.state = new] \in Rows
      BY <1>1, <1>3 DEF Rows
    <3> QED
      BY <1>1, <1>3, <3>1, <3>2
  <2>4. faults' \in 0..MaxFaults
    BY <1>1, <1>12, FaultType DEF UpdateInstalled, Fault
  <2> QED
    BY <1>1, <1>12, <2>2, <2>3, <2>4, ApiInv, TypeParts DEF UpdateInstalled, IInv
<1> QED
  BY <1>6, <1>7, <1>8, <1>9, <1>10, <1>11, <1>12 DEF ProcessDeviceProfiles

LEMMA SharedStep ==
    ASSUME IInv, NEW c \in Callers, ProcessSharedProfiles(c)
    PROVE  IInv'
<1> DEFINE p == ProfileOf(c)
<1>1. call \in [Callers -> CallType] /\ CallShape /\ kept \subseteq Ids /\ queue \in Seq(Commands)
      /\ faults \in 0..MaxFaults /\ sharedProfiles \subseteq SharedRows
  BY TypeParts DEF IInv
<1>2. call[c].pc # "none"
  BY DEF ProcessSharedProfiles, DeleteOldShared, CreateShared, CheckOwn, PushShared,
         DisableSharedProfiles, At
<1>3. p \in Profiles /\ p.id \in Ids /\ p.uuid \in UUIDs
  BY <1>1, <1>2, ProfileOfCall
<1>4. {"create", "check", "send"} \subseteq CallPCs /\ {"drop", "create", "check", "send"} \subseteq PostPCs
  BY DEF CallPCs, PostPCs
<1>5. ASSUME call[c].pc \in PostPCs,
             \/ \E pc \in {"create", "check", "send"} : Goto(c, pc) /\ UNCHANGED kept
             \/ Reply(c, FALSE)
      PROVE  call' \in [Callers -> CallType] /\ CallShape' /\ kept' \subseteq Ids
  BY <1>1, <1>2, <1>4, <1>5, GotoStep, ReplyStep
<1> HIDE DEF p
<1>6. ASSUME DeleteOldShared(c) PROVE IInv'
  <2>1. call' \in [Callers -> CallType] /\ CallShape' /\ kept' \subseteq Ids
    BY <1>4, <1>5, <1>6 DEF DeleteOldShared, AfterSave, At
  <2>2. sharedProfiles' \subseteq SharedRows
    BY <1>1, <1>6 DEF DeleteOldShared
  <2>3. faults' \in 0..MaxFaults
    BY <1>1, <1>6, FaultType DEF DeleteOldShared, Fault
  <2> QED
    BY <1>1, <1>6, <2>1, <2>2, <2>3, ApiInv, TypeParts DEF DeleteOldShared, IInv
<1>7. ASSUME CreateShared(c) PROVE IInv'
  <2>1. call' \in [Callers -> CallType] /\ CallShape' /\ kept' \subseteq Ids
    BY <1>4, <1>5, <1>7 DEF CreateShared, AfterSave, At
  <2>2. p.uuid \in Versions
    BY <1>1, <1>2, <1>4, <1>7, ProfileOfCall DEF CreateShared, At, p
  <2>3. sharedProfiles' \subseteq SharedRows
    <3>1. [id |-> p.id, uuid |-> p.uuid, installed |-> TRUE] \in SharedRows
      BY <1>3, <2>2 DEF SharedRows
    <3>2. \/ sharedProfiles' =
               sharedProfiles \cup {[id |-> p.id, uuid |-> p.uuid, installed |-> TRUE]}
          \/ UNCHANGED sharedProfiles
      BY <1>7 DEF CreateShared, p
    <3> QED
      BY <1>1, <3>1, <3>2
  <2>4. faults' \in 0..MaxFaults
    BY <1>1, <1>7, FaultType DEF CreateShared, Fault
  <2> QED
    BY <1>1, <1>7, <2>1, <2>3, <2>4, ApiInv, TypeParts DEF CreateShared, IInv
<1>8. ASSUME CheckOwn(c) PROVE IInv'
  <2>1. call' \in [Callers -> CallType] /\ CallShape' /\ kept' \subseteq Ids
    BY <1>1, <1>4, <1>5, <1>8 DEF CheckOwn, At
  <2>2. faults' \in 0..MaxFaults
    BY <1>1, <1>8, FaultType DEF CheckOwn, Fault
  <2> QED
    BY <1>1, <1>8, <2>1, <2>2, ReadStep DEF CheckOwn
<1>9. ASSUME PushShared(c) PROVE IInv'
  <2>1. call' \in [Callers -> CallType] /\ CallShape' /\ kept' \subseteq Ids
    BY <1>4, <1>5, <1>9 DEF PushShared, At
  <2>2. queue' \in Seq(Commands) /\ faults' \in 0..MaxFaults
    BY <1>1, <1>3, <1>9, CommandTypes, SendType DEF PushShared, p
  <2> QED
    BY <1>9, <2>1, <2>2, ReadStep DEF PushShared
<1>10. ASSUME DisableSharedProfiles(c) PROVE IInv'
  <2>1. call' \in [Callers -> CallType] /\ CallShape' /\ kept' \subseteq Ids
    BY <1>1, <1>2, <1>10, ReplyStep DEF DisableSharedProfiles
  <2>2. \A row \in SharedRows : [row EXCEPT !.installed = FALSE] \in SharedRows
    BY DEF SharedRows
  <2>3. sharedProfiles' \subseteq SharedRows
    BY <1>1, <1>10, <2>2 DEF DisableSharedProfiles
  <2>4. faults' \in 0..MaxFaults
    BY <1>1, <1>10, FaultType DEF DisableSharedProfiles, Fault
  <2> QED
    BY <1>1, <1>10, <2>1, <2>3, <2>4, ApiInv, TypeParts DEF DisableSharedProfiles, IInv
<1> QED
  BY <1>6, <1>7, <1>8, <1>9, <1>10 DEF ProcessSharedProfiles

\* What a step of the device or of VerifyMDMProfiles has to show.
LEMMA VerifyInv ==
    ASSUME IInv, UNCHANGED <<tables, enrolment, api>>,
           has' \in [Ids -> Copies], HasShape', queue' \in Seq(Commands),
           verify' \in [Workers -> RunType], CheckedShape', faults' \in 0..MaxFaults
    PROVE  IInv'
<1>1. TypeOK'
  BY TypeParts, TypePartsNext DEF IInv, tables, api
<1>2. CallShape'
  BY DEF IInv, CallShape, api
<1> QED
  BY <1>1, <1>2 DEF IInv

LEMMA StepType ==
    ASSUME verify \in [Workers -> RunType], CheckedShape,
           NEW w \in Workers, NEW v \in RunType,
           v.pc # "send" => v.checked = {}, v.checked \subseteq v.install \cup v.remove,
           Step(w, v)
    PROVE  verify' \in [Workers -> RunType] /\ CheckedShape'
BY DEF Step, CheckedShape

LEMMA ReturnType ==
    ASSUME IInv, NEW w \in Workers, Return(w)
    PROVE  verify' \in [Workers -> RunType] /\ CheckedShape'
<1>1. verify \in [Workers -> RunType] /\ CheckedShape /\ has \in [Ids -> Copies]
  BY TypeParts DEF IInv
<1>2. NoVerification \in RunType /\ NoVerification.checked = {}
  BY <1>1, FreshRun
<1> QED
  BY <1>1, <1>2, StepType DEF Return

LEMMA RequestStep == ASSUME IInv, RequestProfileList PROVE IInv'
<1>1. queue' \in Seq(Commands)
  BY TypeParts, CommandTypes, AppendProperties DEF IInv, RequestProfileList
<1> QED
  BY <1>1, VerifyInv, TypeParts DEF IInv, RequestProfileList, HasShape, CheckedShape

LEMMA TypeOfCommands ==
    ASSUME NEW command \in Commands
    PROVE  \/ command = ProfileList
           \/ \E id \in Ids : command = RemoveProfile(id) /\ command.id = id
                              /\ command.type = "RemoveProfile"
           \/ \E p \in Profiles : command = InstallProfile(p) /\ command.profile = p
                                  /\ command.type = "InstallProfile"
BY DEF Commands, RemoveProfile, InstallProfile

LEMMA ObeysStep == ASSUME IInv, DeviceObeys PROVE IInv'
<1>1. has \in [Ids -> Copies] /\ HasShape /\ queue \in Seq(Commands) /\ queue # <<>>
  BY TypeParts DEF IInv, DeviceObeys
<1>2. queue' \in Seq(Commands)
  BY <1>1, HeadTailProperties DEF DeviceObeys
<1>3. PICK command \in Commands : command = Head(queue)
  BY <1>1, HeadTailProperties
<1>4. NotThere \in Copies /\ NotThere.uuid = NoUUID
  BY RowTypes DEF NotThere
<1>5. has' \in [Ids -> Copies] /\ HasShape'
  <2>1. CASE \E id \in Ids : command = RemoveProfile(id) /\ command.id = id
                             /\ command.type = "RemoveProfile"
    <3>1. PICK id \in Ids : command.id = id /\ command.type = "RemoveProfile"
      BY <2>1
    <3>2. has' = [has EXCEPT ![id] = NotThere]
      BY <1>3, <3>1 DEF DeviceObeys
    <3> QED
      BY <1>1, <1>4, <3>2 DEF HasShape
  <2>2. CASE \E p \in Profiles : command = InstallProfile(p) /\ command.profile = p
                                 /\ command.type = "InstallProfile"
    <3>1. PICK p \in Profiles : command.profile = p /\ command.type = "InstallProfile"
      BY <2>2
    <3>2. has' = IF p.uuid = NoUUID THEN has
                 ELSE [has EXCEPT ![p.id] = [uuid |-> p.uuid, signer |-> NewSigner]]
      BY <1>3, <3>1 DEF DeviceObeys
    <3>3. p.id \in Ids /\ [uuid |-> p.uuid, signer |-> NewSigner] \in Copies
      BY ProfileAssumption DEF Profiles, Copies, NewSigner, Signers
    <3> QED
      BY <1>1, <3>2, <3>3 DEF HasShape
  <2>3. command # ProfileList
    BY <1>3 DEF DeviceObeys
  <2> QED
    BY <2>1, <2>2, <2>3, TypeOfCommands
<1> QED
  BY <1>2, <1>5, VerifyInv, TypeParts DEF IInv, DeviceObeys, CheckedShape

LEMMA AnswerStep == ASSUME IInv, NEW w \in Workers, DeviceAnswers(w) PROVE IInv'
<1>1. has \in [Ids -> Copies] /\ queue \in Seq(Commands) /\ verify \in [Workers -> RunType]
      /\ CheckedShape
  BY TypeParts DEF IInv
<1>2. queue' \in Seq(Commands)
  BY <1>1, HeadTailProperties DEF DeviceAnswers
<1>3. Verification(has) \in RunType /\ Verification(has).checked = {}
  BY <1>1, FreshRun
<1>4. verify' \in [Workers -> RunType] /\ CheckedShape'
  BY <1>1, <1>3, StepType DEF DeviceAnswers
<1> QED
  BY <1>2, <1>4, VerifyInv, TypeParts DEF IInv, DeviceAnswers, HasShape

LEMMA CrashStep == ASSUME IInv, Crash PROVE IInv'
<1>1. has \in [Ids -> Copies]
  BY TypeParts DEF IInv
<1>2. call' \in [Callers -> CallType] /\ CallShape'
  BY NoCallType DEF Crash, CallShape
<1>3. verify' \in [Workers -> RunType] /\ CheckedShape'
  BY <1>1, FreshRun DEF Crash, CheckedShape
<1>4. faults' \in 0..MaxFaults
  BY ProfileAssumption, TypeParts DEF IInv, Crash, Fault
<1>5. TypeOK'
  BY <1>2, <1>3, <1>4, TypeParts, TypePartsNext DEF IInv, Crash, tables
<1> QED
  BY <1>2, <1>3, <1>5 DEF IInv, Crash, HasShape

LEMMA CandidateTypes ==
    ASSUME NEW rows \in [Ids -> Rows], sharedProfiles \subseteq SharedRows
    PROVE  ProfilesForVerification(rows) \subseteq Candidates
<1>1. \A id \in Ids : [id |-> id, uuid |-> rows[id].uuid,
                       installed |-> rows[id].state = "installed", type |-> "device"] \in Candidates
  BY DEF Rows, Candidates
<1>2. \A row \in SharedRows : [id |-> row.id, uuid |-> row.uuid,
                               installed |-> row.installed, type |-> "shared"] \in Candidates
  BY DEF SharedRows, Candidates, UUIDs
<1> QED
  BY <1>1, <1>2 DEF ProfilesForVerification

LEMMA CandidateParts ==
    ASSUME NEW p \in Candidates
    PROVE  /\ p.id \in Ids /\ p.uuid \in UUIDs /\ p.installed \in BOOLEAN
           /\ Install(p) \in Commands /\ RemoveProfile(p.id) \in Commands
<1>1. p.id \in Ids /\ p.uuid \in UUIDs /\ p.installed \in BOOLEAN
  BY DEF Candidates
<1>2. [id |-> p.id, uuid |-> p.uuid] \in Profiles
  BY <1>1 DEF Profiles
<1> QED
  BY <1>1, <1>2, CommandTypes DEF Install

LEMMA WithoutType ==
    ASSUME NEW v \in RunType, NEW profiles
    PROVE  Without(v, profiles) \in RunType /\ Without(v, profiles).checked = {}
BY DEF Without, RunType

LEMMA VerifyStep ==
    ASSUME IInv, NEW w \in Workers, VerifyMDMProfiles(w)
    PROVE  IInv'
<1>1. /\ has \in [Ids -> Copies] /\ queue \in Seq(Commands) /\ faults \in 0..MaxFaults
      /\ deviceProfiles \in [Ids -> Rows] /\ sharedProfiles \subseteq SharedRows
      /\ verify \in [Workers -> RunType] /\ verify[w] \in RunType /\ HasShape
  BY TypeParts DEF IInv
<1>2. /\ verify[w].pc # "send" => verify[w].checked = {}
      /\ verify[w].checked \subseteq verify[w].install \cup verify[w].remove
      /\ CheckedShape
  BY DEF IInv, CheckedShape
<1>3. /\ verify[w].install \subseteq Candidates /\ verify[w].remove \subseteq Candidates
      /\ verify[w].checked \subseteq Candidates
  BY <1>1 DEF RunType
<1>4. NoVerification \in RunType /\ NoVerification.checked = {}
  BY <1>1, FreshRun
<1>5. ASSUME UNCHANGED <<tables, has, enrolment, api>>,
             queue' \in Seq(Commands), faults' \in 0..MaxFaults,
             verify' \in [Workers -> RunType], CheckedShape'
      PROVE  IInv'
  BY <1>1, <1>5, VerifyInv DEF HasShape
<1>6. ASSUME LoadDeviceProfiles(w) PROVE IInv'
  <2>1. [verify[w] EXCEPT !.pc = "compare", !.rows = deviceProfiles] \in RunType
    BY <1>1 DEF RunType
  <2>2. verify' \in [Workers -> RunType] /\ CheckedShape'
    BY <1>1, <1>2, <1>6, <2>1, StepType, ReturnType DEF LoadDeviceProfiles, RunType
  <2>3. faults' \in 0..MaxFaults
    BY <1>1, <1>6, FaultType DEF LoadDeviceProfiles, Fault
  <2> QED
    BY <1>1, <1>5, <1>6, <2>2, <2>3 DEF LoadDeviceProfiles
<1>7. ASSUME CompareProfiles(w) PROVE IInv'
  <2> DEFINE v == verify[w]
             candidates == ProfilesForVerification(v.rows)
             act == [NoVerification EXCEPT
                       !.pc = "act",
                       !.install = {p \in candidates : ToInstall(p, v.list)},
                       !.remove = {p \in candidates : ToRemove(p, v.list)}]
  <2>1. candidates \subseteq Candidates
    BY <1>1, CandidateTypes DEF RunType
  <2>2. act \in RunType /\ act.checked = {}
    BY <1>4, <2>1 DEF RunType
  <2>3. Step(w, act) \/ Return(w)
    BY <1>7 DEF CompareProfiles
  <2>4. verify' \in [Workers -> RunType] /\ CheckedShape'
    BY <1>1, <1>2, <2>2, <2>3, StepType, ReturnType
  <2>5. faults' \in 0..MaxFaults
    BY <1>1, <1>7, FaultType DEF CompareProfiles, Fault
  <2> QED
    BY <1>1, <1>5, <1>7, <2>4, <2>5 DEF CompareProfiles
<1>8. ASSUME PushProfile(w) PROVE IInv'
  <2>1. PICK p \in Candidates, sent \in BOOLEAN :
          /\ SendCommand(Install(p), sent)
          /\ Step(w, [verify[w] EXCEPT !.install = @ \ {p}])
    BY <1>3, <1>8 DEF PushProfile, Of
  <2>2. queue' \in Seq(Commands) /\ faults' \in 0..MaxFaults
    BY <1>1, <2>1, CandidateParts, SendType
  <2>3. [verify[w] EXCEPT !.install = @ \ {p}] \in RunType
    BY <1>1 DEF RunType
  <2>4. [verify[w] EXCEPT !.install = @ \ {p}].checked = {}
    BY <1>1, <1>2, <1>8 DEF PushProfile, RunType
  <2>5. verify' \in [Workers -> RunType] /\ CheckedShape'
    BY <1>1, <1>2, <2>1, <2>3, <2>4, StepType
  <2> QED
    BY <1>5, <1>8, <2>2, <2>5 DEF PushProfile
<1>9. ASSUME DeleteDeviceProfile(w) PROVE IInv'
  <2>1. PICK p \in Candidates, sent \in BOOLEAN :
          /\ SendCommand(RemoveProfile(p.id), sent)
          /\ Step(w, [verify[w] EXCEPT !.remove = IF sent THEN @ \ {p} ELSE Of("shared", @)])
    BY <1>3, <1>9 DEF DeleteDeviceProfile, Of
  <2>2. queue' \in Seq(Commands) /\ faults' \in 0..MaxFaults
    BY <1>1, <2>1, CandidateParts, SendType
  <2>3. PICK left \in SUBSET Candidates : Step(w, [verify[w] EXCEPT !.remove = left])
    BY <1>3, <2>1 DEF Of
  <2>4. [verify[w] EXCEPT !.remove = left] \in RunType
    BY <1>1 DEF RunType
  <2>5. [verify[w] EXCEPT !.remove = left].checked = {}
    BY <1>1, <1>2, <1>9 DEF DeleteDeviceProfile, RunType
  <2>6. verify' \in [Workers -> RunType] /\ CheckedShape'
    BY <1>1, <1>2, <2>3, <2>4, <2>5, StepType
  <2> QED
    BY <1>5, <1>9, <2>2, <2>6 DEF DeleteDeviceProfile
<1>10. ASSUME CheckSharedProfile(w) PROVE IInv'
  <2>1. PICK p \in Turn(verify[w]) :
          \/ Step(w, Without(verify[w], {p})) \/ Step(w, Without(verify[w], Turn(verify[w])))
          \/ Step(w, [verify[w] EXCEPT !.pc = "send", !.checked = {p}])
    BY <1>10 DEF CheckSharedProfile
  <2>2. p \in verify[w].install \cup verify[w].remove
    BY <2>1 DEF Turn
  <2>3. [verify[w] EXCEPT !.pc = "send", !.checked = {p}] \in RunType
    BY <1>1, <1>3, <2>2 DEF RunType
  <2>4. [verify[w] EXCEPT !.pc = "send", !.checked = {p}].checked \subseteq
          [verify[w] EXCEPT !.pc = "send", !.checked = {p}].install \cup
          [verify[w] EXCEPT !.pc = "send", !.checked = {p}].remove
        /\ [verify[w] EXCEPT !.pc = "send", !.checked = {p}].pc = "send"
    BY <1>1, <2>2 DEF RunType
  <2>5. verify' \in [Workers -> RunType] /\ CheckedShape'
    <3>1. CASE Step(w, [verify[w] EXCEPT !.pc = "send", !.checked = {p}])
      BY <1>1, <1>2, <2>3, <2>4, <3>1, StepType
    <3>2. CASE \E profiles : Step(w, Without(verify[w], profiles))
      BY <1>1, <1>2, <3>2, WithoutType, StepType
    <3> QED
      BY <2>1, <3>1, <3>2
  <2>6. faults' \in 0..MaxFaults
    BY <1>1, <1>10, FaultType DEF CheckSharedProfile, Fault
  <2> QED
    BY <1>1, <1>5, <1>10, <2>5, <2>6 DEF CheckSharedProfile
<1>11. ASSUME SendSharedProfile(w) PROVE IInv'
  <2>1. PICK p \in Candidates, sent \in BOOLEAN :
          /\ SendCommand(IF p.installed THEN Install(p) ELSE RemoveProfile(p.id), sent)
          /\ Step(w, Without(verify[w], IF sent THEN {p} ELSE Turn(verify[w])))
    BY <1>3, <1>11 DEF SendSharedProfile
  <2>2. queue' \in Seq(Commands) /\ faults' \in 0..MaxFaults
    BY <1>1, <2>1, CandidateParts, SendType
  <2>3. verify' \in [Workers -> RunType] /\ CheckedShape'
    BY <1>1, <1>2, <2>1, WithoutType, StepType
  <2> QED
    BY <1>5, <1>11, <2>2, <2>3 DEF SendSharedProfile
<1>12. ASSUME FinishVerification(w) PROVE IInv'
  BY <1>1, <1>5, <1>12, ReturnType DEF FinishVerification
<1> QED
  BY <1>6, <1>7, <1>8, <1>9, <1>10, <1>11, <1>12 DEF VerifyMDMProfiles

LEMMA NextIInv == IInv /\ [Next]_vars => IInv'
<1> SUFFICES ASSUME IInv, [Next]_vars PROVE IInv'
  OBVIOUS
<1>1. ASSUME NEW c \in Callers, Serve(c) PROVE IInv'
  BY <1>1, DeviceStep, SharedStep DEF Serve
<1>2. CASE UNCHANGED vars
  BY <1>2, VerifyInv, TypeParts DEF vars, IInv, HasShape, CheckedShape
<1> QED
  BY <1>1, <1>2, PostStep, DeleteStep, RequestStep, ObeysStep, AnswerStep, VerifyStep,
     CrashStep DEF Next

LEMMA Invariant == Spec => []IInv
BY InitIInv, NextIInv, PTL DEF Spec

\* Every variable keeps to its type, for any identifiers, goroutines, calls and faults.
THEOREM TypeCorrect == Spec => []TypeOK
<1>1. IInv => TypeOK
  BY DEF IInv
<1> QED
  BY <1>1, Invariant, PTL

-----------------------------------------------------------------------------
(* A device in sync is left alone.                                           *)

\* What a row wants is what the device has.
LEMMA WantedByRow ==
    ASSUME IInv, InSync(has), NEW p \in ProfilesForVerification(deviceProfiles)
    PROVE  /\ p.id \in Ids /\ p.installed \in BOOLEAN
           /\ has[p.id].uuid = IF p.installed THEN p.uuid ELSE NoUUID
           /\ p.installed => p.uuid # NoUUID
           /\ Sign /\ has[p.id] # NotThere => has[p.id].signer = "present"
<1>1. /\ deviceProfiles \in [Ids -> Rows] /\ sharedProfiles \subseteq SharedRows
      /\ ~HalfSaved
  BY TypeParts DEF IInv, InSync
<1>2. ASSUME NEW id \in Ids, Wanted(id) # {}
      PROVE  Wanted(id) = {has[id].uuid}
             /\ (Sign /\ has[id] # NotThere => has[id].signer = "present")
  BY <1>2 DEF InSync
<1>3. CASE \E id \in Ids : /\ deviceProfiles[id].state # "absent"
                           /\ p = [id |-> id, uuid |-> deviceProfiles[id].uuid,
                                   installed |-> deviceProfiles[id].state = "installed",
                                   type |-> "device"]
  <2>1. PICK id \in Ids : /\ deviceProfiles[id].state # "absent"
                          /\ p = [id |-> id, uuid |-> deviceProfiles[id].uuid,
                                  installed |-> deviceProfiles[id].state = "installed",
                                  type |-> "device"]
    BY <1>3
  <2>2. p.id = id /\ p.uuid = deviceProfiles[id].uuid
        /\ p.installed = (deviceProfiles[id].state = "installed")
    BY <2>1
  <2>3. Wanted(id) = {IF p.installed THEN p.uuid ELSE NoUUID}
    BY <2>1, <2>2 DEF Wanted, HasOwn
  <2>4. p.installed => p.uuid # NoUUID
    <3>1. deviceProfiles[id] # [state |-> "installed", uuid |-> NoUUID]
      BY <1>1 DEF HalfSaved
    <3> QED
      BY <1>1, <2>2, <3>1 DEF Rows
  <2> QED
    BY <1>2, <2>2, <2>3, <2>4
<1>4. CASE \E row \in sharedProfiles :
             /\ deviceProfiles[row.id].state = "absent"
             /\ p = [id |-> row.id, uuid |-> row.uuid, installed |-> row.installed,
                     type |-> "shared"]
  <2>1. PICK row \in sharedProfiles :
             /\ deviceProfiles[row.id].state = "absent"
             /\ p = [id |-> row.id, uuid |-> row.uuid, installed |-> row.installed,
                     type |-> "shared"]
    BY <1>4
  <2>2. p.id = row.id /\ p.uuid = row.uuid /\ p.installed = row.installed
    BY <2>1
  <2>3. row.id \in Ids /\ row.uuid \in Versions /\ row.installed \in BOOLEAN
    BY <1>1 DEF SharedRows
  <2>4. (IF row.installed THEN row.uuid ELSE NoUUID) \in Wanted(row.id)
    BY <2>1 DEF Wanted, HasOwn
  <2>5. has[row.id].uuid = IF row.installed THEN row.uuid ELSE NoUUID
    BY <1>2, <2>3, <2>4
  <2> QED
    BY <1>2, <2>2, <2>3, <2>4, <2>5, ProfileAssumption
<1> QED
  BY <1>1, <1>3, <1>4 DEF ProfilesForVerification, SharedRows

LEMMA NothingToDo ==
    ASSUME IInv, InSync(has), NEW p \in ProfilesForVerification(deviceProfiles)
    PROVE  ~ToInstall(p, has) /\ ~ToRemove(p, has)
<1>1. CASE p.installed
  <2>1. has[p.id].uuid = p.uuid /\ has[p.id] # NotThere
    BY <1>1, WantedByRow DEF NotThere
  <2>2. Sign => has[p.id].signer = "present"
    BY <2>1, WantedByRow
  <2> QED
    BY <1>1, <2>1, <2>2 DEF ToInstall, ToRemove, validateProfileInProfileList
<1>2. CASE ~p.installed
  <2>1. has[p.id] = NotThere
    BY <1>2, WantedByRow DEF IInv, HasShape
  <2> QED
    BY <1>2, <2>1 DEF ToInstall, ToRemove, validateProfileInProfileList
<1> QED
  BY <1>1, <1>2

\* What a steady device is, in its parts.
Resting(w) ==
    /\ verify[w].pc \in {"load", "compare"} => verify[w].list = has
    /\ verify[w].pc = "compare" => verify[w].rows = deviceProfiles
    /\ verify[w].install = {} /\ verify[w].remove = {}

LEMMA SteadyParts ==
    ASSUME Steady
    PROVE  /\ InSync(has)
           /\ \A c \in Callers : At(c, "none")
           /\ \A i \in DOMAIN queue : queue[i] = ProfileList
           /\ \A w \in Workers : Resting(w)
BY DEF Steady, Resting

\* A step that leaves the tables, the device and the calls alone.
LEMMA StaysSteady ==
    ASSUME Steady, UNCHANGED <<tables, has, call>>,
           \A i \in DOMAIN queue' : queue'[i] = ProfileList,
           \A w \in Workers : Resting(w)'
    PROVE  Steady'
<1>1. InSync(has)'
  BY DEF Steady, InSync, Wanted, HalfSaved, HasOwn, tables
<1>2. \A c \in Callers : At(c, "none")'
  BY DEF Steady, At
<1> QED
  BY <1>1, <1>2 DEF Steady, Resting

LEMMA OthersRest ==
    ASSUME Steady, UNCHANGED <<tables, has>>, NEW w \in Workers, NEW v, Step(w, v),
           \A u \in Workers : verify[u] \in RunType, verify \in [Workers -> RunType],
           v.pc \in {"load", "compare"} => v.list = has,
           v.pc = "compare" => v.rows = deviceProfiles,
           v.install = {}, v.remove = {}
    PROVE  \A u \in Workers : Resting(u)'
BY SteadyParts DEF Resting, Step, tables

\* With nothing to do, a verification reads, compares and ends.
LEMMA SteadyVerify ==
    ASSUME IInv, Steady, NEW w \in Workers, VerifyMDMProfiles(w)
    PROVE  Steady'
<1>1. /\ verify \in [Workers -> RunType] /\ \A u \in Workers : verify[u] \in RunType
      /\ has \in [Ids -> Copies] /\ verify[w].checked = {}
  <2>1. verify \in [Workers -> RunType] /\ has \in [Ids -> Copies]
    BY TypeParts DEF IInv
  <2>2. verify[w].checked = {}
    BY SteadyParts DEF IInv, CheckedShape, Resting
  <2> QED
    BY <2>1, <2>2
<1>2. /\ InSync(has) /\ \A i \in DOMAIN queue : queue[i] = ProfileList
      /\ verify[w].install = {} /\ verify[w].remove = {}
      /\ Resting(w)
  BY SteadyParts DEF Resting
<1>3. NoVerification.pc = "none" /\ NoVerification.install = {} /\ NoVerification.remove = {}
      /\ NoVerification \in RunType
  BY <1>1, FreshRun DEF NoVerification, Verification
<1>4. ASSUME Return(w), UNCHANGED <<tables, has, queue, api>> PROVE Steady'
  <2>1. \A u \in Workers : Resting(u)'
    BY <1>1, <1>3, <1>4, OthersRest DEF Return
  <2> QED
    BY <1>2, <1>4, <2>1, StaysSteady DEF api
<1>5. CASE LoadDeviceProfiles(w)
  <2> DEFINE v == [verify[w] EXCEPT !.pc = "compare", !.rows = deviceProfiles]
  <2>1. v.list = has /\ v.rows = deviceProfiles /\ v.install = {} /\ v.remove = {}
        /\ v.pc = "compare"
    BY <1>1, <1>2, <1>5 DEF LoadDeviceProfiles, RunType, Resting
  <2>2. Step(w, v) \/ Return(w)
    BY <1>5 DEF LoadDeviceProfiles
  <2> HIDE DEF v
  <2>3. ASSUME Step(w, v) PROVE \A u \in Workers : Resting(u)'
    BY <1>1, <1>5, <2>1, <2>3, OthersRest DEF LoadDeviceProfiles
  <2> QED
    BY <1>2, <1>4, <1>5, <2>2, <2>3, StaysSteady DEF LoadDeviceProfiles, api
<1>6. CASE CompareProfiles(w)
  <2>1. verify[w].list = has /\ verify[w].rows = deviceProfiles
    BY <1>2, <1>6 DEF CompareProfiles, Resting
  <2> DEFINE candidates == ProfilesForVerification(deviceProfiles)
             v == [NoVerification EXCEPT
                     !.pc = "act",
                     !.install = {p \in candidates : ToInstall(p, has)},
                     !.remove = {p \in candidates : ToRemove(p, has)}]
  <2>2. {p \in candidates : ToInstall(p, has)} = {} /\ {p \in candidates : ToRemove(p, has)} = {}
    BY <1>2, NothingToDo
  <2>3. v.pc = "act" /\ v.install = {} /\ v.remove = {}
    BY <1>3, <2>2 DEF RunType
  <2>4. Step(w, v) \/ Return(w)
    BY <1>6, <2>1 DEF CompareProfiles
  <2> HIDE DEF v
  <2>5. ASSUME Step(w, v) PROVE \A u \in Workers : Resting(u)'
    BY <1>1, <1>6, <2>3, <2>5, OthersRest DEF CompareProfiles
  <2> QED
    BY <1>2, <1>4, <1>6, <2>4, <2>5, StaysSteady DEF CompareProfiles, api
<1>7. CASE FinishVerification(w)
  BY <1>4, <1>7 DEF FinishVerification
<1>8. ~PushProfile(w) /\ ~DeleteDeviceProfile(w) /\ ~CheckSharedProfile(w) /\ ~SendSharedProfile(w)
  BY <1>1, <1>2 DEF PushProfile, DeleteDeviceProfile, CheckSharedProfile, SendSharedProfile,
                    Of, Turn
<1> QED
  BY <1>5, <1>6, <1>7, <1>8 DEF VerifyMDMProfiles

LEMMA SteadyNext ==
    ASSUME IInv, Steady, [Next]_vars
    PROVE  Steady' \/ \E c \in Callers : ~At(c, "none")'
<1>1. /\ \A c \in Callers : call[c].pc = "none"
      /\ \A i \in DOMAIN queue : queue[i] = ProfileList
      /\ queue \in Seq(Commands) /\ call \in [Callers -> CallType]
      /\ has \in [Ids -> Copies] /\ verify \in [Workers -> RunType]
  BY SteadyParts, TypeParts DEF At, IInv
<1>2. NoVerification.pc = "none" /\ NoVerification.install = {} /\ NoVerification.remove = {}
      /\ NoVerification \in RunType
  BY <1>1, FreshRun DEF NoVerification, Verification
<1>3. CASE \E c \in Callers : PostProfileHandler(c) \/ DeleteProfileHandler(c)
  <2>1. PICK c \in Callers, pc \in {"compare", "drop", "present", "disable"} :
          \E p, push : call' = [call EXCEPT ![c] = Call(pc, p, push)]
    BY <1>3 DEF PostProfileHandler, DeleteProfileHandler
  <2>2. PICK p, push : call' = [call EXCEPT ![c] = Call(pc, p, push)]
    BY <2>1
  <2>3. Call(pc, p, push).pc = pc
    BY DEF Call
  <2>4. ~At(c, "none")'
    BY <1>1, <2>2, <2>3 DEF At
  <2> QED
    BY <2>4
<1>4. \A c \in Callers : ~Serve(c)
  BY <1>1 DEF Serve, ProcessDeviceProfiles, ProcessSharedProfiles, SavedDeviceProfileDiffers,
              PushPosted, CleanupOldProfiles, SavedProfileIsPresent, RemoveDeleted, SaveProfile,
              UpdateInstalled, DeleteOldShared, CreateShared, CheckOwn, PushShared,
              DisableSharedProfiles, At
<1>5. CASE RequestProfileList
  <2>1. \A i \in DOMAIN queue' : queue'[i] = ProfileList
    BY <1>1, <1>5, CommandTypes, AppendProperties DEF RequestProfileList
  <2>2. \A w \in Workers : Resting(w)'
    BY <1>5, SteadyParts DEF RequestProfileList, Resting, tables
  <2> QED
    BY <1>5, <2>1, <2>2, StaysSteady DEF RequestProfileList, api
<1>6. ~DeviceObeys
  <2>1. queue # <<>> => Head(queue) = ProfileList
    BY <1>1, HeadTailProperties
  <2> QED
    BY <2>1 DEF DeviceObeys
<1>7. CASE \E w \in Workers : DeviceAnswers(w)
  <2>1. PICK w \in Workers : DeviceAnswers(w)
    BY <1>7
  <2>2. Verification(has).list = has /\ Verification(has).pc = "load"
        /\ Verification(has).install = {} /\ Verification(has).remove = {}
    BY DEF Verification
  <2>3. \A u \in Workers : Resting(u)'
    BY <1>1, <2>1, <2>2, OthersRest DEF DeviceAnswers
  <2>4. \A i \in DOMAIN queue' : queue'[i] = ProfileList
    BY <1>1, <2>1, HeadTailProperties DEF DeviceAnswers
  <2> QED
    BY <2>1, <2>3, <2>4, StaysSteady DEF DeviceAnswers, api
<1>8. CASE Crash
  <2>1. \A w \in Workers : Resting(w)'
    BY <1>2, <1>8 DEF Crash, Resting
  <2>2. InSync(has)'
    BY <1>8, SteadyParts DEF Crash, InSync, Wanted, HalfSaved, HasOwn, tables
  <2>3. \A c \in Callers : At(c, "none")'
    BY <1>8, NoCallType DEF Crash, At
  <2>4. \A i \in DOMAIN queue' : queue'[i] = ProfileList
    BY <1>1, <1>8 DEF Crash
  <2> QED
    BY <2>1, <2>2, <2>3, <2>4 DEF Steady, Resting
<1>9. CASE UNCHANGED vars
  <2>1. \A w \in Workers : Resting(w)'
    BY <1>9, SteadyParts DEF vars, Resting, tables
  <2> QED
    BY <1>1, <1>9, <2>1, StaysSteady DEF vars, api
<1> QED
  BY <1>3, <1>4, <1>5, <1>6, <1>7, <1>8, <1>9, SteadyVerify DEF Next

\* A device that has what the tables want is left alone until an operator calls, whatever
\* fails meanwhile and however many goroutines serve its answers.
THEOREM DeviceLeftAlone == Spec => LeftAlone
<1>1. IInv /\ [Next]_vars => [Steady => Steady' \/ \E c \in Callers : ~At(c, "none")']_vars
  BY SteadyNext
<1> QED
  BY <1>1, Invariant, PTL DEF Spec, LeftAlone

-----------------------------------------------------------------------------
(* The rows of the device, where no two calls about a device profile overlap. *)

\* An identifier a device call is about is not kept, and past the comparison the posted
\* version is stored or going to be.
WorkingOn(c, p) ==
    /\ call[c].pc \in DevicePCs => p.id \notin kept
    /\ call[c].pc = "push" => call[c].differs
    /\ call[c].pc = "cleanup" /\ ~call[c].differs =>
         deviceProfiles[p.id] = [state |-> "installed", uuid |-> p.uuid]
    /\ call[c].pc = "bool" => HasOwn(p.id)

Working == \A c \in Callers : \A p \in call[c].profile : WorkingOn(c, p)

KeptStored == \A id \in kept : deviceProfiles[id].state = "installed"

CallInv == IInv /\ Working /\ KeptStored

\* A step of a call about p leaves the others' work alone, which is about other profiles.
LEMMA OthersWork ==
    ASSUME CallsApart, IInv, Working, NEW c \in Callers, NEW p \in Profiles,
           call[c].pc \in DevicePCs, call[c].profile = {p},
           \A d \in Callers : d # c => call'[d] = call[d],
           \A id \in Ids : id # p.id => deviceProfiles'[id] = deviceProfiles[id],
           kept' \subseteq kept \cup {p.id}
    PROVE  \A d \in Callers : d # c => \A q \in call[d].profile : WorkingOn(d, q)'
<1> SUFFICES ASSUME NEW d \in Callers, d # c, NEW q \in call[d].profile PROVE WorkingOn(d, q)'
  OBVIOUS
<1>1. q \in Profiles /\ q.id \in Ids
  BY TypeParts DEF IInv, CallType, Profiles
<1>2. CASE call[d].pc \in DevicePCs
  <2>1. q.id # p.id
    BY <1>2 DEF CallsApart
  <2>2. WorkingOn(d, q)
    BY DEF Working
  <2> QED
    BY <1>1, <2>1, <2>2 DEF WorkingOn, HasOwn
<1>3. CASE call[d].pc \notin DevicePCs
  BY <1>3 DEF WorkingOn, DevicePCs
<1> QED
  BY <1>2, <1>3

LEMMA GotoParts ==
    ASSUME IInv, NEW c \in Callers, NEW pc, Goto(c, pc)
    PROVE  call'[c].pc = pc /\ call'[c].profile = call[c].profile
           /\ call'[c].differs = call[c].differs
<1>1. call \in [Callers -> CallType]
  BY TypeParts DEF IInv
<1>2. call' = [call EXCEPT ![c] = [call[c] EXCEPT !.pc = pc]]
  BY DEF Goto
<1> QED
  BY <1>1, <1>2 DEF CallType

LEMMA DeviceCall ==
    ASSUME CallsApart, CallInv, NEW c \in Callers, ProcessDeviceProfiles(c)
    PROVE  Working' /\ KeptStored'
<1>1. call \in [Callers -> CallType] /\ CallShape /\ kept \subseteq Ids
      /\ deviceProfiles \in [Ids -> Rows] /\ IInv
  BY TypeParts DEF CallInv, IInv
<1>2. call[c].pc \in DevicePCs
  BY DEF ProcessDeviceProfiles, SavedDeviceProfileDiffers, PushPosted, CleanupOldProfiles,
         SavedProfileIsPresent, RemoveDeleted, SaveProfile, UpdateInstalled, At, DevicePCs
<1>3. PICK p \in Profiles : /\ p = ProfileOf(c) /\ call[c].profile = {p}
                            /\ p.id \in Ids /\ p.uuid \in UUIDs
                            /\ call[c].pc \in PostPCs => p.uuid \in Versions
  BY <1>1, <1>2, ProfileOfCall DEF DevicePCs
<1>4. WorkingOn(c, p) /\ p.id \notin kept /\ KeptStored
  BY <1>2, <1>3 DEF CallInv, Working, WorkingOn
<1>5. \A pc : Goto(c, pc) => /\ call'[c].pc = pc /\ call'[c].profile = {p}
                             /\ call'[c].differs = call[c].differs
  BY <1>1, <1>3, GotoParts
<1>F. /\ \A d \in Callers : d # c => call'[d] = call[d]
      /\ \A id \in Ids : id # p.id => deviceProfiles'[id] = deviceProfiles[id]
      /\ kept' \subseteq kept \cup {p.id}
  <2>1. \/ UNCHANGED deviceProfiles
        \/ \E row : deviceProfiles' = [deviceProfiles EXCEPT ![p.id] = row]
    <3>1. UpdateInstalled(c) =>
            \/ UNCHANGED deviceProfiles
            \/ \E row : deviceProfiles' = [deviceProfiles EXCEPT ![p.id] = row]
      BY <1>3 DEF UpdateInstalled
    <3> QED
      BY <1>3, <3>1 DEF ProcessDeviceProfiles, SavedDeviceProfileDiffers, PushPosted,
         CleanupOldProfiles, SavedProfileIsPresent, RemoveDeleted, SaveProfile, tables
  <2>2. \/ UNCHANGED kept
        \/ \E posted \in BOOLEAN : Reply(c, posted)
    BY DEF ProcessDeviceProfiles, SavedDeviceProfileDiffers, PushPosted,
           CleanupOldProfiles, SavedProfileIsPresent, RemoveDeleted, SaveProfile, UpdateInstalled
  <2>3. \/ \E posted \in BOOLEAN : Reply(c, posted)
        \/ \E pc : Goto(c, pc)
        \/ \E differs, pc : call' = [call EXCEPT ![c].differs = differs, ![c].pc = pc]
    BY DEF ProcessDeviceProfiles, SavedDeviceProfileDiffers, PushPosted,
           CleanupOldProfiles, SavedProfileIsPresent, RemoveDeleted, SaveProfile, UpdateInstalled
  <2>4. \A d \in Callers : d # c => call'[d] = call[d]
    BY <1>1, <2>3 DEF Reply, Goto
  <2>5. \A id \in Ids : id # p.id => deviceProfiles'[id] = deviceProfiles[id]
    BY <1>1, <2>1
  <2>6. kept' \subseteq kept \cup {p.id}
    BY <1>3, <2>2 DEF Reply
  <2> QED
    BY <2>4, <2>5, <2>6
<1>O. ASSUME \A q \in call'[c].profile : WorkingOn(c, q)' PROVE Working'
  <2>1. \A d \in Callers : d # c => \A q \in call[d].profile : WorkingOn(d, q)'
    BY <1>1, <1>2, <1>3, <1>F, OthersWork DEF CallInv
  <2> QED
    BY <1>F, <1>O, <2>1 DEF Working
<1>7. UNCHANGED <<deviceProfiles, kept>> => KeptStored'
  BY <1>4 DEF KeptStored
<1>8. ASSUME NEW posted \in BOOLEAN, Reply(c, posted) PROVE Working'
  <2>1. call'[c].profile = {}
    BY <1>1, <1>8 DEF Reply, NoCall
  <2> QED
    BY <1>O, <2>1
<1>9. ASSUME NEW pc \in {"remove", "save"}, Goto(c, pc), UNCHANGED kept
      PROVE  Working'
  <2>1. call'[c].pc = pc /\ call'[c].profile = {p}
    BY <1>5, <1>9
  <2>2. WorkingOn(c, p)'
    BY <1>4, <1>9, <2>1 DEF WorkingOn
  <2> QED
    BY <1>O, <2>1, <2>2
<1>10. CASE SavedDeviceProfileDiffers(c)
  <2>1. PICK differs \in BOOLEAN, pc \in {"push", "cleanup"} :
          /\ call' = [call EXCEPT ![c].differs = differs, ![c].pc = pc]
          /\ pc = "push" => differs
          /\ ~differs => deviceProfiles[p.id].state = "installed" /\ deviceProfiles[p.id].uuid = p.uuid
    BY <1>3, <1>10 DEF SavedDeviceProfileDiffers
  <2>2. call'[c].pc = pc /\ call'[c].differs = differs /\ call'[c].profile = {p}
    BY <1>1, <1>3, <2>1 DEF CallType
  <2>3. ~differs => deviceProfiles[p.id] = [state |-> "installed", uuid |-> p.uuid]
    BY <1>1, <1>3, <2>1 DEF Rows
  <2>4. UNCHANGED <<tables, kept>>
    BY <1>10 DEF SavedDeviceProfileDiffers
  <2>5. WorkingOn(c, p)'
    BY <1>4, <2>1, <2>2, <2>3, <2>4 DEF WorkingOn, tables
  <2> QED
    BY <1>7, <1>O, <2>2, <2>4, <2>5 DEF tables
<1>11. CASE PushPosted(c)
  <2>1. call'[c].pc = "cleanup" /\ call'[c].profile = {p} /\ call'[c].differs = call[c].differs
        /\ UNCHANGED <<tables, kept>>
    BY <1>5, <1>11 DEF PushPosted
  <2>2. call[c].differs
    BY <1>4, <1>11 DEF WorkingOn, PushPosted, At
  <2>3. WorkingOn(c, p)'
    BY <1>4, <2>1, <2>2 DEF WorkingOn
  <2> QED
    BY <1>7, <1>O, <2>1, <2>3 DEF tables
<1>12. CASE CleanupOldProfiles(c)
  <2>2. Working'
    BY <1>8, <1>9, <1>12 DEF CleanupOldProfiles
  <2>3. \A id \in Ids : id # p.id => deviceProfiles'[id] = deviceProfiles[id]
    BY <1>3, <1>1, <1>12 DEF CleanupOldProfiles
  <2>4. kept' = kept \/ kept' = kept \cup {p.id}
    BY <1>3, <1>12 DEF CleanupOldProfiles, Reply
  <2>5. ASSUME p.id \in kept' PROVE deviceProfiles'[p.id].state = "installed"
    <3>1. ~call[c].differs
      BY <1>3, <1>4, <1>12, <2>5 DEF CleanupOldProfiles, Reply
    <3>2. deviceProfiles[p.id] = [state |-> "installed", uuid |-> p.uuid]
      BY <1>4, <1>12, <3>1 DEF WorkingOn, CleanupOldProfiles, At
    <3>3. \/ deviceProfiles' = [deviceProfiles EXCEPT ![p.id] =
                IF deviceProfiles[p.id].uuid = p.uuid THEN deviceProfiles[p.id] ELSE NoRow]
          \/ UNCHANGED deviceProfiles
      BY <1>3, <1>12 DEF CleanupOldProfiles
    <3>4. deviceProfiles'[p.id] = deviceProfiles[p.id]
      BY <1>1, <1>3, <3>2, <3>3
    <3> QED
      BY <3>2, <3>4
  <2>6. KeptStored'
    BY <1>1, <1>4, <2>3, <2>4, <2>5 DEF KeptStored
  <2> QED
    BY <2>2, <2>6
<1>13. CASE SavedProfileIsPresent(c)
  <2>1. Goto(c, "remove") \/ Goto(c, "save")
    BY <1>13 DEF SavedProfileIsPresent
  <2> QED
    BY <1>7, <1>9, <1>13, <2>1 DEF SavedProfileIsPresent, tables
<1>14. CASE RemoveDeleted(c)
  <2>1. (Goto(c, "save") /\ UNCHANGED kept) \/ Reply(c, FALSE)
    BY <1>14 DEF RemoveDeleted
  <2>2. UNCHANGED <<tables, kept>>
    BY <1>14, <2>1 DEF RemoveDeleted, Reply
  <2> QED
    BY <1>7, <1>8, <1>9, <2>1, <2>2 DEF tables
<1>15. CASE SaveProfile(c)
  <2>1. /\ UNCHANGED kept
        /\ \/ /\ deviceProfiles' = [deviceProfiles EXCEPT ![p.id] = Saved(deviceProfiles[p.id], p)]
              /\ Goto(c, "bool")
           \/ UNCHANGED deviceProfiles /\ Reply(c, FALSE)
    BY <1>3, <1>15 DEF SaveProfile, Reply
  <2>2. KeptStored'
    BY <1>1, <1>4, <2>1 DEF KeptStored
  <2>3. ASSUME deviceProfiles' = [deviceProfiles EXCEPT ![p.id] = Saved(deviceProfiles[p.id], p)],
               Goto(c, "bool")
        PROVE  Working'
    <3>1. call'[c].pc = "bool" /\ call'[c].profile = {p}
      BY <1>5, <2>3
    <3>2. HasOwn(p.id)'
      BY <1>1, <1>3, <2>3 DEF HasOwn, Saved
    <3>3. WorkingOn(c, p)'
      BY <1>4, <2>1, <3>1, <3>2 DEF WorkingOn
    <3> QED
      BY <1>O, <3>1, <3>3
  <2> QED
    BY <1>8, <2>1, <2>2, <2>3
<1>16. CASE UpdateInstalled(c)
  <2>1. \E posted \in BOOLEAN : Reply(c, posted)
    BY <1>16 DEF UpdateInstalled
  <2>2. \A id \in Ids : id # p.id => deviceProfiles'[id] = deviceProfiles[id]
    BY <1>3, <1>1, <1>16 DEF UpdateInstalled
  <2>3. ASSUME p.id \in kept' PROVE deviceProfiles'[p.id].state = "installed"
    <3>1. p.uuid # NoUUID
      BY <1>3, <1>4, <1>16, <2>3 DEF UpdateInstalled, Reply
    <3>2. deviceProfiles[p.id].state # "absent"
      BY <1>4, <1>16 DEF UpdateInstalled, At, WorkingOn, HasOwn
    <3>3. ~Reply(c, FALSE)
      BY <1>4, <2>3 DEF Reply
    <3>4. deviceProfiles' = [deviceProfiles EXCEPT ![p.id].state = "installed"]
      BY <1>3, <1>16, <3>1, <3>2, <3>3 DEF UpdateInstalled
    <3> QED
      BY <1>1, <1>3, <3>4 DEF Rows
  <2>4. kept' \subseteq kept \cup {p.id}
    BY <1>3, <2>1 DEF Reply
  <2>5. KeptStored'
    BY <1>1, <1>4, <2>2, <2>3, <2>4 DEF KeptStored
  <2> QED
    BY <1>8, <2>1, <2>5
<1> QED
  BY <1>10, <1>11, <1>12, <1>13, <1>14, <1>15, <1>16 DEF ProcessDeviceProfiles

LEMMA InitCallInv == Init => CallInv
<1> SUFFICES ASSUME Init PROVE CallInv
  OBVIOUS
<1>1. \A c \in Callers : call[c].profile = {}
  BY DEF Init, NoCall
<1>2. Working /\ KeptStored
  BY <1>1 DEF Init, Working, KeptStored
<1> QED
  BY <1>2, InitIInv DEF CallInv

\* A step that leaves the rows of the device alone, and begins at most another call of
\* which nothing is known.
LEMMA QuietCalls ==
    ASSUME CallInv, UNCHANGED <<deviceProfiles, kept>>,
           \A c \in Callers : call'[c] = call[c] \/ call'[c].pc \notin DevicePCs
    PROVE  Working' /\ KeptStored'
BY DEF CallInv, Working, WorkingOn, HasOwn, KeptStored, DevicePCs

LEMMA SharedCallQuiet ==
    ASSUME IInv, NEW c \in Callers, ProcessSharedProfiles(c)
    PROVE  /\ UNCHANGED <<deviceProfiles, kept>>
           /\ \A d \in Callers : call'[d] = call[d] \/ call'[d].pc \notin DevicePCs
<1>1. call \in [Callers -> CallType]
  BY TypeParts DEF IInv
<1>2. Reply(c, FALSE) \/ \E pc \in {"create", "check", "send"} : Goto(c, pc)
  BY DEF ProcessSharedProfiles, DeleteOldShared, CreateShared, CheckOwn, PushShared,
         DisableSharedProfiles, AfterSave
<1>3. UNCHANGED <<deviceProfiles, kept>>
  BY DEF ProcessSharedProfiles, DeleteOldShared, CreateShared, CheckOwn, PushShared,
         DisableSharedProfiles, AfterSave, Reply, tables
<1>4. \A d \in Callers : d # c => call'[d] = call[d]
  BY <1>1, <1>2 DEF Reply, Goto
<1>5. call'[c].pc \in {"none", "create", "check", "send"}
  BY <1>1, <1>2, GotoParts, NoCallType DEF Reply
<1> QED
  BY <1>3, <1>4, <1>5 DEF DevicePCs

LEMMA NextCallInv == CallsApart /\ CallInv /\ [Next]_vars => CallInv'
<1> SUFFICES ASSUME CallsApart, CallInv, [Next]_vars PROVE Working' /\ KeptStored'
  BY NextIInv DEF CallInv
<1>1. IInv /\ Working /\ KeptStored /\ call \in [Callers -> CallType]
  BY TypeParts DEF CallInv, IInv
<1>2. ASSUME UNCHANGED <<deviceProfiles, call, kept>> PROVE Working' /\ KeptStored'
  BY <1>2, QuietCalls
<1>3. ASSUME NEW c \in Callers, PostProfileHandler(c) \/ DeleteProfileHandler(c)
      PROVE  Working' /\ KeptStored'
  <2>1. PICK id \in Ids, uuid \in UUIDs, push \in BOOLEAN,
             pc \in {"compare", "drop", "present", "disable"} :
          /\ call' = [call EXCEPT ![c] = Call(pc, [id |-> id, uuid |-> uuid], push)]
          /\ IF pc \in DevicePCs THEN kept' = kept \ {id} ELSE UNCHANGED kept
          /\ UNCHANGED deviceProfiles
    BY <1>3 DEF PostProfileHandler, DeleteProfileHandler, UUIDs, DevicePCs, tables
  <2>2. PICK p : p = [id |-> id, uuid |-> uuid]
    OBVIOUS
  <2>3. call'[c].pc = pc /\ call'[c].profile = {p} /\ p.id = id
        /\ \A d \in Callers : d # c => call'[d] = call[d]
    BY <1>1, <2>1, <2>2 DEF Call
  <2>4. WorkingOn(c, p)'
    BY <2>1, <2>3 DEF WorkingOn
  <2>5. kept' \subseteq kept
    BY <2>1
  <2>6. \A d \in Callers : d # c => \A q \in call[d].profile : WorkingOn(d, q)'
    BY <1>1, <2>1, <2>3, <2>5 DEF Working, WorkingOn, HasOwn
  <2>7. Working'
    BY <2>3, <2>4, <2>6 DEF Working
  <2> QED
    BY <1>1, <2>1, <2>5, <2>7 DEF KeptStored
<1>4. CASE Crash
  <2>1. \A c \in Callers : call'[c].profile = {}
    BY <1>4 DEF Crash, NoCall
  <2> QED
    BY <1>1, <1>4, <2>1 DEF Crash, Working, KeptStored, tables
<1>5. ASSUME NEW c \in Callers, Serve(c) PROVE Working' /\ KeptStored'
  BY <1>1, <1>5, DeviceCall, SharedCallQuiet, QuietCalls DEF Serve
<1>6. CASE RequestProfileList \/ DeviceObeys \/ UNCHANGED vars
  BY <1>2, <1>6 DEF RequestProfileList, DeviceObeys, vars, tables, api
<1>7. ASSUME NEW w \in Workers, DeviceAnswers(w) \/ VerifyMDMProfiles(w)
      PROVE  Working' /\ KeptStored'
  BY <1>2, <1>7 DEF DeviceAnswers, VerifyMDMProfiles, LoadDeviceProfiles, CompareProfiles,
                    PushProfile, DeleteDeviceProfile, CheckSharedProfile, SendSharedProfile,
                    FinishVerification, tables, api
<1> QED
  BY <1>3, <1>4, <1>5, <1>6, <1>7 DEF Next

\* For any number of calls of which no two are about one device profile at a time, a posted
\* device profile stays in the table until the next call about it, whatever fails and
\* whatever verifications do.
THEOREM PostedStays == Spec /\ []CallsApart => []PostedKept
<1>1. CallInv => PostedKept
  BY DEF CallInv, KeptStored, PostedKept
<1> QED
  BY <1>1, InitCallInv, NextCallInv, PTL DEF Spec

-----------------------------------------------------------------------------
(* The rows of the shared profiles, where no two posts of one overlap between *)
(* the two statements of SaveSharedProfiles.                                  *)

\* Past the first statement no row of the identifier is left.
Dropped ==
    \A c \in Callers : At(c, "create") =>
      \A p \in call[c].profile : \A row \in sharedProfiles : row.id # p.id

SharedInv == IInv /\ Dropped /\ OneSharedRow

\* A step that makes no row, and lets no call come to making one.
LEMMA NoneMade ==
    ASSUME Dropped, OneSharedRow, UNCHANGED sharedProfiles,
           \A c \in Callers : call'[c] = call[c] \/ call'[c].pc # "create"
    PROVE  Dropped' /\ OneSharedRow'
BY DEF Dropped, OneSharedRow, At

LEMMA SharedCall ==
    ASSUME CreatesApart, SharedInv, NEW c \in Callers, ProcessSharedProfiles(c)
    PROVE  Dropped' /\ OneSharedRow'
<1>1. call \in [Callers -> CallType] /\ CallShape /\ sharedProfiles \subseteq SharedRows
      /\ IInv /\ Dropped /\ OneSharedRow
  BY TypeParts DEF SharedInv, IInv
<1>2. call[c].pc # "none"
  BY DEF ProcessSharedProfiles, DeleteOldShared, CreateShared, CheckOwn, PushShared,
         DisableSharedProfiles, At
<1>3. PICK p \in Profiles : p = ProfileOf(c) /\ call[c].profile = {p}
  BY <1>1, <1>2, ProfileOfCall
<1>4. \A pc : Goto(c, pc) => /\ call'[c].pc = pc /\ call'[c].profile = {p}
                             /\ \A d \in Callers : d # c => call'[d] = call[d]
  BY <1>1, <1>3, GotoParts DEF Goto
<1>5. Reply(c, FALSE) => /\ call'[c].pc = "none"
                         /\ \A d \in Callers : d # c => call'[d] = call[d]
  BY <1>1, NoCallType DEF Reply
<1>6. ASSUME AfterSave(c)
      PROVE  /\ call'[c].pc # "create"
             /\ \A d \in Callers : d # c => call'[d] = call[d]
  <2>1. CASE Goto(c, "check")
    BY <1>4, <2>1
  <2>2. CASE Reply(c, FALSE)
    BY <1>5, <2>2
  <2> QED
    BY <1>6, <2>1, <2>2 DEF AfterSave
<1>7. CASE DeleteOldShared(c)
  <2>1. CASE sharedProfiles' = {row \in sharedProfiles : row.id # p.id} /\ Goto(c, "create")
    <3>1. ASSUME NEW d \in Callers, At(d, "create")', NEW q \in call'[d].profile,
                 NEW row \in sharedProfiles'
          PROVE  row.id # q.id
      <4>1. row \in sharedProfiles /\ row.id # p.id
        BY <2>1
      <4>2. CASE d = c
        BY <1>4, <2>1, <3>1, <4>1, <4>2
      <4>3. CASE d # c
        <5>1. call'[d] = call[d]
          BY <1>4, <2>1, <4>3
        <5> QED
          BY <1>1, <3>1, <4>1, <5>1 DEF Dropped, At
      <4> QED
        BY <4>2, <4>3
    <3>2. OneSharedRow'
      BY <1>1, <2>1 DEF OneSharedRow
    <3> QED
      BY <3>1, <3>2 DEF Dropped
  <2>2. CASE AfterSave(c) /\ UNCHANGED sharedProfiles
    BY <1>1, <1>6, <2>2, NoneMade
  <2> QED
    BY <1>3, <1>7, <2>1, <2>2 DEF DeleteOldShared
<1>8. CASE CreateShared(c)
  <2>1. \A row \in sharedProfiles : row.id # p.id
    BY <1>1, <1>3, <1>8 DEF Dropped, CreateShared
  <2>2. PICK new \in [id : {p.id}, uuid : {p.uuid}, installed : {TRUE}] :
          new = [id |-> p.id, uuid |-> p.uuid, installed |-> TRUE]
    OBVIOUS
  <2>3. sharedProfiles' = sharedProfiles \cup {new} \/ UNCHANGED sharedProfiles
    BY <1>3, <1>8, <2>2 DEF CreateShared
  <2>4. OneSharedRow'
    <3>1. \A r, t \in sharedProfiles \cup {new} : r.id = t.id => r = t
      BY <1>1, <2>1, <2>2 DEF OneSharedRow
    <3> QED
      BY <1>1, <2>3, <3>1 DEF OneSharedRow
  <2>5. ASSUME NEW d \in Callers, At(d, "create")', NEW q \in call'[d].profile,
               NEW row \in sharedProfiles'
        PROVE  row.id # q.id
    <3>1. d # c /\ call'[d] = call[d]
      BY <1>6, <1>8, <2>5 DEF CreateShared, At
    <3>2. q.id # p.id
      BY <1>3, <1>8, <2>5, <3>1 DEF CreatesApart, CreateShared, At
    <3>3. row = new \/ row \in sharedProfiles
      BY <2>3
    <3> QED
      BY <1>1, <2>2, <2>5, <3>1, <3>2, <3>3 DEF Dropped, At
  <2> QED
    BY <2>4, <2>5 DEF Dropped
<1>9. CASE CheckOwn(c) \/ PushShared(c)
  <2>1. UNCHANGED sharedProfiles /\ (Reply(c, FALSE) \/ Goto(c, "send"))
    BY <1>9 DEF CheckOwn, PushShared, tables
  <2> QED
    BY <1>1, <1>4, <1>5, <2>1, NoneMade
<1>10. CASE DisableSharedProfiles(c)
  <2>1. \A row \in sharedProfiles : [row EXCEPT !.installed = FALSE].id = row.id
    BY <1>1 DEF SharedRows
  <2>2. CASE UNCHANGED sharedProfiles
    BY <1>1, <1>5, <1>10, <2>2, NoneMade DEF DisableSharedProfiles
  <2>3. CASE sharedProfiles' = {IF row.id = p.id THEN [row EXCEPT !.installed = FALSE]
                                ELSE row : row \in sharedProfiles}
    <3>1. ASSUME NEW r \in sharedProfiles'
          PROVE  \E a \in sharedProfiles :
                   /\ r = IF a.id = p.id THEN [a EXCEPT !.installed = FALSE] ELSE a
                   /\ r.id = a.id
      <4>1. PICK a \in sharedProfiles :
              r = IF a.id = p.id THEN [a EXCEPT !.installed = FALSE] ELSE a
        BY <2>3
      <4>2. r.id = a.id
        BY <2>1, <4>1
      <4> QED
        BY <4>1, <4>2
    <3>2. OneSharedRow'
      <4> SUFFICES ASSUME NEW r \in sharedProfiles', NEW t \in sharedProfiles', r.id = t.id
                   PROVE  r = t
        BY DEF OneSharedRow
      <4>1. PICK a \in sharedProfiles :
              /\ r = IF a.id = p.id THEN [a EXCEPT !.installed = FALSE] ELSE a
              /\ r.id = a.id
        BY <3>1
      <4>2. PICK b \in sharedProfiles :
              /\ t = IF b.id = p.id THEN [b EXCEPT !.installed = FALSE] ELSE b
              /\ t.id = b.id
        BY <3>1
      <4>3. a = b
        BY <1>1, <4>1, <4>2 DEF OneSharedRow
      <4> QED
        BY <4>1, <4>2, <4>3
    <3>3. \A d \in Callers : call'[d].pc = "create" => call'[d] = call[d]
      BY <1>5, <1>10 DEF DisableSharedProfiles
    <3>4. Dropped'
      BY <1>1, <3>1, <3>3 DEF Dropped, At
    <3> QED
      BY <3>2, <3>4
  <2> QED
    BY <1>3, <1>10, <2>2, <2>3 DEF DisableSharedProfiles
<1> QED
  BY <1>7, <1>8, <1>9, <1>10 DEF ProcessSharedProfiles

LEMMA DeviceCallQuiet ==
    ASSUME IInv, NEW c \in Callers, ProcessDeviceProfiles(c)
    PROVE  /\ UNCHANGED sharedProfiles
           /\ \A d \in Callers : call'[d] = call[d] \/ call'[d].pc # "create"
<1>1. call \in [Callers -> CallType]
  BY TypeParts DEF IInv
<1>2. \/ \E posted \in BOOLEAN : Reply(c, posted)
      \/ \E pc \in DevicePCs : Goto(c, pc)
      \/ \E differs, pc : /\ call' = [call EXCEPT ![c].differs = differs, ![c].pc = pc]
                          /\ pc \in {"push", "cleanup"}
  BY DEF ProcessDeviceProfiles, SavedDeviceProfileDiffers, PushPosted, CleanupOldProfiles,
         SavedProfileIsPresent, RemoveDeleted, SaveProfile, UpdateInstalled, DevicePCs
<1>3. UNCHANGED sharedProfiles
  BY DEF ProcessDeviceProfiles, SavedDeviceProfileDiffers, PushPosted, CleanupOldProfiles,
         SavedProfileIsPresent, RemoveDeleted, SaveProfile, UpdateInstalled, tables
<1>4. \A d \in Callers : d # c => call'[d] = call[d]
  BY <1>1, <1>2 DEF Reply, Goto
<1>5. call'[c].pc # "create"
  <2>1. ASSUME NEW pc \in DevicePCs, Goto(c, pc) PROVE call'[c].pc # "create"
    BY <2>1, GotoParts DEF DevicePCs
  <2>2. ASSUME NEW posted \in BOOLEAN, Reply(c, posted) PROVE call'[c].pc # "create"
    BY <1>1, <2>2, NoCallType DEF Reply
  <2>3. ASSUME NEW differs, NEW pc, pc \in {"push", "cleanup"},
               call' = [call EXCEPT ![c].differs = differs, ![c].pc = pc]
        PROVE  call'[c].pc # "create"
    BY <1>1, <2>3 DEF CallType
  <2> QED
    BY <1>2, <2>1, <2>2, <2>3
<1> QED
  BY <1>3, <1>4, <1>5

LEMMA InitSharedInv == Init => SharedInv
<1> SUFFICES ASSUME Init PROVE SharedInv
  OBVIOUS
<1>1. \A c \in Callers : ~At(c, "create")
  BY NoCallType DEF Init, At, NoCall
<1>2. Dropped /\ OneSharedRow
  BY <1>1 DEF Init, Dropped, OneSharedRow
<1> QED
  BY <1>2, InitIInv DEF SharedInv

LEMMA NextSharedInv == CreatesApart /\ SharedInv /\ [Next]_vars => SharedInv'
<1> SUFFICES ASSUME CreatesApart, SharedInv, [Next]_vars PROVE Dropped' /\ OneSharedRow'
  BY NextIInv DEF SharedInv
<1>1. IInv /\ Dropped /\ OneSharedRow /\ call \in [Callers -> CallType]
  BY TypeParts DEF SharedInv, IInv
<1>2. ASSUME UNCHANGED <<sharedProfiles, call>> PROVE Dropped' /\ OneSharedRow'
  BY <1>1, <1>2, NoneMade
<1>3. ASSUME NEW c \in Callers, PostProfileHandler(c) \/ DeleteProfileHandler(c)
      PROVE  Dropped' /\ OneSharedRow'
  <2>1. PICK id \in Ids, uuid \in UUIDs, push \in BOOLEAN,
             pc \in {"compare", "drop", "present", "disable"} :
          /\ call' = [call EXCEPT ![c] = Call(pc, [id |-> id, uuid |-> uuid], push)]
          /\ UNCHANGED sharedProfiles
    BY <1>3 DEF PostProfileHandler, DeleteProfileHandler, UUIDs, tables
  <2>2. \A d \in Callers : call'[d] = call[d] \/ call'[d].pc # "create"
    BY <1>1, <2>1 DEF Call
  <2> QED
    BY <1>1, <2>1, <2>2, NoneMade
<1>4. CASE Crash
  <2>1. \A c \in Callers : call'[c].pc # "create"
    BY <1>4, NoCallType DEF Crash
  <2> QED
    BY <1>1, <1>4, <2>1, NoneMade DEF Crash, tables
<1>5. ASSUME NEW c \in Callers, Serve(c) PROVE Dropped' /\ OneSharedRow'
  BY <1>1, <1>5, SharedCall, DeviceCallQuiet, NoneMade DEF Serve
<1>6. CASE RequestProfileList \/ DeviceObeys \/ UNCHANGED vars
  BY <1>2, <1>6 DEF RequestProfileList, DeviceObeys, vars, tables, api
<1>7. ASSUME NEW w \in Workers, DeviceAnswers(w) \/ VerifyMDMProfiles(w)
      PROVE  Dropped' /\ OneSharedRow'
  BY <1>2, <1>7 DEF DeviceAnswers, VerifyMDMProfiles, LoadDeviceProfiles, CompareProfiles,
                    PushProfile, DeleteDeviceProfile, CheckSharedProfile, SendSharedProfile,
                    FinishVerification, tables, api
<1> QED
  BY <1>3, <1>4, <1>5, <1>6, <1>7 DEF Next

\* For any number of calls of which no two make a row of one shared profile at a time, a
\* shared profile never has two rows.
THEOREM NoSharedDuplicate == Spec /\ []CreatesApart => []OneSharedRow
<1>1. SharedInv => OneSharedRow
  BY DEF SharedInv
<1> QED
  BY <1>1, InitSharedInv, NextSharedInv, PTL DEF Spec

\* Calls that come one at a time do not overlap in these ways.
LEMMA OneCallIsApart ==
    ASSUME \A c, d \in Callers : c = d PROVE Spec => []CallsApart /\ []CreatesApart
<1>1. CallsApart /\ CreatesApart
  BY DEF CallsApart, CreatesApart
<1> QED
  BY <1>1, PTL

=============================================================================
