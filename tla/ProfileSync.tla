------------------------------ MODULE ProfileSync ------------------------------
(***************************************************************************)
(* The profiles of one device that is set up: the tables device_profiles    *)
(* and shared_profiles, the API that posts and deletes profiles, and        *)
(* VerifyMDMProfiles, which compares the list of profiles the device        *)
(* answers with the tables, and installs and removes until they agree.      *)
(*                                                                          *)
(* Every API call and every webhook request is a goroutine, and there is no *)
(* transaction: they may be interleaved at any statement.                   *)
(***************************************************************************)
EXTENDS Naturals, Sequences, FiniteSets

CONSTANTS
    Ids,          \* payload identifiers
    Versions,     \* hashed payload UUIDs: the contents of a profile
    Sign,         \* -sign: profiles are signed, and signers compared
    Callers,      \* goroutines that serve the API
    Workers,      \* goroutines that serve a ProfileList answer
    Requests,     \* the kinds of API calls that occur
    MaxCalls,     \* bound: how many
    FaultKinds,   \* the faults that may happen
    MaxFaults     \* bound: how many of them

\* The hashed UUID of a profile of which only the identifier is known.
NoUUID == ""

ASSUME ProfileAssumption ==
    /\ NoUUID \notin Versions
    /\ Sign \in BOOLEAN
    /\ Requests \subseteq {"post", "delete", "postShared", "deleteShared"}
    /\ MaxCalls \in Nat /\ MaxFaults \in Nat
    /\ FaultKinds \subseteq {"failed", "refused", "database", "crash"}

UUIDs == Versions \cup {NoUUID}

VARIABLES
    deviceProfiles, \* the device's rows of device_profiles, by identifier
    sharedProfiles, \* the rows of shared_profiles
    has,            \* the profiles on the device
    enrolment,      \* what verifications find of its enrolment profile
    queue,          \* MicroMDM's queue for the device
    call,           \* the API calls
    verify,         \* the runs of VerifyMDMProfiles
    calls,          \* how many API calls there have been
    kept,           \* ghost: identifiers whose last call is an answered post
    faults          \* how many faults have happened

tables == <<deviceProfiles, sharedProfiles>>
api    == <<call, calls, kept>>
vars   == <<tables, has, enrolment, queue, api, verify, faults>>

-----------------------------------------------------------------------------
Rows  == [state : {"absent", "installed", "removed"}, uuid : UUIDs]
NoRow == [state |-> "absent", uuid |-> NoUUID]

SharedRows == [id : Ids, uuid : Versions, installed : BOOLEAN]

\* A profile on the device, and who signed it: the present certificate, another one or
\* nobody, or one that cannot be parsed.
Signers  == {"present", "other", "broken"}
Copies   == [uuid : UUIDs, signer : Signers]
NotThere == [uuid |-> NoUUID, signer |-> "other"]

\* The enrolment profile is listed, and right or sent again (module EnrollmentProfile); it
\* ends every verification, since it cannot be compared or replaced; or it is not listed.
Enrolments == {"good", "none"} \cup IF Sign THEN {"stuck"} ELSE {}

Profiles == [id : Ids, uuid : UUIDs]

InstallProfile(p) == [type |-> "InstallProfile", profile |-> p]
RemoveProfile(id) == [type |-> "RemoveProfile", id |-> id]
ProfileList == [type |-> "ProfileList"]

Commands ==
    {InstallProfile(p) : p \in Profiles} \cup {RemoveProfile(id) : id \in Ids} \cup {ProfileList}

\* A call: its next step, its profile, push_now, and whether the stored one differs.
Call(pc, p, push) == [pc |-> pc, profile |-> {p}, push |-> push, differs |-> FALSE]
NoCall == [pc |-> "none", profile |-> {}, push |-> FALSE, differs |-> FALSE]

\* What VerifyMDMProfiles compares with the list: a row of either table.
Candidates == [id : Ids, uuid : UUIDs, installed : BOOLEAN, type : {"device", "shared"}]

\* A run of VerifyMDMProfiles: the list and the rows of the device until they are
\* compared, then what is left to do, and the shared profile that has passed the check
\* for a row of the device.
Verification(list) ==
    [pc |-> "load", list |-> list, rows |-> [id \in Ids |-> NoRow],
     install |-> {}, remove |-> {}, checked |-> {}]
NoVerification == [Verification([id \in Ids |-> NotThere]) EXCEPT !.pc = "none"]

\* The tables hold what earlier calls have left there, and the device whatever it had.
Init ==
    /\ deviceProfiles \in [Ids -> {NoRow} \cup {[state |-> "removed", uuid |-> NoUUID]}
                                  \cup [state : {"installed"}, uuid : Versions]]
    /\ sharedProfiles \in SUBSET SharedRows
    /\ \A r, s \in sharedProfiles : r.id = s.id => r = s
    /\ has \in [Ids -> {NotThere} \cup [uuid : Versions, signer : Signers]]
    /\ enrolment \in Enrolments
    /\ queue = <<>>
    /\ call = [c \in Callers |-> NoCall]
    /\ verify = [w \in Workers |-> NoVerification]
    /\ calls = 0 /\ faults = 0
    /\ kept = {id \in Ids : deviceProfiles[id].state = "installed"}

Fault(kind) ==
    /\ kind \in FaultKinds
    /\ faults < MaxFaults
    /\ faults' = faults + 1

NoFault == UNCHANGED faults

\* The process dies: the goroutines are gone.
Crash ==
    /\ Fault("crash")
    /\ call' = [c \in Callers |-> NoCall]
    /\ verify' = [w \in Workers |-> NoVerification]
    /\ UNCHANGED <<tables, has, enrolment, queue, calls, kept>>

\* One command, and whether SendCommand returns it without an error.  It does so for
\* an error answer too, and with no answer MicroMDM may have the command.
SendCommand(command, sent) ==
    \/ sent /\ queue' = Append(queue, command) /\ NoFault
    \/ sent /\ UNCHANGED queue /\ Fault("refused")
    \/ ~sent /\ queue' \in {queue, Append(queue, command)} /\ Fault("failed")

-----------------------------------------------------------------------------
(* The API.  A call is about one profile and targets this device.            *)

At(c, pc) == call[c].pc = pc

Goto(c, pc) == call' = [call EXCEPT ![c].pc = pc]

ProfileOf(c) == CHOOSE p \in Profiles : call[c].profile = {p}

\* The end of a call; an answered post is remembered.
Reply(c, posted) ==
    /\ call' = [call EXCEPT ![c] = NoCall]
    /\ kept' = IF posted THEN kept \cup {ProfileOf(c).id} ELSE kept

PostProfileHandler(c) ==
    /\ At(c, "none") /\ calls < MaxCalls
    /\ calls' = calls + 1
    /\ \E id \in Ids, uuid \in Versions, push \in BOOLEAN :
         LET p == [id |-> id, uuid |-> uuid] IN
         \/ /\ "post" \in Requests
            /\ call' = [call EXCEPT ![c] = Call("compare", p, push)]
            /\ kept' = kept \ {id}
         \/ /\ "postShared" \in Requests
            /\ call' = [call EXCEPT ![c] = Call("drop", p, push)]
            /\ UNCHANGED kept
    /\ UNCHANGED <<tables, has, enrolment, queue, verify, faults>>

DeleteProfileHandler(c) ==
    /\ At(c, "none") /\ calls < MaxCalls
    /\ calls' = calls + 1
    /\ \E id \in Ids, push \in BOOLEAN :
         LET p == [id |-> id, uuid |-> NoUUID] IN
         \/ /\ "delete" \in Requests
            /\ call' = [call EXCEPT ![c] = Call("present", p, push)]
            /\ kept' = kept \ {id}
         \/ /\ "deleteShared" \in Requests
            /\ call' = [call EXCEPT ![c] = Call("disable", p, push)]
            /\ UNCHANGED kept
    /\ UNCHANGED <<tables, has, enrolment, queue, verify, faults>>

\* ProcessDeviceProfiles, "post".  An error of the query reads as a difference.
SavedDeviceProfileDiffers(c) ==
    /\ At(c, "compare")
    /\ LET p == ProfileOf(c)
           row == deviceProfiles[p.id]
           Continue(differs) ==
             call' = [call EXCEPT ![c].differs = differs,
                                  ![c].pc = IF differs /\ call[c].push THEN "push" ELSE "cleanup"]
       IN \/ Continue(row.state # "installed" \/ row.uuid # p.uuid) /\ NoFault
          \/ Continue(TRUE) /\ Fault("database")
    /\ UNCHANGED <<tables, has, enrolment, queue, calls, kept, verify>>

\* push_now: an error is logged, and the profile is saved all the same.
PushPosted(c) ==
    /\ At(c, "push")
    /\ \E sent \in BOOLEAN : SendCommand(InstallProfile(ProfileOf(c)), sent)
    /\ Goto(c, "cleanup")
    /\ UNCHANGED <<tables, has, enrolment, calls, kept, verify>>

\* Mutant: a row of the posted version is cleaned up too.
CleanupAllProfiles(c) ==
    /\ At(c, "cleanup")
    /\ \/ /\ deviceProfiles' = [deviceProfiles EXCEPT ![ProfileOf(c).id] = NoRow]
          /\ IF call[c].differs THEN Goto(c, "save") /\ UNCHANGED kept ELSE Reply(c, TRUE)
          /\ NoFault
       \/ Reply(c, FALSE) /\ UNCHANGED deviceProfiles /\ Fault("database")
    /\ UNCHANGED <<sharedProfiles, has, enrolment, queue, calls, verify>>

\* What becomes of a row of another version: it is deleted as an old duplicate.
\* When the stored profile is the posted one there is nothing to save.
CleanupOldProfiles(c) ==
    /\ At(c, "cleanup")
    /\ LET p == ProfileOf(c) IN
       \/ /\ deviceProfiles' =
               [deviceProfiles EXCEPT ![p.id] = IF @.uuid = p.uuid THEN @ ELSE NoRow]
          /\ IF call[c].differs THEN Goto(c, "save") /\ UNCHANGED kept ELSE Reply(c, TRUE)
          /\ NoFault
       \/ Reply(c, FALSE) /\ UNCHANGED deviceProfiles /\ Fault("database")
    /\ UNCHANGED <<sharedProfiles, has, enrolment, queue, calls, verify>>

\* ProcessDeviceProfiles, "delete".  Without a row the profile counts as present.
SavedProfileIsPresent(c) ==
    /\ At(c, "present")
    /\ LET Continue(present) == Goto(c, IF present /\ call[c].push THEN "remove" ELSE "save")
       IN \/ Continue(deviceProfiles[ProfileOf(c).id].state # "removed") /\ NoFault
          \/ Continue(FALSE) /\ Fault("database")
    /\ UNCHANGED <<tables, has, enrolment, queue, calls, kept, verify>>

\* push_now: an error ends the call, and nothing is saved.
RemoveDeleted(c) ==
    /\ At(c, "remove")
    /\ \E sent \in BOOLEAN :
         /\ SendCommand(RemoveProfile(ProfileOf(c).id), sent)
         /\ IF sent THEN Goto(c, "save") /\ UNCHANGED kept ELSE Reply(c, FALSE)
    /\ UNCHANGED <<tables, has, enrolment, calls, verify>>

\* The row a new profile gets: of a profile to be removed too, the default of its
\* column installed is true.
Saved(row, p) ==
    [state |-> IF p.uuid = NoUUID /\ row.state # "absent" THEN "removed" ELSE "installed",
     uuid |-> p.uuid]

\* SaveProfiles, the first statement.
SaveProfile(c) ==
    /\ At(c, "save")
    /\ LET p == ProfileOf(c) IN
       \/ /\ deviceProfiles' = [deviceProfiles EXCEPT ![p.id] = Saved(@, p)]
          /\ Goto(c, "bool")
          /\ UNCHANGED kept /\ NoFault
       \/ Reply(c, FALSE) /\ UNCHANGED deviceProfiles /\ Fault("database")
    /\ UNCHANGED <<sharedProfiles, has, enrolment, queue, calls, verify>>

\* SaveProfiles, the second statement: the column installed of the row, if there is one.
UpdateInstalled(c) ==
    /\ At(c, "bool")
    /\ LET p == ProfileOf(c)
           state == IF p.uuid = NoUUID THEN "removed" ELSE "installed"
       IN \/ /\ deviceProfiles' =
                  [deviceProfiles EXCEPT ![p.id].state = IF @ = "absent" THEN @ ELSE state]
             /\ Reply(c, p.uuid # NoUUID)
             /\ NoFault
          \/ Reply(c, FALSE) /\ UNCHANGED deviceProfiles /\ Fault("database")
    /\ UNCHANGED <<sharedProfiles, has, enrolment, queue, calls, verify>>

\* After SaveSharedProfiles, whether it failed or not.
AfterSave(c) == IF call[c].push THEN Goto(c, "check") /\ UNCHANGED kept ELSE Reply(c, FALSE)

\* Mutant: only a row of the same version is deleted.
DeleteSameShared(c) ==
    /\ At(c, "drop")
    /\ \/ /\ sharedProfiles' = {row \in sharedProfiles :
                                   [id |-> row.id, uuid |-> row.uuid] # ProfileOf(c)}
          /\ Goto(c, "create")
          /\ UNCHANGED kept /\ NoFault
       \/ AfterSave(c) /\ UNCHANGED sharedProfiles /\ Fault("database")
    /\ UNCHANGED <<deviceProfiles, has, enrolment, queue, calls, verify>>

\* SaveSharedProfiles: the rows of the identifier are deleted ...
DeleteOldShared(c) ==
    /\ At(c, "drop")
    /\ \/ /\ sharedProfiles' = {row \in sharedProfiles : row.id # ProfileOf(c).id}
          /\ Goto(c, "create")
          /\ UNCHANGED kept /\ NoFault
       \/ AfterSave(c) /\ UNCHANGED sharedProfiles /\ Fault("database")
    /\ UNCHANGED <<deviceProfiles, has, enrolment, queue, calls, verify>>

\* ... and another statement makes the new one.
CreateShared(c) ==
    /\ At(c, "create")
    /\ LET p == ProfileOf(c) IN
       \/ /\ sharedProfiles' =
               sharedProfiles \cup {[id |-> p.id, uuid |-> p.uuid, installed |-> TRUE]}
          /\ NoFault
       \/ UNCHANGED sharedProfiles /\ Fault("database")
    /\ AfterSave(c)
    /\ UNCHANGED <<deviceProfiles, has, enrolment, queue, calls, verify>>

\* PushSharedProfiles: no push to a device that has a row of its own, which may also
\* say that the profile is to be removed.
HasOwn(id) == deviceProfiles[id].state # "absent"

CheckOwn(c) ==
    /\ At(c, "check")
    /\ \/ /\ IF HasOwn(ProfileOf(c).id) THEN Reply(c, FALSE) ELSE Goto(c, "send") /\ UNCHANGED kept
          /\ NoFault
       \/ Reply(c, FALSE) /\ Fault("database")
    /\ UNCHANGED <<tables, has, enrolment, queue, calls, verify>>

PushShared(c) ==
    /\ At(c, "send")
    /\ \E sent \in BOOLEAN : SendCommand(InstallProfile(ProfileOf(c)), sent)
    /\ Reply(c, FALSE)
    /\ UNCHANGED <<tables, has, enrolment, calls, verify>>

\* Mutant: the whole row is written, with a content that the request does not have.
DisableWholeRow(c) ==
    /\ At(c, "disable")
    /\ sharedProfiles' = {IF row.id = ProfileOf(c).id
                            THEN [row EXCEPT !.installed = FALSE, !.uuid = NoUUID]
                            ELSE row : row \in sharedProfiles}
    /\ NoFault
    /\ Reply(c, FALSE)
    /\ UNCHANGED <<deviceProfiles, has, enrolment, queue, calls, verify>>

\* DisableSharedProfiles.  The list it then deletes from the devices is empty.
DisableSharedProfiles(c) ==
    /\ At(c, "disable")
    /\ \/ /\ sharedProfiles' = {IF row.id = ProfileOf(c).id THEN [row EXCEPT !.installed = FALSE]
                                                           ELSE row : row \in sharedProfiles}
          /\ NoFault
       \/ UNCHANGED sharedProfiles /\ Fault("database")
    /\ Reply(c, FALSE)
    /\ UNCHANGED <<deviceProfiles, has, enrolment, queue, calls, verify>>

ProcessDeviceProfiles(c) ==
    \/ SavedDeviceProfileDiffers(c)
    \/ PushPosted(c)
    \/ CleanupOldProfiles(c)
    \/ SavedProfileIsPresent(c)
    \/ RemoveDeleted(c)
    \/ SaveProfile(c)
    \/ UpdateInstalled(c)

ProcessSharedProfiles(c) ==
    \/ DeleteOldShared(c)
    \/ CreateShared(c)
    \/ CheckOwn(c)
    \/ PushShared(c)
    \/ DisableSharedProfiles(c)

Serve(c) == ProcessDeviceProfiles(c) \/ ProcessSharedProfiles(c)

-----------------------------------------------------------------------------
(* The device, and VerifyMDMProfiles.                                        *)

\* A ProfileList is requested, of a device that is asked for one at a time.
RequestProfileList ==
    /\ \A i \in DOMAIN queue : queue[i] # ProfileList
    /\ queue' = Append(queue, ProfileList)
    /\ UNCHANGED <<tables, has, enrolment, api, verify, faults>>

NewSigner == IF Sign THEN "present" ELSE "other"

\* The device carries out a profile command.  It refuses a profile without content.
DeviceObeys ==
    /\ queue # <<>> /\ Head(queue) # ProfileList
    /\ queue' = Tail(queue)
    /\ LET command == Head(queue) IN
       has' = IF command.type = "RemoveProfile"
                THEN [has EXCEPT ![command.id] = NotThere]
                ELSE LET p == command.profile IN
                     IF p.uuid = NoUUID THEN has
                     ELSE [has EXCEPT ![p.id] = [uuid |-> p.uuid, signer |-> NewSigner]]
    /\ UNCHANGED <<tables, enrolment, api, verify, faults>>

Idle(w) == verify[w].pc = "none"

Step(w, v) == verify' = [verify EXCEPT ![w] = v]

Return(w) == Step(w, NoVerification)

\* The device answers the list of its profiles to the webhook.
DeviceAnswers(w) ==
    /\ queue # <<>> /\ Head(queue) = ProfileList
    /\ Idle(w)
    /\ queue' = Tail(queue)
    /\ Step(w, Verification(has))
    /\ UNCHANGED <<tables, has, enrolment, api, faults>>

\* A list of no profiles at all is an error.
ListIsEmpty(list) == enrolment = "none" /\ \A id \in Ids : list[id] = NotThere

LoadDeviceProfiles(w) ==
    /\ verify[w].pc = "load"
    /\ \/ /\ ~ListIsEmpty(verify[w].list)
          /\ Step(w, [verify[w] EXCEPT !.pc = "compare", !.rows = deviceProfiles])
          /\ NoFault
       \/ ListIsEmpty(verify[w].list) /\ Return(w) /\ NoFault
       \/ Return(w) /\ Fault("database")
    /\ UNCHANGED <<tables, has, enrolment, queue, api>>

\* The rows to compare with the list: a row of the device, whatever it says, stands in
\* for the shared profiles of its identifier.
ProfilesForVerification(rows) ==
    LET own == {id \in Ids : rows[id].state # "absent"}
    IN  {[id |-> id, uuid |-> rows[id].uuid, installed |-> rows[id].state = "installed",
          type |-> "device"] : id \in own}
        \cup
        {[id |-> row.id, uuid |-> row.uuid, installed |-> row.installed,
          type |-> "shared"] : row \in {r \in sharedProfiles : r.id \notin own}}

\* Mutant: the version of a profile that is not to be installed is compared too.
ValidateContent(p, list) ==
    LET copy == list[p.id]
        current == Sign => copy.signer = "present"
    IN  [installed |-> copy # NotThere /\ (current => copy.uuid = p.uuid),
         reinstall |-> p.installed /\ ~(copy # NotThere /\ current /\ copy.uuid = p.uuid)]

\* Mutant: a profile that is installed as it should be is installed again.
ValidateAgain(p, list) ==
    LET copy == list[p.id]
        current == Sign => copy.signer = "present"
    IN  [installed |-> copy # NotThere /\ (p.installed /\ current => copy.uuid = p.uuid),
         reinstall |-> p.installed]

\* validateProfileInProfileList: is it installed, and must it be installed again?  What
\* another certificate signed must be; another version counts as not installed.
validateProfileInProfileList(p, list) ==
    LET copy == list[p.id]
        current == Sign => copy.signer = "present"
    IN  [installed |-> /\ copy # NotThere
                       /\ p.installed /\ current => copy.uuid = p.uuid,
         reinstall |-> p.installed /\ ~(copy # NotThere /\ current /\ copy.uuid = p.uuid)]

\* Its error: a signer of the listed profile that cannot be parsed.
Unparsable(p, list) == Sign /\ p.installed /\ list[p.id].signer = "broken"

ToInstall(p, list) ==
    LET verdict == validateProfileInProfileList(p, list)
    IN  p.installed /\ (verdict.installed => verdict.reinstall)

ToRemove(p, list) == ~p.installed /\ validateProfileInProfileList(p, list).installed

\* The shared profiles are loaded; the enrolment profile is looked after; and every row is
\* compared with the list.  An error of either ends the call with nothing installed.
CompareProfiles(w) ==
    /\ verify[w].pc = "compare"
    /\ LET v == verify[w]
           candidates == ProfilesForVerification(v.rows)
           failing == enrolment = "stuck" \/ \E p \in candidates : Unparsable(p, v.list)
       IN \/ failing /\ Return(w) /\ NoFault
          \/ /\ ~failing
             /\ Step(w, [NoVerification EXCEPT
                            !.pc = "act",
                            !.install = {p \in candidates : ToInstall(p, v.list)},
                            !.remove = {p \in candidates : ToRemove(p, v.list)}])
             /\ NoFault
          \/ Return(w) /\ \E kind \in {"failed", "database"} : Fault(kind)
    /\ UNCHANGED <<tables, has, enrolment, queue, api>>

Of(type, profiles) == {p \in profiles : p.type = type}

Install(p) == InstallProfile([id |-> p.id, uuid |-> p.uuid])

\* PushProfiles: an error is logged, and the next one follows.
PushProfile(w) ==
    /\ verify[w].pc = "act"
    /\ \E p \in Of("device", verify[w].install), sent \in BOOLEAN :
         /\ SendCommand(Install(p), sent)
         /\ Step(w, [verify[w] EXCEPT !.install = @ \ {p}])
    /\ UNCHANGED <<tables, has, enrolment, api>>

\* DeleteDeviceProfiles: an error ends it.
DeleteDeviceProfile(w) ==
    /\ verify[w].pc = "act" /\ verify[w].install = {}
    /\ \E p \in Of("device", verify[w].remove), sent \in BOOLEAN :
         /\ SendCommand(RemoveProfile(p.id), sent)
         /\ Step(w, [verify[w] EXCEPT !.remove = IF sent THEN @ \ {p} ELSE Of("shared", @)])
    /\ UNCHANGED <<tables, has, enrolment, api>>

\* The shared profiles whose turn it is: to be installed, or to be removed.
Turn(v) ==
    IF v.install # {} /\ Of("device", v.install) = {} THEN v.install
    ELSE IF v.install = {} /\ Of("device", v.remove) = {} THEN v.remove
    ELSE {}

Without(v, profiles) ==
    [v EXCEPT !.pc = "act", !.checked = {},
              !.install = @ \ profiles, !.remove = @ \ profiles]

\* PushSharedProfiles and DeleteSharedProfiles look for a row of the device again.
CheckSharedProfile(w) ==
    /\ verify[w].pc = "act"
    /\ LET v == verify[w] IN
       \E p \in Turn(v) :
         \/ /\ Step(w, IF HasOwn(p.id) THEN Without(v, {p})
                                       ELSE [v EXCEPT !.pc = "send", !.checked = {p}])
            /\ NoFault
         \/ Step(w, Without(v, Turn(v))) /\ Fault("database")
    /\ UNCHANGED <<tables, has, enrolment, queue, api>>

\* An error ends PushSharedProfiles, and DeleteSharedProfiles.
SendSharedProfile(w) ==
    /\ verify[w].pc = "send"
    /\ LET v == verify[w] IN
       \E p \in v.checked, sent \in BOOLEAN :
         /\ SendCommand(IF p.installed THEN Install(p) ELSE RemoveProfile(p.id), sent)
         /\ Step(w, Without(v, IF sent THEN {p} ELSE Turn(v)))
    /\ UNCHANGED <<tables, has, enrolment, api>>

FinishVerification(w) ==
    /\ verify[w].pc = "act"
    /\ verify[w].install = {} /\ verify[w].remove = {}
    /\ Return(w)
    /\ UNCHANGED <<tables, has, enrolment, queue, api, faults>>

VerifyMDMProfiles(w) ==
    \/ LoadDeviceProfiles(w)
    \/ CompareProfiles(w)
    \/ PushProfile(w)
    \/ CheckSharedProfile(w)
    \/ SendSharedProfile(w)
    \/ DeleteDeviceProfile(w)
    \/ FinishVerification(w)

-----------------------------------------------------------------------------
Next ==
    \/ \E c \in Callers : PostProfileHandler(c)
    \/ \E c \in Callers : DeleteProfileHandler(c)
    \/ \E c \in Callers : Serve(c)
    \/ RequestProfileList
    \/ DeviceObeys
    \/ \E w \in Workers : DeviceAnswers(w)
    \/ \E w \in Workers : VerifyMDMProfiles(w)
    \/ Crash

Spec == Init /\ [][Next]_vars

\* Goroutines go on, the device carries out what is queued, and its list of profiles is
\* requested again and again (ScheduledCheckin).
FairSpec ==
    /\ Spec
    /\ \A c \in Callers : WF_vars(Serve(c))
    /\ WF_vars(RequestProfileList)
    /\ WF_vars(DeviceObeys \/ \E w \in Workers : DeviceAnswers(w))
    /\ \A w \in Workers : WF_vars(VerifyMDMProfiles(w))

-----------------------------------------------------------------------------
(* Properties.                                                              *)

TypeOK ==
    /\ deviceProfiles \in [Ids -> Rows]
    /\ sharedProfiles \subseteq SharedRows
    /\ has \in [Ids -> Copies]
    /\ enrolment \in Enrolments
    /\ queue \in Seq(Commands)
    /\ call \in [Callers -> [pc : {"none", "compare", "push", "cleanup", "present", "remove",
                                   "save", "bool", "drop", "create", "check", "send", "disable"},
                             profile : {{}} \cup {{p} : p \in Profiles},
                             push : BOOLEAN, differs : BOOLEAN]]
    /\ verify \in [Workers -> [pc : {"none", "load", "compare", "act", "send"},
                               list : [Ids -> Copies], rows : [Ids -> Rows],
                               install : SUBSET Candidates, remove : SUBSET Candidates,
                               checked : SUBSET Candidates]]
    /\ calls \in 0..MaxCalls /\ kept \subseteq Ids /\ faults \in 0..MaxFaults

\* The overlaps that do harm: of two calls about one device profile, and of two posts of one
\* shared profile that have both deleted its rows.
DevicePCs == {"compare", "push", "cleanup", "present", "remove", "save", "bool"}

CallsApart ==
    \A c, d \in Callers :
      /\ call[c].pc \in DevicePCs /\ call[d].pc \in DevicePCs
      /\ \E p \in call[c].profile, q \in call[d].profile : p.id = q.id
      => c = d

CreatesApart ==
    \A c, d \in Callers :
      /\ At(c, "create") /\ At(d, "create")
      /\ \E p \in call[c].profile, q \in call[d].profile : p.id = q.id
      => c = d

\* A device profile that was posted and answered, and of which there was no call since,
\* is in the table: verifications leave it there, and later calls about other profiles.
PostedKept ==
    \A id \in kept :
      (\A c \in Callers : \A p \in call[c].profile : p.id # id)
        => deviceProfiles[id].state = "installed"

\* A shared profile has one row: with two, every device would be sent the one version and
\* the other in turn, for ever.
OneSharedRow == \A r, s \in sharedProfiles : r.id = s.id => r = s

\* What the tables say of an identifier that is in one of them.
Wanted(id) ==
    IF HasOwn(id)
      THEN IF deviceProfiles[id].state = "installed" THEN {deviceProfiles[id].uuid} ELSE {NoUUID}
      ELSE {IF row.installed THEN row.uuid ELSE NoUUID : row \in {r \in sharedProfiles : r.id = id}}

\* SaveProfiles was given up between its statements: the row of a profile to be removed,
\* which has no content, says that it is to be installed.
HalfSaved == \E id \in Ids : deviceProfiles[id] = [state |-> "installed", uuid |-> NoUUID]

\* The device has what the tables want.
InSync(copies) ==
    /\ ~HalfSaved
    /\ \A id \in Ids :
        /\ Wanted(id) # {} => Wanted(id) = {copies[id].uuid}
        /\ Sign /\ Wanted(id) # {} /\ copies[id] # NotThere => copies[id].signer = "present"

\* Every verification ends with an error: the device lists no profile at all, its enrolment
\* profile cannot be compared or replaced, or one that is wanted has a signer that cannot
\* be parsed.
Unverifiable ==
    \/ ListIsEmpty(has)
    \/ enrolment = "stuck"
    \/ \E p \in ProfilesForVerification(deviceProfiles) : Unparsable(p, has)

\* Profiles managed "in a stateful manner" (README): when the operators stop, the device
\* gets the profiles the tables want, and keeps them: in spite of sends that failed or were
\* refused, of calls given up half way, stale lists and crashes; but for a profile to be
\* removed that is half saved, which is sent without content for ever, and for a device
\* whose list ends every verification.
Converges == <>[](InSync(has) \/ HalfSaved \/ Unverifiable)

\* Nothing is on its way that could change the device.
Steady ==
    /\ InSync(has)
    /\ \A c \in Callers : At(c, "none")
    /\ \A i \in DOMAIN queue : queue[i] = ProfileList
    /\ \A w \in Workers :
         /\ verify[w].pc \in {"load", "compare"} => verify[w].list = has
         /\ verify[w].pc = "compare" => verify[w].rows = deviceProfiles
         /\ verify[w].install = {} /\ verify[w].remove = {}

\* A device that has what the tables want is left alone until an operator calls: the
\* comparison of the two never installs nor removes anything there is no need for.
LeftAlone == [][Steady => Steady' \/ \E c \in Callers : ~At(c, "none")']_vars

=============================================================================
