--------------------------- MODULE EnrollmentProfile ---------------------------
(***************************************************************************)
(* The enrolment profile of ONE device that is set up, and when it is sent *)
(* again: because the SCEP certificate that came with it is about to       *)
(* expire (the device's list of certificates shows it), or because it is   *)
(* not signed by the present signing certificate (its list of profiles     *)
(* does).  Both lists are answers to the webhook, requested again and      *)
(* again; the profile and the signing certificate are files that operators *)
(* replace while the process runs.                                         *)
(***************************************************************************)
EXTENDS Naturals, Sequences

CONSTANTS
    Workers,           \* goroutines that serve the webhook
    SignChoices,       \* -sign, in the deployments looked at
    PresignedChoices,  \* -enrollment-profile-signed
    PathChoices,       \* is -enrollment-profile given?
    Others,            \* the kinds of certificates a device may have besides
    MaxSigning,        \* bound: signing certificates there ever are
    FaultKinds,        \* the faults that may happen
    MaxFaults          \* bound: how many of them

\* What a certificate is to mdmdirector: from the SCEP issuer, with more or at most
\* scep-cert-min-validity days left, from another issuer, or nothing it can parse.
Kinds == {"long", "short", "foreign", "broken"}

ASSUME EnrollmentProfileAssumption ==
    /\ SignChoices \subseteq BOOLEAN
    /\ PresignedChoices \subseteq BOOLEAN
    /\ PathChoices \subseteq BOOLEAN
    /\ Others \subseteq Kinds
    /\ MaxSigning \in Nat \ {0} /\ MaxFaults \in Nat
    /\ FaultKinds \subseteq {"failed", "refused", "database", "crash"}

\* Signing certificates, by generation; 0 stands for any other signer, or none.
Signers == 0..MaxSigning

\* The signer of a profile on the device, as it is listed; one may be of no use to the parser.
Unreadable == MaxSigning + 1

Listed == Signers \cup {Unreadable}

Certificates == [whose : {"enrolment", "other"}, kind : Kinds]

\* The file -enrollment-profile names: "bad" is one whose signer has expired or is not yet
\* valid, or that cannot be parsed.
Files == [state : {"missing", "bad", "good"}, signer : Signers]

\* MicroMDM's queue: requests of lists, and the enrolment profile.
Requests == {"CertificateList", "ProfileList"}

Request(list) == [type |-> list, signer |-> 0]

InstallProfile(s) == [type |-> "InstallProfile", signer |-> s]

Commands == [type : Requests \cup {"InstallProfile"}, signer : Signers]

\* A goroutine: its next step and the list it handles; the certificates it has not looked
\* at, or the signer of the enrolment profile in the list and the signing certificate it
\* has loaded; and whose signature is on the profile it is about to send.
Handlers ==
    [pc : {"none", "parse", "replace", "validate", "verify", "compare", "read", "sign", "send",
           "profiles"},
     list : Requests \cup {"none"},
     todo : SUBSET Certificates,
     signer : Listed, cert : Signers, copy : Signers]

NoHandler ==
    [pc |-> "none", list |-> "none", todo |-> {}, signer |-> 0, cert |-> 0, copy |-> 0]

VARIABLES
    config,      \* the three flags, which never change
    file,        \* the file of the enrolment profile
    signing,     \* the signing certificate, by generation
    mdm,         \* on the device: the enrolment profile's signer, its certificate's validity
    others,      \* on the device: the kinds of its other certificates
    queue,       \* MicroMDM's queue for the device
    handler,     \* the goroutines
    faults       \* how many faults have happened

device == <<mdm, others>>
disk   == <<config, file, signing>>
vars   == <<disk, device, queue, handler, faults>>

-----------------------------------------------------------------------------
\* Who signed what is on the device is of no matter where nothing is to be signed.
Init ==
    /\ config \in [sign : SignChoices, presigned : PresignedChoices, path : PathChoices]
    /\ signing = 1
    /\ file \in [state : {"missing", "good"}, signer : {IF config.presigned THEN 1 ELSE 0}]
    /\ mdm \in [signer : IF config.sign THEN {0, 1, Unreadable} ELSE {0}, scep : {"long", "short"}]
    /\ others \in SUBSET Others
    /\ queue = <<>>
    /\ handler = [w \in Workers |-> NoHandler]
    /\ faults = 0

At(w, pc) == handler[w].pc = pc

Step(w, h) == handler' = [handler EXCEPT ![w] = h]

Goto(w, pc) == Step(w, [handler[w] EXCEPT !.pc = pc])

Return(w) == Step(w, NoHandler)

Fault(kind) ==
    /\ kind \in FaultKinds
    /\ faults < MaxFaults
    /\ faults' = faults + 1

-----------------------------------------------------------------------------
(* Operators and time.                                                      *)

\* The operators get a new signing certificate, or put another file into place: signed by
\* the present certificate, or missing, or one that is of no use.
RotateSigningCert ==
    /\ signing < MaxSigning
    /\ signing' = signing + 1
    /\ UNCHANGED <<config, file, device, queue, handler, faults>>

ReplaceFile ==
    /\ file' \in [state : {"missing", "bad", "good"},
                  signer : {IF config.presigned THEN signing ELSE 0}]
    /\ UNCHANGED <<config, signing, device, queue, handler, faults>>

\* Days pass, while no answer is being handled.
CertificateAges ==
    /\ \A w \in Workers : At(w, "none")
    /\ mdm.scep = "long"
    /\ mdm' = [mdm EXCEPT !.scep = "short"]
    /\ UNCHANGED <<disk, others, queue, handler, faults>>

-----------------------------------------------------------------------------
(* The device.                                                              *)

RequestList(list) ==
    /\ \A i \in DOMAIN queue : queue[i].type # list
    /\ queue' = Append(queue, Request(list))
    /\ UNCHANGED <<disk, device, handler, faults>>

\* An enrolment profile brings a new certificate.
DeviceObeys ==
    /\ queue # <<>> /\ Head(queue).type = "InstallProfile"
    /\ queue' = Tail(queue)
    /\ mdm' = [signer |-> Head(queue).signer, scep |-> "long"]
    /\ UNCHANGED <<disk, others, handler, faults>>

CertificateList ==
    {[whose |-> "enrolment", kind |-> mdm.scep]} \cup [whose : {"other"}, kind : others]

DeviceAnswers(w) ==
    /\ At(w, "none")
    /\ queue # <<>> /\ Head(queue).type \in Requests
    /\ queue' = Tail(queue)
    /\ Step(w, IF Head(queue).type = "CertificateList"
                 THEN [NoHandler EXCEPT !.pc = "parse", !.list = "CertificateList",
                                        !.todo = CertificateList]
                 ELSE [NoHandler EXCEPT !.pc = "verify", !.list = "ProfileList",
                                        !.signer = mdm.signer])
    /\ UNCHANGED <<disk, device, faults>>

-----------------------------------------------------------------------------
(* reinstallEnrollmentProfile.                                              *)

Reinstallable == config.path /\ file.state = "good"

\* The file is read; an error of it is the end of the goroutine, whatever its list is.  A
\* file that was signed before it came here is sent as it is, ...
ReadEnrollmentProfile(w) ==
    /\ At(w, "read")
    /\ IF ~Reinstallable THEN Return(w)
       ELSE IF config.presigned
              THEN Step(w, [handler[w] EXCEPT !.pc = "send", !.copy = file.signer])
              ELSE Goto(w, "sign")
    /\ UNCHANGED <<disk, device, queue, faults>>

\* ... any other one goes through PushProfiles, which loads the signing certificate again.
SignEnrollmentProfile(w) ==
    /\ At(w, "sign")
    /\ Step(w, [handler[w] EXCEPT !.pc = "send", !.copy = IF config.sign THEN signing ELSE 0])
    /\ UNCHANGED <<disk, device, queue, faults>>

\* Mutant: the enrolment profile is all that is verified.
GoOnNoFurther == NoHandler

GoOn == [NoHandler EXCEPT !.pc = "profiles", !.list = "ProfileList"]

\* Where the goroutine goes on when the profile is sent: to the next certificate, or to the
\* other profiles.
Sent(h) == IF h.list = "CertificateList" THEN [h EXCEPT !.pc = "validate", !.copy = 0] ELSE GoOn

\* PushProfiles logs its errors and returns none.
SendEnrollmentProfile(w) ==
    /\ At(w, "send")
    /\ LET sent == Append(queue, InstallProfile(handler[w].copy))
           next == Sent(handler[w])
       IN \/ queue' = sent /\ Step(w, next) /\ UNCHANGED faults
          \/ Fault("refused") /\ Step(w, next) /\ UNCHANGED queue
          \/ /\ Fault("failed")
             /\ queue' \in {queue, sent}
             /\ Step(w, IF config.presigned THEN NoHandler ELSE next)
    /\ UNCHANGED <<disk, device>>

-----------------------------------------------------------------------------
(* processCertificateList.                                                  *)

\* The error of a certificate that cannot be parsed is logged, and then the nil certificate
\* is used: the goroutine panics, and its request is over.
ParseCertificates(w) ==
    /\ At(w, "parse")
    /\ IF \E c \in handler[w].todo : c.kind = "broken" THEN Return(w) ELSE Goto(w, "replace")
    /\ UNCHANGED <<disk, device, queue, faults>>

ReplaceCertificates(w) ==
    /\ At(w, "replace")
    /\ \/ Goto(w, "validate") /\ UNCHANGED faults
       \/ Return(w) /\ Fault("database")
    /\ UNCHANGED <<disk, device, queue>>

\* Mutant: the issuer is not looked at.
ExpiringAnyIssuer(c) == c.kind \in {"short", "foreign"}

\* Mutant: only what is not the enrolment's is looked at.
ExpiringOthers(c) == c.kind = "short" /\ c.whose = "other"

Expiring(c) == c.kind = "short"

\* validateScepCert, of one certificate after the other.  The first error ends it.
ValidateScepCert(w) ==
    /\ At(w, "validate")
    /\ \E c \in handler[w].todo :
         LET rest == [handler[w] EXCEPT !.todo = @ \ {c}]
         IN \/ /\ ~config.path \/ (file.state # "missing" /\ ~Expiring(c))
               /\ Step(w, rest)
            \/ /\ config.path /\ file.state = "missing"
               /\ Return(w)
            \/ /\ config.path /\ file.state # "missing" /\ Expiring(c)
               /\ Step(w, [rest EXCEPT !.pc = "read"])
    /\ UNCHANGED <<disk, device, queue, faults>>

\* Mutant: the first certificate is the only one.
FinishCertificatesEarly(w) ==
    /\ At(w, "validate")
    /\ Goto(w, "none")
    /\ UNCHANGED <<disk, device, queue, faults>>

FinishCertificates(w) ==
    /\ At(w, "validate") /\ handler[w].todo = {}
    /\ Return(w)
    /\ UNCHANGED <<disk, device, queue, faults>>

-----------------------------------------------------------------------------
(* VerifyMDMProfiles, up to the profiles.                                    *)

\* The lists are stored, the tables read and the signing certificate loaded.
LoadSigningKey(w) ==
    /\ At(w, "verify")
    /\ \/ /\ Step(w, [handler[w] EXCEPT !.pc = "compare", !.cert = signing])
          /\ UNCHANGED faults
       \/ Return(w) /\ Fault("database")
    /\ UNCHANGED <<disk, device, queue>>

\* Mutant: a profile somebody else has signed is as good.
SignedAsItShouldBeOrAtAll(h) == config.sign => h.signer # 0

\* The comparison of validateProfileInProfileList, for a profile that is in the list ...
SignedAsItShouldBe(h) == config.sign => h.signer = h.cert

\* ... and its error.
Unparsable(h) == config.sign /\ h.signer = Unreadable

\* An error of the enrolment profile ends the verification.
EnsureCertOnEnrollmentProfile(w) ==
    /\ At(w, "compare")
    /\ LET h == handler[w] IN
       IF Unparsable(h) THEN Return(w)
       ELSE IF SignedAsItShouldBe(h) THEN Step(w, GoOn)
       ELSE Step(w, [NoHandler EXCEPT !.pc = "read", !.list = h.list])
    /\ UNCHANGED <<disk, device, queue, faults>>

\* What follows is in ProfileSync.
VerifyProfiles(w) ==
    /\ At(w, "profiles")
    /\ Return(w)
    /\ UNCHANGED <<disk, device, queue, faults>>

Serve(w) ==
    \/ ParseCertificates(w)
    \/ ReplaceCertificates(w)
    \/ ValidateScepCert(w)
    \/ FinishCertificates(w)
    \/ LoadSigningKey(w)
    \/ EnsureCertOnEnrollmentProfile(w)
    \/ ReadEnrollmentProfile(w)
    \/ SignEnrollmentProfile(w)
    \/ SendEnrollmentProfile(w)
    \/ VerifyProfiles(w)

Crash ==
    /\ Fault("crash")
    /\ handler' = [w \in Workers |-> NoHandler]
    /\ UNCHANGED <<disk, device, queue>>

-----------------------------------------------------------------------------
Next ==
    \/ RotateSigningCert
    \/ ReplaceFile
    \/ CertificateAges
    \/ \E list \in Requests : RequestList(list)
    \/ DeviceObeys
    \/ \E w \in Workers : DeviceAnswers(w)
    \/ \E w \in Workers : Serve(w)
    \/ Crash

Spec == Init /\ [][Next]_vars

\* Goroutines go on, the lists are requested again and again (ScheduledCheckin), and the
\* device carries out what is queued.
FairSpec ==
    /\ Spec
    /\ \A list \in Requests : WF_vars(RequestList(list))
    /\ SF_vars(DeviceObeys \/ \E w \in Workers : DeviceAnswers(w))
    /\ \A w \in Workers : WF_vars(Serve(w))

-----------------------------------------------------------------------------
(* Properties.                                                              *)

TypeOK ==
    /\ config \in [sign : BOOLEAN, presigned : BOOLEAN, path : BOOLEAN]
    /\ file \in Files /\ signing \in 1..MaxSigning
    /\ mdm \in [signer : Listed, scep : {"long", "short"}] /\ others \subseteq Others
    /\ queue \in Seq(Commands)
    /\ handler \in [Workers -> Handlers]
    /\ \A w \in Workers :
         /\ handler[w].list # "CertificateList" => handler[w].todo = {}
         /\ handler[w].pc = "none" => handler[w].todo = {}
    /\ faults \in 0..MaxFaults

\* The SCEP certificate is renewed in the end, in spite of sends that fail or are refused,
\* of crashes and errors: but for a file that is no good, and for a device with a
\* certificate that cannot be parsed, whose answers all end in a panic.
Renewed ==
    mdm.scep = "short" ~> mdm.scep = "long" \/ ~Reinstallable \/ "broken" \in others

\* What is signed has the present signature.
RightSigner == config.sign => mdm.signer = signing

\* An enrolment profile with the wrong signature is replaced by one with the right one,
\* unless what would be sent is not signed by the present certificate itself, or the signer
\* the device lists cannot be parsed.
Resigned ==
    ~RightSigner
      ~> \/ RightSigner
         \/ ~Reinstallable
         \/ mdm.signer = Unreadable
         \/ config.presigned /\ file.signer # signing

\* Nobody is about to send the enrolment profile, and no list that is handled, certificate
\* that has been loaded or command that is queued gives a reason to.
Steady ==
    /\ mdm.scep = "long" /\ "short" \notin others
    /\ RightSigner
    /\ \A i \in DOMAIN queue : queue[i].type # "InstallProfile"
    /\ \A w \in Workers :
         /\ \A c \in handler[w].todo : c.kind # "short"
         /\ handler[w].pc \notin {"read", "sign", "send"}
         /\ At(w, "verify") /\ config.sign => handler[w].signer = signing
         /\ At(w, "compare") /\ config.sign => handler[w].signer = handler[w].cert

\* A device whose enrolment profile is as it should be is not sent it again, before days
\* pass or the signing certificate changes.
NotSentAgain == [][Steady => Steady' \/ mdm'.scep = "short" \/ signing' # signing]_vars

\* The enrolment profile keeps no verification from its profiles, for ever: but for one with
\* the wrong signature that cannot be replaced, or a signature that cannot be parsed.
ProfilesVerifiedOrStuck ==
    []<>(\/ \E w \in Workers : At(w, "profiles")
         \/ ~RightSigner /\ (~Reinstallable \/ mdm.signer = Unreadable))
=============================================================================
