----------------------- MODULE EnrollmentProfileProofs ------------------------
(***************************************************************************)
(* What is proved of EnrollmentProfile for every deployment, any number of *)
(* goroutines, certificates and faults: its typing, and that a device      *)
(* whose enrolment profile is as it should be is not sent it again.        *)
(***************************************************************************)
EXTENDS EnrollmentProfile, SequenceTheorems, TLAPS

-----------------------------------------------------------------------------
(* Helpers.                                                                 *)

\* The faults counter, where a step may have raised it.
LEMMA FaultCounted ==
    ASSUME faults \in 0..MaxFaults, NEW kind, Fault(kind)
    PROVE  faults' \in 0..MaxFaults
BY EnrollmentProfileAssumption DEF Fault

LEMMA SignersTyped ==
    /\ 0 \in Signers /\ 1 \in Signers /\ Signers \subseteq Listed /\ Unreadable \in Listed
    /\ 1..MaxSigning \subseteq Signers
BY EnrollmentProfileAssumption DEF Signers, Listed

LEMMA NoHandlerTyped == NoHandler \in Handlers
BY SignersTyped DEF NoHandler, Handlers

\* Only who handles a list of certificates has some to look at.
Idle(h) ==
    /\ h.list # "CertificateList" => h.todo = {}
    /\ h.pc = "none" => h.todo = {}

\* What a step must show of the goroutine it moves.
LEMMA HandlerKept ==
    ASSUME TypeOK, NEW w \in Workers, NEW h \in Handlers, Idle(h), Step(w, h)
    PROVE  /\ handler' \in [Workers -> Handlers]
           /\ \A v \in Workers : Idle(handler'[v])
           /\ handler'[w] = h
           /\ \A v \in Workers \ {w} : handler'[v] = handler[v]
BY DEF TypeOK, Step, Idle

LEMMA QueueTyped ==
    ASSUME queue \in Seq(Commands), NEW c \in Commands
    PROVE  /\ Append(queue, c) \in Seq(Commands)
           /\ queue # <<>> => Head(queue) \in Commands /\ Tail(queue) \in Seq(Commands)
BY AppendProperties, HeadTailProperties

\* The device's certificates.
LEMMA CertificateListTyped ==
    ASSUME TypeOK
    PROVE  CertificateList \subseteq Certificates
<1>1. mdm.scep \in Kinds /\ others \subseteq Kinds
  BY EnrollmentProfileAssumption DEF TypeOK, Kinds
<1> QED BY <1>1 DEF CertificateList, Certificates

LEMMA AnswerTyped ==
    ASSUME TypeOK
    PROVE  /\ [NoHandler EXCEPT !.pc = "parse", !.list = "CertificateList",
                                !.todo = CertificateList] \in Handlers
           /\ [NoHandler EXCEPT !.pc = "verify", !.list = "ProfileList",
                                !.signer = mdm.signer] \in Handlers
<1>1. mdm.signer \in Listed /\ 0 \in Signers /\ 0 \in Listed
  BY SignersTyped DEF TypeOK
<1> QED BY <1>1, CertificateListTyped DEF NoHandler, Handlers, Requests

-----------------------------------------------------------------------------
(* A step of a goroutine.                                                   *)

\* A goroutine that gives no reason to send the enrolment profile, and is not about to.
Content(h) ==
    /\ \A c \in h.todo : c.kind # "short"
    /\ h.pc \notin {"read", "sign", "send"}
    /\ h.pc = "verify" /\ config.sign => h.signer = signing
    /\ h.pc = "compare" /\ config.sign => h.signer = h.cert

LEMMA Done == NoHandler \in Handlers /\ Idle(NoHandler) /\ Content(NoHandler)
BY NoHandlerTyped DEF Idle, Content, NoHandler

LEMMA GoneOn == GoOn \in Handlers /\ Idle(GoOn) /\ Content(GoOn)
BY NoHandlerTyped DEF Idle, Content, NoHandler, GoOn, Handlers, Requests

\* Where a goroutine goes next: one that is content stays so.
LEMMA Served ==
    ASSUME TypeOK, NEW w \in Workers, Serve(w)
    PROVE  \E h \in Handlers : Idle(h) /\ Step(w, h) /\ (Content(handler[w]) => Content(h))
<1>0. PICK g \in Handlers : g = handler[w] /\ Idle(g)
  BY DEF TypeOK, Idle
<1>1. CASE Return(w)
  BY <1>1, Done DEF Return
<1>2. CASE ParseCertificates(w)
  <2>1. CASE Goto(w, "replace")
    <3>1. PICK h \in Handlers : h = [g EXCEPT !.pc = "replace"]
      BY <1>0 DEF Handlers
    <3>2. Idle(h) /\ (Content(g) => Content(h))
      BY <1>0, <3>1 DEF Idle, Content, Handlers
    <3> QED BY <1>0, <2>1, <3>1, <3>2 DEF Goto
  <2> QED BY <1>1, <1>2, <2>1 DEF ParseCertificates
<1>3. CASE ReplaceCertificates(w)
  <2>1. CASE Goto(w, "validate")
    <3>1. PICK h \in Handlers : h = [g EXCEPT !.pc = "validate"]
      BY <1>0 DEF Handlers
    <3>2. Idle(h) /\ (Content(g) => Content(h))
      BY <1>0, <3>1 DEF Idle, Content, Handlers
    <3> QED BY <1>0, <2>1, <3>1, <3>2 DEF Goto
  <2> QED BY <1>1, <1>3, <2>1 DEF ReplaceCertificates
<1>4. CASE ValidateScepCert(w)
  <2>1. PICK c \in g.todo :
          \/ Step(w, [g EXCEPT !.todo = @ \ {c}])
          \/ Return(w)
          \/ Expiring(c) /\ Step(w, [[g EXCEPT !.todo = @ \ {c}] EXCEPT !.pc = "read"])
    BY <1>0, <1>4 DEF ValidateScepCert
  <2>2. g.pc = "validate"
    BY <1>0, <1>4 DEF ValidateScepCert, At
  <2>3. CASE Step(w, [g EXCEPT !.todo = @ \ {c}])
    <3>1. PICK h \in Handlers : h = [g EXCEPT !.todo = @ \ {c}]
      BY <1>0 DEF Handlers
    <3>2. Idle(h) /\ (Content(g) => Content(h))
      BY <1>0, <2>2, <3>1 DEF Idle, Content, Handlers
    <3> QED BY <1>0, <2>3, <3>1, <3>2
  <2>4. CASE Expiring(c) /\ Step(w, [[g EXCEPT !.todo = @ \ {c}] EXCEPT !.pc = "read"])
    <3>1. PICK h \in Handlers : h = [[g EXCEPT !.todo = @ \ {c}] EXCEPT !.pc = "read"]
      BY <1>0 DEF Handlers
    <3>2. Idle(h) /\ ~Content(g)
      BY <1>0, <2>1, <2>2, <2>4, <3>1 DEF Idle, Content, Handlers, Expiring
    <3> QED BY <1>0, <2>4, <3>1, <3>2
  <2> QED BY <1>1, <2>1, <2>3, <2>4
<1>5. CASE FinishCertificates(w) \/ VerifyProfiles(w)
  BY <1>1, <1>5 DEF FinishCertificates, VerifyProfiles
<1>6. CASE LoadSigningKey(w)
  <2>1. CASE Step(w, [handler[w] EXCEPT !.pc = "compare", !.cert = signing])
    <3>1. signing \in Signers
      BY SignersTyped DEF TypeOK
    <3>2. PICK h \in Handlers : h = [g EXCEPT !.pc = "compare", !.cert = signing]
      BY <1>0, <3>1 DEF Handlers
    <3>3. h.pc = "compare" /\ h.cert = signing /\ h.todo = g.todo /\ h.list = g.list
          /\ h.signer = g.signer /\ g.pc = "verify"
      BY <1>0, <1>6, <3>2 DEF Handlers, LoadSigningKey, At
    <3>4. Idle(h) /\ (Content(g) => Content(h))
      BY <1>0, <3>3 DEF Idle, Content
    <3> QED BY <1>0, <2>1, <3>2, <3>4
  <2> QED BY <1>1, <1>6, <2>1 DEF LoadSigningKey
<1>7. CASE EnsureCertOnEnrollmentProfile(w)
  <2>1. CASE Step(w, GoOn)
    BY <2>1, GoneOn
  <2>2. CASE /\ ~SignedAsItShouldBe(g)
             /\ Step(w, [NoHandler EXCEPT !.pc = "read", !.list = g.list])
    <3>1. PICK h \in Handlers : h = [NoHandler EXCEPT !.pc = "read", !.list = g.list]
      BY <1>0, NoHandlerTyped DEF Handlers
    <3>2. Idle(h)
      BY <3>1 DEF Idle, NoHandler
    <3>3. ~Content(g)
      BY <1>0, <1>7, <2>2 DEF Content, SignedAsItShouldBe, EnsureCertOnEnrollmentProfile, At
    <3> QED BY <1>0, <2>2, <3>1, <3>2, <3>3
  <2> QED BY <1>0, <1>1, <1>7, <2>1, <2>2 DEF EnsureCertOnEnrollmentProfile
<1>8. CASE ReadEnrollmentProfile(w)
  <2>1. ~Content(g)
    BY <1>0, <1>8 DEF Content, ReadEnrollmentProfile, At
  <2>2. CASE Step(w, [handler[w] EXCEPT !.pc = "send", !.copy = file.signer])
    <3>1. file.signer \in Signers
      BY DEF TypeOK, Files
    <3>2. PICK h \in Handlers : h = [g EXCEPT !.pc = "send", !.copy = file.signer]
      BY <1>0, <3>1 DEF Handlers
    <3>3. Idle(h)
      BY <1>0, <3>2 DEF Idle, Handlers
    <3> QED BY <1>0, <2>1, <2>2, <3>2, <3>3
  <2>3. CASE Goto(w, "sign")
    <3>1. PICK h \in Handlers : h = [g EXCEPT !.pc = "sign"]
      BY <1>0 DEF Handlers
    <3>2. Idle(h)
      BY <1>0, <3>1 DEF Idle, Handlers
    <3> QED BY <1>0, <2>1, <2>3, <3>1, <3>2 DEF Goto
  <2> QED BY <1>1, <1>8, <2>2, <2>3 DEF ReadEnrollmentProfile
<1>9. CASE SignEnrollmentProfile(w)
  <2>1. ~Content(g)
    BY <1>0, <1>9 DEF Content, SignEnrollmentProfile, At
  <2>2. (IF config.sign THEN signing ELSE 0) \in Signers
    BY SignersTyped DEF TypeOK
  <2>3. PICK h \in Handlers :
          h = [g EXCEPT !.pc = "send", !.copy = IF config.sign THEN signing ELSE 0]
    BY <1>0, <2>2 DEF Handlers
  <2>4. Idle(h)
    BY <1>0, <2>3 DEF Idle, Handlers
  <2> QED BY <1>0, <1>9, <2>1, <2>3, <2>4 DEF SignEnrollmentProfile
<1>10. CASE SendEnrollmentProfile(w)
  <2>1. ~Content(g)
    BY <1>0, <1>10 DEF Content, SendEnrollmentProfile, At
  <2>2. Step(w, NoHandler) \/ Step(w, Sent(g))
    BY <1>0, <1>10 DEF SendEnrollmentProfile
  <2>3. Sent(g) \in Handlers /\ Idle(Sent(g))
    <3>1. CASE g.list = "CertificateList"
      <4>1. PICK h \in Handlers : h = [g EXCEPT !.pc = "validate", !.copy = 0]
        BY <1>0, SignersTyped DEF Handlers
      <4>2. h.list = "CertificateList" /\ h.pc = "validate"
        BY <1>0, <3>1, <4>1 DEF Handlers
      <4> QED BY <3>1, <4>1, <4>2 DEF Sent, Idle
    <3> QED BY <3>1, GoneOn DEF Sent
  <2> QED BY <1>0, <2>1, <2>2, <2>3, Done
<1> QED
  BY <1>2, <1>3, <1>4, <1>5, <1>6, <1>7, <1>8, <1>9, <1>10 DEF Serve

\* All but one step of it leave MicroMDM alone.
LEMMA ServeQuiet ==
    ASSUME NEW w \in Workers, Serve(w)
    PROVE  /\ UNCHANGED <<disk, device>>
           /\ handler[w].pc # "send" => UNCHANGED queue
BY DEF Serve, ParseCertificates, ReplaceCertificates, ValidateScepCert, FinishCertificates,
       LoadSigningKey, EnsureCertOnEnrollmentProfile, ReadEnrollmentProfile,
       SignEnrollmentProfile, SendEnrollmentProfile, VerifyProfiles, At

LEMMA ServeCounted ==
    ASSUME TypeOK, NEW w \in Workers, Serve(w)
    PROVE  queue' \in Seq(Commands) /\ faults' \in 0..MaxFaults
<1>1. CASE SendEnrollmentProfile(w)
  <2>1. handler[w].copy \in Signers
    BY DEF TypeOK, Handlers
  <2>2. InstallProfile(handler[w].copy) \in Commands
    BY <2>1 DEF InstallProfile, Commands
  <2> QED BY <1>1, <2>2, QueueTyped, FaultCounted DEF SendEnrollmentProfile, TypeOK
<1>2. CASE ~SendEnrollmentProfile(w)
  BY <1>2, FaultCounted
  DEF Serve, ParseCertificates, ReplaceCertificates, ValidateScepCert, FinishCertificates,
      LoadSigningKey, EnsureCertOnEnrollmentProfile, ReadEnrollmentProfile,
      SignEnrollmentProfile, VerifyProfiles, TypeOK
<1> QED BY <1>1, <1>2

-----------------------------------------------------------------------------
(* Types.                                                                   *)

LEMMA InitTypes == ASSUME Init PROVE TypeOK
<1>1. config \in [sign : BOOLEAN, presigned : BOOLEAN, path : BOOLEAN]
  BY EnrollmentProfileAssumption DEF Init
<1>2. signing \in 1..MaxSigning /\ 0 \in Signers /\ 1 \in Signers
      /\ {0, 1, Unreadable} \subseteq Listed
  BY SignersTyped, EnrollmentProfileAssumption DEF Init
<1>3. file \in Files
  BY <1>2 DEF Init, Files
<1>4. mdm \in [signer : Listed, scep : {"long", "short"}] /\ others \subseteq Others
  BY <1>2 DEF Init
<1>5. queue \in Seq(Commands) /\ faults \in 0..MaxFaults
  BY EnrollmentProfileAssumption DEF Init
<1>6. /\ handler \in [Workers -> Handlers]
      /\ \A w \in Workers : handler[w].todo = {}
  BY NoHandlerTyped DEF Init, NoHandler
<1> QED BY <1>1, <1>2, <1>3, <1>4, <1>5, <1>6 DEF TypeOK

LEMMA TypesStep ==
    ASSUME TypeOK, [Next]_vars
    PROVE  TypeOK'
<1>1. CASE UNCHANGED vars
  BY <1>1 DEF vars, disk, device, TypeOK
<1>2. CASE RotateSigningCert
  BY <1>2, EnrollmentProfileAssumption DEF RotateSigningCert, device, TypeOK
<1>3. CASE ReplaceFile
  <2>1. signing \in Signers /\ 0 \in Signers
    BY EnrollmentProfileAssumption DEF TypeOK, Signers
  <2>2. file' \in Files
    BY <1>3, <2>1 DEF ReplaceFile, Files
  <2> QED BY <1>3, <2>2 DEF ReplaceFile, device, TypeOK
<1>4. CASE CertificateAges
  BY <1>4 DEF CertificateAges, disk, TypeOK
<1>5. ASSUME NEW list \in Requests, RequestList(list) PROVE TypeOK'
  <2>1. Request(list) \in Commands
    BY EnrollmentProfileAssumption DEF Request, Commands, Signers
  <2> QED BY <1>5, <2>1, QueueTyped DEF RequestList, disk, device, TypeOK
<1>6. CASE DeviceObeys
  <2>1. Head(queue) \in Commands /\ Tail(queue) \in Seq(Commands)
    BY <1>6, HeadTailProperties DEF DeviceObeys, TypeOK
  <2>2. mdm' \in [signer : Listed, scep : {"long", "short"}]
    BY <1>6, <2>1, SignersTyped DEF DeviceObeys, Commands
  <2> QED BY <1>6, <2>1, <2>2 DEF DeviceObeys, disk, TypeOK
<1>7. ASSUME NEW w \in Workers, DeviceAnswers(w) PROVE TypeOK'
  <2>1. Tail(queue) \in Seq(Commands)
    BY <1>7, HeadTailProperties DEF DeviceAnswers, TypeOK
  <2>2. PICK h \in Handlers : Idle(h) /\ Step(w, h)
    <3>1. Idle([NoHandler EXCEPT !.pc = "parse", !.list = "CertificateList",
                                 !.todo = CertificateList])
      BY DEF Idle, NoHandler
    <3>2. Idle([NoHandler EXCEPT !.pc = "verify", !.list = "ProfileList",
                                 !.signer = mdm.signer])
      BY DEF Idle, NoHandler
    <3> QED BY <1>7, <3>1, <3>2, AnswerTyped DEF DeviceAnswers
  <2> QED BY <1>7, <2>1, <2>2, HandlerKept DEF DeviceAnswers, disk, device, TypeOK, Idle
<1>8. ASSUME NEW w \in Workers, Serve(w) PROVE TypeOK'
  <2>1. PICK h \in Handlers : Idle(h) /\ Step(w, h)
    BY <1>8, Served
  <2> QED BY <1>8, <2>1, HandlerKept, ServeQuiet, ServeCounted DEF disk, device, TypeOK, Idle
<1>9. CASE Crash
  BY <1>9, NoHandlerTyped, FaultCounted DEF Crash, NoHandler, disk, device, TypeOK
<1> QED
  BY <1>1, <1>2, <1>3, <1>4, <1>5, <1>6, <1>7, <1>8, <1>9 DEF Next

\* Every variable keeps to its type.
THEOREM TypeCorrect == Spec => []TypeOK
<1> QED BY InitTypes, TypesStep, PTL DEF Spec

-----------------------------------------------------------------------------
(* Not sent again.                                                          *)

\* What a step of a goroutine must show.
LEMMA SteadyGoroutine ==
    ASSUME TypeOK, Steady, NEW w \in Workers, NEW h \in Handlers, Step(w, h), Content(h),
           UNCHANGED <<disk, device>>,
           \A i \in DOMAIN queue' : queue'[i].type # "InstallProfile"
    PROVE  Steady'
<1>1. /\ handler'[w] = h
      /\ \A v \in Workers \ {w} : handler'[v] = handler[v]
  BY DEF Step, TypeOK
<1>2. \A v \in Workers : Content(handler'[v])
  BY <1>1 DEF Steady, Content, At
<1>3. \A v \in Workers :
        /\ \A c \in handler'[v].todo : c.kind # "short"
        /\ handler'[v].pc \notin {"read", "sign", "send"}
        /\ At(v, "verify")' /\ config'.sign => handler'[v].signer = signing'
        /\ At(v, "compare")' /\ config'.sign => handler'[v].signer = handler'[v].cert
  BY <1>2 DEF Content, At, disk
<1> QED BY <1>3 DEF Steady, RightSigner, disk, device

\* A device that is steady stays so.
LEMMA SteadyStep ==
    ASSUME TypeOK, Steady, [Next]_vars
    PROVE  Steady' \/ mdm'.scep = "short" \/ signing' # signing
<1> USE DEF disk, device
<1>Q. \A i \in DOMAIN queue : queue[i].type # "InstallProfile"
  BY DEF Steady
<1>1. CASE UNCHANGED vars
  BY <1>1 DEF vars, Steady, RightSigner, At
<1>2. CASE RotateSigningCert
  BY <1>2, EnrollmentProfileAssumption DEF RotateSigningCert, TypeOK
<1>3. CASE ReplaceFile
  BY <1>3 DEF ReplaceFile, Steady, RightSigner, At
<1>4. CASE CertificateAges
  BY <1>4 DEF CertificateAges, TypeOK
<1>5. ASSUME NEW list \in Requests, RequestList(list) PROVE Steady'
  <2>1. \A i \in DOMAIN queue' : queue'[i].type # "InstallProfile"
    <3>1. Request(list) \in Commands /\ Request(list).type # "InstallProfile"
      BY EnrollmentProfileAssumption DEF Request, Requests, Commands, Signers
    <3>2. /\ queue' = Append(queue, Request(list)) /\ queue \in Seq(Commands)
      BY <1>5 DEF RequestList, TypeOK
    <3>3. \A i \in 1..Len(queue) + 1 :
            queue'[i] = IF i = Len(queue) + 1 THEN Request(list) ELSE queue[i]
      BY <3>1, <3>2, AppendProperties
    <3> QED BY <1>Q, <3>1, <3>2, <3>3, AppendProperties
  <2> QED BY <1>5, <2>1 DEF RequestList, Steady, RightSigner, At
<1>6. CASE DeviceObeys
  <2>1. Head(queue) = queue[1] /\ 1 \in DOMAIN queue
    BY <1>6, HeadTailProperties DEF DeviceObeys, TypeOK
  <2> QED BY <1>Q, <1>6, <2>1 DEF DeviceObeys
<1>7. ASSUME NEW w \in Workers, DeviceAnswers(w) PROVE Steady'
  <2>1. \A i \in DOMAIN queue' : queue'[i].type # "InstallProfile"
    <3>1. queue \in Seq(Commands) /\ queue # <<>> /\ queue' = Tail(queue)
      BY <1>7 DEF DeviceAnswers, TypeOK
    <3>2. /\ queue' \in Seq(Commands) /\ Len(queue') = Len(queue) - 1
          /\ \A i \in 1..Len(queue') : queue'[i] = queue[i + 1]
      BY <3>1, HeadTailProperties
    <3>3. Len(queue) \in Nat /\ DOMAIN queue = 1..Len(queue) /\ DOMAIN queue' = 1..Len(queue')
      BY <3>1, <3>2
    <3>4. \A i \in 1..Len(queue') : i + 1 \in 1..Len(queue)
      BY <3>2, <3>3
    <3> QED BY <1>Q, <3>2, <3>3, <3>4
  <2>2. PICK h \in Handlers : Step(w, h) /\ Content(h)
    <3>1. Content([NoHandler EXCEPT !.pc = "parse", !.list = "CertificateList",
                                    !.todo = CertificateList])
      <4>1. \A c \in CertificateList : c.kind # "short"
        BY DEF CertificateList, Steady
      <4> QED BY <4>1 DEF Content, NoHandler
    <3>2. Content([NoHandler EXCEPT !.pc = "verify", !.list = "ProfileList",
                                    !.signer = mdm.signer])
      BY DEF Content, NoHandler, Steady, RightSigner
    <3> QED BY <1>7, <3>1, <3>2, AnswerTyped DEF DeviceAnswers
  <2> QED BY <1>7, <2>1, <2>2, SteadyGoroutine DEF DeviceAnswers
<1>8. ASSUME NEW w \in Workers, Serve(w) PROVE Steady'
  <2>1. Content(handler[w])
    BY DEF Steady, Content, At
  <2>2. PICK h \in Handlers : Step(w, h) /\ Content(h)
    BY <1>8, <2>1, Served
  <2>3. UNCHANGED <<disk, device>> /\ UNCHANGED queue
    BY <1>8, <2>1, ServeQuiet DEF Content
  <2> QED BY <1>Q, <2>2, <2>3, SteadyGoroutine
<1>9. CASE Crash
  BY <1>9 DEF Crash, Steady, RightSigner, NoHandler, At
<1> QED
  BY <1>1, <1>2, <1>3, <1>4, <1>5, <1>6, <1>7, <1>8, <1>9 DEF Next

\* A device whose enrolment profile is as it should be is not sent it again, whatever
\* files the operators replace and whatever fails.
THEOREM NeverSentAgain == Spec => NotSentAgain
<1>1. TypeOK /\ [Next]_vars => (Steady => Steady' \/ mdm'.scep = "short" \/ signing' # signing)
  BY SteadyStep
<1> QED BY <1>1, TypeCorrect, PTL DEF Spec, NotSentAgain
=============================================================================
