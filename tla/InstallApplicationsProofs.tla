---------------------- MODULE InstallApplicationsProofs -----------------------
(***************************************************************************)
(* What is proved of InstallApplications for any devices, packages,        *)
(* requests, runs of the initial tasks and faults: its typing, that a      *)
(* device is set up with what was saved when it enrolled, and that a post  *)
(* reaches every device; both but for the devices that a run sets up which *)
(* had read the table too early for that.                                  *)
(***************************************************************************)
EXTENDS InstallApplications, SequenceTheorems, FiniteSetTheorems, TLAPS

-----------------------------------------------------------------------------
(* Helpers.                                                                 *)

\* The faults counter, where a step may have raised it.
LEMMA FaultCounted ==
    ASSUME faults \in 0..MaxFaults, NEW kind, Fault(kind)
    PROVE  faults' \in 0..MaxFaults
BY InstallApplicationsAssumption DEF Fault

\* A request stays one when a step rewrites it.
LEMMA CallTyped ==
    ASSUME call \in [Callers -> Calls], NEW c \in Callers, NEW r \in Calls, Step(c, r)
    PROVE  /\ call' \in [Callers -> Calls]
           /\ call'[c] = r
           /\ \A b \in Callers \ {c} : call'[b] = call[b]
BY DEF Step

\* The devices have what they had before a step.
Kept == \A e \in Devices : \A q \in Packages : Has(e, q) => Has(e, q)'

\* What a send, or a send that failed, does to what the devices have got.
LEMMA SentTyped ==
    ASSUME got \in [Devices -> SUBSET Packages], refused \in [Devices -> SUBSET Packages],
           faults \in 0..MaxFaults, NEW d \in Devices, NEW p \in Packages, Sent(d, p)
    PROVE  /\ got' \in [Devices -> SUBSET Packages]
           /\ refused' \in [Devices -> SUBSET Packages]
           /\ faults' \in 0..MaxFaults
           /\ Kept
           /\ Has(d, p)'
<1>1. CASE got' = [got EXCEPT ![d] = @ \cup {p}] /\ UNCHANGED <<refused, faults>>
  BY <1>1 DEF Kept, Has
<1>2. CASE refused' = [refused EXCEPT ![d] = @ \cup {p}] /\ Fault("refused") /\ UNCHANGED got
  <2>1. faults' \in 0..MaxFaults
    BY <1>2, FaultCounted
  <2> QED BY <1>2, <2>1 DEF Kept, Has
<1> QED BY <1>1, <1>2 DEF Sent

LEMMA NotSentTyped ==
    ASSUME got \in [Devices -> SUBSET Packages], refused \in [Devices -> SUBSET Packages],
           faults \in 0..MaxFaults, NEW d \in Devices, NEW p \in Packages, NotSent(d, p)
    PROVE  /\ got' \in [Devices -> SUBSET Packages]
           /\ refused' \in [Devices -> SUBSET Packages]
           /\ faults' \in 0..MaxFaults
           /\ Kept
<1>1. faults' \in 0..MaxFaults
  BY FaultCounted DEF NotSent
<1>2. got' = [got EXCEPT ![d] = @ \cup {p}] \/ UNCHANGED got
  BY DEF NotSent
<1> QED BY <1>1, <1>2 DEF NotSent, Kept, Has

LEMMA NoCallTyped == NoCall \in Calls
<1>1. <<>> \in Seq(Packages)
  OBVIOUS
<1> QED BY <1>1 DEF NoCall, Calls

\* No package comes twice in a request.
Distinct(s) == \A i, j \in 1..Len(s) : i # j => s[i] # s[j]

\* The packages of a request are some sequence of a set of packages.
LEMMA AppsTyped ==
    ASSUME NEW ps \in SUBSET Packages, NEW apps \in SetToSeqs(ps)
    PROVE  /\ apps \in Seq(Packages)
           /\ Distinct(apps)
           /\ \A p \in ps : \E i \in 1..Len(apps) : apps[i] = p
<1> DEFINE n == Cardinality(ps)
<1>1. IsFiniteSet(ps)
  BY FS_Subset, InstallApplicationsAssumption
<1>2. n \in Nat
  BY <1>1, FS_CardinalityType
<1>3. apps \in [1..n -> ps] /\ \A i, j \in 1..n : i # j => apps[i] # apps[j]
  BY DEF SetToSeqs
<1>4. apps \in Seq(Packages) /\ Len(apps) = n
  BY <1>2, <1>3
<1>5. Distinct(apps)
  BY <1>3, <1>4 DEF Distinct
<1>6. ASSUME NEW p \in ps PROVE \E i \in 1..Len(apps) : apps[i] = p
  <2>1. IsFiniteSet(1..n) /\ Cardinality(1..n) = n
    BY <1>2, FS_Interval
  <2>2. apps \in Injection(1..n, ps)
    BY <1>3 DEF Injection, IsInjective
  <2>3. apps \in Surjection(1..n, ps)
    BY <1>1, <2>1, <2>2, FS_Injection
  <2> QED BY <1>4, <2>3 DEF Surjection
<1> QED BY <1>4, <1>5, <1>6

-----------------------------------------------------------------------------
(* Types.                                                                   *)

\* What a request has besides its types: while it is saving, nothing of it is done.
CallShape(r) ==
    /\ r.left \subseteq r.devices
    /\ Distinct(r.apps)
    /\ r.owed \subseteq r.now
    /\ r.pc = "save" => /\ r.left = r.devices
                        /\ r.apps # <<>>
                        /\ \A p \in r.now : \E i \in 1..Len(r.apps) : r.apps[i] = p

\* Runs are for devices that are known.
TypeInv ==
    /\ TypeOK
    /\ \A c \in Callers : CallShape(call[c])
    /\ \A w \in Workers : run[w].pc # "none" => phase[run[w].device] # "out"

LEMMA NoRunTyped == NoRun \in Runs /\ NoRun.pc = "none"
BY DEF NoRun, Runs

\* A run that is going has a device, and what is left of it are packages.
LEMMA RunTyped ==
    ASSUME run \in [Workers -> Runs], NEW w \in Workers
    PROVE  /\ run[w].pc \in {"none", "load", "push"}
           /\ run[w].pc # "none" => run[w].device \in Devices
           /\ HasRead(w) => /\ run[w] = [pc |-> "push", device |-> run[w].device,
                                         todo |-> run[w].todo, read |-> run[w].read]
                            /\ run[w].todo \subseteq Packages
                            /\ run[w].read \in Readings
<1>1. run[w] \in Runs
  OBVIOUS
<1>2. CASE run[w] \in [pc : {"none"}]
  BY <1>2 DEF HasRead
<1>3. CASE run[w] \in [pc : {"load"}, device : Devices]
  BY <1>3 DEF HasRead
<1>4. CASE run[w] \in [pc : {"push"}, device : Devices, todo : SUBSET Packages, read : Readings]
  BY <1>4
<1> QED BY <1>1, <1>2, <1>3, <1>4 DEF Runs

\* What a step must show of the run it rewrites.
LEMMA RunKept ==
    ASSUME TypeInv, NEW w \in Workers, NEW r \in Runs, Going(w, r),
           r.pc # "none" => phase[r.device] # "out",
           \A d \in Devices : phase'[d] = "out" => phase[d] = "out"
    PROVE  /\ run' \in [Workers -> Runs]
           /\ \A v \in Workers : run'[v].pc # "none" => phase'[run'[v].device] # "out"
<1>1. /\ run \in [Workers -> Runs] /\ run' \in [Workers -> Runs] /\ run'[w] = r
      /\ \A v \in Workers \ {w} : run'[v] = run[v]
  BY DEF Going, TypeInv, TypeOK
<1>2. ASSUME NEW v \in Workers, run'[v].pc # "none" PROVE phase'[run'[v].device] # "out"
  <2>1. phase[run'[v].device] # "out"
    BY <1>1, <1>2 DEF TypeInv
  <2>2. run'[v] \in Runs /\ run'[v].device \in Devices
    BY <1>1, <1>2 DEF Runs
  <2> QED BY <2>1, <2>2
<1> QED BY <1>1, <1>2

LEMMA NoCallShape == CallShape(NoCall)
BY DEF CallShape, NoCall, Distinct

\* What a step must show of the request it rewrites.
LEMMA CallKept ==
    ASSUME TypeInv, NEW c \in Callers, NEW r \in Calls, CallShape(r), Step(c, r)
    PROVE  /\ call' \in [Callers -> Calls]
           /\ \A b \in Callers : call'[b].left \subseteq call'[b].devices
           /\ \A b \in Callers : CallShape(call'[b])
<1>1. /\ call' \in [Callers -> Calls]
      /\ call'[c] = r
      /\ \A b \in Callers \ {c} : call'[b] = call[b]
  BY CallTyped DEF TypeInv, TypeOK
<1>2. \A b \in Callers : CallShape(call'[b])
  BY <1>1 DEF TypeInv
<1> QED BY <1>1, <1>2 DEF CallShape

LEMMA HeadTailTyped ==
    ASSUME NEW s \in Seq(Packages), s # <<>>, Distinct(s)
    PROVE  /\ Head(s) \in Packages /\ Tail(s) \in Seq(Packages)
           /\ Distinct(Tail(s))
           /\ Len(Tail(s)) = Len(s) - 1
           /\ \A i \in 1..Len(s) - 1 : Tail(s)[i] = s[i + 1]
           /\ Head(s) = s[1]
<1>1. /\ Head(s) \in Packages /\ Tail(s) \in Seq(Packages)
      /\ Len(Tail(s)) = Len(s) - 1
      /\ \A i \in 1..Len(Tail(s)) : Tail(s)[i] = s[i + 1]
      /\ Head(s) = s[1]
  BY HeadTailProperties
<1>2. Distinct(Tail(s))
  BY <1>1 DEF Distinct
<1> QED BY <1>1, <1>2

\* The request PostInstallApplication begins.
LEMMA ListingTyped ==
    ASSUME NEW ps \in SUBSET Packages, ps # {}, NEW apps \in SetToSeqs(ps),
           NEW now \in SUBSET ps, NEW ds \in SUBSET Devices, NEW owed \in SUBSET now,
           NEW r, r = [pc |-> "save", apps |-> apps, now |-> now, devices |-> ds,
                       left |-> ds, owed |-> owed]
    PROVE  r \in Calls /\ CallShape(r)
<1>1. /\ apps \in Seq(Packages) /\ Distinct(apps)
      /\ \A p \in ps : \E i \in 1..Len(apps) : apps[i] = p
  BY AppsTyped
<1>2. apps # <<>>
  BY <1>1
<1>3. r \in Calls
  BY <1>1 DEF Calls
<1>4. CallShape(r)
  BY <1>1, <1>2 DEF CallShape
<1> QED BY <1>3, <1>4

LEMMA InitTypes == Init => TypeInv
<1> SUFFICES ASSUME Init PROVE TypeInv
  OBVIOUS
<1> USE NoCallTyped, NoCallShape, InstallApplicationsAssumption DEF Init
<1>1. phase \in [Devices -> Phases]
  BY DEF Phases
<1>2. call \in [Callers -> Calls] /\ \A c \in Callers : CallShape(call[c])
  OBVIOUS
<1>3. \A c \in Callers : call[c].left \subseteq call[c].devices
  BY <1>2 DEF CallShape
<1>4. faults \in 0..MaxFaults
  OBVIOUS
<1>5. run \in [Workers -> Runs] /\ \A w \in Workers : run[w].pc = "none"
  BY NoRunTyped
<1>6. by \in [Devices -> Readings]
  BY DEF Readings
<1> QED BY <1>1, <1>2, <1>3, <1>4, <1>5, <1>6 DEF TypeInv, TypeOK

\* Every step keeps the types.
LEMMA TypesStep ==
    ASSUME TypeInv, [Next]_vars
    PROVE  TypeInv'
<1> USE DEF TypeInv, TypeOK
<1>1. CASE UNCHANGED vars
  BY <1>1 DEF vars, device, queue, CallShape
<1>2. ASSUME NEW d \in Devices, Enroll(d) PROVE TypeInv'
  <2>1. phase' \in [Devices -> Phases] /\ \A e \in Devices : phase'[e] = "out" => phase[e] = "out"
    BY <1>2 DEF Enroll, Phases
  <2>2. ASSUME NEW w \in Workers
        PROVE  /\ run'[w] \in Runs /\ run'[w].pc = run[w].pc
               /\ run'[w].pc # "none" => run'[w].device = run[w].device
    <3>1. CASE HasRead(w) /\ run[w].device = d
      <4>1. run[w] = [pc |-> "push", device |-> run[w].device,
                      todo |-> run[w].todo, read |-> run[w].read]
        BY <3>1, RunTyped
      <4>2. run'[w] = [run[w] EXCEPT !.read = "before"]
        BY <1>2, <3>1 DEF Enroll
      <4>3. run'[w] = [pc |-> "push", device |-> run[w].device,
                       todo |-> run[w].todo, read |-> "before"]
        BY <4>1, <4>2
      <4>4. run[w].todo \subseteq Packages /\ run[w].device \in Devices /\ run[w].pc = "push"
        BY <3>1, RunTyped DEF HasRead
      <4> QED BY <4>3, <4>4 DEF Runs, Readings
    <3>2. CASE ~(HasRead(w) /\ run[w].device = d)
      BY <1>2, <3>2 DEF Enroll
    <3> QED BY <3>1, <3>2
  <2>3. run' \in [Workers -> Runs]
    <3>1. run' = [w \in Workers |-> run'[w]]
      BY <1>2 DEF Enroll
    <3> QED BY <2>2, <3>1
  <2>4. \A w \in Workers : run'[w].pc # "none" => phase'[run'[w].device] # "out"
    BY <2>1, <2>2, RunTyped
  <2>5. /\ got' \in [Devices -> SUBSET Packages] /\ refused' \in [Devices -> SUBSET Packages]
        /\ due' \in [Devices -> SUBSET Packages]
    BY <1>2 DEF Enroll
  <2> QED BY <1>2, <2>1, <2>3, <2>4, <2>5 DEF Enroll
<1>3. ASSUME NEW w \in Workers, RunInitialTasks(w) PROVE TypeInv'
  <2>1. PICK d \in Devices : phase[d] = "enrolled" /\ Going(w, [pc |-> "load", device |-> d])
    BY <1>3 DEF RunInitialTasks
  <2>2. PICK r \in Runs : r = [pc |-> "load", device |-> d]
    BY DEF Runs
  <2>3. Going(w, r) /\ phase[r.device] # "out" /\ phase' = phase
    BY <1>3, <2>1, <2>2 DEF RunInitialTasks
  <2>4. /\ run' \in [Workers -> Runs]
        /\ \A v \in Workers : run'[v].pc # "none" => phase'[run'[v].device] # "out"
    BY <2>3, RunKept
  <2> QED BY <1>3, <2>4 DEF RunInitialTasks, queue
<1>4. ASSUME NEW w \in Workers, LoadPackages(w) PROVE TypeInv'
  <2>1. PICK r \in Runs : /\ Going(w, r)
                          /\ r.pc # "none" => r.device = run[w].device
    <3>1. run[w].device \in Devices
      BY <1>4, RunTyped DEF LoadPackages
    <3>2. PICK read \in Readings :
            \/ Going(w, [pc |-> "push", device |-> run[w].device, todo |-> saved, read |-> read])
            \/ Going(w, NoRun)
      BY <1>4 DEF LoadPackages, Readings
    <3>3. PICK r : r = [pc |-> "push", device |-> run[w].device, todo |-> saved, read |-> read]
      OBVIOUS
    <3>4. r \in Runs /\ r.device = run[w].device
      BY <3>1, <3>3 DEF Runs
    <3> QED BY <3>2, <3>3, <3>4, NoRunTyped
  <2>2. phase[run[w].device] # "out" /\ phase' = phase
    BY <1>4 DEF LoadPackages
  <2>3. /\ run' \in [Workers -> Runs]
        /\ \A v \in Workers : run'[v].pc # "none" => phase'[run'[v].device] # "out"
    BY <2>1, <2>2, RunKept
  <2>4. faults' \in 0..MaxFaults
    BY <1>4, FaultCounted DEF LoadPackages
  <2> QED BY <1>4, <2>3, <2>4 DEF LoadPackages, queue
<1>5. ASSUME NEW w \in Workers, PushPackage(w) \/ FinishTasks(w) PROVE TypeInv'
  <2>1. /\ run[w].device \in Devices /\ run[w].todo \subseteq Packages
        /\ run[w] = [pc |-> "push", device |-> run[w].device,
                     todo |-> run[w].todo, read |-> run[w].read]
        /\ run[w].read \in Readings /\ phase[run[w].device] # "out"
    BY <1>5, RunTyped DEF PushPackage, FinishTasks, HasRead
  <2>2. PICK d \in Devices, todo \in SUBSET Packages, read \in Readings :
          /\ run[w] = [pc |-> "push", device |-> d, todo |-> todo, read |-> read]
          /\ run[w].device = d /\ run[w].todo = todo
    BY <2>1
  <2>3. CASE PushPackage(w)
    <3>1. PICK p \in todo :
            \/ Sent(d, p) /\ Going(w, [run[w] EXCEPT !.todo = @ \ {p}])
            \/ NotSent(d, p) /\ Going(w, NoRun)
      BY <2>2, <2>3 DEF PushPackage
    <3>2. PICK r \in Runs : Going(w, r) /\ (r.pc # "none" => r.device = d)
      <4>1. PICK q : q = [run[w] EXCEPT !.todo = @ \ {p}]
        OBVIOUS
      <4>2. q = [pc |-> "push", device |-> d, todo |-> todo \ {p}, read |-> read]
        <5>1. PICK o : o = run[w]
          OBVIOUS
        <5>2. o = [pc |-> "push", device |-> d, todo |-> todo, read |-> read]
          BY <2>2, <5>1
        <5>3. q = [o EXCEPT !.todo = o.todo \ {p}]
          BY <4>1, <5>1
        <5>4. o.todo = todo
          BY <5>2
        <5> QED BY <5>2, <5>3, <5>4
      <4>3. q \in Runs /\ q.device = d
        BY <4>2 DEF Runs
      <4> QED BY <3>1, <4>1, <4>3, NoRunTyped
    <3>3. /\ got' \in [Devices -> SUBSET Packages] /\ refused' \in [Devices -> SUBSET Packages]
          /\ faults' \in 0..MaxFaults
      BY <3>1, SentTyped, NotSentTyped
    <3>4. /\ run' \in [Workers -> Runs]
          /\ \A v \in Workers : run'[v].pc # "none" => phase'[run'[v].device] # "out"
      <4>1. phase[d] # "out" /\ phase' = phase
        BY <2>1, <2>2, <2>3 DEF PushPackage
      <4> QED BY <3>2, <4>1, RunKept
    <3> QED BY <2>3, <3>3, <3>4 DEF PushPackage
  <2>4. CASE FinishTasks(w)
    <3>1. faults' \in 0..MaxFaults
      BY <2>4, FaultCounted DEF FinishTasks
    <3>2. /\ phase' \in [Devices -> Phases]
          /\ \A e \in Devices : phase'[e] = "out" => phase[e] = "out"
      BY <2>2, <2>4 DEF FinishTasks, Phases
    <3>3. by' \in [Devices -> Readings]
      BY <2>2, <2>4 DEF FinishTasks
    <3>4. Going(w, NoRun)
      BY <2>4 DEF FinishTasks
    <3>5. /\ run' \in [Workers -> Runs]
          /\ \A v \in Workers : run'[v].pc # "none" => phase'[run'[v].device] # "out"
      BY <3>2, <3>4, NoRunTyped, RunKept
    <3> QED BY <2>4, <3>1, <3>2, <3>3, <3>5 DEF FinishTasks, queue
  <2> QED BY <1>5, <2>3, <2>4
<1>6. ASSUME NEW c \in Callers, PostInstallApplication(c) PROVE TypeInv'
  <2>1. PICK ps \in (SUBSET Packages) \ {{}} : \E apps \in SetToSeqs(ps), now \in SUBSET ps :
          \/ /\ Step(c, [pc |-> "save", apps |-> apps, now |-> now, devices |-> Known,
                         left |-> Known, owed |-> now])
             /\ UNCHANGED faults
          \/ /\ Step(c, [pc |-> "save", apps |-> apps, now |-> now, devices |-> {},
                         left |-> {}, owed |-> {}])
             /\ Fault("database")
    BY <1>6 DEF PostInstallApplication
  <2>2. PICK apps \in SetToSeqs(ps), now \in SUBSET ps :
          \/ /\ Step(c, [pc |-> "save", apps |-> apps, now |-> now, devices |-> Known,
                         left |-> Known, owed |-> now])
             /\ UNCHANGED faults
          \/ /\ Step(c, [pc |-> "save", apps |-> apps, now |-> now, devices |-> {},
                         left |-> {}, owed |-> {}])
             /\ Fault("database")
    BY <2>1
  <2>3. PICK ds \in SUBSET Devices, owed \in SUBSET now :
          Step(c, [pc |-> "save", apps |-> apps, now |-> now, devices |-> ds,
                   left |-> ds, owed |-> owed])
    BY <2>2 DEF Known
  <2>4. PICK r : r = [pc |-> "save", apps |-> apps, now |-> now, devices |-> ds,
                      left |-> ds, owed |-> owed]
    OBVIOUS
  <2>5. r \in Calls /\ CallShape(r)
    BY <2>4, ListingTyped
  <2>6. Step(c, r)
    BY <2>3, <2>4
  <2>7. /\ call' \in [Callers -> Calls]
        /\ \A b \in Callers : call'[b].left \subseteq call'[b].devices
        /\ \A b \in Callers : CallShape(call'[b])
    BY <2>5, <2>6, CallKept
  <2>8. faults' \in 0..MaxFaults
    BY <2>2, FaultCounted
  <2> QED BY <1>6, <2>7, <2>8 DEF PostInstallApplication, device, queue
<1>7. ASSUME NEW c \in Callers, SaveSharedInstallApplications(c) PROVE TypeInv'
  <2>1. /\ call[c] \in Calls /\ CallShape(call[c])
        /\ call[c].pc = "save" /\ call[c].apps # <<>>
    BY <1>7 DEF SaveSharedInstallApplications, CallShape
  <2>2. Head(call[c].apps) \in Packages
    BY <2>1, HeadTailTyped DEF Calls, CallShape
  <2>3. saved' \subseteq Packages
    BY <1>7, <2>2 DEF SaveSharedInstallApplications
  <2>4. PICK owed : owed = call[c].owed \cap saved'
    OBVIOUS
  <2> DEFINE r == [call[c] EXCEPT !.pc = "push", !.owed = owed]
  <2>5. r \in Calls /\ CallShape(r)
    BY <2>1, <2>4 DEF Calls, CallShape
  <2>6. Step(c, r)
    BY <1>7, <2>4 DEF SaveSharedInstallApplications
  <2>7. /\ call' \in [Callers -> Calls]
        /\ \A b \in Callers : call'[b].left \subseteq call'[b].devices
        /\ \A b \in Callers : CallShape(call'[b])
    BY <2>5, <2>6, CallKept
  <2>8. faults' \in 0..MaxFaults
    BY <1>7, FaultCounted DEF SaveSharedInstallApplications
  <2> QED BY <1>7, <2>3, <2>7, <2>8 DEF SaveSharedInstallApplications, device, queue
<1>8. ASSUME NEW c \in Callers, PushSharedInstallApplication(c) PROVE TypeInv'
  <2>1. call[c] \in Calls /\ CallShape(call[c]) /\ call[c].apps # <<>> /\ call[c].pc = "push"
    BY <1>8 DEF PushSharedInstallApplication
  <2>2. PICK p : p = Head(call[c].apps)
    OBVIOUS
  <2>3. p \in Packages
    BY <2>1, <2>2, HeadTailTyped DEF Calls, CallShape
  <2>4. PICK d \in call[c].left :
          \/ Sent(d, p) /\ Step(c, [call[c] EXCEPT !.left = @ \ {d}])
          \/ NotSent(d, p) /\ Step(c, [call[c] EXCEPT !.left = {}, !.owed = @ \ {p}])
    BY <1>8, <2>2 DEF PushSharedInstallApplication
  <2>5. d \in Devices
    BY <2>1 DEF Calls
  <2>6. /\ got' \in [Devices -> SUBSET Packages] /\ refused' \in [Devices -> SUBSET Packages]
        /\ faults' \in 0..MaxFaults
    BY <2>3, <2>4, <2>5, SentTyped, NotSentTyped
  <2>7. [call[c] EXCEPT !.left = @ \ {d}] \in Calls
        /\ CallShape([call[c] EXCEPT !.left = @ \ {d}])
    BY <2>1 DEF Calls, CallShape
  <2>8. [call[c] EXCEPT !.left = {}, !.owed = @ \ {p}] \in Calls
        /\ CallShape([call[c] EXCEPT !.left = {}, !.owed = @ \ {p}])
    BY <2>1 DEF Calls, CallShape
  <2>9. /\ call' \in [Callers -> Calls]
        /\ \A b \in Callers : call'[b].left \subseteq call'[b].devices
        /\ \A b \in Callers : CallShape(call'[b])
    BY <2>4, <2>7, <2>8, CallKept
  <2> QED BY <1>8, <2>6, <2>9 DEF PushSharedInstallApplication, device
<1>9. ASSUME NEW c \in Callers, NextPackage(c) PROVE TypeInv'
  <2>1. call[c] \in Calls /\ CallShape(call[c]) /\ call[c].apps # <<>> /\ call[c].pc = "push"
    BY <1>9 DEF NextPackage
  <2>2. /\ Head(call[c].apps) \in Packages /\ Tail(call[c].apps) \in Seq(Packages)
        /\ Distinct(Tail(call[c].apps))
    BY <2>1, HeadTailTyped DEF Calls, CallShape
  <2> DEFINE r == [call[c] EXCEPT !.apps = Tail(call[c].apps), !.left = call[c].devices]
  <2>3. r \in Calls /\ CallShape(r)
    BY <2>1, <2>2 DEF Calls, CallShape
  <2>4. Step(c, r)
    BY <1>9 DEF NextPackage
  <2>5. /\ call' \in [Callers -> Calls]
        /\ \A b \in Callers : call'[b].left \subseteq call'[b].devices
        /\ \A b \in Callers : CallShape(call'[b])
    BY <2>3, <2>4, CallKept
  <2>6. posted' \subseteq Packages
    BY <1>9, <2>2 DEF NextPackage
  <2> QED BY <1>9, <2>5, <2>6 DEF NextPackage, device, queue
<1>10. ASSUME NEW c \in Callers, Return(c) PROVE TypeInv'
  <2>1. /\ call' \in [Callers -> Calls]
        /\ \A b \in Callers : call'[b].left \subseteq call'[b].devices
        /\ \A b \in Callers : CallShape(call'[b])
    BY <1>10, NoCallTyped, NoCallShape, CallKept DEF Return
  <2> QED BY <1>10, <2>1 DEF Return, device, queue
<1>11. CASE Crash
  <2>1. faults' \in 0..MaxFaults
    BY <1>11, FaultCounted DEF Crash
  <2>2. call' \in [Callers -> Calls] /\ \A b \in Callers : CallShape(call'[b])
    BY <1>11, NoCallTyped, NoCallShape DEF Crash
  <2>3. \A b \in Callers : call'[b].left \subseteq call'[b].devices
    BY <2>2 DEF CallShape
  <2>4. run' \in [Workers -> Runs] /\ \A w \in Workers : run'[w].pc = "none"
    BY <1>11, NoRunTyped DEF Crash
  <2> QED BY <1>11, <2>1, <2>2, <2>3, <2>4 DEF Crash, queue
<1> QED
  BY <1>1, <1>2, <1>3, <1>4, <1>5, <1>6, <1>7, <1>8, <1>9, <1>10, <1>11 DEF Next

\* Every variable keeps to its type, for any devices, packages, requests and faults.
THEOREM TypeCorrect == Spec => []TypeOK
<1>1. Init => TypeInv
  BY InitTypes
<1>2. TypeInv /\ [Next]_vars => TypeInv'
  BY TypesStep
<1>3. TypeInv => TypeOK
  BY DEF TypeInv
<1> QED BY <1>1, <1>2, <1>3, PTL DEF Spec

-----------------------------------------------------------------------------
(* Who has read the table, and what of it is still to come.                 *)

\* Device d is set up, or being set up, by a run that has read the table, in one of the
\* ways readings, and the packages todo of it are still to be sent.
Reader(d, todo, readings) ==
    \/ phase[d] = "done" /\ by[d] \in readings /\ todo = {}
    \/ \E w \in Workers : /\ HasRead(w) /\ run[w].device = d
                          /\ run[w].read \in readings /\ run[w].todo = todo

Soundly     == {"sound"}
AfterEnroll == {"sound", "between"}

LEMMA ReaderTyped ==
    ASSUME TypeInv, NEW d \in Devices, NEW todo, NEW readings, Reader(d, todo, readings)
    PROVE  todo \subseteq Packages /\ d \in Known
<1>1. run \in [Workers -> Runs]
  BY DEF TypeInv, TypeOK
<1>2. CASE phase[d] = "done" /\ todo = {}
  BY <1>2 DEF Known
<1>3. ASSUME NEW w \in Workers, HasRead(w), run[w].device = d, run[w].todo = todo
      PROVE  todo \subseteq Packages /\ d \in Known
  BY <1>1, <1>3, RunTyped DEF Known, TypeInv, HasRead
<1> QED BY <1>2, <1>3 DEF Reader

\* Where a reader comes from: there was one that had, or was to send, no more than this
\* one has and is to send; or the table is being read.
Reads(d, todo, readings) ==
    \/ \E old \in SUBSET Packages :
         /\ Reader(d, old, readings) /\ due'[d] = due[d]
         /\ \A q \in Packages : Has(d, q) \/ q \in old => Has(d, q)' \/ q \in todo
    \/ /\ todo = saved /\ due'[d] = due[d]
       /\ readings = Soundly => \A c \in Callers : call[c].pc = "save" => d \in call[c].devices

\* A reader that was one before, of a device that has lost nothing.
LEMMA ReaderKept ==
    ASSUME TypeInv, NEW d \in Devices, NEW todo, NEW readings, Reader(d, todo, readings),
           \A q \in Packages : Has(d, q) => Has(d, q)', due'[d] = due[d]
    PROVE  Reads(d, todo, readings)
BY ReaderTyped DEF Reads

\* A run that neither was going before nor begins with what the table says is none.
LEMMA RunStep ==
    ASSUME TypeInv, NEW w \in Workers,
           RunInitialTasks(w) \/ LoadPackages(w) \/ PushPackage(w) \/ FinishTasks(w),
           NEW d \in Devices, NEW todo, NEW readings \in {Soundly, AfterEnroll},
           Reader(d, todo, readings)'
    PROVE  Reads(d, todo, readings)
<1>T. /\ run \in [Workers -> Runs] /\ saved \subseteq Packages
      /\ got \in [Devices -> SUBSET Packages] /\ refused \in [Devices -> SUBSET Packages]
      /\ faults \in 0..MaxFaults /\ phase \in [Devices -> Phases] /\ by \in [Devices -> Readings]
      /\ due' = due
  BY DEF TypeInv, TypeOK, RunInitialTasks, LoadPackages, PushPackage, FinishTasks
<1>1. Kept
  <2>1. CASE PushPackage(w)
    <3>1. /\ run[w].device \in Devices /\ run[w].todo \subseteq Packages
      BY <1>T, <2>1, RunTyped DEF PushPackage, HasRead
    <3>2. PICK p \in run[w].todo : Sent(run[w].device, p) \/ NotSent(run[w].device, p)
      BY <2>1 DEF PushPackage
    <3> QED BY <1>T, <3>1, <3>2, SentTyped, NotSentTyped
  <2>2. CASE UNCHANGED queue
    BY <2>2 DEF queue, Kept, Has
  <2> QED BY <2>1, <2>2 DEF RunInitialTasks, LoadPackages, FinishTasks
<1>2. CASE phase'[d] = "done" /\ by'[d] \in readings /\ todo = {}
  <2>1. CASE phase[d] = "done" /\ by[d] \in readings
    BY <1>1, <1>2, <1>T, <2>1, ReaderKept DEF Reader, Kept
  <2>2. CASE ~(phase[d] = "done" /\ by[d] \in readings)
    <3>1. FinishTasks(w)
      BY <1>2, <2>2 DEF RunInitialTasks, LoadPackages, PushPackage
    <3>2. /\ HasRead(w) /\ run[w].todo = {} /\ run[w].device = d
          /\ by'[d] = run[w].read \/ (phase[d] = "done" /\ by'[d] = by[d])
      <4>1. run[w].device \in Devices
        BY <1>T, <3>1, RunTyped DEF FinishTasks, HasRead
      <4> QED BY <1>2, <1>T, <2>2, <3>1, <4>1 DEF FinishTasks
    <3>3. Reader(d, todo, readings)
      BY <1>2, <2>2, <3>2 DEF Reader
    <3> QED BY <1>1, <1>T, <3>3, ReaderKept DEF Kept
  <2> QED BY <2>1, <2>2
<1>3. ASSUME NEW v \in Workers, HasRead(v)', run'[v].device = d, run'[v].read \in readings,
             run'[v].todo = todo
      PROVE  Reads(d, todo, readings)
  <2>1. CASE v # w
    <3>1. run'[v] = run[v]
      BY <1>T, <2>1 DEF RunInitialTasks, LoadPackages, PushPackage, FinishTasks, Going
    <3>2. Reader(d, todo, readings)
      BY <1>3, <3>1 DEF Reader, HasRead
    <3> QED BY <1>1, <1>T, <3>2, ReaderKept DEF Kept
  <2>2. CASE v = w /\ (RunInitialTasks(w) \/ FinishTasks(w))
    <3>1. run'[v].pc # "push"
      BY <1>T, <2>2, NoRunTyped DEF RunInitialTasks, FinishTasks, Going
    <3> QED BY <1>3, <3>1 DEF HasRead
  <2>3. CASE v = w /\ LoadPackages(w)
    <3>1. PICK read : /\ read = IF \E c \in Callers : /\ call[c].pc = "save"
                                                     /\ run[w].device \notin call[c].devices
                                  THEN "between" ELSE "sound"
                      /\ \/ Going(w, [pc |-> "push", device |-> run[w].device,
                                      todo |-> saved, read |-> read])
                         \/ Going(w, NoRun)
      BY <2>3 DEF LoadPackages
    <3>2. /\ run'[w].device = run[w].device /\ run'[w].todo = saved /\ run'[w].read = read
      BY <1>3, <1>T, <2>3, <3>1, NoRunTyped DEF Going, HasRead
    <3>3. todo = saved /\ d = run[w].device /\ read \in readings
      BY <1>3, <2>3, <3>2
    <3> QED BY <1>T, <3>1, <3>3 DEF Reads, Soundly
  <2>4. CASE v = w /\ PushPackage(w)
    <3>1. /\ run[w].device \in Devices /\ run[w].todo \subseteq Packages
          /\ run[w] = [pc |-> "push", device |-> run[w].device,
                       todo |-> run[w].todo, read |-> run[w].read]
      BY <1>T, <2>4, RunTyped DEF PushPackage, HasRead
    <3>2. PICK p \in run[w].todo :
            \/ Sent(run[w].device, p) /\ Going(w, [run[w] EXCEPT !.todo = @ \ {p}])
            \/ NotSent(run[w].device, p) /\ Going(w, NoRun)
      BY <2>4 DEF PushPackage
    <3>3. Sent(run[w].device, p) /\ Going(w, [run[w] EXCEPT !.todo = @ \ {p}])
      BY <1>3, <1>T, <2>4, <3>2, NoRunTyped DEF Going, HasRead
    <3>4. /\ run'[w].device = run[w].device /\ run'[w].read = run[w].read
          /\ run'[w].todo = run[w].todo \ {p}
      BY <1>T, <3>1, <3>3 DEF Going
    <3>5. d = run[w].device /\ todo = run[w].todo \ {p} /\ Reader(d, run[w].todo, readings)
      BY <1>3, <2>4, <3>4 DEF Reader, PushPackage
    <3>6. Has(d, p)'
      BY <1>T, <3>1, <3>3, <3>5, SentTyped
    <3>7. \A q \in Packages : Has(d, q) \/ q \in run[w].todo => Has(d, q)' \/ q \in todo
      BY <1>1, <3>5, <3>6 DEF Kept
    <3>8. PICK old \in SUBSET Packages : old = run[w].todo
      BY <3>1
    <3> QED BY <1>T, <3>5, <3>7, <3>8 DEF Reads
  <2> QED BY <2>1, <2>2, <2>3, <2>4
<1> QED BY <1>2, <1>3 DEF Reader, HasRead

\* A device that enrols has no reader, and the others are none the wiser.
LEMMA EnrollStep ==
    ASSUME TypeInv, NEW e \in Devices, Enroll(e),
           NEW d \in Devices, NEW todo, NEW readings \in {Soundly, AfterEnroll},
           Reader(d, todo, readings)'
    PROVE  Reads(d, todo, readings)
<1>T. /\ run \in [Workers -> Runs] /\ phase \in [Devices -> Phases]
      /\ due \in [Devices -> SUBSET Packages]
      /\ got \in [Devices -> SUBSET Packages] /\ refused \in [Devices -> SUBSET Packages]
  BY DEF TypeInv, TypeOK
<1>1. "before" \notin readings
  BY DEF Soundly, AfterEnroll
<1>2. ASSUME NEW w \in Workers, HasRead(w)', run'[w].device = d, run'[w].read \in readings
      PROVE  run'[w] = run[w] /\ d # e
  <2>1. CASE HasRead(w) /\ run[w].device = e
    <3>1. run[w] = [pc |-> "push", device |-> run[w].device,
                    todo |-> run[w].todo, read |-> run[w].read]
      BY <1>T, <2>1, RunTyped
    <3>2. run'[w] = [run[w] EXCEPT !.read = "before"]
      BY <2>1 DEF Enroll
    <3>3. run'[w].read = "before"
      BY <3>1, <3>2
    <3> QED BY <1>1, <1>2, <3>3
  <2>2. CASE ~(HasRead(w) /\ run[w].device = e)
    <3>1. run'[w] = run[w]
      BY <2>2 DEF Enroll
    <3> QED BY <1>2, <2>2, <3>1 DEF HasRead
  <2> QED BY <2>1, <2>2
<1>3. CASE d # e
  <2>1. phase'[d] = phase[d] /\ by' = by /\ due'[d] = due[d]
    BY <1>T, <1>3 DEF Enroll
  <2>2. \A q \in Packages : Has(d, q) => Has(d, q)'
    BY <1>T, <1>3 DEF Enroll, Has
  <2>3. Reader(d, todo, readings)
    BY <1>2, <2>1 DEF Reader, HasRead
  <2> QED BY <2>1, <2>2, <2>3, ReaderKept
<1>4. CASE d = e
  <2>1. phase'[d] # "done"
    BY <1>T, <1>4 DEF Enroll
  <2> QED BY <1>2, <1>4, <2>1 DEF Reader, HasRead
<1> QED BY <1>3, <1>4

LEMMA CrashStep ==
    ASSUME TypeInv, Crash,
           NEW d \in Devices, NEW todo, NEW readings, Reader(d, todo, readings)'
    PROVE  Reads(d, todo, readings)
<1>1. \A w \in Workers : ~HasRead(w)'
  BY NoRunTyped DEF Crash, HasRead
<1>2. Reader(d, todo, readings)
  BY <1>1 DEF Reader, Crash
<1> QED BY <1>2, ReaderKept DEF Crash, queue, Has

\* A step of a request leaves the devices alone, but that they get more.
LEMMA RequestStep ==
    ASSUME TypeInv, NEW c \in Callers,
           \/ PostInstallApplication(c) \/ SaveSharedInstallApplications(c)
           \/ PushSharedInstallApplication(c) \/ NextPackage(c) \/ Return(c)
    PROVE  UNCHANGED device /\ saved \subseteq saved' /\ Kept
<1>1. UNCHANGED device /\ saved \subseteq saved'
  BY DEF PostInstallApplication, SaveSharedInstallApplications, PushSharedInstallApplication,
         NextPackage, Return
<1>2. Kept
  <2>1. CASE PushSharedInstallApplication(c)
    <3>1. PICK p : p = Head(call[c].apps)
      OBVIOUS
    <3>2. p \in Packages
      BY <2>1, <3>1, HeadTailTyped
         DEF PushSharedInstallApplication, TypeInv, TypeOK, Calls, CallShape
    <3>3. PICK d \in call[c].left : Sent(d, p) \/ NotSent(d, p)
      BY <2>1, <3>1 DEF PushSharedInstallApplication
    <3>4. /\ d \in Devices /\ faults \in 0..MaxFaults
          /\ got \in [Devices -> SUBSET Packages] /\ refused \in [Devices -> SUBSET Packages]
      BY DEF TypeInv, TypeOK, Calls
    <3> QED BY <3>2, <3>3, <3>4, SentTyped, NotSentTyped
  <2>2. CASE UNCHANGED queue
    BY <2>2 DEF queue, Kept, Has
  <2> QED BY <2>1, <2>2
          DEF PostInstallApplication, SaveSharedInstallApplications, NextPackage, Return
<1> QED BY <1>1, <1>2

-----------------------------------------------------------------------------
(* Packages at enrolment.                                                   *)

\* What was saved when a device enrolled is there, or comes by every run that read the
\* table since.
EnrolmentInv ==
    \A d \in Devices :
      /\ due[d] \subseteq saved
      /\ \A todo \in SUBSET Packages : Reader(d, todo, AfterEnroll) =>
           \A q \in due[d] : Has(d, q) \/ q \in todo

\* What a step must show: of the table, and of every reader there is after it.
LEMMA EnrolmentKept ==
    ASSUME TypeInv, EnrolmentInv,
           saved \subseteq saved', \A d \in Devices : due'[d] \subseteq saved',
           \A d \in Devices, todo \in SUBSET Packages :
             Reader(d, todo, AfterEnroll)' => Reads(d, todo, AfterEnroll)
    PROVE  EnrolmentInv'
<1>1. ASSUME NEW d \in Devices, NEW todo \in SUBSET Packages, Reader(d, todo, AfterEnroll)',
             NEW q \in due'[d]
      PROVE  Has(d, q)' \/ q \in todo
  <2>1. due[d] \subseteq saved /\ saved \subseteq Packages
    BY DEF EnrolmentInv, TypeInv, TypeOK
  <2>2. CASE todo = saved /\ due'[d] = due[d]
    BY <1>1, <2>1, <2>2
  <2>3. ASSUME NEW old \in SUBSET Packages, Reader(d, old, AfterEnroll), due'[d] = due[d],
               \A r \in Packages : Has(d, r) \/ r \in old => Has(d, r)' \/ r \in todo
        PROVE  Has(d, q)' \/ q \in todo
    BY <1>1, <2>1, <2>3 DEF EnrolmentInv
  <2> QED BY <1>1, <2>2, <2>3 DEF Reads
<1> QED BY <1>1 DEF EnrolmentInv

LEMMA EnrolmentStep ==
    ASSUME TypeInv, EnrolmentInv, [Next]_vars
    PROVE  EnrolmentInv'
<1>D. \A d \in Devices : due[d] \subseteq saved
  BY DEF EnrolmentInv
<1>1. CASE UNCHANGED vars
  <2>1. \A d \in Devices, todo \in SUBSET Packages :
          (Reader(d, todo, AfterEnroll)' <=> Reader(d, todo, AfterEnroll))
    BY <1>1 DEF vars, device, Reader, HasRead
  <2>2. \A d \in Devices : \A q : Has(d, q)' <=> Has(d, q)
    BY <1>1 DEF vars, queue, Has
  <2>3. saved' = saved /\ due' = due
    BY <1>1 DEF vars, device
  <2> QED BY <2>1, <2>2, <2>3 DEF EnrolmentInv
<1>2. ASSUME NEW e \in Devices, Enroll(e) PROVE EnrolmentInv'
  <2>1. saved' = saved /\ \A d \in Devices : due'[d] \subseteq saved
    BY <1>2, <1>D DEF Enroll, TypeInv, TypeOK
  <2> QED BY <1>2, <2>1, EnrollStep, EnrolmentKept
<1>3. ASSUME NEW w \in Workers,
             RunInitialTasks(w) \/ LoadPackages(w) \/ PushPackage(w) \/ FinishTasks(w)
      PROVE  EnrolmentInv'
  <2>1. saved' = saved /\ due' = due
    BY <1>3 DEF RunInitialTasks, LoadPackages, PushPackage, FinishTasks
  <2> QED BY <1>3, <1>D, <2>1, RunStep, EnrolmentKept
<1>4. ASSUME NEW c \in Callers,
             \/ PostInstallApplication(c) \/ SaveSharedInstallApplications(c)
             \/ PushSharedInstallApplication(c) \/ NextPackage(c) \/ Return(c)
      PROVE  EnrolmentInv'
  <2>1. UNCHANGED device /\ saved \subseteq saved' /\ Kept
    BY <1>4, RequestStep
  <2>2. \A d \in Devices, todo \in SUBSET Packages :
          Reader(d, todo, AfterEnroll)' => Reads(d, todo, AfterEnroll)
    <3> SUFFICES ASSUME NEW d \in Devices, NEW todo \in SUBSET Packages,
                        Reader(d, todo, AfterEnroll)'
                 PROVE  Reads(d, todo, AfterEnroll)
      OBVIOUS
    <3>1. Reader(d, todo, AfterEnroll)
      BY <2>1 DEF device, Reader, HasRead
    <3> QED BY <2>1, <3>1, ReaderKept DEF device, Kept
  <2>3. \A d \in Devices : due'[d] \subseteq saved'
    BY <1>D, <2>1 DEF device
  <2> QED BY <2>1, <2>2, <2>3, EnrolmentKept
<1>5. CASE Crash
  <2>1. saved' = saved /\ due' = due
    BY <1>5 DEF Crash
  <2> QED BY <1>5, <1>D, <2>1, CrashStep, EnrolmentKept
<1> QED BY <1>1, <1>2, <1>3, <1>4, <1>5 DEF Next

LEMMA InitReaders ==
    ASSUME Init
    PROVE  EnrolmentInv
BY DEF Init, EnrolmentInv

\* A device that counts as set up, by a run that read the table since it enrolled, has
\* every package that was saved when it enrolled, but for those MicroMDM refused.
THEOREM SetUpWithPackages == Spec => []InstalledAtEnrollment
<1>1. Init => TypeInv /\ EnrolmentInv
  BY InitTypes, InitReaders
<1>2. TypeInv /\ EnrolmentInv /\ [Next]_vars => TypeInv' /\ EnrolmentInv'
  BY TypesStep, EnrolmentStep
<1>3. ASSUME TypeInv, EnrolmentInv PROVE InstalledAtEnrollment
  <2> SUFFICES ASSUME NEW d \in Devices, phase[d] = "done", by[d] # "before"
               PROVE  \A p \in due[d] : Has(d, p)
    BY DEF InstalledAtEnrollment
  <2>1. by[d] \in AfterEnroll
    BY <1>3 DEF TypeInv, TypeOK, Readings, AfterEnroll
  <2>2. Reader(d, {}, AfterEnroll)
    BY <2>1 DEF Reader
  <2> QED BY <1>3, <2>2 DEF EnrolmentInv
<1> QED BY <1>1, <1>2, <1>3, PTL DEF Spec

-----------------------------------------------------------------------------
(* Packages that are posted.                                                *)

\* Request r is still to send p to d.
Coming(r, d, p) ==
    /\ r.apps # <<>>
    /\ IF p = Head(r.apps) THEN d \in r.left
       ELSE d \in r.devices /\ \E i \in 1..Len(r.apps) : r.apps[i] = p

\* Before the save whoever has read the table soundly is listed.
Listed(r) ==
    r.pc = "save" /\ r.owed # {} =>
      \A d \in Devices, todo \in SUBSET Packages : Reader(d, todo, Soundly) => d \in r.devices

\* After it a package that is owed is there, or comes.
Owing(r) ==
    r.pc = "push" =>
      /\ r.owed \subseteq saved
      /\ \A p \in r.owed, d \in Devices, todo \in SUBSET Packages :
           Reader(d, todo, Soundly) => Has(d, p) \/ p \in todo \/ Coming(r, d, p)

Reached ==
    \A p \in posted, d \in Devices, todo \in SUBSET Packages :
      Reader(d, todo, Soundly) => Has(d, p) \/ p \in todo

PostInv ==
    /\ posted \subseteq saved
    /\ Reached
    /\ \A c \in Callers : Listed(call[c]) /\ Owing(call[c])

\* What a step of the initial tasks, or of a device, must show.
LEMMA DeviceStep ==
    ASSUME TypeInv, PostInv, UNCHANGED <<call, saved, posted>>,
           \A d \in Devices, todo \in SUBSET Packages :
             Reader(d, todo, Soundly)' => Reads(d, todo, Soundly)
    PROVE  PostInv'
<1>T. saved \subseteq Packages /\ posted \subseteq saved
  BY DEF TypeInv, TypeOK, PostInv
<1>1. Reached'
  <2> SUFFICES ASSUME NEW p \in posted, NEW d \in Devices, NEW todo \in SUBSET Packages,
                      Reader(d, todo, Soundly)'
               PROVE  Has(d, p)' \/ p \in todo
    BY DEF Reached
  <2>1. CASE todo = saved
    BY <1>T, <2>1
  <2>2. ASSUME NEW old \in SUBSET Packages, Reader(d, old, Soundly),
               \A q \in Packages : Has(d, q) \/ q \in old => Has(d, q)' \/ q \in todo
        PROVE  Has(d, p)' \/ p \in todo
    BY <1>T, <2>2 DEF PostInv, Reached
  <2> QED BY <2>1, <2>2 DEF Reads
<1>2. ASSUME NEW c \in Callers PROVE Listed(call[c])'
  <2> SUFFICES ASSUME call[c].pc = "save", call[c].owed # {},
                      NEW d \in Devices, NEW todo \in SUBSET Packages, Reader(d, todo, Soundly)'
               PROVE  d \in call[c].devices
    BY DEF Listed
  <2> QED BY DEF Reads, PostInv, Listed
<1>3. ASSUME NEW c \in Callers PROVE Owing(call[c])'
  <2>1. call[c].pc = "push" => call[c].owed \subseteq saved
    BY DEF PostInv, Owing
  <2> SUFFICES ASSUME call[c].pc = "push", NEW p \in call[c].owed, NEW d \in Devices,
                      NEW todo \in SUBSET Packages, Reader(d, todo, Soundly)'
               PROVE  Has(d, p)' \/ p \in todo \/ Coming(call[c], d, p)
    BY <2>1 DEF Owing, Coming
  <2>2. p \in saved /\ p \in Packages
    BY <1>T, <2>1
  <2>3. CASE todo = saved
    BY <2>2, <2>3
  <2>4. ASSUME NEW old \in SUBSET Packages, Reader(d, old, Soundly),
               \A q \in Packages : Has(d, q) \/ q \in old => Has(d, q)' \/ q \in todo
        PROVE  Has(d, p)' \/ p \in todo \/ Coming(call[c], d, p)
    BY <2>2, <2>4 DEF PostInv, Owing
  <2> QED BY <2>3, <2>4 DEF Reads
<1> QED BY <1>1, <1>2, <1>3, <1>T DEF PostInv

\* The readers are the same after a step of a request.
LEMMA SameReaders ==
    ASSUME UNCHANGED device
    PROVE  \A d \in Devices, todo \in SUBSET Packages :
             Reader(d, todo, Soundly)' <=> Reader(d, todo, Soundly)
BY DEF device, Reader, HasRead

\* What a step of a request must show: of the request, and of the packages it is through with.
LEMMA RequestKept ==
    ASSUME TypeInv, PostInv, UNCHANGED device, saved \subseteq saved', Kept,
           NEW c \in Callers, NEW r \in Calls, Step(c, r), Listed(r)', Owing(r)',
           posted' \subseteq saved',
           \A p \in posted' \ posted, d \in Devices, todo \in SUBSET Packages :
             Reader(d, todo, Soundly) => Has(d, p)' \/ p \in todo
    PROVE  PostInv'
<1>T. posted \subseteq Packages
  BY DEF TypeInv, TypeOK
<1>1. /\ call'[c] = r
      /\ \A b \in Callers \ {c} : call'[b] = call[b] /\ call[b] \in Calls
  BY CallTyped DEF TypeInv, TypeOK
<1>2. Reached'
  BY <1>T, SameReaders DEF PostInv, Reached, Kept
<1>3. ASSUME NEW b \in Callers \ {c} PROVE Listed(call[b])' /\ Owing(call[b])'
  <2>1. PICK q \in Calls : q = call[b] /\ q = call'[b]
    BY <1>1
  <2>2. Listed(q) /\ Owing(q) /\ q.owed \subseteq Packages
    BY <2>1 DEF PostInv, Calls
  <2>3. Listed(q)'
    BY <2>2, SameReaders DEF Listed
  <2>4. Owing(q)'
    BY <2>2, SameReaders DEF Owing, Coming, Kept
  <2> QED BY <2>1, <2>3, <2>4 DEF Listed, Owing, Coming
<1>4. Listed(call[c])' /\ Owing(call[c])'
  BY <1>1 DEF Listed, Owing, Coming
<1>5. \A b \in Callers : Listed(call[b])' /\ Owing(call[b])'
  BY <1>3, <1>4
<1> QED BY <1>2, <1>5 DEF PostInv

LEMMA PostStep ==
    ASSUME TypeInv, PostInv, [Next]_vars
    PROVE  PostInv'
<1>T. /\ saved \subseteq Packages
      /\ got \in [Devices -> SUBSET Packages] /\ refused \in [Devices -> SUBSET Packages]
      /\ call \in [Callers -> Calls]
      /\ faults \in 0..MaxFaults /\ posted \subseteq Packages
  BY DEF TypeInv, TypeOK
<1>1. CASE UNCHANGED vars
  <2>1. UNCHANGED device /\ UNCHANGED <<call, saved, posted>>
    BY <1>1 DEF vars
  <2>2. \A d \in Devices : \A q : Has(d, q)' <=> Has(d, q)
    BY <1>1 DEF vars, queue, Has
  <2>3. Reached' /\ posted' \subseteq saved'
    BY <2>1, <2>2, SameReaders DEF PostInv, Reached
  <2>4. \A c \in Callers : Listed(call[c])'
    BY <2>1, SameReaders DEF PostInv, Listed
  <2>5. \A c \in Callers : Owing(call[c])'
    BY <2>1, <2>2, SameReaders DEF PostInv, Owing, Coming
  <2> QED BY <2>3, <2>4, <2>5 DEF PostInv
<1>2. ASSUME NEW d \in Devices, Enroll(d) PROVE PostInv'
  <2>1. UNCHANGED <<call, saved, posted>>
    BY <1>2 DEF Enroll
  <2> QED BY <1>2, <2>1, EnrollStep, DeviceStep
<1>3. ASSUME NEW w \in Workers,
             RunInitialTasks(w) \/ LoadPackages(w) \/ PushPackage(w) \/ FinishTasks(w)
      PROVE  PostInv'
  <2>1. UNCHANGED <<call, saved, posted>>
    BY <1>3 DEF RunInitialTasks, LoadPackages, PushPackage, FinishTasks
  <2> QED BY <1>3, <2>1, RunStep, DeviceStep
<1>6. ASSUME NEW c \in Callers, PostInstallApplication(c) PROVE PostInv'
  <2>1. PICK ps \in (SUBSET Packages) \ {{}} : \E apps \in SetToSeqs(ps), now \in SUBSET ps :
          \/ /\ Step(c, [pc |-> "save", apps |-> apps, now |-> now, devices |-> Known,
                         left |-> Known, owed |-> now])
             /\ UNCHANGED faults
          \/ /\ Step(c, [pc |-> "save", apps |-> apps, now |-> now, devices |-> {},
                         left |-> {}, owed |-> {}])
             /\ Fault("database")
    BY <1>6 DEF PostInstallApplication
  <2>2. PICK apps \in SetToSeqs(ps), now \in SUBSET ps :
          \/ Step(c, [pc |-> "save", apps |-> apps, now |-> now, devices |-> Known,
                      left |-> Known, owed |-> now])
          \/ Step(c, [pc |-> "save", apps |-> apps, now |-> now, devices |-> {},
                      left |-> {}, owed |-> {}])
    BY <2>1
  <2>3. PICK ds \in SUBSET Devices, owed \in SUBSET now :
          /\ Step(c, [pc |-> "save", apps |-> apps, now |-> now, devices |-> ds,
                      left |-> ds, owed |-> owed])
          /\ ds = Known \/ owed = {}
    BY <2>2 DEF Known
  <2>4. PICK r : r = [pc |-> "save", apps |-> apps, now |-> now, devices |-> ds,
                      left |-> ds, owed |-> owed]
    OBVIOUS
  <2>5. r \in Calls
    BY <2>4, ListingTyped
  <2>6. UNCHANGED device /\ saved \subseteq saved' /\ Kept
    BY <1>6, RequestStep
  <2>7. \A d \in Devices, todo \in SUBSET Packages : Reader(d, todo, Soundly)' => d \in Known
    BY <2>6, SameReaders, ReaderTyped
  <2>8. r.pc = "save" /\ r.devices = ds /\ r.owed = owed
    BY <2>4
  <2>9. Listed(r)' /\ Owing(r)'
    BY <2>3, <2>7, <2>8 DEF Listed, Owing
  <2>10. Step(c, r) /\ posted' = posted /\ posted' \subseteq saved'
    BY <1>6, <2>3, <2>4, <2>6 DEF PostInstallApplication, PostInv
  <2> QED BY <2>5, <2>6, <2>9, <2>10, RequestKept
<1>7. ASSUME NEW c \in Callers, SaveSharedInstallApplications(c) PROVE PostInv'
  <2>1. /\ call[c] \in Calls /\ CallShape(call[c]) /\ Listed(call[c])
        /\ call[c].pc = "save" /\ call[c].apps # <<>>
    BY <1>7 DEF SaveSharedInstallApplications, CallShape, TypeInv, TypeOK, PostInv
  <2>2. UNCHANGED device /\ saved \subseteq saved' /\ Kept
    BY <1>7, RequestStep
  <2>3. PICK owed : owed = call[c].owed \cap saved'
    OBVIOUS
  <2>4. PICK r : r = [call[c] EXCEPT !.pc = "push", !.owed = owed]
    OBVIOUS
  <2>5. /\ r \in Calls /\ r.pc = "push" /\ r.owed = owed
        /\ r.apps = call[c].apps /\ r.left = call[c].devices /\ r.devices = call[c].devices
    BY <2>1, <2>3, <2>4 DEF Calls, CallShape
  <2>6. Step(c, r)
    BY <1>7, <2>3, <2>4 DEF SaveSharedInstallApplications
  <2>7. ASSUME NEW p \in owed, NEW d \in Devices, NEW todo \in SUBSET Packages,
               Reader(d, todo, Soundly)
        PROVE  Coming(r, d, p)
    <3>1. d \in call[c].devices
      BY <2>1, <2>3, <2>7 DEF Listed
    <3>2. \E i \in 1..Len(r.apps) : r.apps[i] = p
      BY <2>1, <2>3, <2>5 DEF CallShape
    <3> QED BY <2>1, <2>5, <3>1, <3>2 DEF Coming
  <2>8. Owing(r)'
    BY <2>2, <2>3, <2>5, <2>7, SameReaders DEF Owing, Coming
  <2>9. Listed(r)'
    BY <2>5 DEF Listed
  <2>10. posted' = posted /\ posted' \subseteq saved'
    BY <1>7, <2>2 DEF SaveSharedInstallApplications, PostInv
  <2> QED BY <2>2, <2>5, <2>6, <2>8, <2>9, <2>10, RequestKept
<1>8. ASSUME NEW c \in Callers, PushSharedInstallApplication(c) PROVE PostInv'
  <2>1. /\ call[c] \in Calls /\ CallShape(call[c]) /\ Owing(call[c])
        /\ call[c].apps # <<>> /\ call[c].pc = "push"
    BY <1>8 DEF PushSharedInstallApplication, TypeInv, TypeOK, PostInv
  <2>2. UNCHANGED device /\ saved \subseteq saved' /\ Kept
    BY <1>8, RequestStep
  <2>3. PICK p : p = Head(call[c].apps)
    OBVIOUS
  <2>4. p \in Packages
    BY <2>1, <2>3, HeadTailTyped DEF Calls, CallShape
  <2>5. PICK d \in call[c].left :
          \/ Sent(d, p) /\ Step(c, [call[c] EXCEPT !.left = @ \ {d}])
          \/ NotSent(d, p) /\ Step(c, [call[c] EXCEPT !.left = {}, !.owed = @ \ {p}])
    BY <1>8, <2>3 DEF PushSharedInstallApplication
  <2>6. d \in Devices
    BY <2>1 DEF Calls
  <2>7. PICK left \in SUBSET Devices, owed \in SUBSET call[c].owed :
          /\ call' = [call EXCEPT ![c] = [call[c] EXCEPT !.left = left, !.owed = owed]]
          /\ p \notin owed \/ (Has(d, p)' /\ left = call[c].left \ {d})
    <3>1. CASE Sent(d, p) /\ Step(c, [call[c] EXCEPT !.left = @ \ {d}])
      <4>1. [call[c] EXCEPT !.left = @ \ {d}]
              = [call[c] EXCEPT !.left = call[c].left \ {d}, !.owed = call[c].owed]
        BY <2>1 DEF Calls
      <4>2. call[c].left \ {d} \in SUBSET Devices /\ Has(d, p)'
        BY <1>T, <2>1, <2>4, <2>6, <3>1, SentTyped DEF Calls
      <4>3. PICK ls \in SUBSET Devices, os \in SUBSET call[c].owed :
              ls = call[c].left \ {d} /\ os = call[c].owed
        BY <4>2
      <4>4. call' = [call EXCEPT ![c] = [call[c] EXCEPT !.left = ls, !.owed = os]]
        BY <3>1, <4>1, <4>3 DEF Step
      <4> QED BY <4>2, <4>3, <4>4
    <3>2. CASE Step(c, [call[c] EXCEPT !.left = {}, !.owed = @ \ {p}])
      <4>1. [call[c] EXCEPT !.left = {}, !.owed = @ \ {p}]
              = [call[c] EXCEPT !.left = {}, !.owed = call[c].owed \ {p}]
        BY <2>1 DEF Calls
      <4>2. PICK ls \in SUBSET Devices, os \in SUBSET call[c].owed :
              ls = {} /\ os = call[c].owed \ {p}
        OBVIOUS
      <4>3. call' = [call EXCEPT ![c] = [call[c] EXCEPT !.left = ls, !.owed = os]]
        BY <3>2, <4>1, <4>2 DEF Step
      <4> QED BY <4>2, <4>3
    <3> QED BY <2>5, <3>1, <3>2
  <2>8. PICK r : r = [call[c] EXCEPT !.left = left, !.owed = owed]
    OBVIOUS
  <2>9. /\ r \in Calls /\ r.pc = "push" /\ r.owed = owed /\ r.left = left
        /\ r.apps = call[c].apps /\ r.devices = call[c].devices
    BY <2>1, <2>7, <2>8 DEF Calls
  <2>10. ASSUME NEW q \in owed, NEW e \in Devices, NEW todo \in SUBSET Packages,
                Reader(e, todo, Soundly)
         PROVE  Has(e, q)' \/ q \in todo \/ Coming(r, e, q)
    <3>1. q \in Packages /\ (Has(e, q) \/ q \in todo \/ Coming(call[c], e, q))
      BY <1>T, <2>1, <2>7, <2>10 DEF Owing, Calls
    <3>2. CASE Has(e, q) \/ q \in todo
      BY <2>2, <3>1, <3>2 DEF Kept
    <3>3. CASE Coming(call[c], e, q) /\ q # p
      BY <2>3, <2>9, <3>3 DEF Coming
    <3>4. CASE Coming(call[c], e, q) /\ q = p
      <4>1. Has(d, p)' /\ left = call[c].left \ {d} /\ e \in call[c].left
        BY <2>3, <2>7, <3>4 DEF Coming
      <4>2. CASE e = d
        BY <3>4, <4>1, <4>2
      <4>3. CASE e # d
        BY <2>1, <2>3, <2>9, <3>4, <4>1, <4>3 DEF Coming
      <4> QED BY <4>2, <4>3
    <3> QED BY <3>1, <3>2, <3>3, <3>4
  <2>11. Owing(r)'
    <3>1. r.owed \subseteq saved'
      BY <2>1, <2>2, <2>7, <2>9 DEF Owing
    <3> QED BY <2>2, <2>9, <2>10, <3>1, SameReaders DEF Owing, Coming
  <2>12. Listed(r)' /\ Step(c, r)
    BY <2>7, <2>8, <2>9 DEF Listed, Step
  <2>13. posted' = posted /\ posted' \subseteq saved'
    BY <1>8, <2>2 DEF PushSharedInstallApplication, PostInv
  <2> QED BY <2>2, <2>9, <2>11, <2>12, <2>13, RequestKept
<1>9. ASSUME NEW c \in Callers, NextPackage(c) PROVE PostInv'
  <2>1. /\ call[c] \in Calls /\ CallShape(call[c]) /\ Owing(call[c])
        /\ call[c].apps # <<>> /\ call[c].pc = "push"
        /\ call[c].left = {} \/ Head(call[c].apps) \notin call[c].now
    BY <1>9 DEF NextPackage, TypeInv, TypeOK, PostInv
  <2>2. UNCHANGED device /\ saved' = saved /\ Kept
    BY <1>9, RequestStep DEF NextPackage
  <2>3. PICK p, rest : p = Head(call[c].apps) /\ rest = Tail(call[c].apps)
    OBVIOUS
  <2>4. /\ p \in Packages /\ rest \in Seq(Packages) /\ Distinct(call[c].apps)
        /\ call[c].apps \in Seq(Packages)
        /\ Len(rest) = Len(call[c].apps) - 1
        /\ \A i \in 1..Len(call[c].apps) - 1 : rest[i] = call[c].apps[i + 1]
        /\ p = call[c].apps[1]
    BY <2>1, <2>3, HeadTailTyped DEF Calls, CallShape
  <2>5. PICK r : r = [call[c] EXCEPT !.apps = rest, !.left = call[c].devices]
    OBVIOUS
  <2>6. /\ r \in Calls /\ r.pc = "push" /\ r.owed = call[c].owed /\ r.left = call[c].devices
        /\ r.apps = rest /\ r.devices = call[c].devices
    BY <2>1, <2>4, <2>5 DEF Calls
  <2>7. ASSUME NEW q \in call[c].owed, NEW e \in Devices, NEW todo \in SUBSET Packages,
               Reader(e, todo, Soundly)
        PROVE  Has(e, q)' \/ q \in todo \/ (q # p /\ Coming(r, e, q))
    <3>1. q \in Packages /\ (Has(e, q) \/ q \in todo \/ Coming(call[c], e, q))
      BY <1>T, <2>1, <2>7 DEF Owing, Calls
    <3>2. CASE Has(e, q) \/ q \in todo
      BY <2>2, <3>1, <3>2 DEF Kept
    <3>3. CASE Coming(call[c], e, q) /\ q = p
      BY <2>1, <2>3, <3>3 DEF Coming, CallShape
    <3>4. CASE Coming(call[c], e, q) /\ q # p
      <4>1. e \in call[c].devices
        BY <2>3, <3>4 DEF Coming
      <4>2. PICK i \in 1..Len(call[c].apps) : call[c].apps[i] = q
        BY <2>3, <3>4 DEF Coming
      <4>3. i # 1
        BY <2>4, <3>4, <4>2
      <4>4. i - 1 \in 1..Len(rest) /\ rest[i - 1] = q
        <5>1. Len(call[c].apps) \in Nat
          BY <2>4
        <5>2. i - 1 \in 1..Len(call[c].apps) - 1
          BY <4>3, <5>1
        <5>3. rest[i - 1] = call[c].apps[(i - 1) + 1]
          BY <2>4, <5>2
        <5> QED BY <2>4, <4>2, <5>1, <5>2, <5>3
      <4>5. rest # <<>>
        BY <2>4, <4>4
      <4> QED BY <2>6, <3>4, <4>1, <4>4, <4>5 DEF Coming
    <3> QED BY <3>1, <3>2, <3>3, <3>4
  <2>8. Owing(r)'
    <3>1. r.owed \subseteq saved'
      BY <2>1, <2>2, <2>6 DEF Owing
    <3> QED BY <2>2, <2>6, <2>7, <3>1, SameReaders DEF Owing, Coming
  <2>9. Listed(r)' /\ Step(c, r)
    BY <1>9, <2>3, <2>5, <2>6 DEF NextPackage, Listed
  <2>10. posted' = posted \cup ({p} \cap call[c].owed)
    BY <1>9, <2>3 DEF NextPackage
  <2>11. posted' \subseteq saved'
    BY <2>1, <2>2, <2>10 DEF PostInv, Owing
  <2>12. \A q \in posted' \ posted, d \in Devices, todo \in SUBSET Packages :
           Reader(d, todo, Soundly) => Has(d, q)' \/ q \in todo
    BY <2>7, <2>10
  <2>13. saved \subseteq saved'
    BY <2>2
  <2> QED BY <2>2, <2>13, <2>6, <2>8, <2>9, <2>11, <2>12, RequestKept
<1>10. ASSUME NEW c \in Callers, Return(c) PROVE PostInv'
  <2>1. UNCHANGED device /\ saved \subseteq saved' /\ Kept
    BY <1>10, RequestStep
  <2>2. Step(c, NoCall) /\ posted' = posted /\ posted' \subseteq saved'
    BY <1>10, <2>1 DEF Return, PostInv
  <2>3. Listed(NoCall)' /\ Owing(NoCall)'
    BY DEF Listed, Owing, NoCall
  <2> QED BY <2>1, <2>2, <2>3, NoCallTyped, RequestKept
<1>11. CASE Crash
  <2>1. /\ UNCHANGED <<saved, posted>> /\ call' = [c \in Callers |-> NoCall]
    BY <1>11 DEF Crash
  <2>2. Reached'
    <3> SUFFICES ASSUME NEW p \in posted, NEW d \in Devices, NEW todo \in SUBSET Packages,
                        Reader(d, todo, Soundly)'
                 PROVE  Has(d, p)' \/ p \in todo
      BY <2>1 DEF Reached
    <3>1. Reads(d, todo, Soundly)
      BY <1>11, CrashStep
    <3>2. p \in saved /\ p \in Packages
      BY <1>T DEF PostInv
    <3> QED BY <3>1, <3>2 DEF Reads, PostInv, Reached
  <2>3. \A c \in Callers : Listed(call[c])' /\ Owing(call[c])'
    BY <2>1 DEF Listed, Owing, NoCall
  <2> QED BY <2>1, <2>2, <2>3 DEF PostInv
<1> QED BY <1>1, <1>2, <1>3, <1>6, <1>7, <1>8, <1>9, <1>10, <1>11 DEF Next

\* A package that was posted for all devices, and saved, and no send of which failed,
\* reaches every device that counts as set up by a run that read the table soundly, but
\* where MicroMDM refused it.
THEOREM PostAlwaysReaches == Spec => []PostReaches
<1>1. Init => TypeInv /\ PostInv
  BY InitTypes DEF Init, PostInv, Reached, Listed, Owing, NoCall
<1>2. TypeInv /\ PostInv /\ [Next]_vars => TypeInv' /\ PostInv'
  BY TypesStep, PostStep
<1>3. ASSUME TypeInv, PostInv PROVE PostReaches
  <2> SUFFICES ASSUME NEW p \in posted, NEW d \in Devices, phase[d] = "done", by[d] = "sound"
               PROVE  Has(d, p)
    BY DEF PostReaches
  <2>1. Reader(d, {}, Soundly)
    BY DEF Reader, Soundly
  <2> QED BY <1>3, <2>1 DEF PostInv, Reached
<1> QED BY <1>1, <1>2, <1>3, PTL DEF Spec
=============================================================================
