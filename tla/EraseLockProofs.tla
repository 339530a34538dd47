---------------------------- MODULE EraseLockProofs ----------------------------
(***************************************************************************)
(* What is proved of EraseLock for any number of goroutines, any PINs, any *)
(* faults: its typing, and that no lock or erase command carries a PIN     *)
(* that is not in escrow; and, but for two overlaps of calls, that a       *)
(* command is not sent twice and that a retry finds the PIN of the call    *)
(* before it.                                                              *)
(***************************************************************************)
EXTENDS EraseLock, SequenceTheorems, TLAPS

\* The faults counter, where a step may have raised it.
LEMMA FaultCounted ==
    ASSUME faults \in 0..MaxFaults, NEW kind, Fault(kind)
    PROVE  faults' \in 0..MaxFaults
BY EraseLockAssumption DEF Fault

\* A worker's call stays a call when one of its steps rewrites it.
LEMMA CallTyped ==
    ASSUME call \in [Workers -> Calls], NEW w \in Workers, NEW c \in Calls, Goto(w, c)
    PROVE  call' \in [Workers -> Calls]
BY DEF Goto

\* What a call has made sure of before it gets as far as it is: the command it is
\* for, and with an escrow server, before the command is sent, the escrow.
CallSound(c, known) ==
    /\ c.pc \in {"inspect", "clear", "escrow", "send"} => c.type \in RequestTypes
    /\ EscrowURL /\ c.pc = "send" => c.pin \in known

\* The inductive invariant.
EscrowInv ==
    /\ TypeOK
    /\ PinEscrowed
    /\ \A w \in Workers : CallSound(call[w], escrowed)

LEMMA NoCallTyped == NoCall \in Calls
BY DEF NoCall, Calls, Pins, RequestTypes

\* generatePin's return leaves a call behind.
LEMMA WithPinTyped ==
    ASSUME call \in [Workers -> Calls], NEW w \in Workers, NEW pin \in Pins, WithPin(w, pin)
    PROVE  call' \in [Workers -> Calls]
<1>1. CASE call[w].type = "none"
  BY <1>1, NoCallTyped, CallTyped DEF WithPin, Return
<1>2. CASE call[w].type # "none"
  <2>1. [call[w] EXCEPT !.pc = "inspect", !.pin = pin] \in Calls
    BY DEF Calls
  <2> QED BY <1>2, <2>1, CallTyped DEF WithPin
<1> QED BY <1>1, <1>2

\* Every step keeps the types.
LEMMA TypingStep ==
    ASSUME TypeOK, \A w \in Workers : CallSound(call[w], escrowed), [Next]_vars
    PROVE  TypeOK'
<1> USE DEF TypeOK
<1>1. CASE UNCHANGED vars
  BY <1>1 DEF vars, row, pins
<1>2. ASSUME NEW w \in Workers, NEW command \in {"device_lock", "erase_device"},
             NEW value \in BOOLEAN, NEW pin \in FixedPins \cup {NoPin}, NEW pushNow \in BOOLEAN,
             PostDeviceCommand(w, command, value, pin, pushNow)
      PROVE  TypeOK'
  <2>1. [NoCall EXCEPT !.pc = "read"] \in Calls
    BY DEF NoCall, Calls, Pins
  <2>2. call' \in [Workers -> Calls]
    BY <1>2, <2>1, CallTyped DEF PostDeviceCommand
  <2>3. {lock', erase'} \subseteq BOOLEAN /\ fixed' \in Pins
    BY <1>2 DEF PostDeviceCommand, Pins
  <2> QED BY <1>2, <2>2, <2>3 DEF PostDeviceCommand, pins
<1>3. CASE PostClearQueue
  BY <1>3, EmptySeq DEF PostClearQueue, row, pins
<1>4. ASSUME NEW w \in Workers, RequestDeviceUpdate(w) PROVE TypeOK'
  <2>1. [NoCall EXCEPT !.pc = "read"] \in Calls
    BY DEF NoCall, Calls, Pins
  <2> QED BY <1>4, <2>1, CallTyped DEF RequestDeviceUpdate, row, pins
<1>5. ASSUME NEW w \in Workers, GetDevice(w) PROVE TypeOK'
  <2> DEFINE c == [call[w] EXCEPT
                     !.pc = "lookup", !.pin = fixed,
                     !.type = IF erase THEN "EraseDevice" ELSE IF lock THEN "DeviceLock" ELSE "none"]
  <2>1. c \in Calls
    BY DEF Calls, RequestTypes
  <2>2. Goto(w, c)
    BY <1>5 DEF GetDevice
  <2> QED BY <1>5, <2>1, <2>2, CallTyped DEF GetDevice, row, pins
<1>6. ASSUME NEW w \in Workers, LookupPin(w) PROVE TypeOK'
  <2>1. call' \in [Workers -> Calls]
    <3>1. call[w].pin \in Pins /\ NoPin \in Pins
      BY DEF Calls, Pins
    <3>2. expired < Len(unlockPins) =>
            [call[w] EXCEPT !.pc = "scan", !.pin = unlockPins[Len(unlockPins)]] \in Calls
      <4>1. expired < Len(unlockPins) => unlockPins[Len(unlockPins)] \in Pins
        BY DEF Pins
      <4>2. ASSUME NEW pin \in Pins PROVE [call[w] EXCEPT !.pc = "scan", !.pin = pin] \in Calls
        BY DEF Calls
      <4> QED BY <4>1, <4>2
    <3>3. [call[w] EXCEPT !.pc = "insert"] \in Calls
      BY DEF Calls
    <3> QED BY <1>6, <3>1, <3>2, <3>3, WithPinTyped, CallTyped DEF LookupPin
  <2>2. faults' \in 0..MaxFaults
    BY <1>6, FaultCounted DEF LookupPin
  <2> QED BY <1>6, <2>1, <2>2 DEF LookupPin, row, pins
<1>S. ASSUME NEW w \in Workers, ScanPin(w) PROVE TypeOK'
  <2>1. call[w].pin \in Pins /\ NoPin \in Pins
    BY DEF Calls, Pins
  <2>2. call' \in [Workers -> Calls]
    BY <1>S, <2>1, WithPinTyped DEF ScanPin
  <2>3. faults' \in 0..MaxFaults
    BY <1>S, FaultCounted DEF ScanPin
  <2> QED BY <1>S, <2>2, <2>3 DEF ScanPin, row, pins
<1>7. ASSUME NEW w \in Workers, NEW pin \in RandomPins, InsertPin(w, pin) PROVE TypeOK'
  <2>1. call' \in [Workers -> Calls]
    BY <1>7, WithPinTyped, NoCallTyped, CallTyped DEF InsertPin, Pins, Return
  <2>2. \/ unlockPins' \in Seq(RandomPins) /\ Len(unlockPins') = Len(unlockPins) + 1
        \/ unlockPins' = unlockPins
    BY <1>7 DEF InsertPin
  <2>3. Len(unlockPins') <= MaxPins /\ expired' \in 0..Len(unlockPins')
    BY <1>7, <2>2, EraseLockAssumption DEF InsertPin
  <2>4. faults' \in 0..MaxFaults
    BY <1>7, FaultCounted DEF InsertPin
  <2> QED BY <1>7, <2>1, <2>2, <2>3, <2>4 DEF InsertPin, row
<1>8. ASSUME NEW w \in Workers, InspectCommandQueue(w) PROVE TypeOK'
  <2>1. [call[w] EXCEPT !.pc = "clear"] \in Calls
    BY DEF Calls
  <2>2. call' \in [Workers -> Calls]
    BY <1>8, <2>1, NoCallTyped, CallTyped DEF InspectCommandQueue, Return
  <2>3. faults' \in 0..MaxFaults
    BY <1>8, FaultCounted DEF InspectCommandQueue
  <2> QED BY <1>8, <2>2, <2>3 DEF InspectCommandQueue, row, pins
<1>9. ASSUME NEW w \in Workers, ClearCommandQueue(w) PROVE TypeOK'
  <2>1. [call[w] EXCEPT !.pc = "escrow"] \in Calls
    BY DEF Calls
  <2>2. call' \in [Workers -> Calls]
    BY <1>9, <2>1, CallTyped DEF ClearCommandQueue
  <2>3. faults' \in 0..MaxFaults
    BY <1>9, FaultCounted DEF ClearCommandQueue
  <2>4. queue' \in Seq(Commands)
    BY <1>9, EmptySeq DEF ClearCommandQueue
  <2> QED BY <1>9, <2>2, <2>3, <2>4 DEF ClearCommandQueue, row, pins
<1>10. ASSUME NEW w \in Workers, EscrowPin(w) PROVE TypeOK'
  <2>1. [call[w] EXCEPT !.pc = "send"] \in Calls
    BY DEF Calls
  <2>2. call' \in [Workers -> Calls]
    BY <1>10, <2>1, NoCallTyped, CallTyped DEF EscrowPin, Return
  <2>3. faults' \in 0..MaxFaults
    BY <1>10, FaultCounted DEF EscrowPin
  <2>4. escrowed' \subseteq Pins
    BY <1>10 DEF EscrowPin, Calls
  <2> QED BY <1>10, <2>2, <2>3, <2>4 DEF EscrowPin, row, pins
<1>11. ASSUME NEW w \in Workers, SendCommand(w) PROVE TypeOK'
  <2>1. call' \in [Workers -> Calls]
    BY <1>11, NoCallTyped, CallTyped DEF SendCommand, Return
  <2> DEFINE c == [type |-> call[w].type, pin |-> call[w].pin]
  <2>2. c \in Commands
    BY <1>11 DEF Commands, Calls, SendCommand, At, CallSound
  <2>3. queue' \in Seq(Commands)
    <3>1. queue' \in {queue, Append(queue, c)}
      BY <1>11 DEF SendCommand
    <3> QED BY <2>2, <3>1, AppendProperties
  <2>4. faults' \in 0..MaxFaults
    BY <1>11, FaultCounted DEF SendCommand
  <2> QED BY <1>11, <2>1, <2>3, <2>4 DEF SendCommand, row, pins
<1>12. CASE DeleteRandomUnlockPins
  <2>1. /\ unlockPins' \in Seq(RandomPins)
        /\ Len(unlockPins') = Len(unlockPins) - expired
    <3>1. \A i \in expired + 1 .. Len(unlockPins) : unlockPins[i] \in RandomPins
      OBVIOUS
    <3>2. expired \in Nat /\ Len(unlockPins) \in Nat /\ expired <= Len(unlockPins)
      OBVIOUS
    <3> QED BY <1>12, <3>1, <3>2, SubSeqProperties DEF DeleteRandomUnlockPins
  <2>2. expired' \in 0..Len(unlockPins') /\ Len(unlockPins') <= MaxPins
    BY <1>12, <2>1, EraseLockAssumption DEF DeleteRandomUnlockPins
  <2> QED BY <1>12, <2>1, <2>2 DEF DeleteRandomUnlockPins, row
<1>13. CASE ResetFixedPin
  BY <1>13 DEF ResetFixedPin, pins, Pins
<1>14. CASE PinExpires
  BY <1>14 DEF PinExpires, row
<1>15. CASE DeviceObeys
  <2>1. held' \in Commands /\ queue' \in Seq(Commands)
    BY <1>15 DEF DeviceObeys
  <2> QED BY <1>15, <2>1 DEF DeviceObeys, row, pins
<1>16. CASE Crash
  <2>1. faults' \in 0..MaxFaults
    BY <1>16, FaultCounted DEF Crash
  <2> QED BY <1>16, <2>1, NoCallTyped DEF Crash, row, pins
<1> QED
  BY <1>1, <1>2, <1>3, <1>4, <1>5, <1>6, <1>S, <1>7, <1>8, <1>9, <1>10, <1>11, <1>12, <1>13,
     <1>14, <1>15, <1>16
  DEF Next, EraseLockDevice, ProcessScheduledCheckin

-----------------------------------------------------------------------------
(* The escrow.                                                              *)

\* A worker's step keeps the calls sound when it leaves a sound call behind and
\* the escrow server forgets nothing.
LEMMA CallKeptSound ==
    ASSUME call \in [Workers -> Calls], \A v \in Workers : CallSound(call[v], escrowed),
           escrowed \subseteq escrowed',
           NEW w \in Workers, NEW c, CallSound(c, escrowed'), Goto(w, c)
    PROVE  \A v \in Workers : CallSound(call'[v], escrowed')
BY DEF Goto, CallSound

LEMMA NoCallSound == ASSUME NEW known PROVE CallSound(NoCall, known)
BY DEF NoCall, CallSound

LEMMA WithPinSound ==
    ASSUME call \in [Workers -> Calls], \A v \in Workers : CallSound(call[v], escrowed),
           UNCHANGED escrowed, NEW w \in Workers, NEW pin, WithPin(w, pin)
    PROVE  \A v \in Workers : CallSound(call'[v], escrowed')
<1> DEFINE c == [call[w] EXCEPT !.pc = "inspect", !.pin = pin]
<1>1. CASE call[w].type = "none"
  BY <1>1, NoCallSound, CallKeptSound DEF WithPin, Return
<1>2. CASE call[w].type # "none"
  <2>1. CallSound(c, escrowed')
    BY <1>2 DEF CallSound, Calls
  <2> QED BY <1>2, <2>1, CallKeptSound DEF WithPin
<1> QED BY <1>1, <1>2

LEMMA InitEscrowInv == Init => EscrowInv
<1> SUFFICES ASSUME Init PROVE EscrowInv
  OBVIOUS
<1> USE DEF Init
<1>1. TypeOK
  <2>1. unlockPins \in Seq(RandomPins) /\ queue \in Seq(Commands) /\ Len(unlockPins) = 0
    BY EmptySeq
  <2>2. call \in [Workers -> Calls]
    BY NoCallTyped
  <2>3. MaxPins \in Nat /\ MaxFaults \in Nat
    BY EraseLockAssumption
  <2>4. Len(unlockPins) <= MaxPins /\ expired \in 0..Len(unlockPins) /\ faults \in 0..MaxFaults
    BY <2>1, <2>3
  <2>5. {lock, erase} \subseteq BOOLEAN /\ fixed \in Pins /\ checkin \in {"pins", "fixed"}
    BY DEF Pins
  <2>6. held \in Commands \cup {NoCommand} /\ escrowed \subseteq Pins
    OBVIOUS
  <2> HIDE DEF Init
  <2> QED BY <2>1, <2>2, <2>4, <2>5, <2>6 DEF TypeOK
<1>2. PinEscrowed
  BY DEF PinEscrowed
<1>3. \A w \in Workers : CallSound(call[w], escrowed)
  BY NoCallSound
<1> QED BY <1>1, <1>2, <1>3 DEF EscrowInv

LEMMA NextEscrowInv == EscrowInv /\ [Next]_vars => EscrowInv'
<1> SUFFICES ASSUME EscrowInv, [Next]_vars PROVE EscrowInv'
  OBVIOUS
<1> USE DEF EscrowInv
<1>0. TypeOK /\ TypeOK'
  BY TypingStep
<1>a. call \in [Workers -> Calls]
  BY <1>0 DEF TypeOK
<1> DEFINE Sound == \A w \in Workers : CallSound(call[w], escrowed)
<1> DEFINE Kept == Sound' /\ PinEscrowed'
<1>b. ASSUME UNCHANGED <<queue, held, escrowed>> PROVE PinEscrowed'
  BY <1>b DEF PinEscrowed
<1>1. ASSUME UNCHANGED vars PROVE Kept
  BY <1>1, <1>b DEF vars
<1>2. ASSUME NEW w \in Workers, NEW command, NEW value, NEW pin, NEW pushNow,
             PostDeviceCommand(w, command, value, pin, pushNow)
      PROVE  Kept
  <2>1. CallSound([NoCall EXCEPT !.pc = "read"], escrowed')
    BY DEF NoCall, CallSound
  <2> QED BY <1>2, <2>1, <1>a, <1>b, CallKeptSound DEF PostDeviceCommand
<1>3. ASSUME PostClearQueue PROVE Kept
  BY <1>3 DEF PostClearQueue, PinEscrowed
<1>4. ASSUME NEW w \in Workers, RequestDeviceUpdate(w) PROVE Kept
  <2>1. CallSound([NoCall EXCEPT !.pc = "read"], escrowed')
    BY DEF NoCall, CallSound
  <2> QED BY <1>4, <2>1, <1>a, <1>b, CallKeptSound DEF RequestDeviceUpdate
<1>5. ASSUME NEW w \in Workers, GetDevice(w) PROVE Kept
  <2> DEFINE c == [call[w] EXCEPT
                     !.pc = "lookup", !.pin = fixed,
                     !.type = IF erase THEN "EraseDevice" ELSE IF lock THEN "DeviceLock" ELSE "none"]
  <2>1. CallSound(c, escrowed') /\ Goto(w, c)
    BY <1>5, <1>a DEF GetDevice, Calls, CallSound
  <2> QED BY <1>5, <2>1, <1>a, <1>b, CallKeptSound DEF GetDevice
<1>6. ASSUME NEW w \in Workers, LookupPin(w) PROVE Kept
  <2>1. /\ CallSound([call[w] EXCEPT !.pc = "insert"], escrowed')
        /\ CallSound([call[w] EXCEPT !.pc = "scan", !.pin = unlockPins[Len(unlockPins)]], escrowed')
    BY <1>a DEF Calls, CallSound
  <2>2. UNCHANGED <<queue, held, escrowed>>
    BY <1>6 DEF LookupPin
  <2>3. Sound'
    BY <1>6, <2>1, <2>2, <1>a, WithPinSound, CallKeptSound DEF LookupPin
  <2> QED BY <2>2, <2>3, <1>b
<1>S. ASSUME NEW w \in Workers, ScanPin(w) PROVE Kept
  BY <1>S, <1>a, <1>b, WithPinSound DEF ScanPin
<1>7. ASSUME NEW w \in Workers, NEW pin \in RandomPins, InsertPin(w, pin)
      PROVE  Kept
  BY <1>7, <1>a, <1>b, WithPinSound, NoCallSound, CallKeptSound DEF InsertPin, Return
<1>8. ASSUME NEW w \in Workers, InspectCommandQueue(w) PROVE Kept
  <2>1. CallSound([call[w] EXCEPT !.pc = "clear"], escrowed')
    BY <1>8, <1>a DEF Calls, CallSound, InspectCommandQueue, At
  <2> QED
    BY <1>8, <2>1, <1>a, <1>b, NoCallSound, CallKeptSound DEF InspectCommandQueue, Return
<1>9. ASSUME NEW w \in Workers, ClearCommandQueue(w) PROVE Kept
  <2>1. CallSound([call[w] EXCEPT !.pc = "escrow"], escrowed')
    BY <1>9, <1>a DEF Calls, CallSound, ClearCommandQueue, At
  <2>2. Sound'
    BY <1>9, <2>1, <1>a, CallKeptSound DEF ClearCommandQueue
  <2>3. queue' \in {queue, <<>>} /\ UNCHANGED <<held, escrowed>>
    BY <1>9 DEF ClearCommandQueue
  <2> QED BY <2>2, <2>3 DEF PinEscrowed
<1>10. ASSUME NEW w \in Workers, EscrowPin(w) PROVE Kept
  <2>1. escrowed \subseteq escrowed' /\ UNCHANGED <<queue, held>>
    BY <1>10 DEF EscrowPin
  <2>2. ASSUME EscrowURL => call[w].pin \in escrowed'
        PROVE  CallSound([call[w] EXCEPT !.pc = "send"], escrowed')
    BY <1>10, <2>2, <1>a DEF Calls, CallSound, EscrowPin, At
  <2>3. Sound'
    BY <1>10, <2>1, <2>2, <1>a, NoCallSound, CallKeptSound DEF EscrowPin, Return
  <2> QED BY <2>1, <2>3 DEF PinEscrowed
<1>11. ASSUME NEW w \in Workers, SendCommand(w) PROVE Kept
  <2> DEFINE c == [type |-> call[w].type, pin |-> call[w].pin]
  <2>1. Sound'
    BY <1>11, <1>a, NoCallSound, CallKeptSound DEF SendCommand, Return
  <2>2. queue' \in {queue, Append(queue, c)} /\ UNCHANGED <<held, escrowed>>
    BY <1>11 DEF SendCommand
  <2>3. EscrowURL => c.pin \in escrowed
    BY <1>11 DEF SendCommand, At, CallSound
  <2>4. queue \in Seq(Commands)
    BY <1>0 DEF TypeOK
  <2>5. ASSUME EscrowURL, NEW i \in DOMAIN queue' PROVE queue'[i].pin \in escrowed'
    BY <2>2, <2>3, <2>4, <2>5 DEF PinEscrowed
  <2> QED BY <2>1, <2>2, <2>5 DEF PinEscrowed
<1>12. ASSUME DeleteRandomUnlockPins PROVE Kept
  BY <1>12, <1>b DEF DeleteRandomUnlockPins
<1>13. ASSUME ResetFixedPin PROVE Kept
  BY <1>13, <1>b DEF ResetFixedPin
<1>14. ASSUME PinExpires PROVE Kept
  BY <1>14, <1>b DEF PinExpires
<1>15. ASSUME DeviceObeys PROVE Kept
  <2>1. queue \in Seq(Commands) /\ queue # <<>>
    BY <1>15, <1>0 DEF TypeOK, DeviceObeys
  <2>2. /\ queue' = Tail(queue) /\ held' = Head(queue) /\ UNCHANGED <<call, escrowed>>
    BY <1>15 DEF DeviceObeys
  <2>3. ASSUME EscrowURL PROVE held'.pin \in escrowed'
    BY <2>1, <2>2, <2>3 DEF PinEscrowed
  <2>4. ASSUME EscrowURL, NEW i \in DOMAIN queue' PROVE queue'[i].pin \in escrowed'
    BY <2>1, <2>2, <2>4 DEF PinEscrowed
  <2> QED BY <2>2, <2>3, <2>4 DEF PinEscrowed
<1>16. ASSUME Crash PROVE Kept
  BY <1>16, <1>b, NoCallSound DEF Crash
<1> QED
  BY <1>0, <1>1, <1>2, <1>3, <1>4, <1>5, <1>6, <1>S, <1>7, <1>8, <1>9, <1>10, <1>11, <1>12,
     <1>13, <1>14, <1>15, <1>16
  DEF Next, EraseLockDevice, ProcessScheduledCheckin

-----------------------------------------------------------------------------
\* Every variable of EraseLock keeps to its type.
THEOREM TypeCorrect == Spec => []TypeOK
<1>1. EscrowInv => TypeOK
  BY DEF EscrowInv
<1> QED BY <1>1, InitEscrowInv, NextEscrowInv, PTL DEF Spec

\* With an escrow server, whatever fails and however the calls overlap, no device
\* is told to lock or erase itself with a PIN that is not in escrow.
THEOREM PinAlwaysEscrowed == Spec => []PinEscrowed
<1>1. EscrowInv => PinEscrowed
  BY DEF EscrowInv
<1> QED BY <1>1, InitEscrowInv, NextEscrowInv, PTL DEF Spec

-----------------------------------------------------------------------------
(* The queue, without two calls that send the same command at a time.       *)

\* What a call has seen of the queue is still so when it sends.
QueueInv ==
    /\ NoDuplicate
    /\ \A w \in Workers : call[w].pc \in Sending => ~InQueue(call[w].type)

\* A queue that loses commands.
LEMMA QueueShrinks ==
    ASSUME queue \in Seq(Commands), NoDuplicate,
           queue' \in {queue, <<>>} \/ (queue # <<>> /\ queue' = Tail(queue))
    PROVE  NoDuplicate' /\ \A type : InQueue(type)' => InQueue(type)
<1>1. CASE queue' \in {queue, <<>>}
  BY <1>1 DEF NoDuplicate, InQueue
<1>2. CASE queue # <<>> /\ queue' = Tail(queue)
  <2>1. /\ queue' \in Seq(Commands) /\ Len(queue') = Len(queue) - 1
        /\ \A i \in 1..Len(queue') : queue'[i] = queue[i + 1]
    BY <1>2, HeadTailProperties
  <2>2. Len(queue) \in Nat /\ DOMAIN queue = 1..Len(queue) /\ DOMAIN queue' = 1..Len(queue')
    BY <2>1
  <2>3. \A i \in DOMAIN queue' : i + 1 \in DOMAIN queue /\ queue'[i] = queue[i + 1]
    BY <2>1, <2>2
  <2>4. \A i, j \in DOMAIN queue' : i + 1 = j + 1 => i = j
    BY <2>1, <2>2
  <2> QED BY <2>3, <2>4 DEF NoDuplicate, InQueue
<1> QED BY <1>1, <1>2

\* A command of a type that is not in the queue is added.
LEMMA QueueGrows ==
    ASSUME queue \in Seq(Commands), NoDuplicate, NEW c \in Commands, ~InQueue(c.type),
           queue' = Append(queue, c)
    PROVE  NoDuplicate'
<1>1. \A i \in 1..Len(queue) + 1 : queue'[i] = IF i = Len(queue) + 1 THEN c ELSE queue[i]
  BY AppendProperties
<1>2. Len(queue) \in Nat /\ DOMAIN queue = 1..Len(queue) /\ DOMAIN queue' = 1..Len(queue) + 1
  BY AppendProperties
<1>3. \A i \in DOMAIN queue' : i \in DOMAIN queue \/ i = Len(queue) + 1
  BY <1>2
<1>4. Len(queue) + 1 \notin DOMAIN queue
  BY <1>2
<1>5. \A i \in DOMAIN queue : queue'[i] = queue[i]
  BY <1>1, <1>2, <1>4
<1>6. queue'[Len(queue) + 1] = c
  BY <1>1, <1>2
<1> QED BY <1>3, <1>5, <1>6 DEF NoDuplicate, InQueue

\* The steps that add nothing to the queue: who comes to send has looked.
LEMMA QueueKept ==
    ASSUME QueueInv, NoDuplicate', \A type : InQueue(type)' => InQueue(type),
           \A v \in Workers : call'[v].pc \in Sending =>
             \/ call[v].pc \in Sending /\ call'[v].type = call[v].type
             \/ ~InQueue(call'[v].type)
    PROVE  QueueInv'
<1>1. ASSUME NEW v \in Workers, call'[v].pc \in Sending PROVE ~InQueue(call[v].type)'
  <2>1. PICK type : type = call'[v].type
    OBVIOUS
  <2>2. ~InQueue(type)
    BY <1>1, <2>1 DEF QueueInv
  <2>3. ~InQueue(type)'
    BY <2>2
  <2> QED
    BY <2>1, <2>3 DEF InQueue
<1> QED
  BY <1>1 DEF QueueInv

LEMMA QueueStep == EscrowInv /\ QueueInv /\ SendsApart /\ [Next]_vars => QueueInv'
<1> SUFFICES ASSUME EscrowInv, QueueInv, SendsApart, [Next]_vars PROVE QueueInv'
  OBVIOUS
<1>0. TypeOK /\ call \in [Workers -> Calls] /\ queue \in Seq(Commands) /\ NoDuplicate
  BY DEF EscrowInv, TypeOK, QueueInv
<1>q. ASSUME UNCHANGED queue PROVE NoDuplicate' /\ \A type : InQueue(type)' => InQueue(type)
  BY <1>0, <1>q DEF NoDuplicate, InQueue
<1>1. ASSUME UNCHANGED <<call, queue>> PROVE QueueInv'
  BY <1>1 DEF QueueInv, NoDuplicate, InQueue
<1>2. ASSUME NEW w \in Workers, NEW c, Goto(w, c), c.pc \notin Sending, UNCHANGED queue
      PROVE  QueueInv'
  <2>1. \A v \in Workers : call'[v].pc \in Sending =>
          call[v].pc \in Sending /\ call'[v].type = call[v].type
    BY <1>0, <1>2 DEF Goto
  <2> QED
    BY <1>q, <1>2, <2>1, QueueKept
<1>3. NoCall.pc \notin Sending /\ [NoCall EXCEPT !.pc = "read"].pc \notin Sending
  BY DEF NoCall, Sending
<1>4. ASSUME NEW w \in Workers, NEW command, NEW value, NEW pin, NEW pushNow,
             PostDeviceCommand(w, command, value, pin, pushNow)
      PROVE  QueueInv'
  BY <1>1, <1>2, <1>3, <1>4 DEF PostDeviceCommand
<1>5. ASSUME PostClearQueue PROVE QueueInv'
  BY <1>5 DEF PostClearQueue, QueueInv, NoDuplicate, InQueue
<1>6. ASSUME NEW w \in Workers, RequestDeviceUpdate(w) PROVE QueueInv'
  BY <1>2, <1>3, <1>6 DEF RequestDeviceUpdate
<1>7. ASSUME NEW w \in Workers, GetDevice(w) PROVE QueueInv'
  <2>1. PICK c : /\ c = [call[w] EXCEPT
                           !.pc = "lookup", !.pin = fixed,
                           !.type = IF erase THEN "EraseDevice"
                                    ELSE IF lock THEN "DeviceLock" ELSE "none"]
                 /\ Goto(w, c)
    BY <1>7 DEF GetDevice
  <2>2. c.pc \notin Sending
    BY <1>0, <2>1 DEF Calls, Sending
  <2> QED
    BY <1>2, <1>7, <2>1, <2>2 DEF GetDevice
<1>8. ASSUME NEW w \in Workers, NEW pin, WithPin(w, pin), UNCHANGED queue PROVE QueueInv'
  <2>1. PICK c : c = [call[w] EXCEPT !.pc = "inspect", !.pin = pin]
    OBVIOUS
  <2>2. c.pc \notin Sending
    BY <1>0, <2>1 DEF Calls, Sending
  <2> QED
    BY <1>2, <1>3, <1>8, <2>1, <2>2 DEF WithPin, Return
<1>9. ASSUME NEW w \in Workers, LookupPin(w) PROVE QueueInv'
  <2>1. PICK c : c = [call[w] EXCEPT !.pc = "insert"]
    OBVIOUS
  <2>2. PICK d : d = [call[w] EXCEPT !.pc = "scan", !.pin = unlockPins[Len(unlockPins)]]
    OBVIOUS
  <2>3. c.pc \notin Sending /\ d.pc \notin Sending
    BY <1>0, <2>1, <2>2 DEF Calls, Sending
  <2> QED
    BY <1>2, <1>8, <1>9, <2>1, <2>2, <2>3 DEF LookupPin
<1>S. ASSUME NEW w \in Workers, ScanPin(w) PROVE QueueInv'
  BY <1>8, <1>S DEF ScanPin
<1>10. ASSUME NEW w \in Workers, NEW pin \in RandomPins, InsertPin(w, pin) PROVE QueueInv'
  BY <1>2, <1>3, <1>8, <1>10 DEF InsertPin, Return
<1>11. ASSUME NEW w \in Workers, InspectCommandQueue(w) PROVE QueueInv'
  <2>1. UNCHANGED queue
    BY <1>11 DEF InspectCommandQueue
  <2>2. CASE Return(w)
    BY <1>2, <1>3, <2>1, <2>2 DEF Return
  <2>3. CASE ~InQueue(call[w].type) /\ Goto(w, [call[w] EXCEPT !.pc = "clear"])
    <3>1. call'[w].type = call[w].type /\ \A v \in Workers : v # w => call'[v] = call[v]
      BY <1>0, <2>3 DEF Goto, Calls
    <3> QED
      BY <1>q, <2>1, <2>3, <3>1, QueueKept
  <2> QED
    BY <1>11, <2>2, <2>3 DEF InspectCommandQueue
<1>12. ASSUME NEW w \in Workers, ClearCommandQueue(w) PROVE QueueInv'
  <2>1. NoDuplicate' /\ \A type : InQueue(type)' => InQueue(type)
    BY <1>0, <1>12, QueueShrinks DEF ClearCommandQueue
  <2>2. /\ call'[w].type = call[w].type /\ call[w].pc \in Sending
        /\ \A v \in Workers : v # w => call'[v] = call[v]
    BY <1>0, <1>12 DEF ClearCommandQueue, At, Goto, Calls, Sending
  <2> QED
    BY <2>1, <2>2, QueueKept
<1>13. ASSUME NEW w \in Workers, EscrowPin(w) PROVE QueueInv'
  <2>1. UNCHANGED queue
    BY <1>13 DEF EscrowPin
  <2>2. CASE Return(w)
    BY <1>2, <1>3, <2>1, <2>2 DEF Return
  <2>3. CASE Goto(w, [call[w] EXCEPT !.pc = "send"])
    <3>1. /\ call'[w].type = call[w].type /\ call[w].pc \in Sending
          /\ \A v \in Workers : v # w => call'[v] = call[v]
      BY <1>0, <1>13, <2>3 DEF EscrowPin, At, Goto, Calls, Sending
    <3> QED
      BY <1>q, <2>1, <3>1, QueueKept
  <2> QED
    BY <1>13, <2>2, <2>3 DEF EscrowPin
<1>14. ASSUME NEW w \in Workers, SendCommand(w) PROVE QueueInv'
  <2>1. PICK c : c = [type |-> call[w].type, pin |-> call[w].pin]
    OBVIOUS
  <2>2. /\ c \in Commands /\ ~InQueue(c.type) /\ call[w].pc \in Sending
        /\ queue' \in {queue, Append(queue, c)} /\ Goto(w, NoCall)
    BY <1>0, <1>14, <2>1
    DEF SendCommand, At, QueueInv, EscrowInv, CallSound, Commands, Calls, Sending, Return
  <2>3. CASE queue' = queue
    BY <1>2, <1>3, <2>2, <2>3
  <2>4. CASE queue' = Append(queue, c)
    <3>1. NoDuplicate'
      BY <1>0, <2>2, <2>4, QueueGrows
    <3>2. \A i \in DOMAIN queue' : queue'[i] = c \/ \E k \in DOMAIN queue : queue'[i] = queue[k]
      BY <1>0, <2>2, <2>4, AppendProperties
    <3>3. ASSUME NEW v \in Workers, call'[v].pc \in Sending PROVE ~InQueue(call[v].type)'
      <4>1. v # w /\ call'[v] = call[v]
        BY <1>0, <1>3, <2>2, <3>3 DEF Goto
      <4>2. ~InQueue(call[v].type) /\ call[v].type # c.type
        BY <2>1, <2>2, <3>3, <4>1 DEF QueueInv, SendsApart
      <4> QED
        BY <3>2, <4>1, <4>2 DEF InQueue
    <3> QED
      BY <3>1, <3>3 DEF QueueInv
  <2> QED
    BY <2>2, <2>3, <2>4
<1>15. ASSUME DeviceObeys PROVE QueueInv'
  <2>1. NoDuplicate' /\ \A type : InQueue(type)' => InQueue(type)
    BY <1>0, <1>15, QueueShrinks DEF DeviceObeys
  <2> QED
    BY <1>15, <2>1, QueueKept DEF DeviceObeys
<1>16. ASSUME Crash PROVE QueueInv'
  <2>1. \A v \in Workers : call'[v].pc \notin Sending
    BY <1>3, <1>16 DEF Crash
  <2> QED
    BY <1>q, <1>16, <2>1, QueueKept DEF Crash
<1>17. ASSUME ProcessScheduledCheckin \/ PinExpires \/ UNCHANGED vars PROVE QueueInv'
  BY <1>1, <1>17
  DEF ProcessScheduledCheckin, DeleteRandomUnlockPins, ResetFixedPin, PinExpires, vars
<1> QED
  BY <1>4, <1>5, <1>6, <1>7, <1>9, <1>S, <1>10, <1>11, <1>12, <1>13, <1>14, <1>15, <1>16, <1>17
  DEF Next, EraseLockDevice

\* A command that is in the queue is not sent again, for any number of calls and
\* whatever fails, as long as no two calls that ask for the same command are both
\* between the look at the queue and the post.
THEOREM NeverTwice == Spec /\ []SendsApart => []NoDuplicate
<1>1. Init => QueueInv
  BY DEF Init, QueueInv, NoDuplicate, NoCall, Sending
<1>2. QueueInv => NoDuplicate
  BY DEF QueueInv
<1> QED
  BY <1>1, <1>2, QueueStep, InitEscrowInv, NextEscrowInv, PTL DEF Spec

-----------------------------------------------------------------------------
(* The PINs, without two calls that make one at a time.                     *)

\* Who is about to make a PIN is right that there is none.
PinInv ==
    /\ OneRecentPin
    /\ \A w \in Workers : At(w, "insert") => expired = Len(unlockPins)

\* The steps that leave the PINs alone: who comes to make one has looked.
LEMMA PinsKept ==
    ASSUME PinInv, UNCHANGED pins,
           \A v \in Workers :
             call'[v].pc = "insert" => At(v, "insert") \/ expired = Len(unlockPins)
    PROVE  PinInv'
BY DEF PinInv, OneRecentPin, At, pins

LEMMA PinStep == TypeOK /\ PinInv /\ InsertsApart /\ [Next]_vars => PinInv'
<1> SUFFICES ASSUME TypeOK, PinInv, InsertsApart, [Next]_vars PROVE PinInv'
  OBVIOUS
<1>a. call \in [Workers -> Calls]
  BY DEF TypeOK
<1>b. /\ unlockPins \in Seq(RandomPins) /\ Len(unlockPins) \in Nat
      /\ expired \in Nat /\ expired <= Len(unlockPins)
  BY DEF TypeOK
<1>1. ASSUME NEW w \in Workers, NEW c, Goto(w, c), c.pc # "insert", UNCHANGED pins
      PROVE  PinInv'
  <2>1. \A v \in Workers : call'[v].pc = "insert" => At(v, "insert")
    BY <1>a, <1>1 DEF Goto, At
  <2> QED
    BY <1>1, <2>1, PinsKept
<1>2. NoCall.pc # "insert" /\ [NoCall EXCEPT !.pc = "read"].pc # "insert"
  BY DEF NoCall
<1>3. ASSUME UNCHANGED <<pins, call>> PROVE PinInv'
  BY <1>3, PinsKept DEF At
<1>4. ASSUME NEW w \in Workers, NEW command, NEW value, NEW pin, NEW pushNow,
             PostDeviceCommand(w, command, value, pin, pushNow)
      PROVE  PinInv'
  BY <1>1, <1>2, <1>3, <1>4 DEF PostDeviceCommand
<1>5. ASSUME NEW w \in Workers, RequestDeviceUpdate(w) PROVE PinInv'
  BY <1>1, <1>2, <1>5 DEF RequestDeviceUpdate
<1>6. ASSUME NEW w \in Workers, GetDevice(w) PROVE PinInv'
  <2>1. PICK c : /\ c = [call[w] EXCEPT
                           !.pc = "lookup", !.pin = fixed,
                           !.type = IF erase THEN "EraseDevice"
                                    ELSE IF lock THEN "DeviceLock" ELSE "none"]
                 /\ Goto(w, c)
    BY <1>6 DEF GetDevice
  <2>2. c.pc # "insert"
    BY <1>a, <2>1 DEF Calls
  <2> QED
    BY <1>1, <1>6, <2>1, <2>2 DEF GetDevice
<1>7. ASSUME NEW w \in Workers, NEW pin, WithPin(w, pin)
      PROVE  \E c : Goto(w, c) /\ c.pc # "insert"
  <2>1. PICK c : c = [call[w] EXCEPT !.pc = "inspect", !.pin = pin]
    OBVIOUS
  <2>2. c.pc # "insert"
    BY <1>a, <2>1 DEF Calls
  <2> QED
    BY <1>2, <1>7, <2>1, <2>2 DEF WithPin, Return
<1>8. ASSUME NEW w \in Workers, LookupPin(w) PROVE PinInv'
  <2>1. UNCHANGED pins
    BY <1>8 DEF LookupPin
  <2>2. CASE \E pin : WithPin(w, pin)
    BY <1>1, <1>7, <2>1, <2>2
  <2>3. CASE ~(expired < Len(unlockPins)) /\ Goto(w, [call[w] EXCEPT !.pc = "insert"])
    <3>1. expired = Len(unlockPins)
      BY <1>b, <2>3
    <3> QED
      BY <2>1, <3>1, PinsKept
  <2>4. CASE Goto(w, [call[w] EXCEPT !.pc = "scan", !.pin = unlockPins[Len(unlockPins)]])
    <3>1. PICK c : c = [call[w] EXCEPT !.pc = "scan", !.pin = unlockPins[Len(unlockPins)]]
      OBVIOUS
    <3>2. c.pc # "insert"
      BY <1>a, <3>1 DEF Calls
    <3> QED
      BY <1>1, <2>1, <2>4, <3>1, <3>2
  <2> QED
    BY <1>8, <2>2, <2>3, <2>4 DEF LookupPin
<1>S. ASSUME NEW w \in Workers, ScanPin(w) PROVE PinInv'
  <2>1. UNCHANGED pins /\ \E pin : WithPin(w, pin)
    BY <1>S DEF ScanPin
  <2> QED
    BY <1>1, <1>7, <2>1
<1>9. ASSUME NEW w \in Workers, NEW pin \in RandomPins, InsertPin(w, pin),
             unlockPins' = Append(unlockPins, pin), WithPin(w, pin)
      PROVE  PinInv'
  <2>1. At(w, "insert") /\ expired = Len(unlockPins)
    BY <1>9 DEF InsertPin, PinInv
  <2>2. Len(unlockPins') = Len(unlockPins) + 1 /\ expired' = expired
    BY <1>9, <1>b DEF InsertPin
  <2>3. OneRecentPin'
    BY <1>b, <2>1, <2>2 DEF OneRecentPin
  <2>4. PICK c : Goto(w, c) /\ c.pc # "insert"
    BY <1>7, <1>9
  <2>5. \A v \in Workers : call'[v].pc # "insert"
    BY <1>a, <2>1, <2>4 DEF Goto, At, InsertsApart
  <2> QED
    BY <2>3, <2>5 DEF PinInv, At
<1>F. ASSUME NEW w \in Workers, NEW pin \in RandomPins, InsertPin(w, pin),
             UNCHANGED unlockPins, Return(w)
      PROVE  PinInv'
  BY <1>1, <1>2, <1>F DEF InsertPin, Return, pins
<1>10. ASSUME NEW w \in Workers, InspectCommandQueue(w) PROVE PinInv'
  <2>1. PICK c : c = [call[w] EXCEPT !.pc = "clear"]
    OBVIOUS
  <2>2. c.pc # "insert"
    BY <1>a, <2>1 DEF Calls
  <2> QED
    BY <1>1, <1>2, <1>10, <2>1, <2>2 DEF InspectCommandQueue, Return
<1>11. ASSUME NEW w \in Workers, ClearCommandQueue(w) PROVE PinInv'
  <2>1. PICK c : c = [call[w] EXCEPT !.pc = "escrow"]
    OBVIOUS
  <2>2. c.pc # "insert"
    BY <1>a, <2>1 DEF Calls
  <2> QED
    BY <1>1, <1>11, <2>1, <2>2 DEF ClearCommandQueue
<1>12. ASSUME NEW w \in Workers, EscrowPin(w) PROVE PinInv'
  <2>1. PICK c : c = [call[w] EXCEPT !.pc = "send"]
    OBVIOUS
  <2>2. c.pc # "insert"
    BY <1>a, <2>1 DEF Calls
  <2> QED
    BY <1>1, <1>2, <1>12, <2>1, <2>2 DEF EscrowPin, Return
<1>13. ASSUME NEW w \in Workers, SendCommand(w) PROVE PinInv'
  BY <1>1, <1>2, <1>13 DEF SendCommand, Return
<1>14. ASSUME DeleteRandomUnlockPins PROVE PinInv'
  <2>1. Len(unlockPins') = Len(unlockPins) - expired /\ expired' = 0
    BY <1>14, <1>b, SubSeqProperties DEF DeleteRandomUnlockPins
  <2>2. OneRecentPin' /\ (expired = Len(unlockPins) => expired' = Len(unlockPins'))
    BY <1>b, <2>1 DEF PinInv, OneRecentPin
  <2> QED
    BY <1>14, <2>2 DEF DeleteRandomUnlockPins, PinInv, At
<1>15. ASSUME PinExpires PROVE PinInv'
  <2>1. OneRecentPin' /\ expired # Len(unlockPins)
    BY <1>15, <1>b DEF PinExpires, PinInv, OneRecentPin
  <2> QED
    BY <1>15, <2>1 DEF PinExpires, PinInv, At
<1>16. ASSUME Crash PROVE PinInv'
  <2>1. \A v \in Workers : call'[v].pc # "insert"
    BY <1>2, <1>16 DEF Crash
  <2> QED
    BY <1>16, <2>1, PinsKept DEF Crash
<1>17. ASSUME PostClearQueue \/ ResetFixedPin \/ DeviceObeys \/ UNCHANGED vars PROVE PinInv'
  BY <1>3, <1>17 DEF PostClearQueue, ResetFixedPin, DeviceObeys, vars
<1> QED
  BY <1>4, <1>5, <1>6, <1>8, <1>S, <1>9, <1>F, <1>10, <1>11, <1>12, <1>13, <1>14, <1>15, <1>16,
     <1>17
  DEF Next, EraseLockDevice, ProcessScheduledCheckin, InsertPin

\* There is never more than one PIN a retry could find, for any number of calls and
\* whatever fails, as long as no two calls that have found no PIN are about to make
\* one.
THEOREM NeverTwoPins == Spec /\ []InsertsApart => []OneRecentPin
<1>1. Init => PinInv
  BY DEF Init, PinInv, OneRecentPin, At, NoCall
<1>2. PinInv => OneRecentPin
  BY DEF PinInv
<1> QED
  BY <1>1, <1>2, PinStep, TypeCorrect, PTL DEF Spec

\* Calls that come one at a time never overlap in these ways.
LEMMA OneCallIsApart ==
    ASSUME \A v, w \in Workers : v = w PROVE Spec => []SendsApart /\ []InsertsApart
<1>1. SendsApart /\ InsertsApart
  BY DEF SendsApart, InsertsApart
<1> QED
  BY <1>1, PTL

-----------------------------------------------------------------------------
(* The PIN of the operator.                                                 *)

\* Whatever is called at the same time and whatever fails, nothing but a call of the API
\* takes the operator's PIN from a device that is to be locked or erased.
THEOREM OperatorPinStays == Spec => OperatorPinKept
<1> DEFINE Posted == \E w \in Workers, command \in {"device_lock", "erase_device"},
                        value \in BOOLEAN, pin \in FixedPins \cup {NoPin}, pushNow \in BOOLEAN :
                       PostDeviceCommand(w, command, value, pin, pushNow)
           Taken == fixed' # fixed /\ fixed # NoPin /\ (lock \/ erase)
<1>1. ASSUME NEW w \in Workers, EraseLockDevice(w) PROVE fixed' = fixed
  BY <1>1 DEF EraseLockDevice, GetDevice, LookupPin, ScanPin, InsertPin, InspectCommandQueue,
              ClearCommandQueue, EscrowPin, SendCommand, row
<1>2. ASSUME ProcessScheduledCheckin PROVE fixed' = fixed \/ ~(lock \/ erase)
  BY <1>2 DEF ProcessScheduledCheckin, DeleteRandomUnlockPins, ResetFixedPin, row
<1>3. ASSUME PostClearQueue \/ PinExpires \/ DeviceObeys \/ Crash \/ UNCHANGED vars
      PROVE  fixed' = fixed
  BY <1>3 DEF PostClearQueue, PinExpires, DeviceObeys, Crash, row, vars
<1>4. ASSUME NEW w \in Workers, RequestDeviceUpdate(w) PROVE fixed' = fixed
  BY <1>4 DEF RequestDeviceUpdate, row
<1>5. [Next]_vars => (Taken => Posted)
  <2> SUFFICES ASSUME [Next]_vars, Taken PROVE Posted
    OBVIOUS
  <2> HIDE DEF Posted
  <2>1. [Next]_vars => \/ Posted
                       \/ \E w \in Workers : EraseLockDevice(w) \/ RequestDeviceUpdate(w)
                       \/ ProcessScheduledCheckin
                       \/ PostClearQueue \/ PinExpires \/ DeviceObeys \/ Crash \/ UNCHANGED vars
    BY DEF Next, Posted
  <2> QED
    BY <1>1, <1>2, <1>3, <1>4, <2>1
<1> QED
  BY <1>5, PTL DEF Spec, OperatorPinKept
=============================================================================
