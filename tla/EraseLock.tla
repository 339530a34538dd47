------------------------------- MODULE EraseLock -------------------------------
(***************************************************************************)
(* Locking or erasing ONE device: the flags an operator sets through the   *)
(* API, the PIN the device will ask for, its escrow, and the command in    *)
(* MicroMDM's queue.                                                       *)
(*                                                                         *)
(* EraseLockDevice runs in the goroutine of an API request (push_now) or   *)
(* of a webhook request (the device is idle and a flag is set), so that    *)
(* two calls may run side by side.  A call takes one step per database     *)
(* statement and per HTTP request.                                         *)
(***************************************************************************)
EXTENDS Naturals, Sequences

CONSTANTS
    Workers,      \* goroutines that serve the API and the webhook
    RandomPins,   \* PINs mdmdirector makes
    FixedPins,    \* PINs an operator chooses
    NoPin,        \* the empty PIN
    EscrowURL,    \* is -escrowurl set?
    MaxPins,      \* bound: rows of unlock_pins before the next clean-up
    FaultKinds,   \* the faults that may happen
    MaxFaults     \* bound: how many of them

ASSUME EraseLockAssumption ==
    /\ NoPin \notin RandomPins \cup FixedPins
    /\ EscrowURL \in BOOLEAN
    /\ MaxPins \in Nat \ {0}
    /\ MaxFaults \in Nat
    /\ FaultKinds \subseteq {"failed", "refused", "lookup", "crash"}

Pins == RandomPins \cup FixedPins \cup {NoPin}

RequestTypes == {"DeviceLock", "EraseDevice"}

Commands == [type : RequestTypes, pin : Pins]

NoCommand == [type |-> "none", pin |-> NoPin]

\* A call of EraseLockDevice: what the row asked for, and its PIN, as far as it has one.
Calls ==
    [pc : {"idle", "read", "lookup", "scan", "insert", "inspect", "clear", "escrow", "send"},
     type : RequestTypes \cup {"none"},
     pin : Pins]

NoCall == [pc |-> "idle", type |-> "none", pin |-> NoPin]

VARIABLES
    lock, erase, fixed,  \* devices.lock, devices.erase, devices.unlock_pin
    unlockPins,          \* the device's rows of unlock_pins, by pin_set
    expired,             \* how many of them are more than 30 minutes old
    checkin,             \* the next statement of processScheduledCheckin
    call,                \* the running call of EraseLockDevice, per worker
    queue,               \* MicroMDM's queue for the device
    held,                \* the command the device last carried out
    escrowed,            \* the PINs the escrow server has
    faults               \* how many faults have happened

row  == <<lock, erase, fixed>>
pins == <<unlockPins, expired>>
vars == <<row, pins, checkin, call, queue, held, escrowed, faults>>

-----------------------------------------------------------------------------
Init ==
    /\ lock = FALSE /\ erase = FALSE /\ fixed = NoPin
    /\ unlockPins = <<>> /\ expired = 0
    /\ checkin = "pins"
    /\ call = [w \in Workers |-> NoCall]
    /\ queue = <<>>
    /\ held = NoCommand
    /\ escrowed = {}
    /\ faults = 0

Goto(w, c) == call' = [call EXCEPT ![w] = c]

Return(w) == Goto(w, NoCall)

At(w, pc) == call[w].pc = pc

Fault(kind) ==
    /\ kind \in FaultKinds
    /\ faults < MaxFaults
    /\ faults' = faults + 1

InQueue(type) == \E i \in DOMAIN queue : queue[i].type = type

-----------------------------------------------------------------------------
(* The callers.                                                            *)

\* The API writes the flag and the PIN, which is emptied when none is given,
\* and with push_now acts on them at once.
PostDeviceCommand(w, command, value, pin, pushNow) ==
    /\ At(w, "idle")
    /\ \/ /\ command = "device_lock"
          /\ lock' = value
          /\ UNCHANGED erase
       \/ /\ command = "erase_device"
          /\ erase' = value
          /\ UNCHANGED lock
    /\ fixed' = pin
    /\ IF pushNow THEN Goto(w, [NoCall EXCEPT !.pc = "read"]) ELSE UNCHANGED call
    /\ UNCHANGED <<pins, checkin, queue, held, escrowed, faults>>

\* The API's clear_queue.
PostClearQueue ==
    /\ queue' = <<>>
    /\ UNCHANGED <<row, pins, checkin, call, held, escrowed, faults>>

\* The device is idle and has one of the flags set.
RequestDeviceUpdate(w) ==
    /\ At(w, "idle")
    /\ lock \/ erase
    /\ Goto(w, [NoCall EXCEPT !.pc = "read"])
    /\ UNCHANGED <<row, pins, checkin, queue, held, escrowed, faults>>

-----------------------------------------------------------------------------
(* EraseLockDevice.                                                        *)

\* Mutant: the lock wins if both are set.
GetDeviceLockWins(w) ==
    /\ At(w, "read")
    /\ Goto(w, [call[w] EXCEPT
                  !.pc = "lookup", !.pin = fixed,
                  !.type = IF lock THEN "DeviceLock" ELSE IF erase THEN "EraseDevice" ELSE "none"])
    /\ UNCHANGED <<row, pins, checkin, queue, held, escrowed, faults>>

\* The flags are judged as they are here; erase wins if both are set.
GetDevice(w) ==
    /\ At(w, "read")
    /\ Goto(w, [call[w] EXCEPT
                  !.pc = "lookup", !.pin = fixed,
                  !.type = IF erase THEN "EraseDevice" ELSE IF lock THEN "DeviceLock" ELSE "none"])
    /\ UNCHANGED <<row, pins, checkin, queue, held, escrowed, faults>>

\* generatePin has returned a PIN; with neither flag set the call is over.
WithPin(w, pin) ==
    IF call[w].type = "none"
      THEN Return(w)
      ELSE Goto(w, [call[w] EXCEPT !.pc = "inspect", !.pin = pin])

\* Mutant: the saved PINs are not looked for.
LookupPinAlwaysNew(w) ==
    /\ At(w, "lookup")
    /\ IF call[w].pin # NoPin
         THEN WithPin(w, call[w].pin)
         ELSE Goto(w, [call[w] EXCEPT !.pc = "insert"])
    /\ UNCHANGED <<row, pins, checkin, queue, held, escrowed, faults>>

\* Mutant: the PIN of the operator is saved like a random one.
LookupPinSavesFixed(w) ==
    /\ At(w, "lookup")
    /\ WithPin(w, call[w].pin)
    /\ unlockPins' = Append(unlockPins, call[w].pin)
    /\ UNCHANGED <<row, expired, checkin, queue, held, escrowed, faults>>

\* generatePin: the operator's PIN, or else the newest row that is not older than
\* 30 minutes.  An error other than "no such row" is taken for a row found, whose
\* PIN is empty.
LookupPin(w) ==
    /\ At(w, "lookup")
    /\ \/ /\ call[w].pin # NoPin
          /\ WithPin(w, call[w].pin)
          /\ UNCHANGED faults
       \/ /\ call[w].pin = NoPin
          /\ IF expired < Len(unlockPins)
               THEN Goto(w, [call[w] EXCEPT !.pc = "scan", !.pin = unlockPins[Len(unlockPins)]])
               ELSE Goto(w, [call[w] EXCEPT !.pc = "insert"])
          /\ UNCHANGED faults
       \/ /\ call[w].pin = NoPin
          /\ Fault("lookup")
          /\ WithPin(w, NoPin)
    /\ UNCHANGED <<row, pins, checkin, queue, held, escrowed>>

\* generatePin: the row that was found is read again, by its id (a PIN stands for its
\* row); when it is gone by now, or cannot be read, the PIN is empty.
ScanPin(w) ==
    /\ At(w, "scan")
    /\ \/ /\ WithPin(w, IF \E i \in DOMAIN unlockPins : unlockPins[i] = call[w].pin
                         THEN call[w].pin ELSE NoPin)
          /\ UNCHANGED faults
       \/ Fault("lookup") /\ WithPin(w, NoPin)
    /\ UNCHANGED <<row, pins, checkin, queue, held, escrowed>>

\* generatePin: a new random PIN.  A row that could not be saved ends the call.
InsertPin(w, pin) ==
    /\ At(w, "insert")
    /\ Len(unlockPins) < MaxPins
    /\ \/ unlockPins' = Append(unlockPins, pin) /\ WithPin(w, pin) /\ UNCHANGED faults
       \/ Fault("lookup") /\ Return(w) /\ UNCHANGED unlockPins
    /\ UNCHANGED <<row, expired, checkin, queue, held, escrowed>>

\* Mutant: the queue is not inspected.
InspectNothing(w) ==
    /\ At(w, "inspect")
    /\ \/ /\ Goto(w, [call[w] EXCEPT !.pc = "escrow"])
          /\ UNCHANGED faults
       \/ \E kind \in {"failed", "refused"} : Fault(kind) /\ Return(w)
    /\ UNCHANGED <<row, pins, checkin, queue, held, escrowed>>

\* InspectCommandQueue and checkForExistingCommand: a command of the same type is
\* left alone, whatever its PIN.
InspectCommandQueue(w) ==
    /\ At(w, "inspect")
    /\ \/ /\ IF InQueue(call[w].type)
               THEN Return(w) ELSE Goto(w, [call[w] EXCEPT !.pc = "clear"])
          /\ UNCHANGED faults
       \/ \E kind \in {"failed", "refused"} : Fault(kind) /\ Return(w)
    /\ UNCHANGED <<row, pins, checkin, queue, held, escrowed>>

\* clearCommandQueue: its failure is only logged, and an error status not noticed.
ClearCommandQueue(w) ==
    /\ At(w, "clear")
    /\ Goto(w, [call[w] EXCEPT !.pc = "escrow"])
    /\ \/ queue' = <<>> /\ UNCHANGED faults
       \/ Fault("failed") /\ queue' \in {queue, <<>>}
       \/ Fault("refused") /\ UNCHANGED queue
    /\ UNCHANGED <<row, pins, checkin, held, escrowed>>

\* Mutant: the error of escrowPin is only logged.
EscrowPinOrNot(w) ==
    /\ At(w, "escrow")
    /\ Goto(w, [call[w] EXCEPT !.pc = "send"])
    /\ \/ ~EscrowURL /\ UNCHANGED <<escrowed, faults>>
       \/ EscrowURL /\ escrowed' = escrowed \cup {call[w].pin} /\ UNCHANGED faults
       \/ EscrowURL /\ Fault("refused") /\ UNCHANGED escrowed
    /\ UNCHANGED <<row, pins, checkin, queue, held>>

\* escrowPin: without an answer the PIN may be in escrow or not; any answer but
\* 200 is an error; an error ends the call.
EscrowPin(w) ==
    LET goOn == Goto(w, [call[w] EXCEPT !.pc = "send"])
        kept == escrowed \cup {call[w].pin}
    IN  /\ At(w, "escrow")
        /\ \/ ~EscrowURL /\ goOn /\ UNCHANGED <<escrowed, faults>>
           \/ EscrowURL /\ goOn /\ escrowed' = kept /\ UNCHANGED faults
           \/ EscrowURL /\ Return(w) /\ Fault("failed") /\ escrowed' \in {escrowed, kept}
           \/ EscrowURL /\ Return(w) /\ Fault("refused") /\ UNCHANGED escrowed
        /\ UNCHANGED <<row, pins, checkin, queue, held>>

\* SendCommand: an error status of MicroMDM is not noticed.
SendCommand(w) ==
    LET sent == Append(queue, [type |-> call[w].type, pin |-> call[w].pin])
    IN  /\ At(w, "send")
        /\ Return(w)
        /\ \/ queue' = sent /\ UNCHANGED faults
           \/ Fault("failed") /\ queue' \in {queue, sent}
           \/ Fault("refused") /\ UNCHANGED queue
        /\ UNCHANGED <<row, pins, checkin, held, escrowed>>

EraseLockDevice(w) ==
    \/ GetDevice(w)
    \/ LookupPin(w)
    \/ ScanPin(w)
    \/ \E pin \in RandomPins : InsertPin(w, pin)
    \/ InspectCommandQueue(w)
    \/ ClearCommandQueue(w)
    \/ EscrowPin(w)
    \/ SendCommand(w)

-----------------------------------------------------------------------------
(* processScheduledCheckin, time, the device, and the process.             *)

DeleteRandomUnlockPins ==
    /\ checkin = "pins" /\ checkin' = "fixed"
    /\ unlockPins' = SubSeq(unlockPins, expired + 1, Len(unlockPins))
    /\ expired' = 0
    /\ UNCHANGED <<row, call, queue, held, escrowed, faults>>

\* Mutant: the operator's PIN is emptied whatever the flags are.
ResetFixedPinAlways ==
    /\ checkin = "fixed" /\ checkin' = "pins"
    /\ fixed' = NoPin
    /\ UNCHANGED <<lock, erase, pins, call, queue, held, escrowed, faults>>

\* The operator's PIN goes when neither flag is set.
ResetFixedPin ==
    /\ checkin = "fixed" /\ checkin' = "pins"
    /\ fixed' = IF erase \/ lock THEN fixed ELSE NoPin
    /\ UNCHANGED <<lock, erase, pins, call, queue, held, escrowed, faults>>

ProcessScheduledCheckin == DeleteRandomUnlockPins \/ ResetFixedPin

\* 30 minutes have passed since the oldest of the recent rows was made.
PinExpires ==
    /\ expired < Len(unlockPins)
    /\ expired' = expired + 1
    /\ UNCHANGED <<row, unlockPins, checkin, call, queue, held, escrowed, faults>>

\* The device takes the first command of its queue and carries it out.
DeviceObeys ==
    /\ queue # <<>>
    /\ held' = Head(queue)
    /\ queue' = Tail(queue)
    /\ UNCHANGED <<row, pins, checkin, call, escrowed, faults>>

Crash ==
    /\ Fault("crash")
    /\ call' = [w \in Workers |-> NoCall]
    /\ checkin' = "pins"
    /\ UNCHANGED <<row, pins, queue, held, escrowed>>

-----------------------------------------------------------------------------
Next ==
    \/ \E w \in Workers, command \in {"device_lock", "erase_device"}, value \in BOOLEAN,
          pin \in FixedPins \cup {NoPin}, pushNow \in BOOLEAN :
         PostDeviceCommand(w, command, value, pin, pushNow)
    \/ PostClearQueue
    \/ \E w \in Workers : RequestDeviceUpdate(w)
    \/ \E w \in Workers : EraseLockDevice(w)
    \/ ProcessScheduledCheckin
    \/ PinExpires
    \/ DeviceObeys
    \/ Crash

Spec == Init /\ [][Next]_vars

\* A call goes on, an idle device is served, and the check-in comes round.
FairSpec ==
    /\ Spec
    /\ \A w \in Workers : WF_vars(EraseLockDevice(w))
    /\ WF_vars(\E w \in Workers : RequestDeviceUpdate(w))
    /\ WF_vars(ProcessScheduledCheckin)

-----------------------------------------------------------------------------
(* Properties.                                                             *)

TypeOK ==
    /\ {lock, erase} \subseteq BOOLEAN /\ fixed \in Pins
    /\ unlockPins \in Seq(RandomPins) /\ Len(unlockPins) <= MaxPins
    /\ expired \in 0..Len(unlockPins)
    /\ checkin \in {"pins", "fixed"}
    /\ call \in [Workers -> Calls]
    /\ queue \in Seq(Commands)
    /\ held \in Commands \cup {NoCommand}
    /\ escrowed \subseteq Pins
    /\ faults \in 0..MaxFaults

\* README, -escrowurl: no device can be locked or erased with a PIN that the escrow
\* server does not have, whatever fails and however calls overlap.
PinEscrowed ==
    EscrowURL =>
        /\ \A i \in DOMAIN queue : queue[i].pin \in escrowed
        /\ held # NoCommand => held.pin \in escrowed

\* The overlaps that do harm: two calls that ask for the same command are both between
\* the look at the queue and the post, or two calls have both found no PIN.
Sending == {"clear", "escrow", "send"}

SendsApart ==
    \A v, w \in Workers :
      call[v].pc \in Sending /\ call[w].pc \in Sending /\ call[v].type = call[w].type => v = w

InsertsApart == \A v, w \in Workers : At(v, "insert") /\ At(w, "insert") => v = w

\* checkForExistingCommand: a command that is already in the queue is not sent
\* again.
NoDuplicate ==
    \A i, j \in DOMAIN queue : queue[i].type = queue[j].type => i = j

\* generatePin looks for a PIN made in the last 30 minutes, so that a retry locks
\* the device with the PIN it may already be locked with: there is one such PIN at
\* most, and a command sent with it does not become unreachable to the retry.
OneRecentPin == Len(unlockPins) - expired <= 1

\* generatePin, "Found a saved one": a command that asks for a PIN carries one.
PinPresent == \A i \in DOMAIN queue : queue[i].pin # NoPin

\* The PIN an operator chose stays while the device is to be locked or erased,
\* until the operator himself writes another or takes the flags back.
OperatorPinKept ==
    [][fixed' # fixed /\ fixed # NoPin /\ (lock \/ erase)
         => \E w \in Workers, command \in {"device_lock", "erase_device"}, value \in BOOLEAN,
               pin \in FixedPins \cup {NoPin}, pushNow \in BOOLEAN :
              PostDeviceCommand(w, command, value, pin, pushNow)]_vars

\* A device that is to be erased has the command in its queue sooner or later, in
\* spite of errors, of a crash, of a lock posted at the same time and of the queue
\* being cleared, unless the operator takes the flag back.
EraseEventuallyQueued == erase ~> (InQueue("EraseDevice") \/ ~erase)

=============================================================================
