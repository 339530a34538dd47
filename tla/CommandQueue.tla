----------------------------- MODULE CommandQueue -----------------------------
(***************************************************************************)
(* The table of commands of ONE device, against the queue MicroMDM has for *)
(* it and the answers of the device.                                       *)
(*                                                                         *)
(* A command gets its row after MicroMDM has queued it; its answer comes   *)
(* to the webhook, where another goroutine may be handling it by then.     *)
(* MicroMDM's queue and the table are emptied by different calls, and the  *)
(* handler that finds the initial tasks of the device unfinished runs them *)
(* instead of reading the answer.  One step per database statement and per *)
(* HTTP request.                                                           *)
(***************************************************************************)
EXTENDS Naturals, Sequences

CONSTANTS
    Workers,       \* goroutines that serve the webhook
    Senders,       \* goroutines that send commands otherwise: the API's, for instance
    MaxCommands,   \* bound: commands MicroMDM ever queues
    MaxEvents,     \* bound: events that wait for the webhook
    MaxDeferrals,  \* bound: answers that put a command off
    FaultKinds,    \* the faults that may happen
    MaxFaults      \* bound: how many of them

ASSUME CommandQueueAssumption ==
    /\ Workers \cap Senders = {}
    /\ MaxCommands \in Nat /\ MaxEvents \in Nat /\ MaxDeferrals \in Nat /\ MaxFaults \in Nat
    /\ FaultKinds \subseteq {"failed", "refused", "database", "crash"}

\* MicroMDM's UUIDs, in the order it gave them, and the empty one of an error answer.
UUIDs == 1..MaxCommands

NoUUID == 0

Keys == UUIDs \cup {NoUUID}

\* The statuses of a last answer.  UpdateCommand stores the status whatever it is;
\* "CommandFormatError" stands for every one that ClearCommands does not know.
Final == {"Acknowledged", "Error", "CommandFormatError"}

Recorded == {"Acknowledged", "Error"}

\* The status of a row.  "sent" is the empty status it is made with.
Waiting == {"sent", "NotNow"}

Statuses == {"absent"} \cup Waiting \cup Final

\* What MicroMDM posts to the webhook.  A CheckOut is handled like an Authenticate.
Events ==
    [kind : {"Authenticate", "TokenUpdate", "Idle"}, uuid : {NoUUID}]
        \cup [kind : {"NotNow"} \cup Final, uuid : UUIDs]

NoEvent == [kind |-> "none", uuid |-> NoUUID]

\* A goroutine: its next statement, the event it has not dealt with yet, and the command
\* it has sent and not made a row of yet.
Goroutines == Workers \cup Senders

Routines ==
    [pc : {"none", "clear", "reset", "token", "update", "tasks", "initial", "command", "respond"},
     event : Events \cup {NoEvent},
     row : {{}} \cup {{k} : k \in Keys}]

NoRoutine == [pc |-> "none", event |-> NoEvent, row |-> {}]

VARIABLES
    commands,    \* the status of each row of the table commands
    setup,       \* the flags of the row: "reset", "due" (a token was received) or "done"
    routine,     \* the goroutines
    listed,      \* a DeletePendingCommands between its two statements, and what it read
    queue,       \* MicroMDM's queue for the device
    events,      \* MicroMDM's calls of the webhook, in order
    sent,        \* how many UUIDs MicroMDM has given
    deferrals,   \* how often the device said NotNow
    lost,        \* the commands that will never be answered, or have been in vain
    faults       \* how many faults have happened

server == <<queue, events, sent, deferrals>>
vars   == <<commands, setup, routine, listed, server, lost, faults>>

-----------------------------------------------------------------------------
Init ==
    /\ commands = [k \in Keys |-> "absent"]
    /\ setup = "reset"
    /\ routine = [g \in Goroutines |-> NoRoutine]
    /\ listed = [on |-> FALSE, keys |-> {}]
    /\ queue = <<>> /\ events = <<>> /\ sent = 0 /\ deferrals = 0
    /\ lost = {}
    /\ faults = 0

At(g, pc) == routine[g].pc = pc /\ routine[g].row = {}

Step(g, r) == routine' = [routine EXCEPT ![g] = r]

Goto(g, pc) == Step(g, [routine[g] EXCEPT !.pc = pc])

\* What has been read of the event is all that is going to be read of it.
Leave(g, pc) == Step(g, [routine[g] EXCEPT !.pc = pc, !.event = NoEvent])

Fault(kind) ==
    /\ kind \in FaultKinds
    /\ faults < MaxFaults
    /\ faults' = faults + 1

Pending == {k \in Keys : commands[k] \in Waiting}

Rows == {k \in Keys : commands[k] # "absent"}

\* The rows of ks are deleted.
Delete(ks) == commands' = [k \in Keys |-> IF k \in ks THEN "absent" ELSE commands[k]]

\* The command whose last answer event e is.
Answered(e) == IF e.kind \in Final THEN {e.uuid} ELSE {}

-----------------------------------------------------------------------------
(* SendCommand.                                                            *)

\* A worker sends the initial tasks, and what it finds missing in an answer.
MaySend(g) ==
    /\ routine[g].row = {}
    /\ g \in Senders \/ routine[g].pc \in {"initial", "respond"}

Queue == sent < MaxCommands /\ sent' = sent + 1 /\ queue' = Append(queue, sent + 1)

\* The status of the answer is not read: an error has an empty UUID.  A request that
\* failed may have been carried out nevertheless.
SendCommand(g) ==
    /\ MaySend(g)
    /\ \/ /\ Queue
          /\ Step(g, [routine[g] EXCEPT !.row = {sent + 1}])
          /\ UNCHANGED faults
       \/ /\ Fault("failed")
          /\ Queue
          /\ UNCHANGED routine
       \/ /\ Fault("refused")
          /\ Step(g, [routine[g] EXCEPT !.row = {NoUUID}])
          /\ UNCHANGED <<queue, sent>>
    /\ UNCHANGED <<commands, setup, listed, events, deferrals, lost>>

\* The error of the INSERT is not read, be it that there is a row of this key already.
CreateRow(g) ==
    /\ routine[g].row # {}
    /\ Step(g, [routine[g] EXCEPT !.row = {}])
    /\ \/ /\ commands' = [k \in Keys |-> IF k \in routine[g].row \ Rows THEN "sent" ELSE commands[k]]
          /\ UNCHANGED faults
       \/ Fault("database") /\ UNCHANGED commands
    /\ UNCHANGED <<setup, listed, server, lost>>

-----------------------------------------------------------------------------
(* The webhook handler, as far as commands go.                              *)

Receive(w) ==
    /\ At(w, "none")
    /\ events # <<>>
    /\ events' = Tail(events)
    /\ LET e == Head(events) IN
       Step(w, [NoRoutine EXCEPT
                  !.event = e,
                  !.pc = CASE e.kind = "Authenticate" -> "clear"
                           [] e.kind = "TokenUpdate" -> "token"
                           [] OTHER -> "update"])
    /\ UNCHANGED <<commands, setup, listed, queue, sent, deferrals, lost, faults>>

\* ClearCommands keeps the rows of the answers it knows: besides those that are pending, it
\* deletes those answered otherwise.  MicroMDM's queue stays as it is.
ClearCommands(w) ==
    /\ At(w, "clear") \/ At(w, "tasks")
    /\ LET next(ok) == IF At(w, "clear") THEN (IF ok THEN "reset" ELSE "update")
                                         ELSE (IF ok THEN "initial" ELSE "none")
       IN \/ /\ Delete(Rows \ {k \in Keys : commands[k] \in Recorded})
             /\ Goto(w, next(TRUE))
             /\ UNCHANGED faults
          \/ /\ Fault("database")
             /\ Goto(w, next(FALSE))
             /\ UNCHANGED commands
    /\ UNCHANGED <<setup, listed, server, lost>>

ResetDevice(w) ==
    /\ At(w, "reset")
    /\ Goto(w, "update")
    /\ \/ setup' = "reset" /\ UNCHANGED faults
       \/ Fault("database") /\ UNCHANGED setup
    /\ UNCHANGED <<commands, listed, server, lost>>

\* Whoever could not read the row takes the device for one whose tasks have not been run.
SetTokenUpdate(w) ==
    /\ At(w, "token")
    /\ \/ /\ setup' = IF setup = "reset" THEN "due" ELSE setup
          /\ IF setup = "done" THEN Goto(w, "update") ELSE Leave(w, "tasks")
          /\ UNCHANGED faults
       \/ Fault("database") /\ Leave(w, "tasks") /\ UNCHANGED setup
    /\ UNCHANGED <<commands, listed, server, lost>>

\* Mutant: the empty UUID is not told from the others.
DispatchAlways(e) ==
    CASE e.kind = "Idle" -> "command"
      [] e.uuid # NoUUID -> "command"
      [] OTHER -> "none"

\* Where the handler goes with event e when no initial tasks are due.
Dispatch(e) ==
    CASE e.kind = "Idle" -> "respond"
      [] e.uuid # NoUUID -> "command"
      [] OTHER -> "none"

\* A device whose tasks are due gets them now, and its answer is not looked at any more.
UpdateDevice(w) ==
    /\ At(w, "update")
    /\ LET e == routine[w].event IN
       \/ /\ setup = "due"
          /\ Leave(w, "tasks")
          /\ lost' = lost \cup Answered(e)
          /\ UNCHANGED faults
       \/ /\ (setup # "due" /\ UNCHANGED faults) \/ Fault("database")
          /\ Step(w, [routine[w] EXCEPT !.pc = Dispatch(e),
                                        !.event = IF Dispatch(e) = "command" THEN @ ELSE NoEvent])
          /\ UNCHANGED lost
    /\ UNCHANGED <<commands, setup, listed, server>>

\* The tasks come to their end, or are given up.
FinishTasks(w) ==
    /\ At(w, "initial")
    /\ setup' \in {setup, "done"}
    /\ Goto(w, "none")
    /\ UNCHANGED <<commands, listed, server, lost, faults>>

\* Mutant: an error is recorded as an answer that is still to come.
UpdateCommandRetries(w) ==
    /\ At(w, "command")
    /\ Leave(w, "respond")
    /\ LET e == routine[w].event IN
       \/ /\ commands' = [commands EXCEPT ![e.uuid] =
                            IF @ = "absent" THEN @ ELSE IF e.kind = "Error" THEN "sent" ELSE e.kind]
          /\ lost' = IF commands[e.uuid] = "absent" THEN lost \cup Answered(e) ELSE lost
          /\ UNCHANGED faults
       \/ Fault("database") /\ lost' = lost \cup Answered(e) /\ UNCHANGED commands
    /\ UNCHANGED <<setup, listed, server>>

\* The UPDATE may find no row, which is no error.
UpdateCommand(w) ==
    /\ At(w, "command")
    /\ Leave(w, "respond")
    /\ LET e == routine[w].event IN
       \/ /\ commands' = [commands EXCEPT ![e.uuid] = IF @ = "absent" THEN @ ELSE e.kind]
          /\ lost' = IF commands[e.uuid] = "absent" THEN lost \cup Answered(e) ELSE lost
          /\ UNCHANGED faults
       \/ Fault("database") /\ lost' = lost \cup Answered(e) /\ UNCHANGED commands
    /\ UNCHANGED <<setup, listed, server>>

\* The rest of the handler, which only sends.
Respond(w) ==
    /\ At(w, "respond")
    /\ Goto(w, "none")
    /\ UNCHANGED <<commands, setup, listed, server, lost, faults>>

-----------------------------------------------------------------------------
(* The API.                                                                 *)

\* DeletePendingCommands reads the pending rows; when there are none, what it read before,
\* all rows, is left where they would be.
SelectPending ==
    /\ ~listed.on
    /\ listed' = [on |-> TRUE, keys |-> IF Pending # {} THEN Pending ELSE Rows]
    /\ UNCHANGED <<commands, setup, routine, server, lost, faults>>

\* Mutant: what was read is deleted as it is by now.
DeleteListed ==
    /\ listed.on
    /\ listed' = [on |-> FALSE, keys |-> {}]
    /\ Delete(listed.keys)
    /\ UNCHANGED <<setup, routine, server, lost, faults>>

\* It deletes the rows that were read and are pending still.  An empty key is no
\* condition, and without any other condition every pending row goes.
DeletePending ==
    /\ listed.on
    /\ listed' = [on |-> FALSE, keys |-> {}]
    /\ LET named == listed.keys \ {NoUUID}
       IN  Delete(IF named = {} THEN Pending ELSE Pending \cap named)
    /\ UNCHANGED <<setup, routine, server, lost, faults>>

\* What is in the queue of MicroMDM, some of it put off.
Queued == {queue[i] : i \in DOMAIN queue}

\* clearCommandQueue, for clear_queue or before a device is locked: the rows stay.
ClearCommandQueue ==
    /\ queue' = <<>>
    /\ lost' = lost \cup Queued
    /\ UNCHANGED <<commands, setup, routine, listed, events, sent, deferrals, faults>>

-----------------------------------------------------------------------------
(* The device, MicroMDM, the process.                                       *)

Post(kind, u) ==
    /\ Len(events) < MaxEvents
    /\ events' = Append(events, [kind |-> kind, uuid |-> u])

\* The device deals with the command at the head of its queue, or puts it off.
DeviceAnswers ==
    /\ queue # <<>>
    /\ \/ /\ \E kind \in Final : Post(kind, Head(queue))
          /\ queue' = Tail(queue)
          /\ UNCHANGED deferrals
       \/ /\ deferrals < MaxDeferrals
          /\ Post("NotNow", Head(queue))
          /\ queue' = Append(Tail(queue), Head(queue))
          /\ deferrals' = deferrals + 1
    /\ UNCHANGED <<commands, setup, routine, listed, sent, lost, faults>>

DeviceConnects ==
    /\ \E kind \in {"Authenticate", "TokenUpdate", "Idle"} : Post(kind, NoUUID)
    /\ UNCHANGED <<commands, setup, routine, listed, queue, sent, deferrals, lost, faults>>

\* The goroutines are gone, with the answers they were handling.
Crash ==
    /\ Fault("crash")
    /\ routine' = [g \in Goroutines |-> NoRoutine]
    /\ listed' = [on |-> FALSE, keys |-> {}]
    /\ lost' = lost \cup UNION {Answered(routine[g].event) : g \in Goroutines}
    /\ UNCHANGED <<commands, setup, server>>

-----------------------------------------------------------------------------
Serve(w) ==
    \/ Receive(w)
    \/ ClearCommands(w)
    \/ ResetDevice(w)
    \/ SetTokenUpdate(w)
    \/ UpdateDevice(w)
    \/ FinishTasks(w)
    \/ UpdateCommand(w)
    \/ Respond(w)

Next ==
    \/ \E w \in Workers : Serve(w)
    \/ \E g \in Goroutines : SendCommand(g) \/ CreateRow(g)
    \/ SelectPending
    \/ DeletePending
    \/ ClearCommandQueue
    \/ DeviceAnswers
    \/ DeviceConnects
    \/ Crash

Spec == Init /\ [][Next]_vars

\* Goroutines go on, and the device answers what is queued for it.
FairSpec ==
    /\ Spec
    /\ \A w \in Workers : WF_vars(Serve(w))
    /\ \A g \in Goroutines : WF_vars(CreateRow(g))
    /\ SF_vars(DeviceAnswers)

-----------------------------------------------------------------------------
(* Properties.                                                              *)

\* The row of an error answer, in particular, is never anything but sent: no answer is
\* about it.
TypeOK ==
    /\ commands \in [Keys -> Statuses]
    /\ commands[NoUUID] \in {"absent", "sent"}
    /\ setup \in {"reset", "due", "done"}
    /\ routine \in [Goroutines -> Routines]
    /\ listed \in [on : BOOLEAN, keys : SUBSET Keys]
    /\ queue \in Seq(UUIDs)
    /\ events \in Seq(Events)
    /\ sent \in 0..MaxCommands /\ deferrals \in 0..MaxDeferrals
    /\ lost \subseteq UUIDs /\ faults \in 0..MaxFaults

\* The answer to command u is still to be recorded.
Open(u) ==
    \/ u \in Queued
    \/ \E i \in DOMAIN events : events[i].uuid = u
    \/ \E w \in Workers : routine[w].event.uuid = u

\* The overlap that does harm: the last answer to a command is handled while the one that
\* had put it off still is.
InTurn ==
    \A v, w \in Workers :
      routine[v].event.kind = "NotNow" /\ routine[w].event.kind \in Final =>
        routine[v].event.uuid # routine[w].event.uuid

\* A row that is pending stands for a command that will be answered, or whose answer was
\* lost in one of five ways (see lost): before the row was made, in a handler that ran
\* the initial tasks instead, in a failing UPDATE, in a crash, or with MicroMDM's queue.
\* There is no sixth.
PendingIsOpen == \A u \in UUIDs \cap Pending : Open(u) \/ u \in lost

\* What CommandPromise sees of command u, which is new as long as its row may still be made.
Phase(u) ==
    IF commands[u] \in Waiting THEN "pending"
    ELSE IF commands[u] \in Recorded THEN "finished"
    ELSE IF commands[u] \in Final THEN "rejected"
    ELSE IF u > sent \/ \E g \in Goroutines : u \in routine[g].row THEN "new"
    ELSE "forgotten"

phase == [u \in UUIDs |-> Phase(u)]

Promise == INSTANCE CommandPromise

\* An answered command is never pending again; one that was acknowledged, or answered with
\* an error, keeps its row; and no row comes back: whatever the API, the resets and the
\* faults do between the statements of a handler.
PromiseKept == Promise!Spec

\* A row does not stay pending for ever, but for those whose answer was lost.
CommandsSettle == \A u \in UUIDs : u \in Pending ~> u \notin Pending \/ u \in lost
=============================================================================
