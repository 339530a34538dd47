-------------------------- MODULE CommandQueueProofs ---------------------------
(***************************************************************************)
(* What is proved of CommandQueue for any number of commands, events,      *)
(* handlers, senders and faults: its typing; and where no last answer is   *)
(* handled while one that put its command off still is, that a pending row *)
(* will be answered or its answer was lost, and that the table keeps the   *)
(* promise of CommandPromise.                                              *)
(***************************************************************************)
EXTENDS CommandQueue, SequenceTheorems, TLAPS

-----------------------------------------------------------------------------
(* Helpers.                                                                 *)

\* The faults counter, where a step may have raised it.
LEMMA FaultCounted ==
    ASSUME faults \in 0..MaxFaults, NEW kind, Fault(kind)
    PROVE  faults' \in 0..MaxFaults
BY CommandQueueAssumption DEF Fault

LEMMA KeysTyped == UUIDs \subseteq Keys /\ NoUUID \in Keys /\ NoUUID \notin UUIDs
BY DEF Keys, UUIDs, NoUUID

\* The answers of the device to a command.
Answers == [kind : {"NotNow"} \cup Final, uuid : UUIDs]

\* An event is an answer, or has no command's UUID.
LEMMA EventShape ==
    ASSUME NEW e \in Events \cup {NoEvent}
    PROVE  /\ e.uuid \in UUIDs => e \in Answers
           /\ e.kind \in {"NotNow"} \cup Final => e \in Answers
           /\ e.uuid \in Keys
           /\ Answered(e) \subseteq UUIDs
<1>1. CASE e = NoEvent
  BY <1>1, KeysTyped DEF NoEvent, Answered, Final
<1>2. CASE e \in [kind : {"Authenticate", "TokenUpdate", "Idle"}, uuid : {NoUUID}]
  BY <1>2, KeysTyped DEF Answered, Final
<1>3. CASE e \in Answers
  BY <1>3, KeysTyped DEF Answered, Answers
<1> QED BY <1>1, <1>2, <1>3 DEF Events, Answers

\* What the goroutine still has to read of an event, by the statement it is at.
Shape(r) ==
    /\ r.pc \in {"none", "tasks", "initial", "respond"} => r.event = NoEvent
    /\ r.pc \in {"clear", "reset", "token"} => r.event.uuid = NoUUID
    /\ r.pc = "command" => r.event \in Answers

TypeInv ==
    /\ TypeOK
    /\ \A g \in Goroutines : Shape(routine[g])

LEMMA NoRoutineTyped == NoRoutine \in Routines /\ Shape(NoRoutine)
BY DEF NoRoutine, Routines, Shape

\* What a step must show of the goroutine it moves.
LEMMA RoutineKept ==
    ASSUME TypeInv, NEW g \in Goroutines, NEW r \in Routines, Shape(r), Step(g, r)
    PROVE  /\ routine' \in [Goroutines -> Routines]
           /\ routine'[g] = r
           /\ \A h \in Goroutines \ {g} : routine'[h] = routine[h]
           /\ \A h \in Goroutines : Shape(routine'[h])
<1>1. /\ routine' \in [Goroutines -> Routines]
      /\ routine'[g] = r
      /\ \A h \in Goroutines \ {g} : routine'[h] = routine[h]
  BY DEF TypeInv, TypeOK, Step
<1> QED BY <1>1 DEF TypeInv

\* Deleting rows.
LEMMA DeleteTyped ==
    ASSUME commands \in [Keys -> Statuses], commands[NoUUID] \in {"absent", "sent"},
           NEW ks, Delete(ks)
    PROVE  /\ commands' \in [Keys -> Statuses]
           /\ commands'[NoUUID] \in {"absent", "sent"}
           /\ \A k \in Keys : commands'[k] = IF k \in ks THEN "absent" ELSE commands[k]
BY KeysTyped DEF Delete, Statuses

\* Where the goroutine reads no more of its event, and where it may not have begun.
Past == {"none", "tasks", "initial", "respond"}

Before == Past \cup {"clear", "reset", "token", "update"}

\* A goroutine that goes on to its next statement.
LEMMA Goes ==
    ASSUME NEW r \in Routines, Shape(r),
           NEW pc \in Before,
           \/ r.event = NoEvent
           \/ pc \in {"reset", "update"} /\ r.event.uuid = NoUUID
    PROVE  LET q == [r EXCEPT !.pc = pc] IN
           /\ q \in Routines /\ Shape(q)
           /\ q.pc = pc /\ q.event = r.event /\ q.row = r.row
<1>1. /\ [r EXCEPT !.pc = pc] \in Routines
      /\ [r EXCEPT !.pc = pc].pc = pc
      /\ [r EXCEPT !.pc = pc].event = r.event
      /\ [r EXCEPT !.pc = pc].row = r.row
  BY DEF Routines, Before, Past
<1>2. Shape([r EXCEPT !.pc = pc])
  BY <1>1 DEF Shape, NoEvent, Before, Past
<1> QED BY <1>1, <1>2

\* A goroutine that reads no more of its event.
LEMMA Leaves ==
    ASSUME NEW r \in Routines, NEW pc \in Past
    PROVE  LET q == [r EXCEPT !.pc = pc, !.event = NoEvent] IN
           /\ q \in Routines /\ Shape(q)
           /\ q.pc = pc /\ q.event = NoEvent /\ q.row = r.row
<1>1. /\ [r EXCEPT !.pc = pc, !.event = NoEvent] \in Routines
      /\ [r EXCEPT !.pc = pc, !.event = NoEvent].pc = pc
      /\ [r EXCEPT !.pc = pc, !.event = NoEvent].event = NoEvent
      /\ [r EXCEPT !.pc = pc, !.event = NoEvent].row = r.row
  BY DEF Routines, Past
<1>2. Shape([r EXCEPT !.pc = pc, !.event = NoEvent])
  BY <1>1 DEF Shape, Past
<1> QED BY <1>1, <1>2

-----------------------------------------------------------------------------
(* The steps of a goroutine, once for all proofs: what becomes of it.       *)

\* Which of its variables a step of the webhook handler changes, and how: the goroutine
\* goes on with the same event, or reads no more of it.
Handled(w) ==
    /\ UNCHANGED <<listed, server>>
    /\ faults' \in 0..MaxFaults
    /\ \E r \in Routines :
         /\ Step(w, r) /\ Shape(r)
         /\ r.row = routine[w].row
         /\ r.event \in {routine[w].event, NoEvent}
         /\ r.event = NoEvent => Answered(routine[w].event) \subseteq lost'

LEMMA ClearCommandsStep ==
    ASSUME TypeInv, NEW w \in Goroutines, ClearCommands(w)
    PROVE  Handled(w)
<1>1. routine[w] \in Routines /\ Shape(routine[w])
  BY DEF TypeInv, TypeOK
<1>2. faults' \in 0..MaxFaults
  BY FaultCounted DEF ClearCommands, TypeInv, TypeOK
<1>3. PICK pc \in {"none", "initial", "reset", "update"} :
        /\ Goto(w, pc)
        /\ pc \in {"none", "initial"} => routine[w].pc = "tasks"
        /\ pc \in {"reset", "update"} => routine[w].pc = "clear"
  BY DEF ClearCommands, At
<1>4. routine[w].event = NoEvent \/ (pc \in {"reset", "update"} /\ routine[w].event.uuid = NoUUID)
  BY <1>1, <1>3 DEF Shape
<1>5. LET q == [routine[w] EXCEPT !.pc = pc] IN
      q \in Routines /\ Shape(q) /\ q.event = routine[w].event /\ q.row = routine[w].row
  <2>1. pc \in Before
    BY <1>3 DEF Before, Past
  <2> QED BY <1>1, <1>4, <2>1, Goes
<1>6. routine[w].event = NoEvent => Answered(routine[w].event) = {}
  BY DEF Answered, NoEvent, Final
<1> QED BY <1>2, <1>3, <1>5, <1>6 DEF Handled, Goto, ClearCommands

LEMMA ResetDeviceStep ==
    ASSUME TypeInv, NEW w \in Goroutines, ResetDevice(w)
    PROVE  Handled(w)
<1>1. routine[w] \in Routines /\ Shape(routine[w]) /\ routine[w].event.uuid = NoUUID
  BY DEF TypeInv, TypeOK, ResetDevice, At, Shape
<1>2. faults' \in 0..MaxFaults
  BY FaultCounted DEF ResetDevice, TypeInv, TypeOK
<1>3. LET q == [routine[w] EXCEPT !.pc = "update"] IN
      q \in Routines /\ Shape(q) /\ q.event = routine[w].event /\ q.row = routine[w].row
  BY <1>1, Goes DEF Before, Past
<1>4. routine[w].event = NoEvent => Answered(routine[w].event) = {}
  BY DEF Answered, NoEvent, Final
<1> QED BY <1>2, <1>3, <1>4 DEF Handled, Goto, ResetDevice

LEMMA SetTokenUpdateStep ==
    ASSUME TypeInv, NEW w \in Goroutines, SetTokenUpdate(w)
    PROVE  Handled(w)
<1>1. routine[w] \in Routines /\ Shape(routine[w]) /\ routine[w].event.uuid = NoUUID
  BY DEF TypeInv, TypeOK, SetTokenUpdate, At, Shape
<1>2. faults' \in 0..MaxFaults
  BY FaultCounted DEF SetTokenUpdate, TypeInv, TypeOK
<1>3. LET q == [routine[w] EXCEPT !.pc = "update"] IN
      q \in Routines /\ Shape(q) /\ q.event = routine[w].event /\ q.row = routine[w].row
  BY <1>1, Goes DEF Before, Past
<1>4. LET q == [routine[w] EXCEPT !.pc = "tasks", !.event = NoEvent] IN
      q \in Routines /\ Shape(q) /\ q.event = NoEvent /\ q.row = routine[w].row
  BY <1>1, Leaves DEF Past
<1>5. Answered(routine[w].event) = {}
  <2>1. routine[w].event \in Events \cup {NoEvent}
    BY <1>1 DEF Routines
  <2> QED BY <1>1, <2>1, EventShape, KeysTyped DEF Answered, Answers
<1>6. Goto(w, "update") \/ Leave(w, "tasks")
  BY DEF SetTokenUpdate
<1> QED BY <1>2, <1>3, <1>4, <1>5, <1>6 DEF Handled, Goto, Leave, SetTokenUpdate

LEMMA UpdateDeviceStep ==
    ASSUME TypeInv, NEW w \in Goroutines, UpdateDevice(w)
    PROVE  Handled(w)
<1>1. routine[w] \in Routines /\ routine[w].event \in Events \cup {NoEvent}
  BY DEF TypeInv, TypeOK, Routines
<1>2. faults' \in 0..MaxFaults
  BY FaultCounted DEF UpdateDevice, TypeInv, TypeOK
<1>3. CASE Leave(w, "tasks") /\ lost' = lost \cup Answered(routine[w].event)
  <2>1. LET q == [routine[w] EXCEPT !.pc = "tasks", !.event = NoEvent] IN
        q \in Routines /\ Shape(q) /\ q.event = NoEvent /\ q.row = routine[w].row
    BY <1>1, Leaves DEF Past
  <2> QED BY <1>2, <1>3, <2>1 DEF Handled, Leave, UpdateDevice
<1>4. CASE /\ Step(w, [routine[w] EXCEPT !.pc = Dispatch(routine[w].event),
                                         !.event = IF Dispatch(routine[w].event) = "command"
                                                     THEN @ ELSE NoEvent])
           /\ UNCHANGED lost
  <2>1. PICK pc : pc = Dispatch(routine[w].event)
    OBVIOUS
  <2>2. pc \in {"respond", "command", "none"}
    BY <2>1 DEF Dispatch
  <2>3. CASE pc = "command"
    <3>1. routine[w].event \in Answers
      <4>1. routine[w].event.uuid # NoUUID
        BY <2>1, <2>3 DEF Dispatch
      <4>2. routine[w].event.uuid \in UUIDs
        BY <1>1, <4>1, EventShape DEF Keys
      <4> QED BY <1>1, <4>2, EventShape
    <3>2. PICK q : q = [routine[w] EXCEPT !.pc = "command", !.event = routine[w].event]
      OBVIOUS
    <3>3. q \in Routines /\ q.pc = "command" /\ q.event = routine[w].event /\ q.row = routine[w].row
      BY <1>1, <3>2 DEF Routines
    <3>4. Step(w, q) /\ Shape(q)
      BY <1>4, <2>1, <2>3, <3>1, <3>2, <3>3 DEF Shape
    <3>5. routine[w].event = NoEvent => Answered(routine[w].event) = {}
      BY DEF Answered, NoEvent, Final
    <3> QED BY <1>2, <3>3, <3>4, <3>5 DEF Handled, UpdateDevice
  <2>4. CASE pc # "command"
    <3>1. Answered(routine[w].event) = {}
      <4>1. routine[w].event.kind = "Idle" \/ routine[w].event.uuid = NoUUID
        BY <2>1, <2>4 DEF Dispatch
      <4> QED BY <1>1, <4>1, EventShape, KeysTyped DEF Answered, Final, Answers
    <3>2. LET q == [routine[w] EXCEPT !.pc = pc, !.event = NoEvent] IN
          q \in Routines /\ Shape(q) /\ q.event = NoEvent /\ q.row = routine[w].row
      <4>1. pc \in Past
        BY <2>2, <2>4 DEF Past
      <4> QED BY <1>1, <4>1, Leaves
    <3>3. Step(w, [routine[w] EXCEPT !.pc = pc, !.event = NoEvent])
      BY <1>4, <2>1, <2>4
    <3> QED BY <1>2, <3>1, <3>2, <3>3 DEF Handled, UpdateDevice
  <2> QED BY <2>3, <2>4
<1> QED BY <1>3, <1>4 DEF UpdateDevice

LEMMA FinishTasksStep ==
    ASSUME TypeInv, NEW w \in Goroutines, FinishTasks(w) \/ Respond(w)
    PROVE  Handled(w)
<1>1. routine[w] \in Routines /\ Shape(routine[w]) /\ routine[w].event = NoEvent
  BY DEF TypeInv, TypeOK, FinishTasks, Respond, At, Shape
<1>2. faults' \in 0..MaxFaults
  BY DEF FinishTasks, Respond, TypeInv, TypeOK
<1>3. LET q == [routine[w] EXCEPT !.pc = "none"] IN
      q \in Routines /\ Shape(q) /\ q.event = routine[w].event /\ q.row = routine[w].row
  BY <1>1, Goes DEF Before, Past
<1>4. Answered(NoEvent) = {}
  BY DEF Answered, NoEvent, Final
<1> QED BY <1>1, <1>2, <1>3, <1>4 DEF Handled, Goto, FinishTasks, Respond

\* The goroutine is through with the answer; its answer may have gone into the table.
LEMMA UpdateCommandStep ==
    ASSUME TypeInv, NEW w \in Goroutines, UpdateCommand(w)
    PROVE  /\ UNCHANGED <<listed, server, setup>> /\ faults' \in 0..MaxFaults
           /\ routine[w].event \in Answers
           /\ \E r \in Routines : /\ Step(w, r) /\ Shape(r)
                                  /\ r.row = routine[w].row /\ r.event = NoEvent
           /\ lost \subseteq lost' /\ lost' \subseteq lost \cup Answered(routine[w].event)
<1>1. routine[w] \in Routines /\ routine[w].event \in Answers
  BY DEF TypeInv, TypeOK, UpdateCommand, At, Shape
<1>2. faults' \in 0..MaxFaults
  BY FaultCounted DEF UpdateCommand, TypeInv, TypeOK
<1>3. LET q == [routine[w] EXCEPT !.pc = "respond", !.event = NoEvent] IN
      q \in Routines /\ Shape(q) /\ q.event = NoEvent /\ q.row = routine[w].row
  BY <1>1, Leaves DEF Past
<1> QED BY <1>1, <1>2, <1>3 DEF UpdateCommand, Leave

LEMMA SendCommandStep ==
    ASSUME TypeInv, NEW g \in Goroutines, SendCommand(g)
    PROVE  /\ UNCHANGED <<commands, setup, listed, events, deferrals, lost>>
           /\ faults' \in 0..MaxFaults
           /\ \E ks \in {{}} \cup {{k} : k \in Keys} :
                LET r == [routine[g] EXCEPT !.row = ks] IN
                /\ r \in Routines /\ Shape(r) /\ Step(g, r)
                /\ r.event = routine[g].event /\ r.row = ks
                /\ \/ UNCHANGED <<queue, sent>> /\ ks = {NoUUID}
                   \/ /\ sent + 1 \in UUIDs /\ sent' = sent + 1 /\ queue' = Append(queue, sent + 1)
                      /\ ks \in {{}, {sent + 1}}
<1>1. routine[g] \in Routines /\ Shape(routine[g]) /\ routine[g].row = {}
  BY DEF TypeInv, TypeOK, SendCommand, MaySend
<1>2. faults' \in 0..MaxFaults
  BY FaultCounted DEF SendCommand, TypeInv, TypeOK
<1>3. Queue => sent + 1 \in UUIDs
  BY CommandQueueAssumption DEF Queue, UUIDs, TypeInv, TypeOK
<1>4. ASSUME NEW ks \in {{}} \cup {{k} : k \in Keys}
      PROVE  LET r == [routine[g] EXCEPT !.row = ks] IN
             r \in Routines /\ Shape(r) /\ r.event = routine[g].event /\ r.row = ks
  BY <1>1, <1>4 DEF Routines, Shape
<1>5. CASE Queue /\ Step(g, [routine[g] EXCEPT !.row = {sent + 1}])
  BY <1>2, <1>3, <1>4, <1>5, KeysTyped DEF SendCommand, Queue
<1>6. CASE Queue /\ UNCHANGED routine
  <2>1. Step(g, [routine[g] EXCEPT !.row = {}])
    BY <1>1, <1>6 DEF Step, Routines, TypeInv, TypeOK
  <2> QED BY <1>2, <1>3, <1>4, <1>6, <2>1 DEF SendCommand, Queue
<1>7. CASE Step(g, [routine[g] EXCEPT !.row = {NoUUID}]) /\ UNCHANGED <<queue, sent>>
  BY <1>2, <1>4, <1>7, KeysTyped DEF SendCommand
<1> QED BY <1>5, <1>6, <1>7 DEF SendCommand

LEMMA CreateRowStep ==
    ASSUME TypeInv, NEW g \in Goroutines, CreateRow(g)
    PROVE  /\ UNCHANGED <<setup, listed, server, lost>> /\ faults' \in 0..MaxFaults
           /\ \E r \in Routines : /\ Step(g, r) /\ Shape(r)
                                  /\ r.event = routine[g].event /\ r.row = {}
           /\ commands' \in [Keys -> Statuses]
           /\ \A k \in Keys : \/ commands'[k] = commands[k]
                              \/ /\ k \in routine[g].row /\ commands[k] = "absent"
                                 /\ commands'[k] = "sent"
<1>1. routine[g] \in Routines /\ Shape(routine[g]) /\ commands \in [Keys -> Statuses]
  BY DEF TypeInv, TypeOK
<1>2. faults' \in 0..MaxFaults
  BY FaultCounted DEF CreateRow, TypeInv, TypeOK
<1>3. LET r == [routine[g] EXCEPT !.row = {}] IN
      r \in Routines /\ Shape(r) /\ r.event = routine[g].event /\ r.row = {}
  BY <1>1 DEF Routines, Shape
<1>4. /\ commands' \in [Keys -> Statuses]
      /\ \A k \in Keys : \/ commands'[k] = commands[k]
                         \/ /\ k \in routine[g].row /\ commands[k] = "absent"
                            /\ commands'[k] = "sent"
  BY <1>1 DEF CreateRow, Rows, Statuses, Waiting
<1> QED BY <1>2, <1>3, <1>4 DEF CreateRow

LEMMA ReceiveStep ==
    ASSUME TypeInv, NEW w \in Goroutines, Receive(w)
    PROVE  /\ UNCHANGED <<commands, setup, listed, queue, sent, deferrals, lost, faults>>
           /\ routine[w].event = NoEvent /\ routine[w].row = {}
           /\ events # <<>> /\ events' = Tail(events) /\ Head(events) \in Events
           /\ \E r \in Routines : /\ Step(w, r) /\ Shape(r)
                                  /\ r.event = Head(events) /\ r.row = {}
<1>1. routine[w].event = NoEvent /\ routine[w].row = {}
  BY DEF Receive, At, Shape, TypeInv
<1>2. events # <<>> /\ Head(events) \in Events
  BY HeadTailProperties DEF Receive, TypeInv, TypeOK
<1>3. PICK e \in Events : e = Head(events)
  BY <1>2
<1>4. PICK pc : pc = CASE e.kind = "Authenticate" -> "clear"
                       [] e.kind = "TokenUpdate" -> "token"
                       [] OTHER -> "update"
  OBVIOUS
<1>5. Step(w, [NoRoutine EXCEPT !.event = e, !.pc = pc])
  BY <1>3, <1>4 DEF Receive
<1>6. LET r == [NoRoutine EXCEPT !.event = e, !.pc = pc] IN
      r \in Routines /\ r.event = e /\ r.row = {} /\ r.pc = pc
  BY <1>4 DEF NoRoutine, Routines
<1>7. Shape([NoRoutine EXCEPT !.event = e, !.pc = pc])
  <2>1. pc \in {"clear", "token"} => e.uuid = NoUUID
    BY <1>4, EventShape DEF Events, Final
  <2> QED BY <1>4, <1>6, <2>1 DEF Shape
<1> QED BY <1>1, <1>2, <1>3, <1>5, <1>6, <1>7 DEF Receive

-----------------------------------------------------------------------------
(* Types.                                                                   *)

LEMMA InitTypes == ASSUME Init PROVE TypeInv
<1>1. commands \in [Keys -> Statuses] /\ commands[NoUUID] \in {"absent", "sent"}
  BY KeysTyped DEF Init, Statuses
<1>2. routine \in [Goroutines -> Routines] /\ \A g \in Goroutines : Shape(routine[g])
  BY NoRoutineTyped DEF Init
<1>3. queue \in Seq(UUIDs) /\ events \in Seq(Events)
  BY DEF Init
<1>4. sent \in 0..MaxCommands /\ deferrals \in 0..MaxDeferrals /\ faults \in 0..MaxFaults
  BY CommandQueueAssumption DEF Init
<1>5. listed \in [on : BOOLEAN, keys : SUBSET Keys] /\ setup \in {"reset", "due", "done"}
      /\ lost \subseteq UUIDs
  BY DEF Init
<1> QED BY <1>1, <1>2, <1>3, <1>4, <1>5 DEF TypeInv, TypeOK

\* What a step of the webhook handler must show besides.
LEMMA HandledTyped ==
    ASSUME TypeInv, NEW w \in Goroutines, Handled(w), lost' \subseteq UUIDs,
           commands' \in [Keys -> Statuses], commands'[NoUUID] \in {"absent", "sent"},
           setup' \in {"reset", "due", "done"}
    PROVE  TypeInv'
<1>1. routine' \in [Goroutines -> Routines] /\ \A g \in Goroutines : Shape(routine'[g])
  BY RoutineKept DEF Handled
<1> QED BY <1>1 DEF TypeInv, TypeOK, Handled, server

LEMMA TypesStep ==
    ASSUME TypeInv, [Next]_vars
    PROVE  TypeInv'
<1>T. /\ commands \in [Keys -> Statuses] /\ commands[NoUUID] \in {"absent", "sent"}
      /\ setup \in {"reset", "due", "done"} /\ lost \subseteq UUIDs
      /\ faults \in 0..MaxFaults
      /\ queue \in Seq(UUIDs) /\ events \in Seq(Events)
      /\ routine \in [Goroutines -> Routines]
  BY DEF TypeInv, TypeOK
<1>W. Workers \subseteq Goroutines
  BY DEF Goroutines
<1>1. CASE UNCHANGED vars
  BY <1>1 DEF vars, server, TypeInv, TypeOK
<1>2. ASSUME NEW w \in Workers, Receive(w) PROVE TypeInv'
  <2>1. routine' \in [Goroutines -> Routines] /\ \A g \in Goroutines : Shape(routine'[g])
    BY <1>2, <1>W, ReceiveStep, RoutineKept
  <2>2. events' \in Seq(Events)
    BY <1>2, <1>T, HeadTailProperties DEF Receive
  <2> QED BY <1>2, <1>W, <2>1, <2>2, ReceiveStep DEF TypeInv, TypeOK
<1>3. ASSUME NEW w \in Workers, ClearCommands(w) PROVE TypeInv'
  <2>1. commands' \in [Keys -> Statuses] /\ commands'[NoUUID] \in {"absent", "sent"}
    BY <1>3, <1>T, DeleteTyped DEF ClearCommands
  <2> QED BY <1>3, <1>T, <1>W, <2>1, ClearCommandsStep, HandledTyped DEF ClearCommands
<1>4. ASSUME NEW w \in Workers, ResetDevice(w) PROVE TypeInv'
  BY <1>4, <1>T, <1>W, ResetDeviceStep, HandledTyped DEF ResetDevice
<1>5. ASSUME NEW w \in Workers, SetTokenUpdate(w) PROVE TypeInv'
  BY <1>5, <1>T, <1>W, SetTokenUpdateStep, HandledTyped DEF SetTokenUpdate
<1>6. ASSUME NEW w \in Workers, UpdateDevice(w) PROVE TypeInv'
  <2>1. lost' \subseteq UUIDs
    <3>1. Answered(routine[w].event) \subseteq UUIDs
      BY <1>T, <1>W, EventShape DEF Routines
    <3> QED BY <1>6, <1>T, <3>1 DEF UpdateDevice
  <2> QED BY <1>6, <1>T, <1>W, <2>1, UpdateDeviceStep, HandledTyped DEF UpdateDevice
<1>7. ASSUME NEW w \in Workers, FinishTasks(w) PROVE TypeInv'
  BY <1>7, <1>T, <1>W, FinishTasksStep, HandledTyped DEF FinishTasks
<1>8. ASSUME NEW w \in Workers, UpdateCommand(w) PROVE TypeInv'
  <2>1. PICK e : e = routine[w].event
    OBVIOUS
  <2>2. e \in Answers /\ Answered(e) \subseteq UUIDs
    BY <1>8, <1>T, <1>W, <2>1, UpdateCommandStep, EventShape DEF Routines
  <2>3. e.uuid \in Keys /\ e.uuid # NoUUID /\ e.kind \in Statuses
    BY <2>2, KeysTyped DEF Answers, Statuses, Waiting
  <2>4. commands' = [commands EXCEPT ![e.uuid] =
                       IF commands[e.uuid] = "absent" THEN commands[e.uuid] ELSE e.kind]
        \/ UNCHANGED commands
    BY <1>8, <1>T, <2>1, <2>3 DEF UpdateCommand
  <2>5. commands' \in [Keys -> Statuses] /\ commands'[NoUUID] \in {"absent", "sent"}
    BY <1>T, <2>3, <2>4, KeysTyped
  <2>6. routine' \in [Goroutines -> Routines] /\ \A g \in Goroutines : Shape(routine'[g])
    BY <1>8, <1>W, UpdateCommandStep, RoutineKept
  <2>7. lost' \subseteq UUIDs
    BY <1>8, <1>T, <1>W, <2>1, <2>2, UpdateCommandStep
  <2>8. UNCHANGED <<listed, server, setup>> /\ faults' \in 0..MaxFaults
    BY <1>8, <1>W, UpdateCommandStep
  <2> QED BY <2>5, <2>6, <2>7, <2>8 DEF TypeInv, TypeOK, server
<1>9. ASSUME NEW w \in Workers, Respond(w) PROVE TypeInv'
  BY <1>9, <1>T, <1>W, FinishTasksStep, HandledTyped DEF Respond
<1>10. ASSUME NEW g \in Goroutines, SendCommand(g) PROVE TypeInv'
  <2>1. PICK ks \in {{}} \cup {{k} : k \in Keys} :
          LET r == [routine[g] EXCEPT !.row = ks] IN
          /\ r \in Routines /\ Shape(r) /\ Step(g, r)
          /\ \/ UNCHANGED <<queue, sent>>
             \/ sent + 1 \in UUIDs /\ sent' = sent + 1 /\ queue' = Append(queue, sent + 1)
    BY <1>10, SendCommandStep
  <2>2. routine' \in [Goroutines -> Routines] /\ \A h \in Goroutines : Shape(routine'[h])
    BY <2>1, RoutineKept
  <2>3. queue' \in Seq(UUIDs)
    <3>1. queue' = queue \/ (sent + 1 \in UUIDs /\ queue' = Append(queue, sent + 1))
      BY <2>1
    <3>2. \A u \in UUIDs : Append(queue, u) \in Seq(UUIDs)
      BY <1>T, AppendProperties
    <3> QED BY <1>T, <3>1, <3>2
  <2>4. sent' \in 0..MaxCommands
    <3>1. sent' = sent \/ sent' \in UUIDs
      BY <2>1
    <3>2. UUIDs \subseteq 0..MaxCommands /\ sent \in 0..MaxCommands
      BY DEF UUIDs, TypeInv, TypeOK
    <3> QED BY <3>1, <3>2
  <2> QED BY <1>10, <2>2, <2>3, <2>4, SendCommandStep DEF TypeInv, TypeOK
<1>11. ASSUME NEW g \in Goroutines, CreateRow(g) PROVE TypeInv'
  <2>1. routine' \in [Goroutines -> Routines] /\ \A h \in Goroutines : Shape(routine'[h])
    BY <1>11, CreateRowStep, RoutineKept
  <2> QED BY <1>11, <1>T, <2>1, CreateRowStep, KeysTyped DEF TypeInv, TypeOK, server
<1>12. CASE SelectPending
  <2>1. listed' \in [on : BOOLEAN, keys : SUBSET Keys]
    BY <1>12 DEF SelectPending, Pending, Rows
  <2> QED BY <1>12, <2>1 DEF SelectPending, server, TypeInv, TypeOK
<1>13. CASE DeletePending
  <2>1. commands' \in [Keys -> Statuses] /\ commands'[NoUUID] \in {"absent", "sent"}
    BY <1>13, <1>T, DeleteTyped DEF DeletePending
  <2>2. listed' \in [on : BOOLEAN, keys : SUBSET Keys]
    BY <1>13 DEF DeletePending
  <2> QED BY <1>13, <2>1, <2>2 DEF DeletePending, server, TypeInv, TypeOK
<1>14. CASE ClearCommandQueue
  <2>1. queue' \in Seq(UUIDs) /\ lost' \subseteq UUIDs
    BY <1>14, <1>T DEF ClearCommandQueue, Queued
  <2> QED BY <1>14, <2>1 DEF ClearCommandQueue, TypeInv, TypeOK
<1>15. CASE DeviceAnswers
  <2>1. queue # <<>> /\ Head(queue) \in UUIDs /\ Tail(queue) \in Seq(UUIDs)
    BY <1>15, <1>T, HeadTailProperties DEF DeviceAnswers
  <2>2. PICK kind \in {"NotNow"} \cup Final : Post(kind, Head(queue))
    BY <1>15 DEF DeviceAnswers
  <2>3. events' \in Seq(Events)
    <3>1. [kind |-> kind, uuid |-> Head(queue)] \in Events
      BY <2>1, <2>2 DEF Events
    <3> QED BY <1>T, <2>2, <3>1, AppendProperties DEF Post
  <2>4. queue' \in Seq(UUIDs)
    <3>1. Append(Tail(queue), Head(queue)) \in Seq(UUIDs)
      BY <2>1, AppendProperties
    <3> QED BY <1>15, <2>1, <3>1 DEF DeviceAnswers
  <2>5. deferrals' \in 0..MaxDeferrals
    BY <1>15, CommandQueueAssumption DEF DeviceAnswers, TypeInv, TypeOK
  <2> QED BY <1>15, <2>3, <2>4, <2>5 DEF DeviceAnswers, TypeInv, TypeOK
<1>16. CASE DeviceConnects
  <2>1. PICK kind \in {"Authenticate", "TokenUpdate", "Idle"} : Post(kind, NoUUID)
    BY <1>16 DEF DeviceConnects
  <2>2. [kind |-> kind, uuid |-> NoUUID] \in Events
    BY <2>1 DEF Events
  <2>3. events' \in Seq(Events)
    BY <1>T, <2>1, <2>2, AppendProperties DEF Post
  <2> QED BY <1>16, <2>3 DEF DeviceConnects, TypeInv, TypeOK
<1>17. CASE Crash
  <2>1. faults' \in 0..MaxFaults
    BY <1>17, <1>T, FaultCounted DEF Crash
  <2>2. lost' \subseteq UUIDs
    <3>1. \A g \in Goroutines : Answered(routine[g].event) \subseteq UUIDs
      BY <1>T, EventShape DEF Routines
    <3> QED BY <1>17, <1>T, <3>1 DEF Crash
  <2>3. routine' \in [Goroutines -> Routines] /\ \A g \in Goroutines : Shape(routine'[g])
    BY <1>17, NoRoutineTyped DEF Crash
  <2>4. listed' \in [on : BOOLEAN, keys : SUBSET Keys]
    BY <1>17 DEF Crash
  <2> QED BY <1>17, <2>1, <2>2, <2>3, <2>4 DEF Crash, server, TypeInv, TypeOK
<1> QED
  BY <1>1, <1>2, <1>3, <1>4, <1>5, <1>6, <1>7, <1>8, <1>9, <1>10, <1>11, <1>12, <1>13,
     <1>14, <1>15, <1>16, <1>17 DEF Next, Serve

\* Every variable keeps to its type; the row of an error answer is never answered.
THEOREM TypeCorrect == Spec => []TypeOK
<1>1. TypeInv => TypeOK
  BY DEF TypeInv
<1> QED BY <1>1, InitTypes, TypesStep, PTL DEF Spec

-----------------------------------------------------------------------------
(* Sequences.                                                               *)

Elements(q) == {q[i] : i \in DOMAIN q}

Distinct(q) == \A i, j \in DOMAIN q : q[i] = q[j] => i = j

LEMMA AppendShape ==
    ASSUME NEW S, NEW q \in Seq(S), NEW x \in S
    PROVE  LET t == Append(q, x) IN
           \E n \in Nat :
             /\ n \notin DOMAIN q /\ DOMAIN t = DOMAIN q \cup {n} /\ DOMAIN q \subseteq Nat
             /\ t[n] = x
             /\ \A i \in DOMAIN q : t[i] = q[i] /\ i < n
<1>1. PICK n \in Nat : n = Len(q) + 1
  OBVIOUS
<1>2. DOMAIN q = 1..Len(q) /\ Len(q) \in Nat /\ DOMAIN Append(q, x) = 1..Len(q) + 1
  BY AppendProperties
<1>3. \A i \in 1..Len(q) + 1 : Append(q, x)[i] = IF i = Len(q) + 1 THEN x ELSE q[i]
  BY AppendProperties
<1>4. n \notin DOMAIN q /\ DOMAIN Append(q, x) = DOMAIN q \cup {n} /\ DOMAIN q \subseteq Nat
  BY <1>1, <1>2
<1>5. Append(q, x)[n] = x
  BY <1>1, <1>2, <1>3
<1>6. \A i \in DOMAIN q : Append(q, x)[i] = q[i] /\ i < n
  BY <1>1, <1>2, <1>3
<1> QED BY <1>4, <1>5, <1>6

LEMMA AppendElements ==
    ASSUME NEW S, NEW q \in Seq(S), NEW x \in S
    PROVE  /\ Append(q, x) \in Seq(S)
           /\ Elements(Append(q, x)) = Elements(q) \cup {x}
           /\ Distinct(q) /\ x \notin Elements(q) => Distinct(Append(q, x))
<1>1. PICK n \in Nat :
        /\ n \notin DOMAIN q /\ DOMAIN Append(q, x) = DOMAIN q \cup {n}
        /\ Append(q, x)[n] = x
        /\ \A i \in DOMAIN q : Append(q, x)[i] = q[i]
  BY AppendShape
<1>2. Append(q, x) \in Seq(S)
  BY AppendProperties
<1>3. Elements(Append(q, x)) = Elements(q) \cup {x}
  BY <1>1 DEF Elements
<1>4. Distinct(q) /\ x \notin Elements(q) => Distinct(Append(q, x))
  BY <1>1 DEF Elements, Distinct
<1> QED BY <1>2, <1>3, <1>4

LEMMA TailShape ==
    ASSUME NEW S, NEW q \in Seq(S), q # <<>>
    PROVE  LET t == Tail(q) IN
           /\ t \in Seq(S) /\ 1 \in DOMAIN q /\ Head(q) = q[1] /\ Head(q) \in S
           /\ DOMAIN q \subseteq Nat /\ DOMAIN t \subseteq Nat
           /\ \A i \in DOMAIN t : i + 1 \in DOMAIN q /\ t[i] = q[i + 1] /\ i + 1 # 1
           /\ \A i \in DOMAIN q : i = 1 \/ (i > 1 /\ i - 1 \in DOMAIN t /\ t[i - 1] = q[i])
<1>1. /\ Tail(q) \in Seq(S) /\ Len(Tail(q)) = Len(q) - 1
      /\ \A i \in 1..Len(Tail(q)) : Tail(q)[i] = q[i + 1]
      /\ Head(q) = q[1] /\ Head(q) \in S
  BY HeadTailProperties
<1>2. /\ Len(q) \in Nat /\ Len(q) # 0
      /\ DOMAIN q = 1..Len(q) /\ DOMAIN Tail(q) = 1..Len(q) - 1
  BY <1>1, EmptySeq
<1>3. \A i \in DOMAIN Tail(q) : i + 1 \in DOMAIN q /\ Tail(q)[i] = q[i + 1] /\ i + 1 # 1
  BY <1>1, <1>2
<1>4. \A i \in DOMAIN q : i = 1 \/ (i > 1 /\ i - 1 \in DOMAIN Tail(q) /\ Tail(q)[i - 1] = q[i])
  <2> SUFFICES ASSUME NEW i \in DOMAIN q, i # 1
               PROVE  i > 1 /\ i - 1 \in DOMAIN Tail(q) /\ Tail(q)[i - 1] = q[i]
    OBVIOUS
  <2>1. i > 1 /\ i - 1 \in DOMAIN Tail(q) /\ (i - 1) + 1 = i
    BY <1>2
  <2>2. Tail(q)[i - 1] = q[(i - 1) + 1]
    BY <1>3, <2>1
  <2> QED BY <2>1, <2>2
<1> QED BY <1>1, <1>2, <1>3, <1>4

LEMMA TailElements ==
    ASSUME NEW S, NEW q \in Seq(S), q # <<>>, Distinct(q)
    PROVE  /\ Tail(q) \in Seq(S) /\ Head(q) \in S /\ Head(q) \in Elements(q)
           /\ Elements(Tail(q)) = Elements(q) \ {Head(q)}
           /\ Distinct(Tail(q))
<1>1. /\ Tail(q) \in Seq(S) /\ 1 \in DOMAIN q /\ Head(q) = q[1] /\ Head(q) \in S
      /\ DOMAIN Tail(q) \subseteq Nat
      /\ \A i \in DOMAIN Tail(q) : i + 1 \in DOMAIN q /\ Tail(q)[i] = q[i + 1] /\ i + 1 # 1
      /\ \A i \in DOMAIN q : i = 1 \/ (i - 1 \in DOMAIN Tail(q) /\ Tail(q)[i - 1] = q[i])
  BY TailShape
<1>2. Elements(Tail(q)) \subseteq Elements(q) \ {Head(q)}
  BY <1>1 DEF Elements, Distinct
<1>3. Elements(q) \ {Head(q)} \subseteq Elements(Tail(q))
  <2> SUFFICES ASSUME NEW i \in DOMAIN q, q[i] # Head(q) PROVE q[i] \in Elements(Tail(q))
    BY DEF Elements
  <2>1. i - 1 \in DOMAIN Tail(q) /\ Tail(q)[i - 1] = q[i]
    BY <1>1
  <2> QED BY <2>1 DEF Elements
<1>4. Distinct(Tail(q))
  <2> SUFFICES ASSUME NEW i \in DOMAIN Tail(q), NEW j \in DOMAIN Tail(q), Tail(q)[i] = Tail(q)[j]
               PROVE  i = j
    BY DEF Distinct
  <2>1. i \in Nat /\ j \in Nat
    BY <1>1
  <2>2. i + 1 = j + 1
    BY <1>1 DEF Distinct
  <2> QED BY <2>1, <2>2
<1>5. Head(q) \in Elements(q)
  BY <1>1 DEF Elements
<1> QED BY <1>1, <1>2, <1>3, <1>4, <1>5

-----------------------------------------------------------------------------
(* The order of the answers, where none overtakes the one that had put its  *)
(* command off.                                                             *)

InEvents(u) == \E i \in DOMAIN events : events[i].uuid = u

\* After the last answer to a command it is not queued any more, and no other answer to
\* it follows.  After one that puts it off it is queued still, or another follows.
EventOrder ==
    \A i \in DOMAIN events :
      LET e == events[i] IN
      /\ e.kind \in Final =>
           e.uuid \notin Queued /\ \A j \in DOMAIN events : j > i => events[j].uuid # e.uuid
      /\ e.kind = "NotNow" =>
           e.uuid \in Queued \cup lost \/ \E j \in DOMAIN events : j > i /\ events[j].uuid = e.uuid

\* Likewise after the answer that is being handled.
InOrder(e) ==
    /\ e.kind \in Final => e.uuid \notin Queued /\ ~InEvents(e.uuid)
    /\ e.kind = "NotNow" => e.uuid \in Queued \cup lost \/ InEvents(e.uuid)

\* The last answer to a command has one goroutine that handles it.
OneHandler ==
    \A v, w \in Workers :
      /\ routine[v].event.kind \in Final /\ routine[w].event.kind \in Final
      /\ routine[v].event.uuid = routine[w].event.uuid
      => v = w

OrderInv ==
    /\ Distinct(queue)
    /\ EventOrder
    /\ \A w \in Workers : InOrder(routine[w].event)
    /\ OneHandler

\* A command that MicroMDM has not given a UUID has left no trace; a finished one has no
\* answer to come; one whose row is still to be made has no row, and no other goroutine
\* to make it; and what waits for an answer will get it, or has lost it.
Sound(u) ==
    /\ u > sent => commands[u] = "absent" /\ ~Open(u) /\ \A g \in Goroutines : u \notin routine[g].row
    /\ commands[u] \in Final => ~Open(u)
    /\ \A g \in Goroutines : u \in routine[g].row =>
         commands[u] = "absent" /\ \A h \in Goroutines : u \in routine[h].row => h = g
    /\ (commands[u] \in Waiting \/ \E g \in Goroutines : u \in routine[g].row) =>
         Open(u) \/ u \in lost

TableInv == \A u \in UUIDs : Sound(u)

LEMMA OpenShape ==
    ASSUME NEW u
    PROVE  Open(u) <=> u \in Queued \/ InEvents(u) \/ \E w \in Workers : routine[w].event.uuid = u
BY DEF Open, InEvents

LEMMA EventTyped ==
    ASSUME TypeInv
    PROVE  /\ \A i \in DOMAIN events : events[i] \in Events \cup {NoEvent}
           /\ \A w \in Workers : w \in Goroutines /\ routine[w].event \in Events \cup {NoEvent}
BY DEF TypeInv, TypeOK, Goroutines, Routines

\* What a step must show that leaves MicroMDM alone: of the answers being handled.
LEMMA QuietOrder ==
    ASSUME TypeInv, OrderInv, UNCHANGED <<queue, events>>, lost \subseteq lost',
           \A w \in Workers : routine'[w].event \in {routine[w].event, NoEvent}
    PROVE  OrderInv' /\ \A u \in UUIDs : Open(u)' => Open(u)
<1>1. Distinct(queue)' /\ EventOrder'
  BY DEF OrderInv, Distinct, EventOrder, Queued
<1>2. \A w \in Workers : InOrder(routine[w].event)'
  BY DEF OrderInv, InOrder, InEvents, Queued, NoEvent, Final
<1>3. \A u \in UUIDs : Open(u)' => Open(u)
  BY KeysTyped DEF Open, Queued, NoEvent
<1>4. OneHandler'
  BY DEF OrderInv, OneHandler, NoEvent, Final
<1> QED BY <1>1, <1>2, <1>3, <1>4 DEF OrderInv

\* And of those that are not read any further.
LEMMA OpenKept ==
    ASSUME TypeInv, OrderInv, UNCHANGED <<queue, events>>, lost \subseteq lost',
           \A w \in Workers : \/ routine'[w].event = routine[w].event
                              \/ Answered(routine[w].event) \subseteq lost'
    PROVE  \A u \in UUIDs : Open(u) => Open(u)' \/ u \in lost'
<1> SUFFICES ASSUME NEW u \in UUIDs, Open(u), ~Open(u)' PROVE u \in lost'
  OBVIOUS
<1>1. u \notin Queued /\ ~InEvents(u)
  BY DEF Open, Queued, InEvents
<1>2. PICK w \in Workers : routine[w].event.uuid = u
  BY <1>1, OpenShape
<1>3. routine[w].event \in Answers /\ routine'[w].event # routine[w].event
  BY <1>2, EventTyped, EventShape, OpenShape DEF Open
<1>4. CASE routine[w].event.kind \in Final
  BY <1>2, <1>3, <1>4 DEF Answered
<1>5. CASE routine[w].event.kind = "NotNow"
  BY <1>1, <1>2, <1>5 DEF OrderInv, InOrder
<1> QED BY <1>3, <1>4, <1>5 DEF Answers

\* What a step must show of one command whose row it leaves as it is, or deletes.
LEMMA SoundKept ==
    ASSUME NEW u \in UUIDs, Sound(u), UNCHANGED sent, lost \subseteq lost',
           Open(u)' => Open(u), Open(u) => Open(u)' \/ u \in lost',
           commands'[u] \in {commands[u], "absent"},
           \A g \in Goroutines : u \in routine'[g].row => u \in routine[g].row
    PROVE  Sound(u)'
BY DEF Sound, Final, Waiting

\* A step that does nothing but that.
LEMMA QuietStep ==
    ASSUME TypeInv, OrderInv, TableInv, UNCHANGED <<queue, events, sent>>, lost \subseteq lost',
           \A w \in Workers : \/ routine'[w].event = routine[w].event
                              \/ /\ routine'[w].event = NoEvent
                                 /\ Answered(routine[w].event) \subseteq lost',
           \A u \in UUIDs : commands'[u] \in {commands[u], "absent"},
           \A g \in Goroutines : \A u \in UUIDs : u \in routine'[g].row => u \in routine[g].row
    PROVE  OrderInv' /\ TableInv'
<1>1. OrderInv' /\ \A u \in UUIDs : Open(u)' => Open(u)
  BY QuietOrder
<1>2. \A u \in UUIDs : Open(u) => Open(u)' \/ u \in lost'
  BY OpenKept
<1>3. \A u \in UUIDs : Sound(u)'
  BY <1>1, <1>2, SoundKept DEF TableInv
<1> QED BY <1>1, <1>3 DEF TableInv

LEMMA HandledOrder ==
    ASSUME TypeInv, OrderInv, TableInv, NEW w \in Workers, Handled(w), lost \subseteq lost',
           \A u \in UUIDs : commands'[u] \in {commands[u], "absent"}
    PROVE  OrderInv' /\ TableInv'
<1>1. w \in Goroutines
  BY DEF Goroutines
<1>2. PICK r \in Routines :
        /\ Step(w, r) /\ Shape(r)
        /\ r.row = routine[w].row
        /\ r.event \in {routine[w].event, NoEvent}
        /\ r.event = NoEvent => Answered(routine[w].event) \subseteq lost'
  BY DEF Handled
<1>3. routine'[w] = r /\ \A h \in Goroutines \ {w} : routine'[h] = routine[h]
  BY <1>1, <1>2, RoutineKept
<1>4. \A v \in Workers : \/ routine'[v].event = routine[v].event
                         \/ /\ routine'[v].event = NoEvent
                            /\ Answered(routine[v].event) \subseteq lost'
  BY <1>2, <1>3 DEF Goroutines
<1>5. \A g \in Goroutines : routine'[g].row = routine[g].row
  BY <1>2, <1>3
<1> QED BY <1>4, <1>5, QuietStep DEF Handled, server

-----------------------------------------------------------------------------
(* The steps that are not quiet.                                            *)

LEMMA ReceiveOrder ==
    ASSUME InTurn', TypeInv, OrderInv, TableInv, NEW w \in Workers, Receive(w)
    PROVE  OrderInv' /\ TableInv'
<1>0. w \in Goroutines /\ Workers \subseteq Goroutines
  BY DEF Goroutines
<1>1. /\ UNCHANGED <<commands, queue, sent, lost>>
      /\ routine[w].event = NoEvent /\ routine[w].row = {}
      /\ events # <<>> /\ events' = Tail(events) /\ Head(events) \in Events
  BY <1>0, ReceiveStep
<1>2. PICK r \in Routines : Step(w, r) /\ Shape(r) /\ r.event = Head(events) /\ r.row = {}
  BY <1>0, ReceiveStep
<1>3. routine'[w] = r /\ \A h \in Goroutines \ {w} : routine'[h] = routine[h]
  BY <1>0, <1>2, RoutineKept
<1>4. events \in Seq(Events)
  BY DEF TypeInv, TypeOK
<1>5. /\ 1 \in DOMAIN events /\ Head(events) = events[1]
      /\ DOMAIN events \subseteq Nat /\ DOMAIN events' \subseteq Nat
      /\ \A i \in DOMAIN events' : i + 1 \in DOMAIN events /\ events'[i] = events[i + 1] /\ i + 1 # 1
      /\ \A i \in DOMAIN events :
           i = 1 \/ (i > 1 /\ i - 1 \in DOMAIN events' /\ events'[i - 1] = events[i])
  BY <1>1, <1>4, TailShape
<1>6. EventOrder'
  <2> SUFFICES ASSUME NEW i \in DOMAIN events'
               PROVE  /\ events'[i].kind \in Final =>
                           /\ events'[i].uuid \notin Queued
                           /\ \A j \in DOMAIN events' : j > i => events'[j].uuid # events'[i].uuid
                      /\ events'[i].kind = "NotNow" =>
                           \/ events'[i].uuid \in Queued \cup lost
                           \/ \E j \in DOMAIN events' : j > i /\ events'[j].uuid = events'[i].uuid
    BY <1>1 DEF EventOrder, Queued
  <2>1. i + 1 \in DOMAIN events /\ events'[i] = events[i + 1] /\ i \in Nat
    BY <1>5
  <2>2. \A j \in DOMAIN events' : j > i => j + 1 \in DOMAIN events /\ j + 1 > i + 1
                                           /\ events'[j] = events[j + 1]
    BY <1>5, <2>1
  <2>3. \A j \in DOMAIN events : j > i + 1 => j - 1 \in DOMAIN events' /\ j - 1 > i
                                              /\ events'[j - 1] = events[j]
    BY <1>5, <2>1
  <2> QED BY <2>1, <2>2, <2>3 DEF OrderInv, EventOrder
<1>7. \A u \in UUIDs : InEvents(u) <=> InEvents(u)' \/ Head(events).uuid = u
  BY <1>5 DEF InEvents
<1>a. PICK e \in Events : e = Head(events)
  BY <1>1
<1>8. InOrder(e)' /\ routine'[w].event = e
  <2>1. \A j \in DOMAIN events' : j + 1 > 1
    BY <1>5
  <2>2. \A j \in DOMAIN events : j > 1 => j - 1 \in DOMAIN events' /\ events'[j - 1] = events[j]
    BY <1>5
  <2>3. e.kind \in Final => e.uuid \notin Queued /\ \A j \in DOMAIN events' : events'[j].uuid # e.uuid
    BY <1>5, <1>a, <2>1 DEF OrderInv, EventOrder
  <2>4. e.kind = "NotNow" =>
          e.uuid \in Queued \cup lost \/ \E j \in DOMAIN events' : events'[j].uuid = e.uuid
    BY <1>5, <1>a, <2>2 DEF OrderInv, EventOrder
  <2>5. InOrder(e)'
    BY <1>1, <2>3, <2>4 DEF InOrder, InEvents, Queued
  <2> QED BY <1>2, <1>3, <1>a, <2>5
<1>9. OrderInv'
  <2>1. Distinct(queue)'
    BY <1>1 DEF OrderInv, Distinct
  <2>2. ASSUME NEW v \in Workers, v # w PROVE InOrder(routine[v].event)'
    <3>1. PICK f \in Events \cup {NoEvent} : f = routine[v].event
      BY <2>2, EventTyped
    <3>2. routine'[v].event = f /\ InOrder(f)
      BY <1>0, <1>3, <2>2, <3>1 DEF OrderInv
    <3>3. f.kind \in Final \cup {"NotNow"} => f.uuid \in UUIDs
      BY EventShape DEF Answers
    <3>4. f.kind \in Final => f.uuid \notin Queued /\ ~InEvents(f.uuid)'
      BY <1>7, <3>2, <3>3 DEF InOrder
    <3>5. f.kind = "NotNow" => f.uuid \in Queued \cup lost \/ InEvents(f.uuid)'
      <4> SUFFICES ASSUME f.kind = "NotNow", e.uuid = f.uuid
                   PROVE  f.uuid \in Queued \cup lost \/ InEvents(f.uuid)'
        BY <1>7, <1>a, <3>2, <3>3 DEF InOrder
      <4>1. e.kind \notin Final
        BY <1>8, <2>2, <3>2 DEF InTurn
      <4>2. e.kind = "NotNow"
        BY <3>3, <4>1, EventShape, KeysTyped DEF Answers
      <4> QED BY <1>1, <1>8, <4>2 DEF InOrder, Queued
    <3> QED BY <1>1, <3>2, <3>4, <3>5 DEF InOrder, Queued
  <2>3. ASSUME NEW v \in Workers, v # w, routine'[v].event.kind \in Final, e.kind \in Final
        PROVE  routine'[v].event.uuid # e.uuid
    <3>1. PICK f \in Events \cup {NoEvent} : f = routine[v].event
      BY <2>3, EventTyped
    <3>2. routine'[v].event = f /\ InOrder(f)
      BY <1>0, <1>3, <2>3, <3>1 DEF OrderInv
    <3> QED BY <1>7, <1>a, <2>3, <3>2, EventShape DEF InOrder, Answers
  <2>4. \A v \in Workers \ {w} : routine'[v] = routine[v]
    BY <1>0, <1>3
  <2>5. OneHandler'
    BY <1>8, <2>3, <2>4 DEF OrderInv, OneHandler
  <2>6. \A v \in Workers : InOrder(routine[v].event)'
    BY <1>8, <2>2 DEF InOrder
  <2> QED BY <1>6, <2>1, <2>5, <2>6 DEF OrderInv
<1>10. \A u \in UUIDs : Open(u)' <=> Open(u)
  <2> DEFINE Others(u) == \E v \in Workers \ {w} : routine[v].event.uuid = u
  <2>1. \A u \in UUIDs : Open(u) <=> u \in Queued \/ InEvents(u) \/ Others(u)
    BY <1>1, OpenShape, KeysTyped DEF NoEvent
  <2>2. \A u : (\E v \in Workers : routine'[v].event.uuid = u) <=> e.uuid = u \/ Others(u)
    BY <1>0, <1>3, <1>8
  <2>3. \A u \in UUIDs : Open(u)' <=> u \in Queued \/ InEvents(u)' \/ e.uuid = u \/ Others(u)
    BY <1>1, <2>2 DEF Open, InEvents, Queued
  <2> QED BY <1>7, <1>a, <2>1, <2>3
<1>11. \A u \in UUIDs : Sound(u)'
  <2>1. \A g \in Goroutines : \A u \in UUIDs : u \in routine'[g].row => u \in routine[g].row
    BY <1>0, <1>2, <1>3
  <2> QED BY <1>1, <1>10, <2>1, SoundKept DEF TableInv
<1> QED BY <1>9, <1>11 DEF TableInv

LEMMA UpdateCommandOrder ==
    ASSUME InTurn, TypeInv, OrderInv, TableInv, NEW w \in Workers, UpdateCommand(w)
    PROVE  OrderInv' /\ TableInv'
<1>0. w \in Goroutines /\ Workers \subseteq Goroutines
  BY DEF Goroutines
<1>1. PICK e \in Answers : e = routine[w].event
  BY <1>0, UpdateCommandStep
<1>2. PICK r \in Routines : Step(w, r) /\ Shape(r) /\ r.row = routine[w].row /\ r.event = NoEvent
  BY <1>0, UpdateCommandStep
<1>3. routine'[w] = r /\ \A h \in Goroutines \ {w} : routine'[h] = routine[h]
  BY <1>0, <1>2, RoutineKept
<1>4. UNCHANGED <<queue, events, sent>> /\ lost \subseteq lost'
  BY <1>0, UpdateCommandStep DEF server
<1>b. PICK k \in UUIDs : k = e.uuid
  BY <1>1 DEF Answers
<1>5. e.uuid \in UUIDs /\ e.uuid \in Keys /\ commands \in [Keys -> Statuses]
  BY <1>1, KeysTyped DEF Answers, TypeInv, TypeOK
<1>6. \/ /\ commands' = [commands EXCEPT ![k] = IF commands[k] = "absent"
                                                       THEN commands[k] ELSE e.kind]
         /\ commands[k] = "absent" => Answered(e) \subseteq lost'
      \/ commands' = commands /\ Answered(e) \subseteq lost'
  BY <1>1, <1>5, <1>b DEF UpdateCommand
<1>7. OrderInv' /\ \A u \in UUIDs : Open(u)' => Open(u)
  BY <1>0, <1>2, <1>3, <1>4, QuietOrder
<1>8. \A g \in Goroutines : routine'[g].row = routine[g].row
  BY <1>2, <1>3
<1>9. Open(k) /\ Sound(k)
  BY <1>1, <1>5, <1>b, OpenShape DEF TableInv
<1>10. ASSUME NEW u \in UUIDs, u # k PROVE Sound(u)'
  <2>1. Open(u) => Open(u)'
    <3>1. ASSUME NEW v \in Workers, routine[v].event.uuid = u PROVE routine'[v].event.uuid = u
      BY <1>0, <1>1, <1>3, <1>10, <1>b, <3>1
    <3> QED BY <1>4, <3>1 DEF Open, Queued
  <2>2. commands'[u] = commands[u]
    BY <1>5, <1>6, <1>10, <1>b, KeysTyped
  <2> QED BY <1>4, <1>7, <1>8, <2>1, <2>2, SoundKept DEF TableInv
<1>11. CASE e.kind \in Final
  <2>1. ~Open(k)'
    <3>1. k \notin Queued /\ ~InEvents(k)
      BY <1>1, <1>11, <1>b DEF OrderInv, InOrder
    <3>2. k \notin Queued' /\ ~(\E i \in DOMAIN events' : events'[i].uuid = k)
      BY <1>4, <3>1 DEF Queued, InEvents
    <3>3. ASSUME NEW v \in Workers, routine'[v].event.uuid = k PROVE FALSE
      <4>1. v # w
        BY <1>0, <1>2, <1>3, <1>5, <3>3, KeysTyped DEF NoEvent
      <4>2. routine[v].event.uuid = e.uuid
        BY <1>0, <1>3, <1>b, <3>3, <4>1
      <4>3. routine[v].event.kind \in Final \cup {"NotNow"}
        BY <1>5, <4>2, EventTyped, EventShape DEF Answers
      <4> QED BY <1>1, <1>11, <4>1, <4>2, <4>3 DEF InTurn, OrderInv, OneHandler
    <3> QED BY <3>2, <3>3 DEF Open, Queued
  <2>2. k \in Answered(e)
    BY <1>11, <1>b DEF Answered
  <2>3. ASSUME k \in lost', commands'[k] = commands[k] PROVE Sound(k)'
    BY <1>4, <1>5, <1>7, <1>8, <1>9, <2>3, SoundKept
  <2>4. ASSUME commands[k] # "absent", commands'[k] = e.kind PROVE Sound(k)'
    <3>1. \A g \in Goroutines : k \notin routine'[g].row
      BY <1>8, <1>9, <2>4 DEF Sound
    <3>2. e.kind \notin Waiting
      BY <1>11 DEF Final, Waiting
    <3>3. ~(k > sent)
      BY <1>9 DEF Sound
    <3> QED BY <1>4, <2>1, <2>4, <3>1, <3>2, <3>3 DEF Sound
  <2>5. Sound(k)'
    BY <1>5, <1>6, <1>b, <2>2, <2>3, <2>4
  <2>6. \A u \in UUIDs : Sound(u)'
    BY <1>1, <1>10, <2>5 DEF Sound, Open, Queued
  <2> QED BY <1>7, <2>6 DEF TableInv
<1>12. CASE e.kind = "NotNow"
  <2>1. Open(k)' \/ k \in lost'
    <3>1. k \in Queued \cup lost \/ InEvents(k)
      BY <1>1, <1>12, <1>b DEF OrderInv, InOrder
    <3> QED BY <1>4, <3>1 DEF Open, Queued, InEvents
  <2>2. ASSUME commands'[k] = commands[k] PROVE Sound(k)'
    BY <1>4, <1>5, <1>7, <1>8, <1>9, <2>1, <2>2, SoundKept
  <2>3. ASSUME commands[k] # "absent", commands'[k] = "NotNow" PROVE Sound(k)'
    <3>1. \A g \in Goroutines : k \notin routine'[g].row
      BY <1>8, <1>9, <2>3 DEF Sound
    <3>2. ~(k > sent)
      BY <1>9 DEF Sound
    <3>3. "NotNow" \notin Final
      BY DEF Final
    <3> QED BY <1>4, <2>1, <2>3, <3>1, <3>2, <3>3 DEF Sound
  <2>4. Sound(k)'
    BY <1>5, <1>6, <1>12, <1>b, <2>2, <2>3
  <2>5. \A u \in UUIDs : Sound(u)'
    BY <1>1, <1>10, <2>4 DEF Sound, Open, Queued
  <2> QED BY <1>7, <2>5 DEF TableInv
<1> QED BY <1>1, <1>11, <1>12 DEF Answers

LEMMA CreateRowOrder ==
    ASSUME TypeInv, OrderInv, TableInv, NEW g \in Goroutines, CreateRow(g)
    PROVE  OrderInv' /\ TableInv'
<1>1. PICK r \in Routines : Step(g, r) /\ Shape(r) /\ r.event = routine[g].event /\ r.row = {}
  BY CreateRowStep
<1>2. routine'[g] = r /\ \A h \in Goroutines \ {g} : routine'[h] = routine[h]
  BY <1>1, RoutineKept
<1>3. UNCHANGED <<queue, events, sent, lost>>
  BY CreateRowStep DEF server
<1>4. \A w \in Workers : routine'[w].event = routine[w].event
  BY <1>1, <1>2 DEF Goroutines
<1>5. OrderInv' /\ \A u \in UUIDs : Open(u)' => Open(u)
  BY <1>3, <1>4, QuietOrder
<1>6. \A u \in UUIDs : Open(u) => Open(u)'
  BY <1>3, <1>4 DEF Open, Queued
<1>7. \A h \in Goroutines : \A u \in routine'[h].row : u \in routine[h].row /\ h # g
  BY <1>1, <1>2
<1>8. ASSUME NEW u \in UUIDs PROVE Sound(u)'
  <2>1. Sound(u)
    BY DEF TableInv
  <2>2. CASE commands'[u] = commands[u]
    BY <1>3, <1>5, <1>6, <1>7, <2>1, <2>2, SoundKept
  <2>3. CASE u \in routine[g].row /\ commands[u] = "absent" /\ commands'[u] = "sent"
    <3>1. \A h \in Goroutines : u \notin routine'[h].row
      BY <1>7, <2>1, <2>3 DEF Sound
    <3>2. ~(u > sent) /\ (Open(u) \/ u \in lost)
      BY <2>1, <2>3 DEF Sound
    <3>3. "sent" \notin Final
      BY DEF Final
    <3> QED BY <1>3, <1>6, <2>3, <3>1, <3>2, <3>3 DEF Sound
  <2> QED BY <2>2, <2>3, CreateRowStep, KeysTyped
<1> QED BY <1>5, <1>8 DEF TableInv

LEMMA SendCommandOrder ==
    ASSUME TypeInv, OrderInv, TableInv, NEW g \in Goroutines, SendCommand(g)
    PROVE  OrderInv' /\ TableInv'
<1>1. PICK ks \in {{}} \cup {{k} : k \in Keys} :
        LET r == [routine[g] EXCEPT !.row = ks] IN
        /\ r \in Routines /\ Shape(r) /\ Step(g, r)
        /\ r.event = routine[g].event /\ r.row = ks
        /\ \/ UNCHANGED <<queue, sent>> /\ ks = {NoUUID}
           \/ /\ sent + 1 \in UUIDs /\ sent' = sent + 1 /\ queue' = Append(queue, sent + 1)
              /\ ks \in {{}, {sent + 1}}
  BY SendCommandStep
<1>2. PICK r \in Routines : /\ Shape(r) /\ Step(g, r)
                            /\ r.event = routine[g].event /\ r.row = ks
  BY <1>1
<1>3. routine'[g] = r /\ \A h \in Goroutines \ {g} : routine'[h] = routine[h]
  BY <1>2, RoutineKept
<1>4. UNCHANGED <<commands, events, lost>>
  BY SendCommandStep
<1>5. \A w \in Workers : routine'[w].event = routine[w].event
  BY <1>2, <1>3 DEF Goroutines
<1>6. CASE UNCHANGED <<queue, sent>> /\ ks = {NoUUID}
  <2>1. \A h \in Goroutines : \A u \in UUIDs : u \in routine'[h].row => u \in routine[h].row
    BY <1>2, <1>3, <1>6, KeysTyped
  <2>2. OrderInv' /\ \A u \in UUIDs : Open(u)' => Open(u)
    BY <1>4, <1>5, <1>6, QuietOrder
  <2>3. \A u \in UUIDs : Open(u) => Open(u)'
    BY <1>4, <1>5, <1>6 DEF Open, Queued
  <2>4. \A u \in UUIDs : Sound(u)'
    BY <1>4, <1>6, <2>1, <2>2, <2>3, SoundKept DEF TableInv
  <2> QED BY <2>2, <2>4 DEF TableInv
<1>7. CASE sent + 1 \in UUIDs /\ sent' = sent + 1 /\ queue' = Append(queue, sent + 1)
           /\ ks \in {{}, {sent + 1}}
  <2>1. PICK n \in UUIDs : n = sent + 1
    BY <1>7
  <2>2. sent \in Nat /\ n > sent /\ \A u \in UUIDs : u > sent' => u > sent /\ u # n
    BY <1>7, <2>1 DEF TypeInv, TypeOK, UUIDs
  <2>3. commands[n] = "absent" /\ ~Open(n) /\ \A h \in Goroutines : n \notin routine[h].row
    BY <2>2 DEF TableInv, Sound
  <2>4. queue \in Seq(UUIDs) /\ Elements(queue) = Queued /\ n \notin Queued
    BY <2>3 DEF TypeInv, TypeOK, Elements, Queued, Open
  <2>5. Distinct(queue)' /\ Queued' = Queued \cup {n}
    <3>1. Elements(queue') = Elements(queue) \cup {n} /\ Distinct(queue')
      BY <1>7, <2>1, <2>4, AppendElements DEF OrderInv
    <3> QED BY <2>4, <3>1 DEF Elements, Queued, Distinct
  <2>6. \A i \in DOMAIN events : events[i].uuid # n
    BY <2>3 DEF Open
  <2>7. EventOrder'
    BY <1>4, <2>5, <2>6 DEF OrderInv, EventOrder
  <2>8. \A w \in Workers : InOrder(routine[w].event)'
    <3> SUFFICES ASSUME NEW w \in Workers PROVE InOrder(routine[w].event)'
      OBVIOUS
    <3>1. routine[w].event.uuid # n /\ InOrder(routine[w].event) /\ routine'[w].event = routine[w].event
      BY <1>5, <2>3 DEF Open, OrderInv
    <3> QED BY <1>4, <2>5, <3>1 DEF InOrder, InEvents
  <2>9. OrderInv'
    <3>1. OneHandler'
      BY <1>5 DEF OrderInv, OneHandler
    <3> QED BY <2>5, <2>7, <2>8, <3>1 DEF OrderInv
  <2>10. \A u \in UUIDs : Open(u)' <=> Open(u) \/ u = n
    BY <1>4, <1>5, <2>5 DEF Open, InEvents
  <2>11. ASSUME NEW u \in UUIDs, u # n PROVE Sound(u)'
    <3>1. \A h \in Goroutines : u \in routine'[h].row <=> u \in routine[h].row
      <4>1. routine[g].row = {}
        BY DEF SendCommand, MaySend
      <4> QED BY <1>2, <1>3, <1>7, <2>1, <2>11, <4>1
    <3>2. Open(u)' <=> Open(u)
      BY <2>10, <2>11
    <3>3. u > sent' => u > sent
      BY <2>2
    <3> QED BY <1>4, <3>1, <3>2, <3>3 DEF TableInv, Sound
  <2>12. Sound(n)'
    <3>1. \A h \in Goroutines : n \in routine'[h].row => h = g
      BY <1>3, <2>3
    <3>2. Open(n)' /\ ~(n > sent') /\ commands'[n] = "absent"
      BY <1>4, <2>2, <2>3, <2>10
    <3> QED BY <3>1, <3>2 DEF Sound, Final
  <2>13. \A u \in UUIDs : Sound(u)'
    BY <2>11, <2>12 DEF Sound, Open, Queued
  <2> QED BY <2>9, <2>13 DEF TableInv
<1> QED BY <1>1, <1>6, <1>7

LEMMA ClearQueueOrder ==
    ASSUME TypeInv, OrderInv, TableInv, ClearCommandQueue
    PROVE  OrderInv' /\ TableInv'
<1>1. /\ UNCHANGED <<commands, routine, events, sent>>
      /\ queue' = <<>> /\ lost' = lost \cup Queued
  BY DEF ClearCommandQueue
<1>2. Queued' = {} /\ Distinct(queue)'
  BY <1>1 DEF Queued, Distinct
<1>3. EventOrder'
  BY <1>1, <1>2 DEF OrderInv, EventOrder
<1>4. \A w \in Workers : InOrder(routine[w].event)'
  BY <1>1, <1>2 DEF OrderInv, InOrder, InEvents
<1>5. \A u \in UUIDs : (Open(u)' => Open(u)) /\ (Open(u) => Open(u)' \/ u \in lost')
  BY <1>1, <1>2 DEF Open, Queued
<1>6. \A u \in UUIDs : Sound(u)'
  BY <1>1, <1>5, SoundKept DEF TableInv
<1>7. OneHandler'
  BY <1>1 DEF OrderInv, OneHandler
<1> QED BY <1>2, <1>3, <1>4, <1>6, <1>7 DEF OrderInv, TableInv

\* What a new event does to those before it: it may be another answer to the same command,
\* if that was put off, and is not in the queue then.
LEMMA PostOrder ==
    ASSUME TypeInv, OrderInv, NEW e \in Events, events' = Append(events, e),
           UNCHANGED <<routine, lost>>,
           e.uuid \in UUIDs => e.uuid \in Queued,
           Queued' \subseteq Queued, \A u \in Queued : u \in Queued' \/ u = e.uuid,
           e.kind \in Final => e.uuid \notin Queued',
           e.kind = "NotNow" => e.uuid \in Queued'
    PROVE  EventOrder' /\ \A w \in Workers : InOrder(routine[w].event)'
<1>1. PICK n \in Nat :
        /\ n \notin DOMAIN events /\ DOMAIN events' = DOMAIN events \cup {n}
        /\ DOMAIN events \subseteq Nat
        /\ events'[n] = e
        /\ \A i \in DOMAIN events : events'[i] = events[i] /\ i < n
  BY AppendShape DEF TypeInv, TypeOK
<1>2. \A u : InEvents(u)' <=> InEvents(u) \/ u = e.uuid
  BY <1>1 DEF InEvents
<1>3. ASSUME NEW i \in DOMAIN events
      PROVE  /\ events'[i].kind \in Final =>
                  /\ events'[i].uuid \notin Queued'
                  /\ \A j \in DOMAIN events' : j > i => events'[j].uuid # events'[i].uuid
             /\ events'[i].kind = "NotNow" =>
                  \/ events'[i].uuid \in Queued' \cup lost'
                  \/ \E j \in DOMAIN events' : j > i /\ events'[j].uuid = events'[i].uuid
  <2>1. events'[i] = events[i] /\ n > i /\ i \in Nat
    BY <1>1
  <2>2. events[i].kind \in Final \cup {"NotNow"} => events[i].uuid \in UUIDs
    BY EventTyped, EventShape DEF Answers
  <2>3. CASE events[i].kind \in Final
    <3>1. events[i].uuid \notin Queued /\ \A j \in DOMAIN events : j > i => events[j].uuid # events[i].uuid
      BY <2>3 DEF OrderInv, EventOrder
    <3>2. e.uuid # events[i].uuid
      BY <2>2, <2>3, <3>1
    <3>3. events[i].kind # "NotNow"
      BY <2>3 DEF Final
    <3> QED BY <1>1, <2>1, <3>1, <3>2, <3>3
  <2>4. CASE events[i].kind = "NotNow"
    <3>1. \/ events[i].uuid \in Queued \cup lost
          \/ \E j \in DOMAIN events : j > i /\ events[j].uuid = events[i].uuid
      BY <2>4 DEF OrderInv, EventOrder
    <3>2. events[i].kind \notin Final
      BY <2>4 DEF Final
    <3> QED BY <1>1, <2>1, <3>1, <3>2
  <2> QED BY <2>1, <2>3, <2>4
<1>4. /\ \A j \in DOMAIN events' : ~(j > n)
      /\ events'[n] = e
  BY <1>1
<1>5. EventOrder'
  BY <1>1, <1>3, <1>4 DEF EventOrder
<1>6. ASSUME NEW w \in Workers PROVE InOrder(routine[w].event)'
  <2>1. PICK f \in Events \cup {NoEvent} : f = routine[w].event /\ f = routine'[w].event
    BY EventTyped
  <2>2. f.kind \in Final \cup {"NotNow"} => f.uuid \in UUIDs
    BY EventShape DEF Answers
  <2>3. InOrder(f)
    BY <2>1 DEF OrderInv
  <2>4. InOrder(f)'
    BY <1>2, <2>2, <2>3 DEF InOrder
  <2> QED BY <2>1, <2>4 DEF InOrder
<1> QED BY <1>5, <1>6

LEMMA DeviceAnswersOrder ==
    ASSUME TypeInv, OrderInv, TableInv, DeviceAnswers
    PROVE  OrderInv' /\ TableInv'
<1>1. /\ queue \in Seq(UUIDs) /\ queue # <<>> /\ Distinct(queue)
      /\ UNCHANGED <<commands, routine, sent, lost>>
  BY DEF DeviceAnswers, TypeInv, TypeOK, OrderInv
<1>2. PICK u \in UUIDs : u = Head(queue)
  BY <1>1, TailElements
<1>3. /\ Tail(queue) \in Seq(UUIDs) /\ Elements(Tail(queue)) = Queued \ {u}
      /\ Distinct(Tail(queue)) /\ u \in Queued
  BY <1>1, <1>2, TailElements DEF Elements, Queued
<1>4. Append(Tail(queue), u) \in Seq(UUIDs) /\ Elements(Append(Tail(queue), u)) = Queued
      /\ Distinct(Append(Tail(queue), u))
  <2>1. PICK t \in Seq(UUIDs) : t = Tail(queue) /\ Distinct(t) /\ Elements(t) = Queued \ {u}
    BY <1>3
  <2>2. Append(t, u) \in Seq(UUIDs) /\ Elements(Append(t, u)) = Elements(t) \cup {u}
        /\ Distinct(Append(t, u))
    <3>1. u \notin Elements(t)
      BY <2>1
    <3> QED BY <2>1, <3>1, AppendElements
  <2> QED BY <1>3, <2>1, <2>2
<1>5. PICK kind \in {"NotNow"} \cup Final :
        /\ Post(kind, u)
        /\ \/ kind \in Final /\ queue' = Tail(queue)
           \/ kind = "NotNow" /\ queue' = Append(Tail(queue), u)
  BY <1>2 DEF DeviceAnswers
<1>6. PICK e \in Events : e.kind = kind /\ e.uuid = u /\ events' = Append(events, e)
  BY <1>2, <1>5 DEF Post, Events
<1>7. /\ Distinct(queue)'
      /\ Queued' = Elements(queue')
      /\ \/ kind \in Final /\ Queued' = Queued \ {u}
         \/ kind = "NotNow" /\ Queued' = Queued
  <2>1. Queued' = Elements(queue')
    BY DEF Queued, Elements
  <2> QED BY <1>3, <1>4, <1>5, <2>1 DEF Distinct
<1>8. EventOrder' /\ \A w \in Workers : InOrder(routine[w].event)'
  <2>1. kind \in Final => kind # "NotNow"
    BY DEF Final
  <2> QED BY <1>1, <1>3, <1>6, <1>7, <2>1, PostOrder
<1>9. \A v \in UUIDs : Open(v)' <=> Open(v)
  <2>1. \A v : InEvents(v)' <=> InEvents(v) \/ v = u
    <3>1. events \in Seq(Events)
      BY DEF TypeInv, TypeOK
    <3>2. PICK n \in Nat : /\ DOMAIN events' = DOMAIN events \cup {n} /\ n \notin DOMAIN events
                           /\ events'[n] = e
                           /\ \A i \in DOMAIN events : events'[i] = events[i]
      BY <1>6, <3>1, AppendShape
    <3> QED BY <1>6, <3>2 DEF InEvents
  <2>2. \A v \in UUIDs :
          Open(v)' <=> \/ v \in Queued' \/ InEvents(v)'
                       \/ \E w \in Workers : routine[w].event.uuid = v
    BY <1>1 DEF Open, InEvents
  <2> QED BY <1>3, <1>7, <2>1, <2>2, OpenShape
<1>10. \A v \in UUIDs : Sound(v)'
  BY <1>1, <1>9, SoundKept DEF TableInv
<1>11. OneHandler'
  BY <1>1 DEF OrderInv, OneHandler
<1> QED BY <1>7, <1>8, <1>10, <1>11 DEF OrderInv, TableInv

LEMMA DeviceConnectsOrder ==
    ASSUME TypeInv, OrderInv, TableInv, DeviceConnects
    PROVE  OrderInv' /\ TableInv'
<1>1. UNCHANGED <<commands, routine, queue, sent, lost>>
  BY DEF DeviceConnects
<1>2. PICK kind \in {"Authenticate", "TokenUpdate", "Idle"} : Post(kind, NoUUID)
  BY DEF DeviceConnects
<1>3. PICK e \in Events : e.kind = kind /\ e.uuid = NoUUID /\ events' = Append(events, e)
  BY <1>2 DEF Post, Events
<1>4. Queued' = Queued /\ Distinct(queue)'
  BY <1>1 DEF Queued, OrderInv, Distinct
<1>5. kind \notin Final /\ kind # "NotNow"
  BY <1>2 DEF Final
<1>6. EventOrder' /\ \A w \in Workers : InOrder(routine[w].event)'
  BY <1>1, <1>3, <1>4, <1>5, KeysTyped, PostOrder
<1>7. \A v \in UUIDs : Open(v)' <=> Open(v)
  <2>1. \A v \in UUIDs : InEvents(v)' <=> InEvents(v)
    <3>1. events \in Seq(Events)
      BY DEF TypeInv, TypeOK
    <3>2. PICK n \in Nat : /\ DOMAIN events' = DOMAIN events \cup {n} /\ n \notin DOMAIN events
                           /\ events'[n] = e
                           /\ \A i \in DOMAIN events : events'[i] = events[i]
      BY <1>3, <3>1, AppendShape
    <3> QED BY <1>3, <3>2, KeysTyped DEF InEvents
  <2>2. \A v \in UUIDs :
          Open(v)' <=> \/ v \in Queued' \/ InEvents(v)'
                       \/ \E w \in Workers : routine[w].event.uuid = v
    BY <1>1 DEF Open, InEvents
  <2> QED BY <1>4, <2>1, <2>2, OpenShape
<1>8. \A v \in UUIDs : Sound(v)'
  BY <1>1, <1>7, SoundKept DEF TableInv
<1>9. OneHandler'
  BY <1>1 DEF OrderInv, OneHandler
<1> QED BY <1>4, <1>6, <1>8, <1>9 DEF OrderInv, TableInv

-----------------------------------------------------------------------------
(* The invariant, and what follows.                                         *)

LEMMA InitOrder == ASSUME Init PROVE OrderInv /\ TableInv
<1>1. Distinct(queue) /\ EventOrder
  BY DEF Init, Distinct, EventOrder
<1>2. \A w \in Workers : routine[w].event = NoEvent
  BY DEF Init, NoRoutine, Goroutines
<1>3. \A w \in Workers : InOrder(routine[w].event)
  <2>1. NoEvent.kind = "none"
    BY DEF NoEvent
  <2>2. NoEvent.kind \notin Final /\ NoEvent.kind # "NotNow"
    BY <2>1 DEF Final
  <2>3. InOrder(NoEvent)
    BY <2>2 DEF InOrder
  <2> QED BY <1>2, <2>3
<1>4. \A u \in UUIDs : ~Open(u)
  BY <1>2, KeysTyped DEF Init, Open, Queued, NoEvent
<1>5. \A u \in UUIDs : commands[u] = "absent"
  BY KeysTyped DEF Init
<1>6. \A g \in Goroutines : routine[g].row = {}
  BY DEF Init, NoRoutine
<1>7. \A u \in UUIDs : Sound(u)
  BY <1>4, <1>5, <1>6 DEF Sound, Final, Waiting
<1>8. OneHandler
  <2>1. NoEvent.kind \notin Final
    BY DEF NoEvent, Final
  <2> QED BY <1>2, <2>1 DEF OneHandler
<1> QED BY <1>1, <1>3, <1>7, <1>8 DEF OrderInv, TableInv

LEMMA OrderStep ==
    ASSUME InTurn, InTurn', TypeInv, OrderInv, TableInv, [Next]_vars
    PROVE  OrderInv' /\ TableInv'
<1>T. commands \in [Keys -> Statuses] /\ commands[NoUUID] \in {"absent", "sent"}
  BY DEF TypeInv, TypeOK
<1>W. Workers \subseteq Goroutines
  BY DEF Goroutines
<1>1. CASE UNCHANGED vars
  BY <1>1, QuietStep DEF vars, server
<1>2. ASSUME NEW w \in Workers, Receive(w) PROVE OrderInv' /\ TableInv'
  BY <1>2, ReceiveOrder
<1>3. ASSUME NEW w \in Workers, ClearCommands(w) PROVE OrderInv' /\ TableInv'
  <2>1. \A u \in UUIDs : commands'[u] \in {commands[u], "absent"}
    BY <1>3, <1>T, DeleteTyped, KeysTyped DEF ClearCommands
  <2> QED BY <1>3, <1>W, <2>1, ClearCommandsStep, HandledOrder DEF ClearCommands
<1>4. ASSUME NEW w \in Workers, ResetDevice(w) PROVE OrderInv' /\ TableInv'
  BY <1>4, <1>W, ResetDeviceStep, HandledOrder DEF ResetDevice
<1>5. ASSUME NEW w \in Workers, SetTokenUpdate(w) PROVE OrderInv' /\ TableInv'
  BY <1>5, <1>W, SetTokenUpdateStep, HandledOrder DEF SetTokenUpdate
<1>6. ASSUME NEW w \in Workers, UpdateDevice(w) PROVE OrderInv' /\ TableInv'
  BY <1>6, <1>W, UpdateDeviceStep, HandledOrder DEF UpdateDevice
<1>7. ASSUME NEW w \in Workers, FinishTasks(w) PROVE OrderInv' /\ TableInv'
  BY <1>7, <1>W, FinishTasksStep, HandledOrder DEF FinishTasks
<1>8. ASSUME NEW w \in Workers, UpdateCommand(w) PROVE OrderInv' /\ TableInv'
  BY <1>8, UpdateCommandOrder
<1>9. ASSUME NEW w \in Workers, Respond(w) PROVE OrderInv' /\ TableInv'
  BY <1>9, <1>W, FinishTasksStep, HandledOrder DEF Respond
<1>10. ASSUME NEW g \in Goroutines, SendCommand(g) PROVE OrderInv' /\ TableInv'
  BY <1>10, SendCommandOrder
<1>11. ASSUME NEW g \in Goroutines, CreateRow(g) PROVE OrderInv' /\ TableInv'
  BY <1>11, CreateRowOrder
<1>12. CASE SelectPending
  BY <1>12, QuietStep DEF SelectPending, server
<1>13. CASE DeletePending
  <2>1. \A u \in UUIDs : commands'[u] \in {commands[u], "absent"}
    BY <1>13, <1>T, DeleteTyped, KeysTyped DEF DeletePending
  <2> QED BY <1>13, <2>1, QuietStep DEF DeletePending, server
<1>14. CASE ClearCommandQueue
  BY <1>14, ClearQueueOrder
<1>15. CASE DeviceAnswers
  BY <1>15, DeviceAnswersOrder
<1>16. CASE DeviceConnects
  BY <1>16, DeviceConnectsOrder
<1>17. CASE Crash
  <2>1. \A w \in Workers : routine'[w].event = NoEvent /\ Answered(routine[w].event) \subseteq lost'
    BY <1>17, <1>W DEF Crash, NoRoutine
  <2>2. \A g \in Goroutines : routine'[g].row = {}
    BY <1>17 DEF Crash, NoRoutine
  <2> QED BY <1>17, <2>1, <2>2, QuietStep DEF Crash, server
<1> QED
  BY <1>1, <1>2, <1>3, <1>4, <1>5, <1>6, <1>7, <1>8, <1>9, <1>10, <1>11, <1>12, <1>13,
     <1>14, <1>15, <1>16, <1>17 DEF Next, Serve

LEMMA OrderInvariant == Spec /\ []InTurn => [](TypeInv /\ OrderInv /\ TableInv)
<1>1. Init => TypeInv /\ OrderInv /\ TableInv
  BY InitTypes, InitOrder
<1>2. TypeInv /\ OrderInv /\ TableInv /\ InTurn /\ InTurn' /\ [Next]_vars
        => (TypeInv /\ OrderInv /\ TableInv)'
  BY TypesStep, OrderStep
<1> QED
  BY <1>1, <1>2, PTL DEF Spec

\* With any number of goroutines, as long as no answer is handled while the one that had
\* put its command off still is, a pending row stands for a command that will be answered,
\* or whose answer was lost in one of the five ways.
THEOREM PendingStaysOpen == Spec /\ []InTurn => []PendingIsOpen
<1>1. TableInv => PendingIsOpen
  BY DEF TableInv, Sound, PendingIsOpen, Pending
<1> QED
  BY <1>1, OrderInvariant, PTL

\* Calls that are handled one by one do not overtake each other.
LEMMA OneByOneIsInTurn == ASSUME \A v, w \in Workers : v = w PROVE Spec => []InTurn
<1>1. InTurn
  BY DEF InTurn, Final
<1> QED
  BY <1>1, PTL

-----------------------------------------------------------------------------
(* The refinement.                                                          *)

\* A step that forgets commands, or none.
LEMMA Forgetting ==
    ASSUME \A u \in UUIDs : \/ Phase(u)' = Phase(u)
                            \/ Phase(u) \in {"new", "pending", "rejected"} /\ Phase(u)' = "forgotten"
    PROVE  [Promise!Next]_phase
<1>1. PICK us \in SUBSET UUIDs : us = {u \in UUIDs : Phase(u)' # Phase(u)}
  OBVIOUS
<1>2. Promise!Forget(us)
  BY <1>1 DEF Promise!Forget, Promise!Become, phase, Phase
<1> QED BY <1>2 DEF Promise!Next

\* A step that sends nothing, and at most deletes rows whose answer is not to be kept and
\* gives up making others.
LEMMA QuietPhase ==
    ASSUME TypeInv, TableInv, UNCHANGED sent,
           \A u \in UUIDs : \/ commands'[u] = commands[u]
                            \/ commands[u] \notin Recorded /\ commands'[u] = "absent",
           \A g \in Goroutines : \A u \in UUIDs : u \in routine'[g].row => u \in routine[g].row
    PROVE  [Promise!Next]_phase
<1> SUFFICES ASSUME NEW u \in UUIDs
             PROVE  \/ Phase(u)' = Phase(u)
                    \/ Phase(u) \in {"new", "pending", "rejected"} /\ Phase(u)' = "forgotten"
  BY Forgetting
<1>1. Sound(u) /\ commands[u] \in Statuses
  BY KeysTyped DEF TableInv, TypeInv, TypeOK
<1>2. "absent" \notin Waiting /\ "absent" \notin Final /\ "absent" \notin Recorded
  BY DEF Waiting, Final, Recorded
<1>3. CASE commands'[u] = commands[u]
  BY <1>3 DEF Phase
<1>4. CASE commands[u] \in Waiting /\ commands'[u] = "absent"
  <2>1. ~(u > sent) /\ \A g \in Goroutines : u \notin routine'[g].row
    BY <1>1, <1>2, <1>4 DEF Sound
  <2> QED BY <1>2, <1>4, <2>1 DEF Phase
<1>5. CASE commands[u] \in Final \ Recorded /\ commands'[u] = "absent"
  <2>1. commands[u] \notin Waiting
    BY <1>5 DEF Final, Waiting
  <2>2. ~(u > sent) /\ \A g \in Goroutines : u \notin routine'[g].row
    BY <1>1, <1>2, <1>5 DEF Sound
  <2> QED BY <1>2, <1>5, <2>1, <2>2 DEF Phase
<1> QED BY <1>1, <1>3, <1>4, <1>5 DEF Statuses

LEMMA PromiseStep ==
    ASSUME TypeInv, OrderInv, TableInv, [Next]_vars
    PROVE  [Promise!Next]_phase
<1>T. commands \in [Keys -> Statuses] /\ commands[NoUUID] \in {"absent", "sent"}
  BY DEF TypeInv, TypeOK
<1>W. Workers \subseteq Goroutines
  BY DEF Goroutines
<1>1. CASE UNCHANGED vars
  BY <1>1, QuietPhase DEF vars, server
\* A step of the handler, but for UpdateCommand: no row it deletes has an answer to be kept.
<1>2. ASSUME NEW w \in Workers, Handled(w),
             \A u \in UUIDs : \/ commands'[u] = commands[u]
                              \/ commands[u] \notin Recorded /\ commands'[u] = "absent"
      PROVE  [Promise!Next]_phase
  <2>1. \A g \in Goroutines : routine'[g].row = routine[g].row
    BY <1>2, <1>W, RoutineKept DEF Handled
  <2> QED BY <1>2, <2>1, QuietPhase DEF Handled, server
<1>3. ASSUME NEW w \in Workers, Receive(w) PROVE [Promise!Next]_phase
  <2>1. \A g \in Goroutines : routine'[g].row = routine[g].row
    BY <1>3, <1>W, ReceiveStep, RoutineKept
  <2> QED BY <1>3, <1>W, <2>1, ReceiveStep, QuietPhase
<1>4. ASSUME NEW w \in Workers, ClearCommands(w) PROVE [Promise!Next]_phase
  <2>1. \A u \in UUIDs : \/ commands'[u] = commands[u]
                         \/ commands[u] \notin Recorded /\ commands'[u] = "absent"
    BY <1>4, <1>T, DeleteTyped, KeysTyped DEF ClearCommands
  <2> QED BY <1>2, <1>4, <1>W, <2>1, ClearCommandsStep
<1>5. ASSUME NEW w \in Workers, ResetDevice(w) \/ SetTokenUpdate(w)
      PROVE  [Promise!Next]_phase
  BY <1>2, <1>5, <1>W, ResetDeviceStep, SetTokenUpdateStep DEF ResetDevice, SetTokenUpdate
<1>6. ASSUME NEW w \in Workers, UpdateDevice(w) PROVE [Promise!Next]_phase
  BY <1>2, <1>6, <1>W, UpdateDeviceStep DEF UpdateDevice
<1>7. ASSUME NEW w \in Workers, FinishTasks(w) \/ Respond(w)
      PROVE  [Promise!Next]_phase
  BY <1>2, <1>7, <1>W, FinishTasksStep DEF FinishTasks, Respond
<1>8. ASSUME NEW w \in Workers, UpdateCommand(w) PROVE [Promise!Next]_phase
  <2>1. PICK e \in Answers : e = routine[w].event
    BY <1>8, <1>W, UpdateCommandStep
  <2>2. PICK k \in UUIDs : k = e.uuid
    BY <2>1 DEF Answers
  <2>3. Open(k) /\ Sound(k) /\ k \in Keys
    BY <2>1, <2>2, KeysTyped, OpenShape DEF TableInv
  <2>4. commands[k] \notin Final
    BY <2>3 DEF Sound
  <2>5. \/ commands' = [commands EXCEPT ![k] = IF commands[k] = "absent" THEN commands[k] ELSE e.kind]
        \/ commands' = commands
    BY <1>8, <1>T, <2>1, <2>2, <2>3 DEF UpdateCommand
  <2>6. UNCHANGED sent /\ \A g \in Goroutines : routine'[g].row = routine[g].row
    BY <1>8, <1>W, UpdateCommandStep, RoutineKept DEF server
  <2>7. CASE commands' = commands
    BY <2>6, <2>7, QuietPhase
  <2>8. CASE commands[k] # "absent" /\ commands' = [commands EXCEPT ![k] = e.kind]
    <3>1. commands[k] \in Waiting /\ commands'[k] = e.kind
      BY <1>T, <2>3, <2>4, <2>8 DEF Statuses
    <3>2. \A u \in UUIDs \ {k} : commands'[u] = commands[u]
      BY <1>T, <2>8, KeysTyped
    <3>3. \A u \in UUIDs \ {k} : Phase(u)' = Phase(u)
      BY <2>6, <3>2 DEF Phase
    <3>4. Phase(k) = "pending"
      BY <3>1 DEF Phase
    <3>5. CASE e.kind \in Final
      <4>1. e.kind \notin Waiting
        BY <3>5 DEF Final, Waiting
      <4>2. Phase(k)' \in {"finished", "rejected"}
        BY <3>1, <3>5, <4>1 DEF Phase
      <4>3. Promise!Finish(k) \/ Promise!Reject(k)
        BY <3>3, <3>4, <4>2
        DEF Promise!Finish, Promise!Reject, Promise!Become, phase, Phase
      <4> QED BY <4>3 DEF Promise!Next
    <3>6. CASE e.kind = "NotNow"
      <4>1. Phase(k)' = "pending"
        BY <3>1, <3>6 DEF Phase, Waiting
      <4> QED BY <3>3, <3>4, <4>1, Forgetting
    <3> QED BY <2>1, <3>5, <3>6 DEF Answers
  <2> QED BY <1>T, <2>3, <2>5, <2>7, <2>8
<1>9. ASSUME NEW g \in Goroutines, SendCommand(g) PROVE [Promise!Next]_phase
  <2>1. PICK ks \in {{}} \cup {{k} : k \in Keys}, r \in Routines :
          /\ Shape(r) /\ Step(g, r) /\ r.row = ks
          /\ \/ UNCHANGED <<queue, sent>> /\ ks = {NoUUID}
             \/ sent + 1 \in UUIDs /\ sent' = sent + 1 /\ ks \in {{}, {sent + 1}}
    BY <1>9, SendCommandStep
  <2>2. routine'[g] = r /\ \A h \in Goroutines \ {g} : routine'[h] = routine[h]
    BY <2>1, RoutineKept
  <2>3. UNCHANGED commands
    BY <1>9, SendCommandStep
  <2>4. CASE UNCHANGED sent /\ ks = {NoUUID}
    BY <2>1, <2>2, <2>3, <2>4, KeysTyped, QuietPhase
  <2>5. CASE sent + 1 \in UUIDs /\ sent' = sent + 1 /\ ks \in {{}, {sent + 1}}
    <3>1. PICK n \in UUIDs : n = sent + 1
      BY <2>5
    <3>2. n > sent /\ ~(n > sent') /\ \A u \in UUIDs \ {n} : u > sent' <=> u > sent
      BY <2>5, <3>1 DEF TypeInv, TypeOK, UUIDs
    <3>3. commands[n] = "absent" /\ "absent" \notin Waiting \cup Final \cup Recorded
      BY <3>2 DEF TableInv, Sound, Waiting, Final, Recorded
    <3>4. Phase(n) = "new" /\ Phase(n)' \in {"new", "forgotten"}
      BY <2>3, <3>2, <3>3 DEF Phase
    <3>5. routine[g].row = {}
      BY <1>9 DEF SendCommand, MaySend
    <3>6. \A u \in UUIDs \ {n} : \A h \in Goroutines : u \in routine'[h].row <=> u \in routine[h].row
      BY <2>1, <2>2, <2>5, <3>1, <3>5
    <3>7. \A u \in UUIDs \ {n} : Phase(u)' = Phase(u)
      BY <2>3, <3>2, <3>6 DEF Phase
    <3> QED BY <3>4, <3>7, Forgetting
  <2> QED BY <2>1, <2>4, <2>5
<1>10. ASSUME NEW g \in Goroutines, CreateRow(g) PROVE [Promise!Next]_phase
  <2>1. PICK r \in Routines : Step(g, r) /\ Shape(r) /\ r.row = {}
    BY <1>10, CreateRowStep
  <2>2. routine'[g] = r /\ \A h \in Goroutines \ {g} : routine'[h] = routine[h]
    BY <2>1, RoutineKept
  <2>3. UNCHANGED sent
    BY <1>10, CreateRowStep DEF server
  <2>4. \A h \in Goroutines : \A u \in UUIDs : u \in routine'[h].row => u \in routine[h].row
    BY <2>1, <2>2
  <2>5. CASE \A u \in UUIDs : commands'[u] = commands[u]
    BY <2>3, <2>4, <2>5, QuietPhase
  <2>6. ASSUME NEW k \in UUIDs, commands'[k] # commands[k] PROVE [Promise!Next]_phase
    <3>1. k \in routine[g].row /\ commands[k] = "absent" /\ commands'[k] = "sent"
      BY <1>10, <2>6, CreateRowStep, KeysTyped
    <3>2. routine[g].row = {k}
      BY <3>1 DEF TypeInv, TypeOK, Routines
    <3>3. \A u \in UUIDs \ {k} : /\ commands'[u] = commands[u]
                                 /\ \A h \in Goroutines : u \in routine'[h].row <=> u \in routine[h].row
      BY <1>10, <2>1, <2>2, <3>2, CreateRowStep, KeysTyped
    <3>4. \A u \in UUIDs \ {k} : Phase(u)' = Phase(u)
      BY <2>3, <3>3 DEF Phase
    <3>5. Phase(k) = "new" /\ Phase(k)' = "pending"
      BY <3>1 DEF Phase, Waiting, Final, Recorded
    <3>6. Promise!Record(k)
      BY <3>4, <3>5 DEF Promise!Record, Promise!Become, phase, Phase
    <3> QED BY <3>6 DEF Promise!Next
  <2> QED BY <2>5, <2>6
<1>11. CASE SelectPending
  BY <1>11, QuietPhase DEF SelectPending, server
<1>12. CASE DeletePending
  <2>1. \A u \in UUIDs : \/ commands'[u] = commands[u]
                         \/ commands[u] \notin Recorded /\ commands'[u] = "absent"
    <3>1. \A u \in Pending : commands[u] \notin Recorded
      BY DEF Pending, Waiting, Recorded
    <3> QED BY <1>12, <1>T, <3>1, DeleteTyped, KeysTyped DEF DeletePending
  <2> QED BY <1>12, <2>1, QuietPhase DEF DeletePending, server
<1>13. CASE ClearCommandQueue \/ DeviceAnswers \/ DeviceConnects
  BY <1>13, QuietPhase DEF ClearCommandQueue, DeviceAnswers, DeviceConnects
<1>14. CASE Crash
  <2>1. \A g \in Goroutines : routine'[g].row = {}
    BY <1>14 DEF Crash, NoRoutine
  <2> QED BY <1>14, <2>1, QuietPhase DEF Crash, server
<1> QED
  BY <1>1, <1>3, <1>4, <1>5, <1>6, <1>7, <1>8, <1>9, <1>10, <1>11, <1>12, <1>13, <1>14
  DEF Next, Serve

\* Likewise the table keeps the promise: an answered command is never pending again, one that
\* was acknowledged or answered with an error keeps its row, and no row comes back.
THEOREM PromiseIsKept == Spec /\ []InTurn => PromiseKept
<1>1. Init => Promise!Init
  <2> SUFFICES ASSUME Init PROVE \A u \in UUIDs : Phase(u) = "new"
    BY DEF Promise!Init, phase, Phase
  <2>1. \A u \in UUIDs : commands[u] = "absent" /\ u > sent
    BY KeysTyped DEF Init, UUIDs
  <2> QED BY <2>1 DEF Phase, Waiting, Final, Recorded
<1>2. TypeInv /\ OrderInv /\ TableInv /\ [Next]_vars => [Promise!Next]_phase
  BY PromiseStep
<1> QED
  BY <1>1, <1>2, OrderInvariant, PTL DEF Spec, PromiseKept, Promise!Spec
=============================================================================
