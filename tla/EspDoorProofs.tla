--------------------------- MODULE EspDoorProofs ---------------------------
(***************************************************************************)
(* Proofs about EspDoor for every length of an opening, of a pass and of   *)
(* the counter, every set of cards and any number of commands that wait.   *)
(***************************************************************************)
EXTENDS EspDoor, SequenceTheorems, TLAPS

\* The running timer knows how long the door has been open, to the tick, on
\* both sides of the deadline; and a pass that looked at it found it not due.
TimerSound ==
    doorTimerActive =>
        /\ relay /\ ~bypassActive /\ ~otaInProgress /\ pc # "setup"
        /\ openFor <= Unlock - 1 + stall
        /\ doorLeft = IF openFor <= Unlock THEN Unlock - openFor
                      ELSE Wrap + Unlock - openFor

\* Only the bypass and the timer hold the door.
OpenHasCause == relay => bypassActive \/ doorTimerActive

\* A firmware write goes on only where a pass begins.
WriteSound == pc # "ota" => ~otaInProgress

DoorInv == TypeOK /\ WriteSound /\ TimerSound /\ OpenHasCause /\ BypassFollows

-----------------------------------------------------------------------------
\* The parts of the invariant a step can disturb: the timer, the flags, and
\* the rest.
Timed ==
    /\ doorLeft \in 0 .. Wrap - 1 /\ openFor \in 0 .. MaxOpen
    /\ TimerSound /\ OpenHasCause

Flags ==
    /\ relay \in BOOLEAN /\ doorTimerActive \in BOOLEAN
    /\ lastBypassState \in BOOLEAN /\ bypassActive \in BOOLEAN
    /\ lastExitState \in BOOLEAN /\ otaInProgress \in BOOLEAN
    /\ connected \in BOOLEAN /\ shutOut \in BOOLEAN

Kept ==
    /\ pc \in Stage
    /\ buzzMode \in {"BUZZ_OFF", "BUZZ_SHORT", "BUZZ_ALARM"}
    /\ lastTag \in Cards \cup {NoCard}
    /\ tagAge \in 0 .. Wrap - 1
    /\ broker \in Seq(Command) /\ Len(broker) <= MaxHeld
    /\ stall \in 0 .. MaxPass
    /\ skewed \in {"boot", "yes", "no"}
    /\ WriteSound

LEMMA DoorInvParts == DoorInv <=> Timed /\ Flags /\ Kept /\ BypassFollows
  BY DEF DoorInv, Timed, Flags, Kept, TypeOK

LEMMA DoorInvNext == Timed' /\ Flags' /\ Kept' /\ BypassFollows' => DoorInv'
  BY DEF DoorInv, Timed, Flags, Kept, TypeOK

\* lockDoor() leaves no timer, whatever was there before.
LEMMA LockedTimed == ASSUME Locked PROVE Timed'
<1>1. doorLeft' \in 0 .. Wrap - 1 /\ openFor' \in 0 .. MaxOpen
  BY DoorAssumption DEF DoorAssumption, Locked, MaxOpen
<1>2. TimerSound' /\ OpenHasCause'
  BY DEF Locked, TimerSound, OpenHasCause
<1> QED BY <1>1, <1>2 DEF Timed

\* openDoor() leaves a timer that has the whole of Unlock to run.
LEMMA OpenedTimed ==
  ASSUME Opened, stall \in 0 .. MaxPass, stall' = stall,
         ~bypassActive', ~otaInProgress', pc' # "setup"
  PROVE  Timed'
<1> USE DoorAssumption DEF DoorAssumption
<1>1. doorLeft' \in 0 .. Wrap - 1 /\ openFor' \in 0 .. MaxOpen
  BY DEF Opened, MaxOpen
<1>2. openFor' <= Unlock - 1 + stall'
  BY DEF Opened
<1>3. doorLeft' = IF openFor' <= Unlock THEN Unlock - openFor'
                  ELSE Wrap + Unlock - openFor'
  BY DEF Opened
<1>4. TimerSound' /\ OpenHasCause'
  BY <1>2, <1>3 DEF Opened, TimerSound, OpenHasCause
<1> QED BY <1>1, <1>4 DEF Timed

\* A step that leaves the lock alone and does not go back to setup().
LEMMA DoorUnmoved ==
  ASSUME Timed, UNCHANGED <<door, bypassActive, otaInProgress, stall>>,
         pc' = pc \/ pc' # "setup"
  PROVE  Timed'
  BY DEF Timed, TimerSound, OpenHasCause, door, MaxOpen

\* applyBypassState() leaves no timer either, and a door that is held open or
\* locked.
LEMMA AppliedTimed ==
  ASSUME NEW on \in BOOLEAN, Applied(on)
  PROVE  Timed' /\ (bypassActive' => relay')
<1>1. CASE on
  <2>1. doorLeft' \in 0 .. Wrap - 1 /\ openFor' \in 0 .. MaxOpen
    BY <1>1, DoorAssumption DEF DoorAssumption, Applied, MaxOpen
  <2>2. TimerSound' /\ OpenHasCause' /\ relay'
    BY <1>1 DEF Applied, TimerSound, OpenHasCause
  <2> QED BY <2>1, <2>2 DEF Timed
<1>2. CASE ~on
  BY <1>2, LockedTimed DEF Applied
<1> QED BY <1>1, <1>2

-----------------------------------------------------------------------------
\* Power on leaves the level of the switch and no timer.
LEMMA InitInv == Init => DoorInv
<1> SUFFICES ASSUME Init PROVE DoorInv
  OBVIOUS
<1>1. doorLeft \in 0 .. Wrap - 1 /\ openFor \in 0 .. MaxOpen
  BY DoorAssumption DEF DoorAssumption, Init, MaxOpen
<1>2. TimerSound /\ OpenHasCause /\ BypassFollows
  BY DEF Init, TimerSound, OpenHasCause, BypassFollows
<1>3. Flags
  BY DEF Init, Flags
<1>4. Kept
  BY DoorAssumption DEF DoorAssumption, Init, Kept, Stage, WriteSound
<1> QED BY <1>1, <1>2, <1>3, <1>4, DoorInvParts DEF Timed

LEMMA RebootInv == ASSUME DoorInv, NEW on \in BOOLEAN, Reboot(on) PROVE DoorInv'
<1>1. Applied(on)
  BY DEF Reboot, PowerOn
<1>2. Flags'
  BY <1>1 DEF Applied, Locked, Reboot, PowerOn, Flags
<1>3. Kept'
  BY DoorInvParts, DoorAssumption
     DEF DoorAssumption, Reboot, PowerOn, Kept, Stage, WriteSound
<1>4. BypassFollows'
  BY <1>1, AppliedTimed DEF Reboot, PowerOn, BypassFollows
<1> QED BY <1>1, <1>2, <1>3, <1>4, AppliedTimed, DoorInvNext

\* A turn of the switch that the loop finds.
LEMMA BypassInv == ASSUME DoorInv, NEW on \in BOOLEAN, Bypass(on) PROVE DoorInv'
<1>1. Kept'
  BY DoorInvParts DEF Bypass, Kept, Stage, WriteSound, reader, network
<1>2. CASE on # lastBypassState
  <2>1. Applied(on) /\ skewed' = "no"
    BY <1>2 DEF Bypass
  <2>2. Flags'
    BY <2>1, DoorInvParts DEF Bypass, Applied, Locked, Flags, network
  <2>3. BypassFollows'
    BY <2>1, AppliedTimed DEF Applied, Bypass, BypassFollows
  <2> QED BY <1>1, <2>1, <2>2, <2>3, AppliedTimed, DoorInvNext
<1>3. CASE on = lastBypassState
  <2>1. /\ UNCHANGED <<door, bypassActive, shutOut, otaInProgress, stall>>
        /\ pc' = "exit"
        /\ skewed' = IF skewed = "boot" THEN "yes" ELSE skewed
    BY <1>3 DEF Bypass
  <2>2. Flags'
    BY <2>1, DoorInvParts DEF Bypass, Flags, door, network
  <2>3. BypassFollows'
    BY <1>3, <2>1, DoorInvParts DEF Bypass, BypassFollows, door
  <2> QED BY <1>1, <2>1, <2>2, <2>3, DoorUnmoved, DoorInvParts,
           DoorInvNext
<1> QED BY <1>2, <1>3

\* The exit switch opens for an opening of its own.
LEMMA ExitInv == ASSUME DoorInv, NEW level \in BOOLEAN, Exit(level) PROVE DoorInv'
<1>1. /\ pc = "exit" /\ pc' = "rfid" /\ lastExitState' = level
      /\ UNCHANGED <<bypassActive, shutOut, otaInProgress, stall>>
      /\ UNCHANGED <<bypass, reader, network>>
  BY DEF Exit, bypass
<1>2. CASE ~level /\ lastExitState /\ ~bypassActive
  <2>1. Opened
    BY <1>2 DEF Exit
  <2>2. Timed'
    BY <1>1, <1>2, <2>1, OpenedTimed, DoorInvParts DEF Kept, WriteSound
  <2>3. Flags'
    BY <1>1, <2>1, DoorInvParts DEF Opened, Flags, bypass, network
  <2>4. Kept'
    BY <1>1, <2>1, DoorInvParts
       DEF Opened, Kept, Stage, WriteSound, bypass, reader, network
  <2>5. BypassFollows'
    BY <1>1, <1>2, DoorInvParts DEF BypassFollows, bypass
  <2> QED BY <2>2, <2>3, <2>4, <2>5, DoorInvNext
<1>3. CASE ~(~level /\ lastExitState /\ ~bypassActive)
  <2>1. UNCHANGED door /\ buzzMode' \in {buzzMode, "BUZZ_OFF"}
    BY <1>3 DEF Exit
  <2>2. Timed'
    BY <1>1, <2>1, DoorUnmoved, DoorInvParts
  <2>3. Flags'
    BY <1>1, <2>1, DoorInvParts DEF Flags, door, bypass, network
  <2>4. Kept'
    BY <1>1, <2>1, DoorInvParts
       DEF Kept, Stage, WriteSound, bypass, reader, network
  <2>5. BypassFollows'
    BY <1>1, <2>1, DoorInvParts DEF BypassFollows, door, bypass
  <2> QED BY <2>2, <2>3, <2>4, <2>5, DoorInvNext
<1> QED BY <1>2, <1>3

\* A card opens for an opening of its own too, unless it is held on.
LEMMA ScanInv ==
  ASSUME DoorInv, NEW card \in Cards, NEW granted \in BOOLEAN,
         Scan(card, granted)
  PROVE  DoorInv'
<1>1. /\ pc = "rfid" /\ pc' = "timer"
      /\ UNCHANGED <<bypassActive, shutOut, otaInProgress, stall>>
      /\ UNCHANGED <<bypass, lastExitState, network>>
  BY DEF Scan, bypass
<1>2. lastTag' \in Cards \cup {NoCard} /\ tagAge' \in 0 .. Wrap - 1
  BY DoorInvParts, DoorAssumption DEF DoorAssumption, Scan, Kept, reader
<1>3. CASE Opened /\ ~bypassActive
  <2>1. Timed'
    BY <1>1, <1>3, OpenedTimed, DoorInvParts DEF Kept, WriteSound
  <2>2. Flags'
    BY <1>1, <1>3, DoorInvParts DEF Opened, Flags, bypass, network
  <2>3. Kept'
    BY <1>1, <1>2, <1>3, DoorInvParts
       DEF Opened, Kept, Stage, WriteSound, bypass, network
  <2>4. BypassFollows'
    BY <1>1, <1>3, DoorInvParts DEF BypassFollows, bypass
  <2> QED BY <2>1, <2>2, <2>3, <2>4, DoorInvNext
<1>4. CASE ~(Opened /\ ~bypassActive)
  <2>1. UNCHANGED door /\ buzzMode' \in {buzzMode, "BUZZ_SHORT", "BUZZ_ALARM"}
    BY <1>4 DEF Scan
  <2>2. Timed'
    BY <1>1, <2>1, DoorUnmoved, DoorInvParts
  <2>3. Flags'
    BY <1>1, <2>1, DoorInvParts DEF Flags, door, bypass, network
  <2>4. Kept'
    BY <1>1, <1>2, <2>1, DoorInvParts
       DEF Kept, Stage, WriteSound, bypass, network
  <2>5. BypassFollows'
    BY <1>1, <2>1, DoorInvParts DEF BypassFollows, door, bypass
  <2> QED BY <2>2, <2>3, <2>4, <2>5, DoorInvNext
<1> QED BY <1>3, <1>4

\* The timer's own step: a running timer that is not due has not been passed
\* by, because a pass is shorter than half the counter.
LEMMA TimerInv == ASSUME DoorInv, TickDoorTimer PROVE DoorInv'
<1> USE DoorInvParts
<1>1. Kept'
  BY DoorAssumption
     DEF DoorAssumption, TickDoorTimer, Kept, Stage, WriteSound, bypass, reader,
         network
<1>2. CASE doorTimerActive /\ Due
  <2>1. Locked
    BY <1>2 DEF TickDoorTimer
  <2>2. Flags'
    BY <2>1 DEF TickDoorTimer, Locked, Flags, bypass, network
  <2>3. BypassFollows'
    BY <1>2 DEF TickDoorTimer, Timed, TimerSound, BypassFollows, bypass
  <2> QED BY <1>1, <2>1, <2>2, <2>3, LockedTimed, DoorInvNext
<1>3. CASE ~(doorTimerActive /\ Due)
  <2>1. UNCHANGED door /\ UNCHANGED <<bypass, otaInProgress>>
    BY <1>3 DEF TickDoorTimer
  <2>2. ASSUME doorTimerActive PROVE openFor <= Unlock - 1
    <3>1. /\ openFor \in Nat /\ openFor <= Unlock - 1 + stall
          /\ stall \in 0 .. MaxPass
          /\ doorLeft = IF openFor <= Unlock THEN Unlock - openFor
                        ELSE Wrap + Unlock - openFor
      BY <2>2 DEF Timed, TimerSound, Kept, MaxOpen
    <3>2. doorLeft # 0 /\ ~(2 * doorLeft > Wrap)
      BY <1>3, <2>2 DEF Due
    <3> QED BY <3>1, <3>2, DoorAssumption DEF DoorAssumption
  <2>3. ASSUME doorTimerActive' PROVE openFor' <= Unlock - 1 + stall'
    <3>1. doorTimerActive /\ openFor' = openFor /\ stall' = 0
      BY <2>1, <2>3 DEF door, TickDoorTimer
    <3>2. openFor \in Nat
      BY DoorAssumption DEF DoorAssumption, Timed, MaxOpen
    <3> QED BY <2>2, <3>1, <3>2, DoorAssumption DEF DoorAssumption
  <2>4. pc' # "setup"
    BY DEF TickDoorTimer
  <2>5. Timed'
    BY <2>1, <2>3, <2>4
       DEF Timed, TimerSound, OpenHasCause, door, bypass, MaxOpen
  <2>6. Flags'
    BY <2>1 DEF TickDoorTimer, Flags, door, bypass, network
  <2>7. BypassFollows'
    BY <2>1 DEF BypassFollows, door, bypass
  <2> QED BY <1>1, <2>5, <2>6, <2>7, DoorInvNext
<1> QED BY <1>2, <1>3

\* A command opens or locks as its topic says; the one that locks an active
\* bypass out is remembered.
LEMMA HandleInv ==
  ASSUME DoorInv, NEW command \in Command, Handle(command), pc = "mqtt",
         UNCHANGED <<bypassActive, otaInProgress, stall>>, pc' = "ota"
  PROVE  /\ Timed'
         /\ relay' \in BOOLEAN /\ doorTimerActive' \in BOOLEAN
         /\ shutOut' \in BOOLEAN
         /\ buzzMode' \in {"BUZZ_OFF", "BUZZ_SHORT", "BUZZ_ALARM"}
         /\ bypassActive' /\ ~shutOut' => relay'
<1> USE DoorInvParts
<1>1. CASE Opened /\ UNCHANGED shutOut /\ ~bypassActive
  <2>1. Timed'
    BY <1>1, OpenedTimed DEF Kept, WriteSound
  <2> QED BY <1>1, <2>1 DEF Opened, Flags
<1>2. CASE /\ Locked
           /\ shutOut' \in BOOLEAN /\ (bypassActive => shutOut')
           /\ buzzMode' \in {buzzMode, "BUZZ_ALARM"}
  <2>1. buzzMode' \in {"BUZZ_OFF", "BUZZ_SHORT", "BUZZ_ALARM"}
    BY <1>2 DEF Kept
  <2> QED BY <1>2, <2>1, LockedTimed DEF Locked
<1>3. CASE /\ UNCHANGED <<door, shutOut>>
           /\ buzzMode' \in {buzzMode, "BUZZ_SHORT", "BUZZ_ALARM"}
  <2>1. Timed'
    BY <1>3, DoorUnmoved
  <2> QED BY <1>3, <2>1 DEF door, Flags, Kept, BypassFollows
<1>4. \/ Opened /\ UNCHANGED shutOut /\ ~bypassActive
      \/ /\ Locked
         /\ shutOut' \in BOOLEAN /\ (bypassActive => shutOut')
         /\ buzzMode' \in {buzzMode, "BUZZ_ALARM"}
      \/ /\ UNCHANGED <<door, shutOut>>
         /\ buzzMode' \in {buzzMode, "BUZZ_SHORT", "BUZZ_ALARM"}
  <2>1. bypassActive \in BOOLEAN /\ shutOut \in BOOLEAN
    BY DEF Flags
  <2>2. CASE command = "unlock"
    BY <2>2 DEF Handle
  <2>3. CASE command = "lock"
    BY <2>1, <2>3 DEF Handle
  <2>4. CASE command = "spoof_detected" /\ bypassActive
    BY <2>4 DEF Handle
  <2>5. CASE command = "spoof_detected" /\ ~bypassActive
    BY <2>1, <2>5 DEF Handle
  <2>6. CASE command \in {"unknown_face", "warning"}
    BY <2>6 DEF Handle
  <2> QED BY <2>2, <2>3, <2>4, <2>5, <2>6 DEF Command
<1> QED BY <1>1, <1>2, <1>3, <1>4

LEMMA ServeInv == ASSUME DoorInv, Serve PROVE DoorInv'
<1> USE DoorInvParts
<1>1. /\ pc = "mqtt" /\ pc' = "ota"
      /\ UNCHANGED <<lastBypassState, bypassActive, skewed, lastExitState,
                     otaInProgress, stall>>
      /\ UNCHANGED reader
      /\ Handle(Head(broker))
  BY DEF Serve
<1>2. Head(broker) \in Command /\ Tail(broker) \in Seq(Command)
      /\ Len(Tail(broker)) <= MaxHeld
  BY DoorAssumption, HeadTailProperties DEF DoorAssumption, Serve, Kept
<1>3. /\ Timed'
      /\ relay' \in BOOLEAN /\ doorTimerActive' \in BOOLEAN
      /\ shutOut' \in BOOLEAN
      /\ buzzMode' \in {"BUZZ_OFF", "BUZZ_SHORT", "BUZZ_ALARM"}
      /\ bypassActive' /\ ~shutOut' => relay'
  BY <1>1, <1>2, HandleInv
<1>4. Flags'
  BY <1>1, <1>3 DEF Serve, Flags
<1>5. broker' \in Seq(Command) /\ Len(broker') <= MaxHeld
  BY <1>2 DEF Serve, Kept
<1>6. Kept'
  BY <1>1, <1>3, <1>5 DEF Kept, Stage, WriteSound, reader
<1>7. BypassFollows'
  BY <1>1, <1>3 DEF BypassFollows
<1> QED BY <1>3, <1>4, <1>6, <1>7, DoorInvNext

\* A firmware write begins with a locked door, unless the bypass holds it.
LEMMA FirmwareStartsInv == ASSUME DoorInv, FirmwareStarts PROVE DoorInv'
<1> USE DoorInvParts
<1>1. /\ pc = "ota" /\ pc' = "ota" /\ otaInProgress' = TRUE
      /\ UNCHANGED <<bypass, lastExitState, reader, broker, stall>>
  BY DEF FirmwareStarts
<1>2. Kept'
  BY <1>1 DEF FirmwareStarts, Kept, Stage, WriteSound, bypass, reader
<1>3. CASE bypassActive
  <2>1. UNCHANGED door
    BY <1>3 DEF FirmwareStarts
  <2>2. Timed'
    BY <1>1, <1>3, <2>1
       DEF Timed, TimerSound, OpenHasCause, door, bypass, MaxOpen
  <2>3. Flags'
    BY <1>1, <2>1 DEF FirmwareStarts, Flags, door, bypass
  <2>4. BypassFollows'
    BY <1>1, <2>1 DEF BypassFollows, door, bypass
  <2> QED BY <1>2, <2>2, <2>3, <2>4, DoorInvNext
<1>4. CASE ~bypassActive
  <2>1. Locked
    BY <1>4 DEF FirmwareStarts
  <2>2. Flags'
    BY <1>1, <2>1 DEF FirmwareStarts, Locked, Flags, bypass
  <2>3. BypassFollows'
    BY <1>1, <1>4 DEF BypassFollows, bypass
  <2> QED BY <1>2, <2>1, <2>2, <2>3, LockedTimed, DoorInvNext
<1> QED BY <1>3, <1>4

\* The steps between the parts of a pass, and those of the broker.
LEMMA IdleInv ==
  ASSUME DoorInv,
         \/ StartLoop \/ NoFirmware \/ FirmwareFails \/ NoScan \/ NoCommand
         \/ \E command \in Command : Publish(command)
         \/ UNCHANGED vars
  PROVE  DoorInv'
<1> USE DoorInvParts
<1> DEFINE Same == UNCHANGED <<door, bypass, lastExitState, buzzMode, reader,
                               stall>>
<1>1. /\ Same
      /\ pc' = pc \/ pc' \in Stage \ {"setup"}
      /\ otaInProgress' \in BOOLEAN
      /\ connected' \in BOOLEAN
  BY DEF StartLoop, NoFirmware, FirmwareFails, NoScan, NoCommand, Publish,
     vars, Flags, network, Stage
<1>2. WriteSound' /\ (otaInProgress' => otaInProgress)
  BY DEF StartLoop, NoFirmware, FirmwareFails, NoScan, NoCommand, Publish,
     vars, Kept, WriteSound
<1>3. broker' \in Seq(Command) /\ Len(broker') <= MaxHeld
  <2>1. CASE \E command \in Command : Publish(command)
    <3>1. PICK command \in Command : Publish(command)
      BY <2>1
    <3>2. /\ broker' = Append(broker, command) /\ Len(broker) < MaxHeld
          /\ broker \in Seq(Command)
      BY <3>1 DEF Publish, Kept
    <3> QED BY <3>2, AppendProperties, LenProperties, DoorAssumption
            DEF DoorAssumption
  <2>2. CASE broker' = broker
    BY <2>2 DEF Kept
  <2> QED BY <2>1, <2>2
       DEF StartLoop, NoFirmware, FirmwareFails, NoScan, NoCommand, vars,
           network
<1>4. Timed'
  BY <1>1, <1>2 DEF Timed, TimerSound, OpenHasCause, door, bypass, MaxOpen
<1>5. Flags'
  BY <1>1 DEF Flags, door, bypass
<1>6. Kept'
  BY <1>1, <1>2, <1>3 DEF Kept, Stage, bypass, reader
<1>7. BypassFollows'
  BY <1>1 DEF BypassFollows, door, bypass
<1> QED BY <1>4, <1>5, <1>6, <1>7, DoorInvNext

\* A tick brings the deadline of a running timer one nearer or one further
\* behind, and is one tick more of an open door.
LEMMA TickInv == ASSUME DoorInv, Tick PROVE DoorInv'
<1> USE DoorInvParts
<1>1. UNCHANGED <<pc, relay, doorTimerActive, lastExitState, buzzMode, lastTag,
                  otaInProgress>>
      /\ UNCHANGED <<bypass, network>>
  BY DEF Tick
<1>2. tagAge' \in 0 .. Wrap - 1 /\ stall' \in 0 .. MaxPass
  BY DoorAssumption DEF DoorAssumption, Tick, More, Kept
<1>3. Flags'
  BY <1>1 DEF Flags, bypass, network
<1>4. Kept'
  BY <1>1, <1>2 DEF Kept, WriteSound, bypass, network
<1>5. BypassFollows'
  BY <1>1 DEF BypassFollows, bypass
<1>6. CASE doorTimerActive
  <2>1. /\ relay /\ ~bypassActive /\ ~otaInProgress /\ pc # "setup"
        /\ openFor <= Unlock - 1 + stall /\ openFor \in Nat
        /\ stall \in Nat
        /\ doorLeft = IF openFor <= Unlock THEN Unlock - openFor
                      ELSE Wrap + Unlock - openFor
    BY <1>6 DEF Timed, TimerSound, Kept, MaxOpen
  <2>2. stall < MaxPass /\ stall' = stall + 1 /\ doorLeft' = Less(doorLeft)
    BY <1>6, <2>1 DEF Tick
  <2>3. openFor < MaxOpen
    BY <2>1, <2>2, DoorAssumption DEF DoorAssumption, MaxOpen
  <2>4. openFor' = openFor + 1
    BY <2>1, <2>3 DEF Tick
  <2>5. openFor' <= Unlock - 1 + stall' /\ openFor' \in 0 .. MaxOpen
    BY <2>1, <2>2, <2>3, <2>4, DoorAssumption DEF DoorAssumption, MaxOpen
  <2>6. /\ doorLeft' = IF openFor' <= Unlock THEN Unlock - openFor'
                       ELSE Wrap + Unlock - openFor'
        /\ doorLeft' \in 0 .. Wrap - 1
    BY <2>1, <2>2, <2>4, DoorAssumption DEF DoorAssumption, Less, MaxOpen
  <2>7. TimerSound' /\ OpenHasCause'
    BY <1>1, <1>6, <2>1, <2>5, <2>6 DEF TimerSound, OpenHasCause, bypass
  <2> QED BY <1>3, <1>4, <1>5, <2>5, <2>6, <2>7, DoorInvNext DEF Timed
<1>7. CASE ~doorTimerActive
  <2>1. doorLeft' = doorLeft
    BY <1>7 DEF Tick
  <2>2. openFor' \in 0 .. MaxOpen
    BY DoorAssumption DEF DoorAssumption, Tick, Timed, MaxOpen
  <2>3. TimerSound' /\ OpenHasCause'
    BY <1>1, <1>7 DEF Timed, TimerSound, OpenHasCause, bypass
  <2> QED BY <1>3, <1>4, <1>5, <2>1, <2>2, <2>3, DoorInvNext DEF Timed
<1> QED BY <1>6, <1>7

-----------------------------------------------------------------------------
LEMMA DoorNext == DoorInv /\ [Next]_vars => DoorInv'
<1> SUFFICES ASSUME DoorInv, [Next]_vars PROVE DoorInv'
  OBVIOUS
<1>1. CASE \/ StartLoop \/ NoFirmware \/ FirmwareFails \/ NoScan \/ NoCommand
           \/ \E command \in Command : Publish(command)
           \/ UNCHANGED vars
  BY <1>1, IdleInv
<1>2. CASE FirmwareStarts
  BY <1>2, FirmwareStartsInv
<1>3. CASE \E on \in BOOLEAN : Bypass(on) \/ Reboot(on)
  BY <1>3, BypassInv, RebootInv
<1>4. CASE \E level \in BOOLEAN : Exit(level)
  BY <1>4, ExitInv
<1>5. CASE \E card \in Cards, granted \in BOOLEAN : Scan(card, granted)
  BY <1>5, ScanInv
<1>6. CASE TickDoorTimer
  BY <1>6, TimerInv
<1>7. CASE Serve
  BY <1>7, ServeInv
<1>8. CASE Tick
  BY <1>8, TickInv
<1> QED BY <1>1, <1>2, <1>3, <1>4, <1>5, <1>6, <1>7, <1>8 DEF Next

\* The inductive invariant holds in every behaviour.
THEOREM DoorInvariant == Spec => []DoorInv
  BY InitInv, DoorNext, PTL DEF Spec

\* Every variable of the controller keeps its type, the differences of times
\* the width of millis().
THEOREM DoorTypeCorrect == Spec => []TypeOK
<1>1. DoorInv => TypeOK
  BY DEF DoorInv
<1> QED BY <1>1, DoorInvariant, PTL

\* For every length of an opening and of a pass, and any counter that is
\* longer than twice both: no door stays open past its time by a whole pass.
THEOREM DoorIsNotLeftOpen == Spec => []OpenBounded
<1>1. DoorInv => OpenBounded
  <2> SUFFICES ASSUME DoorInv, relay, ~bypassActive
               PROVE  doorTimerActive /\ ~otaInProgress /\ openFor < MaxOpen
    BY DEF OpenBounded
  <2>1. /\ doorTimerActive /\ ~otaInProgress
        /\ openFor <= Unlock - 1 + stall
        /\ openFor \in 0 .. MaxOpen /\ stall \in 0 .. MaxPass
    BY DEF DoorInv, TypeOK, TimerSound, OpenHasCause
  <2> QED BY <2>1, DoorAssumption DEF DoorAssumption, MaxOpen
<1> QED BY <1>1, DoorInvariant, PTL

\* Bypass does what its switch says, but for the two ways round it.
THEOREM BypassDoesAsTold == Spec => []BypassFollows
<1>1. DoorInv => BypassFollows
  BY DEF DoorInv
<1> QED BY <1>1, DoorInvariant, PTL
=============================================================================
