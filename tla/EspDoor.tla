------------------------------- MODULE EspDoor -------------------------------
(***************************************************************************)
(* The production door controller, ESP_mqtt.ino: one loop that drives the  *)
(* relay of the lock from a bypass switch, an exit switch, a card reader   *)
(* and commands of a broker, while its firmware may be rewritten over the  *)
(* air.  pc is the place in setup() or loop(); every part of a pass is an  *)
(* action, and levels of pins, cards and the network are its inputs.       *)
(*                                                                         *)
(* Time is counted in ticks of millis(), a counter that wraps at Wrap.     *)
(* Only differences matter: doorLeft is doorOpenUntil - millis() and       *)
(* tagAge is millis() - lastScannedTagTime, both as the counter gives      *)
(* them.  A deadline that is not armed is kept as 0.                       *)
(*                                                                         *)
(* The broker keeps commands for the controller while it is away           *)
(* (cleanSession false) and repeats one whose acknowledgement was lost.    *)
(* Whether a card is in the allowlist is CardSync's matter and an input    *)
(* here; commands that only print, and the announcements of the            *)
(* controller's presence, which are EspAlerts' matter, are left out.       *)
(***************************************************************************)
EXTENDS Naturals, Sequences

CONSTANTS
    Cards,      \* card ids
    NoCard,     \* lastScannedTagID before any card
    Unlock,     \* DOOR_UNLOCK_MS, in ticks
    Debounce,   \* SCAN_DEBOUNCE_MS, in ticks
    Wrap,       \* values of millis()
    MaxPass,    \* bound of the surroundings: ticks from one tickDoorTimer to
                \* the next
    MaxHeld     \* bound of the model: commands that wait at the broker

ASSUME DoorAssumption ==
    /\ NoCard \notin Cards
    /\ Unlock \in Nat \ {0} /\ Debounce \in Nat /\ MaxPass \in Nat
    /\ Wrap \in Nat /\ 2 * (Unlock + MaxPass) < Wrap
    /\ MaxHeld \in Nat

VARIABLES
    pc,
    relay,            \* relayState[0]: the door is open
    doorTimerActive,
    doorLeft,
    lastBypassState,
    bypassActive,
    lastExitState,    \* TRUE is HIGH, the switch at rest
    buzzMode,
    lastTag,          \* lastScannedTagID
    tagAge,
    otaInProgress,
    connected,        \* mqtt.connected()
    broker,           \* commands that wait for the controller
    stall,            \* ticks since tickDoorTimer was last called
    \* History, read by the properties only:
    openFor,          \* ticks since openDoor, while the door is open by it
    skewed,           \* "yes" when the switch was turned during setup() and
                      \* not since; "boot" until loop() has looked at it
    shutOut           \* a lock command came while bypass was active

door == <<relay, doorTimerActive, doorLeft, openFor>>
bypass == <<lastBypassState, bypassActive, skewed, shutOut>>
reader == <<lastTag, tagAge>>
network == <<connected, broker>>
vars == <<pc, door, bypass, lastExitState, buzzMode, reader, otaInProgress,
          network, stall>>

Stage == {"setup", "ota", "bypass", "exit", "rfid", "timer", "mqtt"}
Command == {"unlock", "lock", "spoof_detected", "unknown_face", "warning"}
MaxOpen == Unlock + MaxPass

TypeOK ==
    /\ pc \in Stage
    /\ relay \in BOOLEAN /\ doorTimerActive \in BOOLEAN
    /\ doorLeft \in 0 .. Wrap - 1
    /\ lastBypassState \in BOOLEAN /\ bypassActive \in BOOLEAN
    /\ lastExitState \in BOOLEAN
    /\ buzzMode \in {"BUZZ_OFF", "BUZZ_SHORT", "BUZZ_ALARM"}
    /\ lastTag \in Cards \cup {NoCard}
    /\ tagAge \in 0 .. Wrap - 1
    /\ otaInProgress \in BOOLEAN
    /\ connected \in BOOLEAN
    /\ broker \in Seq(Command) /\ Len(broker) <= MaxHeld
    /\ stall \in 0 .. MaxPass
    /\ openFor \in 0 .. MaxOpen
    /\ skewed \in {"boot", "yes", "no"} /\ shutOut \in BOOLEAN

-----------------------------------------------------------------------------
(* The lock.                                                               *)

\* lockDoor().
Locked ==
    /\ relay' = FALSE
    /\ doorTimerActive' = FALSE
    /\ doorLeft' = 0 /\ openFor' = 0

\* openDoor() when bypass is not active, which the callers ask themselves or
\* leave to it; the short buzz replaces an alarm that sounds.
Opened ==
    /\ relay' = TRUE
    /\ doorTimerActive' = TRUE
    /\ doorLeft' = Unlock /\ openFor' = 0
    /\ buzzMode' = "BUZZ_SHORT"

\* applyBypassState(pinLow).
Applied(on) ==
    /\ IF on
       THEN /\ relay' = TRUE
            /\ doorTimerActive' = FALSE
            /\ doorLeft' = 0 /\ openFor' = 0
       ELSE Locked
    /\ bypassActive' = on
    /\ shutOut' = FALSE

-----------------------------------------------------------------------------
\* Power on, up to the wait for the network.  The level of the pin is stored
\* as it is, HIGH for a switch that is off, whereas loop() stores whether the
\* switch is on.
PowerOn(on) ==
    /\ Applied(on)
    /\ lastBypassState' = ~on
    /\ skewed' = "boot"
    /\ lastExitState' = TRUE
    /\ buzzMode' = "BUZZ_OFF"
    /\ lastTag' = NoCard /\ tagAge' = 0
    /\ otaInProgress' = FALSE
    /\ connected' = FALSE
    /\ stall' = 0
    /\ pc' = "setup"

Init ==
    /\ \E on \in BOOLEAN :
          /\ relay = on /\ bypassActive = on /\ lastBypassState = ~on
    /\ doorTimerActive = FALSE /\ doorLeft = 0
    /\ lastExitState = TRUE
    /\ buzzMode = "BUZZ_OFF"
    /\ lastTag = NoCard /\ tagAge = 0
    /\ otaInProgress = FALSE
    /\ connected = FALSE /\ broker = <<>>
    /\ stall = 0
    /\ pc = "setup"
    /\ openFor = 0 /\ skewed = "boot" /\ shutOut = FALSE

\* The network is up or given up, and loop() begins; the door timer cannot
\* be running.
StartLoop ==
    /\ pc = "setup"
    /\ pc' = "ota"
    /\ UNCHANGED <<door, bypass, lastExitState, buzzMode, reader,
                   otaInProgress, network, stall>>

-----------------------------------------------------------------------------
(* A pass of loop().                                                       *)

\* handleWiFi() and ArduinoOTA.handle() when nothing is written: on to the
\* switches.
NoFirmware ==
    /\ pc = "ota" /\ ~otaInProgress
    /\ pc' = "bypass"
    /\ UNCHANGED <<door, bypass, lastExitState, buzzMode, reader,
                   otaInProgress, network, stall>>

\* prepareForFirmwareWrite().
FirmwareStarts ==
    /\ pc = "ota" /\ ~otaInProgress
    /\ otaInProgress' = TRUE
    /\ buzzMode' = "BUZZ_OFF"
    /\ IF bypassActive THEN UNCHANGED door ELSE Locked
    /\ connected' = FALSE
    /\ UNCHANGED <<pc, bypass, lastExitState, reader, broker, stall>>

\* onError: the loop goes on.
FirmwareFails ==
    /\ pc = "ota" /\ otaInProgress
    /\ otaInProgress' = FALSE
    /\ UNCHANGED <<pc, door, bypass, lastExitState, buzzMode, reader, network,
                   stall>>

\* The bypass switch is on, or is not.
Bypass(on) ==
    /\ pc = "bypass"
    /\ IF on # lastBypassState
       THEN Applied(on) /\ skewed' = "no"
       ELSE /\ UNCHANGED <<door, bypassActive, shutOut>>
            /\ skewed' = IF skewed = "boot" THEN "yes" ELSE skewed
    /\ lastBypassState' = on
    /\ pc' = "exit"
    /\ UNCHANGED <<lastExitState, buzzMode, reader, otaInProgress, network,
                   stall>>

\* The exit switch opens on its falling edge; tickBuzzer may find the time of
\* a buzz over.
Exit(level) ==
    /\ pc = "exit"
    /\ IF ~level /\ lastExitState /\ ~bypassActive
       THEN Opened
       ELSE /\ buzzMode' \in {buzzMode, "BUZZ_OFF"}
            /\ UNCHANGED door
    /\ lastExitState' = level
    /\ pc' = "rfid"
    /\ UNCHANGED <<bypass, reader, otaInProgress, network, stall>>

\* processRFID() without a card.
NoScan ==
    /\ pc = "rfid"
    /\ pc' = "timer"
    /\ UNCHANGED <<door, bypass, lastExitState, buzzMode, reader,
                   otaInProgress, network, stall>>

\* processRFID(): the card that is held on is not looked up again.
Scan(card, granted) ==
    /\ pc = "rfid"
    /\ IF card = lastTag /\ tagAge < Debounce
       THEN UNCHANGED <<door, buzzMode, reader>>
       ELSE /\ lastTag' = card /\ tagAge' = 0
            /\ IF granted /\ ~bypassActive
               THEN Opened
               ELSE /\ buzzMode' = IF granted THEN "BUZZ_SHORT"
                                   ELSE "BUZZ_ALARM"
                    /\ UNCHANGED door
    /\ pc' = "timer"
    /\ UNCHANGED <<bypass, lastExitState, otaInProgress, network, stall>>

\* Fault: the two times are compared for equality.
DueExactly == doorLeft = 0

\* (int32_t)(millis() - doorOpenUntil) >= 0.
Due == doorLeft = 0 \/ 2 * doorLeft > Wrap

\* tickDoorTimer().
TickDoorTimer ==
    /\ pc = "timer"
    /\ IF doorTimerActive /\ Due THEN Locked ELSE UNCHANGED door
    /\ stall' = 0
    /\ pc' = "mqtt"
    /\ UNCHANGED <<bypass, lastExitState, buzzMode, reader, otaInProgress,
                   network>>

\* Fault: a spoof locks the door whatever the switch says.
HandleSpoofFirst(command) ==
    /\ command = "spoof_detected"
    /\ Locked
    /\ buzzMode' = "BUZZ_ALARM"
    /\ UNCHANGED shutOut

\* handleMqttCommand().
Handle(command) ==
    /\ CASE command = "unlock" /\ ~bypassActive ->
              Opened /\ UNCHANGED shutOut
         [] command = "lock" ->
              /\ Locked
              /\ shutOut' = bypassActive
              /\ UNCHANGED buzzMode
         [] command = "spoof_detected" ->
              /\ IF bypassActive THEN UNCHANGED door ELSE Locked
              /\ buzzMode' = "BUZZ_ALARM"
              /\ UNCHANGED shutOut
         [] command \in {"unknown_face", "warning"} ->
              /\ buzzMode' = IF command = "warning" THEN "BUZZ_ALARM"
                             ELSE "BUZZ_SHORT"
              /\ UNCHANGED <<door, shutOut>>
         [] OTHER -> UNCHANGED <<door, buzzMode, shutOut>>

\* tickMqtt(), connected, with a command: it is acknowledged, or the
\* connection breaks before it is and the broker keeps it.
Serve ==
    /\ pc = "mqtt" /\ connected /\ broker # <<>>
    /\ Handle(Head(broker))
    /\ \/ connected' = TRUE /\ broker' = Tail(broker)
       \/ connected' = FALSE /\ UNCHANGED broker
    /\ pc' = "ota"
    /\ UNCHANGED <<lastBypassState, bypassActive, skewed, lastExitState,
                   reader, otaInProgress, stall>>

\* tickMqtt() without a command: a connection is kept, lost, made or not.
NoCommand ==
    /\ pc = "mqtt"
    /\ connected' \in BOOLEAN
    /\ pc' = "ota"
    /\ UNCHANGED <<door, bypass, lastExitState, buzzMode, reader,
                   otaInProgress, broker, stall>>

-----------------------------------------------------------------------------
(* The surroundings.                                                       *)

\* Fault: the difference is taken in a wider type than millis() has.
MoreWide(x) == x + 1

\* What one tick makes of a time that lies ahead, and of one that is past.
Less(x) == IF x = 0 THEN Wrap - 1 ELSE x - 1
More(x) == IF x + 1 = Wrap THEN 0 ELSE x + 1

\* A tick of millis().  In setup() and while firmware is written the loop
\* does not come to its timer, however long that takes.
Tick ==
    /\ \/ pc = "setup" \/ otaInProgress
       \/ stall < MaxPass
    /\ stall' = IF pc = "setup" \/ otaInProgress THEN stall ELSE stall + 1
    /\ doorLeft' = IF doorTimerActive THEN Less(doorLeft) ELSE doorLeft
    /\ tagAge' = IF lastTag = NoCard THEN tagAge ELSE More(tagAge)
    /\ openFor' = IF relay /\ ~bypassActive /\ openFor < MaxOpen
                  THEN openFor + 1 ELSE openFor
    /\ UNCHANGED <<pc, relay, doorTimerActive, bypass, lastExitState, buzzMode,
                   lastTag, otaInProgress, network>>

\* The edge, or anybody at the broker, sends a command.
Publish(command) ==
    /\ Len(broker) < MaxHeld
    /\ broker' = Append(broker, command)
    /\ UNCHANGED <<pc, door, bypass, lastExitState, buzzMode, reader,
                   otaInProgress, connected, stall>>

\* Power fails and comes back, or a firmware write ends.
Reboot(on) ==
    /\ PowerOn(on)
    /\ UNCHANGED broker

Next ==
    \/ StartLoop
    \/ NoFirmware \/ FirmwareStarts \/ FirmwareFails
    \/ \E on \in BOOLEAN : Bypass(on) \/ Reboot(on)
    \/ \E level \in BOOLEAN : Exit(level)
    \/ NoScan \/ \E card \in Cards, granted \in BOOLEAN : Scan(card, granted)
    \/ TickDoorTimer
    \/ Serve \/ NoCommand
    \/ Tick
    \/ \E command \in Command : Publish(command)

Spec == Init /\ [][Next]_vars

-----------------------------------------------------------------------------
\* Nobody finds the door open without cause: an open door is held by the
\* bypass, or by a timer that no wrap of millis(), renewed opening, stalled
\* pass or firmware write makes miss its time by a whole pass.
OpenBounded ==
    relay => \/ bypassActive
             \/ doorTimerActive /\ ~otaInProgress /\ openFor < MaxOpen

\* Once the loop has looked at the bypass switch, bypass is active exactly
\* when the switch is on, and holds the door open whatever cards, timers,
\* spoofs and firmware writes do; only a switch that was turned during setup()
\* and a lock command get round it.
BypassFollows ==
    /\ skewed = "no" => (bypassActive <=> lastBypassState)
    /\ bypassActive /\ ~shutOut => relay

\* WHOLE_SYSTEM.md:154: "Bypass: overrides everything (relay held open)":
\* when the loop has found the switch on, the door is open.
BypassOverrides == pc = "exit" /\ lastBypassState => relay
=============================================================================
