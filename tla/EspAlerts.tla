----------------------------- MODULE EspAlerts ------------------------------
(***************************************************************************)
(* The alarm for a door controller that goes away: record_esp_offline,     *)
(* _esp_offline_check and record_esp_restored of core/alert_tracker.py,    *)
(* the presence messages that drive them (MQTTPublisher._on_message) and   *)
(* the watchdog loop of edge_app.py.                                       *)
(*                                                                         *)
(* Three kinds of thread meet here: the MQTT thread, the main thread with  *)
(* its watchdog, and one daemon thread per threading.Timer.  The tracker's *)
(* lock protects each critical section, but the presence flag is read      *)
(* before the lock is taken and timers are started and cancelled after it  *)
(* is released, and each of those is a step of its own.                    *)
(*                                                                         *)
(* A chain is a timer together with the successors its firing creates: the *)
(* thread that fires installs the next timer as `handle' under the lock,   *)
(* posts the alert and only then starts it.  The number an alert carries   *)
(* (_esp_alert_count) is payload and left out.  Both kinds of alert are    *)
(* enabled, as config.py ships them.                                       *)
(***************************************************************************)
EXTENDS Naturals, FiniteSets

CONSTANTS
    Chains,  \* bound of the model: chains that exist at a time
    NoChain  \* Python's None as a timer

ASSUME EspAssumption == NoChain \notin Chains /\ IsFiniteSet(Chains)

VARIABLES
    escalate, \* ESP_OFFLINE_ESCALATE_S > 0: constant while the edge runs
    status,   \* _esp_online: True, False or None
    handle,   \* _esp_offline_timer
    alerted,  \* _esp_offline_alerted
    chain,    \* [Chains -> ..]: where the timer of a chain is
    mqtt,     \* where the MQTT thread is
    taken,    \* record_esp_restored: the timer it took, until that fires
    watchdog, \* where the watchdog is
    reported  \* history: an alert has gone out since the device went away

offlineVars ==
    <<escalate, status, handle, alerted, chain, mqtt, taken, watchdog,
      reported>>

(***************************************************************************)
(* none: no timer, or a finished or cancelled one                          *)
(* new: created and installed by record_esp_offline, not started           *)
(* armed: started; away / back: fired, and found the device away / back    *)
(* posting: alert decided, the successor installed, not started            *)
(* last: alert decided, no successor, or one cancelled before its start    *)
(***************************************************************************)
Chain == {"none", "new", "armed", "away", "back", "posting", "last"}
Unfired == {"new", "armed", "posting"}

OfflineTypeOK ==
    /\ escalate \in BOOLEAN
    /\ status \in {"unseen", "offline", "online"}
    /\ handle \in Chains \cup {NoChain}
    /\ alerted \in BOOLEAN
    /\ chain \in [Chains -> Chain]
    /\ \A c \in Chains : chain[c] = "posting" => escalate
    /\ mqtt \in {"idle", "offline", "restored", "cancel"}
    /\ taken \in Chains \cup {NoChain}
    /\ taken # NoChain => mqtt = "cancel" /\ chain[taken] \in Unfired
    /\ watchdog \in {"idle", "offline"}
    /\ reported \in BOOLEAN

OfflineInit ==
    /\ escalate \in BOOLEAN
    /\ status = "unseen"
    /\ handle = NoChain
    /\ alerted = FALSE
    /\ chain = [c \in Chains |-> "none"]
    /\ mqtt = "idle"
    /\ taken = NoChain
    /\ watchdog = "idle"
    /\ reported = FALSE

-----------------------------------------------------------------------------
(* record_esp_offline, called by the MQTT thread and by the watchdog.      *)

\* The critical section: a pending timer means a chain is under way.
RecordOffline ==
    IF handle # NoChain
    THEN UNCHANGED <<handle, chain>>
    ELSE \E c \in Chains :
            /\ chain[c] = "none"
            /\ handle' = c
            /\ chain' = [chain EXCEPT ![c] = "new"]

\* timer.start(), after the lock is released.  A timer cancelled before is
\* "none" here: its thread starts and ends without a call.
Start(c) ==
    /\ chain[c] = "new"
    /\ chain' = [chain EXCEPT ![c] = "armed"]
    /\ UNCHANGED <<escalate, status, handle, alerted, mqtt, taken, watchdog,
                   reported>>

-----------------------------------------------------------------------------
(* The MQTT thread.  It handles one message at a time.                     *)

\* The callbacks of a transition; a status that says nothing new has none.
Callback(now) ==
    IF now = status THEN "idle"
    ELSE IF now = "online" THEN "restored" ELSE "offline"

\* _on_message for door/status, from the device or, by its last will, from
\* the broker.
OnMessage(now) ==
    /\ mqtt = "idle"
    /\ now \in {"offline", "online"}
    /\ mqtt' = Callback(now)
    /\ status' = now
    /\ reported' = (reported /\ ~(status = "online" /\ now = "offline"))
    /\ UNCHANGED <<escalate, handle, alerted, chain, taken, watchdog>>

OfflineCallback ==
    /\ mqtt = "offline"
    /\ RecordOffline
    /\ mqtt' = "idle"
    /\ UNCHANGED <<escalate, status, alerted, taken, watchdog, reported>>

\* Fault: the timer is cancelled but stays installed.
HandleAfterRestoreKept == handle

HandleAfterRestore == NoChain

\* record_esp_restored, the critical section.
Restored ==
    /\ mqtt = "restored"
    /\ taken' = IF handle # NoChain /\ chain[handle] \in Unfired
                THEN handle ELSE NoChain
    /\ handle' = HandleAfterRestore
    /\ alerted' = FALSE
    /\ mqtt' = "cancel"
    /\ UNCHANGED <<escalate, status, chain, watchdog, reported>>

\* timer.cancel(), which does nothing to a timer that has fired: if it was
\* a successor whose predecessor is still posting, it will not be started.
\* The esp_online alert that may follow is posted by a thread of its own.
CancelTaken ==
    /\ mqtt = "cancel"
    /\ chain' = IF taken = NoChain THEN chain
                ELSE [chain EXCEPT
                        ![taken] = IF @ = "posting" THEN "last" ELSE "none"]
    /\ taken' = NoChain
    /\ mqtt' = "idle"
    /\ UNCHANGED <<escalate, status, handle, alerted, watchdog, reported>>

-----------------------------------------------------------------------------
(* A timer thread: _esp_offline_check.                                     *)

\* Fault: the alert fires without looking at the presence again.
SeenBlindly == "away"

\* is_esp_online, read without the lock.
Seen == IF status = "online" THEN "back" ELSE "away"

Fire(c) ==
    /\ chain[c] = "armed"
    /\ chain' = [chain EXCEPT ![c] = Seen]
    /\ taken' = IF taken = c THEN NoChain ELSE taken
    /\ UNCHANGED <<escalate, status, handle, alerted, mqtt, watchdog,
                   reported>>

\* Fault: a timer that finds the device back just returns.
HandleAfterBackKept == handle

\* Whatever timer is installed now, this one or a later one, is forgotten.
HandleAfterBack == NoChain

CameBack(c) ==
    /\ chain[c] = "back"
    /\ chain' = [chain EXCEPT ![c] = "none"]
    /\ handle' = HandleAfterBack
    /\ UNCHANGED <<escalate, status, alerted, mqtt, taken, watchdog, reported>>

Escalates == escalate

\* The critical section of a timer that found the device away.
StillAway(c) ==
    /\ chain[c] = "away"
    /\ alerted' = TRUE
    /\ chain' = [chain EXCEPT ![c] = IF Escalates THEN "posting" ELSE "last"]
    /\ handle' = IF Escalates THEN c ELSE NoChain
    /\ UNCHANGED <<escalate, status, mqtt, taken, watchdog, reported>>

\* The alert goes out and the successor, if there is one, is started.
Post(c) ==
    /\ chain[c] \in {"posting", "last"}
    /\ chain' = [chain EXCEPT ![c] = IF @ = "posting" THEN "armed" ELSE "none"]
    /\ reported' = TRUE
    /\ UNCHANGED <<escalate, status, handle, alerted, mqtt, taken, watchdog>>

-----------------------------------------------------------------------------
(* The watchdog of the main thread, every HEARTBEAT_INTERVAL.              *)

Probe ==
    /\ watchdog = "idle"
    /\ status # "online"
    /\ watchdog' = "offline"
    /\ UNCHANGED <<escalate, status, handle, alerted, chain, mqtt, taken,
                   reported>>

ProbeOffline ==
    /\ watchdog = "offline"
    /\ RecordOffline
    /\ watchdog' = "idle"
    /\ UNCHANGED <<escalate, status, alerted, mqtt, taken, reported>>

-----------------------------------------------------------------------------
MqttStep == OfflineCallback \/ Restored \/ CancelTaken
TimerStep(c) == Start(c) \/ Fire(c) \/ CameBack(c) \/ StillAway(c) \/ Post(c)
WatchdogStep == Probe \/ ProbeOffline

OfflineNext ==
    \/ \E now \in {"offline", "online"} : OnMessage(now)
    \/ MqttStep
    \/ \E c \in Chains : TimerStep(c)
    \/ WatchdogStep

\* Threads run, timers elapse and the watchdog wakes up; no message has to
\* arrive.
OfflineSpec ==
    /\ OfflineInit /\ [][OfflineNext]_offlineVars
    /\ WF_offlineVars(MqttStep)
    /\ WF_offlineVars(WatchdogStep)
    /\ \A c \in Chains : WF_offlineVars(TimerStep(c))

-----------------------------------------------------------------------------
(* Properties.                                                             *)

\* The installed handle is never a timer that will not fire any more: no
\* interleaving of cancelling, firing and arming leaves a dead timer behind
\* that would make every later record_esp_offline return early.
HandleAlive == handle # NoChain => chain[handle] \notin {"none", "last"}

(***************************************************************************)
(* A device that stays away is reported: an alert goes out after it went   *)
(* away, though it was never seen, or its last transition was swallowed by *)
(* a chain that was then cancelled (the watchdog makes up for both).  With *)
(* escalation on, alerts go on as long as it is away.                      *)
(***************************************************************************)
OutageReported ==
    (<>[](status # "online"))
        => /\ <>[]reported
           /\ escalate => []<><<\E c \in Chains : Post(c)>>_offlineVars

(***************************************************************************)
(* config.py:178-183: with ESP_OFFLINE_ESCALATE_S 0 there is no            *)
(* escalation, so an outage is reported and then left alone.               *)
(***************************************************************************)
NoEscalation ==
    ~escalate /\ (<>[](status # "online"))
        => <>[][\A c \in Chains : ~Post(c)]_offlineVars

\* When the device is back for good every chain dies, the orphaned ones
\* that no handle leads to included.
QuietWhenOnline ==
    (<>[](status = "online"))
        => <>[](\A c \in Chains : chain[c] = "none")

\* record_esp_restored: "Cancel any pending offline alert/escalation chain".
\* With the device back and its callbacks over, no alert is outstanding.
RestoreSettles == status = "online" /\ mqtt = "idle" => ~alerted
=============================================================================
