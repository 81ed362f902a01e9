--------------------------- MODULE AttemptAlerts ----------------------------
(***************************************************************************)
(* Counting refused attempts and raising the alarm: record_unknown_face,   *)
(* record_unknown_card, record_spoof, spoof_clear and reset_counters of    *)
(* core/alert_tracker.py, with the part of CameraWorker._send_denied that  *)
(* decides whether an attempt is posted as an event.                       *)
(*                                                                         *)
(* Two threads call the tracker: the inference thread (faces, spoofs and   *)
(* the reset after an unlock) and the MQTT thread (cards).  Before they    *)
(* take the lock both read state the other one writes, so the two recorded *)
(* attempts are split at the lock.  Time is counted in ticks since the     *)
(* last event of a kind, and stops at the longest interval it is compared  *)
(* with; a call takes no time.  There is one door, and every unknown card  *)
(* alerts at once (CARD_ALERT_EVERY_ATTEMPT), as config.py ships it.       *)
(***************************************************************************)
EXTENDS Naturals

CONSTANTS
    Threshold,  \* [BOOLEAN -> Nat]: attempts that raise an alert, by IR mode
    AttemptGap, \* ATTEMPT_MIN_INTERVAL
    FaceGap,    \* FACE_ALERT_MIN_INTERVAL
    SpoofGap,   \* SPOOF_ALERT_MIN_INTERVAL
    ResetAfter, \* WARNING_RESET_TIMEOUT
    Never       \* no time recorded

ASSUME AttemptAssumption ==
    /\ Threshold \in [BOOLEAN -> Nat \ {0}]
    /\ AttemptGap \in Nat /\ FaceGap \in Nat
    /\ SpoofGap \in Nat /\ ResetAfter \in Nat
    /\ Never \notin Nat

VARIABLES
    tried,     \* _face_attempts: [count, age]; count 0: no entry
    incident,  \* the door is in _alerted_doors
    lastFace,  \* age of _last_face_alert, or Never
    spoofing,  \* _spoof_active
    lastSpoof, \* age of _last_spoof_alert
    activity,  \* age of _last_activity
    camera,    \* where the inference thread is in record_unknown_face
    counted,   \* its result, while _send_denied looks at it
    card,      \* where the MQTT thread is in record_unknown_card
    calls,     \* what the latest step sent
    \* History, read by the properties only:
    quiet,     \* age of the latest face alert
    calm,      \* age of the latest spoof alert
    earned     \* attempts since the latest face alert or reset

tracker == <<tried, incident, lastFace, spoofing, lastSpoof, activity>>
history == <<quiet, calm, earned>>
vars == <<tracker, camera, counted, card, calls, history>>

MaxThreshold ==
    IF Threshold[TRUE] > Threshold[FALSE] THEN Threshold[TRUE]
                                          ELSE Threshold[FALSE]

\* No counter passes the threshold: the attempt that reaches it alerts.
Count == 0 .. MaxThreshold

TypeOK ==
    /\ tried \in [count: Count, age: 0 .. AttemptGap]
    /\ incident \in BOOLEAN
    /\ lastFace \in 0 .. FaceGap \cup {Never}
    /\ spoofing \in BOOLEAN
    /\ lastSpoof \in 0 .. SpoofGap
    /\ activity \in 0 .. ResetAfter + 1
    /\ camera \in {"idle", "reset", "count", "deny"}
    /\ counted \in Count
    /\ card \in {"idle", "reset", "count"}
    /\ calls \subseteq {"face_alert", "card_alert", "spoof_alert", "event"}
    /\ quiet \in 0 .. FaceGap /\ calm \in 0 .. SpoofGap
    /\ earned \in Count

NoEntry == [count |-> 0, age |-> 0]

Init ==
    /\ tried = NoEntry /\ incident = FALSE /\ lastFace = Never
    /\ spoofing = FALSE /\ lastSpoof = SpoofGap
    /\ activity = 0
    /\ camera = "idle" /\ counted = 0 /\ card = "idle"
    /\ calls = {}
    /\ quiet = FaceGap /\ calm = SpoofGap /\ earned = 0

-----------------------------------------------------------------------------
Older(age, cap) == IF age < cap THEN age + 1 ELSE age

\* is_face_alert_cooldown
Cooldown == lastFace # Never /\ lastFace < FaceGap

TimedOut == activity > ResetAfter

\* Fault: a reset forgets when the last face alert was.
LastFaceAfterResetForgotten == Never

\* A reset leaves the time of the last alert alone.
LastFaceAfterReset == lastFace

\* reset_counters, under the lock.
ResetCounters ==
    /\ tried' = NoEntry
    /\ incident' = FALSE
    /\ spoofing' = FALSE
    /\ lastFace' = LastFaceAfterReset
    /\ earned' = 0
    /\ UNCHANGED lastSpoof

-----------------------------------------------------------------------------
(* The inference thread.                                                   *)

\* record_unknown_face, up to the lock.  In the cooldown it returns at
\* once, and _send_denied has nothing to post.
FaceAttempt ==
    /\ camera = "idle"
    /\ ~Cooldown
    /\ camera' = IF TimedOut THEN "reset" ELSE "count"
    /\ calls' = {}
    /\ UNCHANGED <<tracker, counted, card, history>>

FaceReset ==
    /\ camera = "reset"
    /\ ResetCounters
    /\ camera' = "count"
    /\ calls' = {}
    /\ UNCHANGED <<activity, counted, card, quiet, calm>>

\* Fault: after the cooldown the counter goes on where it was.
FreshCycleCounting ==
    IF lastFace # Never THEN [entry |-> tried, incident |-> FALSE]
                        ELSE [entry |-> tried, incident |-> incident]

\* Fault: after the cooldown the incident is not closed.
FreshCycleMuted ==
    IF lastFace # Never THEN [entry |-> NoEntry, incident |-> incident]
                        ELSE [entry |-> tried, incident |-> incident]

\* The first attempt after a cooldown starts a fresh cycle.
FreshCycle ==
    IF lastFace # Never THEN [entry |-> NoEntry, incident |-> FALSE]
                        ELSE [entry |-> tried, incident |-> incident]

\* The critical section of record_unknown_face.  An attempt too soon after
\* the one before is not counted.
FaceCount(ir) ==
    LET fresh == FreshCycle
        soon == fresh.entry.count > 0 /\ fresh.entry.age < AttemptGap
        count == fresh.entry.count + 1
        alert == ~soon /\ count >= Threshold[ir] /\ ~fresh.incident
    IN  /\ camera = "count"
        /\ camera' = "deny"
        /\ activity' = 0
        /\ tried' = IF soon THEN fresh.entry ELSE [count |-> count, age |-> 0]
        /\ incident' = (fresh.incident \/ alert)
        /\ lastFace' = IF alert THEN 0 ELSE Never
        /\ counted' = IF soon THEN 0 ELSE count
        /\ calls' = IF alert THEN {"face_alert"} ELSE {}
        /\ quiet' = IF alert THEN 0 ELSE quiet
        /\ earned' = IF alert THEN 0
                     ELSE IF soon THEN earned ELSE earned + 1
        /\ UNCHANGED <<spoofing, lastSpoof, card, calm>>

\* Fault: only the attempt number decides.
SilencedByCountOnly == counted = 0

\* Fault: the first attempt of a cycle is taken for none.
SilencedAtFirst == counted <= 1 \/ incident \/ Cooldown

\* _send_denied: the attempt that alerted and those in its wake stay off
\* the audit log.
Silenced == counted = 0 \/ incident \/ Cooldown

FaceDeny ==
    /\ camera = "deny"
    /\ calls' = IF Silenced THEN {} ELSE {"event"}
    /\ counted' = 0
    /\ camera' = "idle"
    /\ UNCHANGED <<tracker, card, history>>

\* An unlock resets everything; when it was let through on liveness errors,
\* no spoof_clear comes with it.
Unlocked ==
    /\ camera = "idle"
    /\ ResetCounters
    /\ calls' = {}
    /\ UNCHANGED <<activity, camera, counted, card, quiet, calm>>

\* Fault: a spoof alert has no minimum distance to the last one.
SpoofDueAlways == ~spoofing

SpoofDue == ~spoofing /\ lastSpoof >= SpoofGap

\* record_spoof
SpoofSeen ==
    /\ camera = "idle"
    /\ IF SpoofDue
       THEN /\ spoofing' = TRUE /\ lastSpoof' = 0
            /\ calls' = {"spoof_alert"}
            /\ calm' = 0
       ELSE /\ UNCHANGED <<spoofing, lastSpoof, calm>>
            /\ calls' = {}
    /\ UNCHANGED <<tried, incident, lastFace, activity, camera, counted, card,
                   quiet, earned>>

\* spoof_clear
SpoofGone ==
    /\ camera = "idle"
    /\ spoofing' = FALSE
    /\ calls' = {}
    /\ UNCHANGED <<tried, incident, lastFace, lastSpoof, activity, camera,
                   counted, card, quiet, calm, earned>>

-----------------------------------------------------------------------------
(* The MQTT thread: record_unknown_card, up to the lock and under it.  The *)
(* count of a card is payload here: every tap alerts.                      *)

CardAttempt ==
    /\ card = "idle"
    /\ card' = IF TimedOut THEN "reset" ELSE "count"
    /\ calls' = {}
    /\ UNCHANGED <<tracker, camera, counted, history>>

CardReset ==
    /\ card = "reset"
    /\ ResetCounters
    /\ card' = "count"
    /\ calls' = {}
    /\ UNCHANGED <<activity, camera, counted, quiet, calm>>

CardCount ==
    /\ card = "count"
    /\ activity' = 0
    /\ card' = "idle"
    /\ calls' = {"card_alert"}
    /\ UNCHANGED <<tried, incident, lastFace, spoofing, lastSpoof, camera,
                   counted, history>>

-----------------------------------------------------------------------------
Tick ==
    /\ camera = "idle" /\ card = "idle"
    /\ tried' = IF tried.count = 0 THEN tried
                ELSE [tried EXCEPT !.age = Older(@, AttemptGap)]
    /\ lastFace' = IF lastFace = Never THEN Never ELSE Older(lastFace, FaceGap)
    /\ lastSpoof' = Older(lastSpoof, SpoofGap)
    /\ activity' = Older(activity, ResetAfter + 1)
    /\ quiet' = Older(quiet, FaceGap)
    /\ calm' = Older(calm, SpoofGap)
    /\ calls' = {}
    /\ UNCHANGED <<incident, spoofing, camera, counted, card, earned>>

Next ==
    \/ FaceAttempt \/ FaceReset \/ (\E ir \in BOOLEAN : FaceCount(ir))
    \/ FaceDeny \/ Unlocked \/ SpoofSeen \/ SpoofGone
    \/ CardAttempt \/ CardReset \/ CardCount
    \/ Tick

Spec == Init /\ [][Next]_vars

-----------------------------------------------------------------------------
(* Properties.                                                             *)

(***************************************************************************)
(* Alerts of one kind keep their distance, whatever resets come between:   *)
(* an unlock or a timeout does not let the same intruder or the same       *)
(* flickering spoof flood the operator.                                    *)
(***************************************************************************)
AlertsSpaced ==
    [][/\ "face_alert" \in calls' => quiet >= FaceGap
       /\ "spoof_alert" \in calls' => calm >= SpoofGap]_vars

(***************************************************************************)
(* A face alert is earned: as many attempts as the threshold were counted  *)
(* since the last alert and the last reset, by whichever thread.           *)
(***************************************************************************)
AlertEarned ==
    [][\A ir \in BOOLEAN :
          FaceCount(ir) /\ "face_alert" \in calls'
              => earned + 1 >= Threshold[ir]]_vars

(***************************************************************************)
(* The door is never muted for good: an open incident has an alert time,   *)
(* whose expiry will close it, and a full counter an open incident.        *)
(***************************************************************************)
NeverMuted ==
    /\ incident => lastFace # Never
    /\ tried.count = MaxThreshold => incident

(***************************************************************************)
(* What _send_denied decides on: no attempt in the gap after a face alert  *)
(* is given an event of its own, the one that raised the alert included.   *)
(***************************************************************************)
SilentAfterAlert == "event" \in calls => quiet >= FaceGap
=============================================================================
