----------------------------- MODULE EventFlow ------------------------------
(***************************************************************************)
(* From a refused attempt to the cloud: AttemptAlerts with the part of     *)
(* CameraWorker that hands denials to a thread of their own (_send_denied, *)
(* _denied_queue, _denied_worker_loop) and the card callbacks of           *)
(* edge_app.py, which post through a pool.                                 *)
(*                                                                         *)
(* The inference thread never waits for the cloud: it puts a denial into a *)
(* bounded queue and, when that is full, tries once more without the       *)
(* photo.  One worker takes the denials out and posts them one by one.     *)
(* Alerts, unlocks and the events of cards go out on threads of their own, *)
(* in any order.  What a post does when the cloud fails is OfflineQueue's  *)
(* Report; here it ends sooner or later, or never.                         *)
(*                                                                         *)
(* Denials are numbered in the order of the attempts, afresh whenever none *)
(* is waiting.  Photos, names and reasons are payload, but for the reasons *)
(* with a cooldown, which may end at any time.                             *)
(***************************************************************************)
EXTENDS AttemptAlerts, Sequences

CONSTANTS
    Reasons,    \* reasons of a denial that have a cooldown of their own
    QueueMax,   \* _DENIED_QUEUE_MAX
    MaxDenials, \* bound: denials while the worker is behind
    MaxErrands  \* posts on threads of their own, from which on not counted

ASSUME FlowAssumption ==
    /\ "mqtt" \notin Reasons
    /\ QueueMax \in Nat \ {0}
    /\ MaxDenials \in Nat \ {0} /\ MaxErrands \in Nat \ {0}

VARIABLES
    cooling, \* what _denied_ts ("mqtt") and _denied_cloud_ts hold back
    denied,  \* _denied_queue
    putting, \* denial the inference thread puts a second time, or 0
    faking,  \* record_spoof is still to be called for this frame
    posting, \* denial the worker posts, or 0
    errands, \* posts on threads of their own; MaxErrands: that or more
    \* History, read by the properties only:
    made,    \* number of the latest denial
    handed,  \* number of the latest denial posted
    lost,    \* denials that found the queue full twice
    logged   \* attempt number of the latest unknown_face denial

inference == <<cooling, denied, putting, faking, made, handed, lost, logged>>
flow == <<inference, posting, errands>>
flowVars == <<vars, flow>>

FlowTypeOK ==
    /\ TypeOK
    /\ cooling \subseteq Reasons \cup {"mqtt"}
    /\ denied \in Seq(1 .. MaxDenials) /\ Len(denied) <= QueueMax
    /\ putting \in 0 .. MaxDenials /\ posting \in 0 .. MaxDenials
    /\ faking \in BOOLEAN
    /\ errands \in 0 .. MaxErrands
    /\ made \in 0 .. MaxDenials /\ handed \in 0 .. made
    /\ lost \subseteq 1 .. made
    /\ logged \in Count

FlowInit ==
    /\ Init
    /\ cooling = {} /\ denied = <<>> /\ putting = 0 /\ faking = FALSE
    /\ posting = 0 /\ errands = 0
    /\ made = 0 /\ handed = 0 /\ lost = {} /\ logged = 0

-----------------------------------------------------------------------------
(* The inference thread.                                                   *)

\* Between two frames.
Idle == camera = "idle" /\ putting = 0 /\ ~faking

Behind == posting # 0 \/ denied # <<>>

\* Bound.
Room == ~Behind \/ made < MaxDenials

Number == IF Behind THEN made + 1 ELSE 1

\* _denied_queue.put_nowait, with the photo.
Put ==
    /\ made' = Number
    /\ handed' = IF Behind THEN handed ELSE 0
    /\ lost' = IF Behind THEN lost ELSE {}
    /\ IF Len(denied) < QueueMax
       THEN denied' = Append(denied, Number) /\ putting' = 0
       ELSE denied' = denied /\ putting' = Number

\* Fault: the text waits for a place in the queue.
PutTextWaiting ==
    /\ putting # 0
    /\ Len(denied) < QueueMax
    /\ denied' = Append(denied, putting)
    /\ putting' = 0
    /\ UNCHANGED <<vars, cooling, faking, posting, errands, made, handed,
                   lost, logged>>

\* put_nowait once more, without the photo: the worker may have made room in
\* between; if not, the denial is dropped.
PutText ==
    /\ putting # 0
    /\ IF Len(denied) < QueueMax
       THEN denied' = Append(denied, putting) /\ UNCHANGED lost
       ELSE lost' = lost \cup {putting} /\ UNCHANGED denied
    /\ putting' = 0
    /\ UNCHANGED <<vars, cooling, faking, posting, errands, made, handed,
                   logged>>

\* A thread, or one of the pool, is given a post.
Spawn == errands' = IF errands < MaxErrands THEN errands + 1 ELSE errands

\* _trigger_alert: the alert is posted on a thread of its own.
TriggerAlert ==
    IF calls' \cap {"face_alert", "card_alert", "spoof_alert"} = {}
    THEN UNCHANGED errands
    ELSE Spawn

\* An unknown face raises a hand: record_unknown_face begins.
Attempt == Idle /\ Room /\ FaceAttempt /\ UNCHANGED flow

\* In the cooldown of the face alert it is no attempt, and only the
\* controller hears of it.
Ignored ==
    /\ Idle /\ Cooldown
    /\ cooling' = cooling \cup {"mqtt"}
    /\ UNCHANGED <<vars, denied, putting, faking, posting, errands, made,
                   handed, lost, logged>>

Record ==
    /\ FaceReset \/ \E ir \in BOOLEAN : FaceCount(ir)
    /\ TriggerAlert
    /\ UNCHANGED <<inference, posting>>

\* _send_denied("unknown_face"): every counted attempt posts, whenever the
\* one before did.
Deny ==
    /\ FaceDeny
    /\ cooling' = cooling \cup {"mqtt"}
    /\ IF "event" \in calls'
       THEN Put /\ logged' = counted
       ELSE UNCHANGED <<denied, putting, made, handed, lost, logged>>
    /\ UNCHANGED <<faking, posting, errands>>

\* _send_denied for the other reasons; after a fake face comes record_spoof.
Refuse(reason) ==
    /\ Idle /\ Room
    /\ cooling' = cooling \cup {"mqtt", reason}
    /\ IF reason \in cooling
       THEN UNCHANGED <<denied, putting, made, handed, lost>>
       ELSE Put
    /\ faking' = (reason = "spoof_detected")
    /\ UNCHANGED <<vars, posting, errands, logged>>

Fake ==
    /\ faking /\ putting = 0
    /\ SpoofSeen
    /\ TriggerAlert
    /\ faking' = FALSE
    /\ UNCHANGED <<cooling, denied, putting, posting, made, handed, lost,
                   logged>>

Real == Idle /\ SpoofGone /\ UNCHANGED flow

\* An unlock is reported on a thread of its own.
Unlock == Idle /\ Unlocked /\ Spawn /\ UNCHANGED <<inference, posting>>

CooldownEnds(key) ==
    /\ key \in cooling
    /\ cooling' = cooling \ {key}
    /\ UNCHANGED <<vars, denied, putting, faking, posting, errands, made,
                   handed, lost, logged>>

-----------------------------------------------------------------------------
(* The MQTT thread with the pool, and the denied worker.                   *)

\* _EVENT_POOL.submit
Submit == Spawn

\* _on_access_log, for a message about a card.
OnAccessLog == card = "idle" /\ Submit /\ UNCHANGED <<inference, posting>>

\* A card without access: its event goes to the pool, then the tracker
\* records it.
TapDenied == OnAccessLog /\ CardAttempt

TapRecord ==
    /\ CardReset \/ CardCount
    /\ TriggerAlert
    /\ UNCHANGED <<inference, posting>>

\* A card the controller has opened the door for.
TapGranted == OnAccessLog /\ UNCHANGED vars

\* report_face_match, report_rfid_match, report_access_denied and
\* report_suspicious_alert: the message is at the cloud or in the offline
\* queue.
Reported ==
    /\ errands > 0
    /\ errands' \in IF errands = MaxErrands THEN {errands - 1, errands}
                                           ELSE {errands - 1}
    /\ UNCHANGED <<vars, inference, posting>>

\* Fault: the latest denial is posted first.
TakeLatest ==
    /\ posting = 0 /\ denied # <<>>
    /\ posting' = denied[Len(denied)]
    /\ denied' = SubSeq(denied, 1, Len(denied) - 1)
    /\ UNCHANGED <<vars, cooling, putting, faking, errands, made, handed,
                   lost, logged>>

\* The worker gets the oldest denial.
Take ==
    /\ posting = 0 /\ denied # <<>>
    /\ posting' = Head(denied)
    /\ denied' = Tail(denied)
    /\ UNCHANGED <<vars, cooling, putting, faking, errands, made, handed,
                   lost, logged>>

\* _report_denied_async returns, whatever happened to the post.
Posted ==
    /\ posting # 0
    /\ handed' = posting
    /\ posting' = 0
    /\ UNCHANGED <<vars, cooling, denied, putting, faking, errands, made,
                   lost, logged>>

-----------------------------------------------------------------------------
Time == Idle /\ Tick /\ UNCHANGED flow

InFrame == Record \/ Deny \/ PutText \/ Fake

FlowNext ==
    \/ Attempt \/ Ignored \/ (\E reason \in Reasons : Refuse(reason))
    \/ Real \/ Unlock \/ InFrame
    \/ TapDenied \/ TapRecord \/ TapGranted \/ Reported
    \/ Take \/ Posted
    \/ (\E key \in cooling : CooldownEnds(key))
    \/ Time

\* The inference thread runs; of posts nothing is assumed, not even that
\* they end.
FlowSpec == FlowInit /\ [][FlowNext]_flowVars /\ WF_flowVars(InFrame)

-----------------------------------------------------------------------------
(* Properties.                                                             *)

\* Where a denial is that has been made and not posted.
Waiting(n) ==
    n = posting \/ n = putting \/ \E i \in DOMAIN denied : denied[i] = n

(***************************************************************************)
(* The worker posts the denials one at a time in the order of the          *)
(* attempts, each once, and forgets none: whatever has not been posted     *)
(* waits behind what came before it, unless the queue was full when it     *)
(* came.                                                                   *)
(***************************************************************************)
DenialsInLine ==
    /\ \A i, j \in DOMAIN denied : i < j => denied[i] < denied[j]
    /\ \A i \in DOMAIN denied :
          /\ handed < denied[i] /\ posting < denied[i]
          /\ putting # 0 => denied[i] < putting
    /\ posting # 0 => handed < posting
    /\ putting # 0 => handed < putting /\ posting < putting
    /\ \A n \in handed + 1 .. made : Waiting(n) \/ n \in lost

(***************************************************************************)
(* The attempts of a cycle are denied without a gap: the event of attempt  *)
(* k follows that of attempt k - 1, though resets, alerts and cards on the *)
(* other thread come between counting an attempt and denying it.           *)
(***************************************************************************)
AttemptsWithoutGap ==
    [][Deny /\ "event" \in calls'
          => counted = 1 \/ counted = logged + 1]_flowVars

(***************************************************************************)
(* An unreachable cloud never freezes the door: the inference thread gets  *)
(* through every frame though no post of an event or an alert ever ends.   *)
(***************************************************************************)
NeverFrozen == ~Idle ~> Idle

(***************************************************************************)
(* In the gap after a face alert no denial of an unknown face gets into    *)
(* the line to the cloud, in whatever order the tracker's two threads      *)
(* count, reset and alert; the attempt that raised the alert is kept out   *)
(* as well.  Denials from before the alert may be waiting in the line, and *)
(* go out during the gap: of those QuietGap speaks.                        *)
(***************************************************************************)
NoDenialInGap ==
    [][Deny /\ quiet < FaceGap
          => UNCHANGED <<denied, putting, made, lost>>]_flowVars

(***************************************************************************)
(* "No audit-log record and no Telegram photo during the quiet gap"        *)
(* (camera_worker.py:981-983): within the gap after a face alert nothing   *)
(* about a denial is posted.                                               *)
(***************************************************************************)
QuietGap == [][Posted => quiet >= FaceGap]_flowVars

(***************************************************************************)
(* "Each counted attempt posts its own /event" (camera_worker.py:753-754,  *)
(* 964 and 987, WHOLE_SYSTEM.md:114).                                      *)
(***************************************************************************)
EveryAttemptPosts ==
    [][Deny /\ counted # 0 => "event" \in calls']_flowVars
=============================================================================
