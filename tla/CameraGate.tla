----------------------------- MODULE CameraGate -----------------------------
(***************************************************************************)
(* The face gate of the edge process: CameraWorker._process of             *)
(* core/camera_worker.py, run by the inference thread once per new frame.  *)
(* The thread is the only writer of this state, so one frame is one step,  *)
(* and each action below is one way through _process, from the mode        *)
(* detection at its top to the return that ends it.                        *)
(*                                                                         *)
(* What the models compute from the pixels (face, distance, liveness,      *)
(* hand) and what Redis and the schedule answer are the inputs of a frame: *)
(* they are chosen freely, frame by frame.  The liveness score is the mean *)
(* over a buffer of scores, so its verdict is free as well.  The calls     *)
(* _process makes on the other components (MQTT, alert tracker, denied     *)
(* queue) are recorded in `calls', the set of calls of the latest frame.   *)
(* Hand verification is on, as config.py ships it.                         *)
(***************************************************************************)
EXTENDS Naturals

CONSTANTS
    People,        \* enrolled persons
    NoOne,         \* Python's None as a person id
    Stranger,      \* a face that matches no enrolled person
    ConfirmFrames, \* [BOOLEAN -> Nat]: frames to confirm, by IR mode
    HandStreak,    \* [BOOLEAN -> Nat]: frames a hand must be held still
    FakeStreak,    \* [BOOLEAN -> Nat]: FAKE frames before the alert chain
    NoFaceReset,   \* frames without a face before the confirmation is reset
    ErrorAlertAfter \* liveness errors in a row before a warning

(***************************************************************************)
(* The mode (TRUE is infrared) selects the thresholds.  config.py ships    *)
(* 5/3 confirm frames and 6/4 hand frames: a hand streak is never one      *)
(* frame long, which the confirmation logic relies on.                     *)
(***************************************************************************)
ASSUME GateAssumption ==
    /\ NoOne \notin People /\ Stranger \notin People /\ NoOne # Stranger
    /\ ConfirmFrames \in [BOOLEAN -> Nat \ {0}]
    /\ HandStreak \in [BOOLEAN -> Nat \ {0, 1}]
    /\ FakeStreak \in [BOOLEAN -> Nat \ {0}]
    /\ NoFaceReset \in Nat \ {0}
    /\ ErrorAlertAfter \in Nat \ {0}

VARIABLES
    ir,           \* _in_ir_mode
    fstate,       \* _fstate
    confirmId,    \* _confirm_id
    confirmCount, \* _confirm_count
    noFace,       \* _no_face_count
    hand,         \* _hand_streak, _hand_latched, _hand_off
    fakeStreak,   \* _fake_streak
    liveErrors,   \* _liveness_error_streak
    calls,        \* calls on other components made by the latest frame
    \* History, read by the properties only:
    vouched,      \* whose uninterrupted frames were seen, and how many
    latchedBy,    \* the face shown when the hand latch was last set
    raised        \* consecutive stranger frames with a hand held still

gate == <<ir, fstate, confirmId, confirmCount, noFace, hand, fakeStreak,
          liveErrors, calls>>
history == <<vouched, latchedBy, raised>>
vars == <<gate, history>>

Fstate == {"IDLE", "CONFIRMING", "UNLOCKED"}
Call == {"unlock", "reset_counters", "record_unknown", "record_spoof",
         "spoof_clear", "liveness_error", "deny_unknown", "deny_spoof",
         "deny_close", "deny_schedule"}
Hand == {"none", "moved", "still"}      \* near-face hand of this frame
Live == {"real", "fake", "error"}       \* verdict of the liveness ensemble

\* Counters are only ever compared with a threshold from below (>=): they
\* stop at it here, where the code lets them grow.
Sat(n, cap) == IF n < cap THEN n + 1 ELSE cap
Larger(f) == IF f[TRUE] > f[FALSE] THEN f[TRUE] ELSE f[FALSE]

MaxConfirm == Larger(ConfirmFrames)
MaxHand == Larger(HandStreak)
MaxFake == Larger(FakeStreak)

NoVouch == [who |-> NoOne, frames |-> 0]

TypeOK ==
    /\ ir \in BOOLEAN
    /\ fstate \in Fstate
    /\ confirmId \in People \cup {NoOne}
    /\ confirmCount \in 0 .. MaxConfirm
    /\ noFace \in 0 .. NoFaceReset
    /\ hand \in [streak: 0 .. MaxHand, latched: BOOLEAN, off: 0 .. MaxHand]
    /\ fakeStreak \in 0 .. MaxFake
    /\ liveErrors \in 0 .. ErrorAlertAfter
    /\ calls \in SUBSET Call
    /\ vouched \in [who: People \cup {NoOne}, frames: 0 .. MaxConfirm]
    /\ latchedBy \in People \cup {NoOne, Stranger}
    /\ raised \in 0 .. MaxHand

Init ==
    /\ ir = FALSE
    /\ fstate = "IDLE"
    /\ confirmId = NoOne
    /\ confirmCount = 0
    /\ noFace = 0
    /\ hand = [streak |-> 0, latched |-> FALSE, off |-> 0]
    /\ fakeStreak = 0
    /\ liveErrors = 0
    /\ calls = {}
    /\ vouched = NoVouch
    /\ latchedBy = NoOne
    /\ raised = 0

-----------------------------------------------------------------------------
(* The helpers of _process.                                                *)

\* The mode is detected on every frame; a change clears the fake streak.
FakeBefore(mode) == IF mode # ir THEN 0 ELSE fakeStreak

Dropped(h) == [streak |-> 0, latched |-> FALSE, off |-> h.off]

\* Fault: the latch outlives any number of frames without a hand.
HandNeverExpires(h, mode, seen) ==
    IF seen # "none"
    THEN [streak |-> Sat(h.streak, MaxHand), off |-> 0,
          latched |-> h.latched \/ h.streak + 1 >= HandStreak[mode]]
    ELSE [h EXCEPT !.streak = 0, !.off = @ + 1]

(***************************************************************************)
(* _hand_present: a hand near the face adds to the streak, one that moved  *)
(* too far since the last frame starts it again, and the latch drops after *)
(* as many frames without a hand as it took to set it.  _hand_pos is known *)
(* exactly when the streak is positive, so it needs no variable.           *)
(***************************************************************************)
HandSeen(h, mode, seen) ==
    LET need == HandStreak[mode]
        streak == CASE seen = "still" -> Sat(h.streak, MaxHand)
                    [] seen = "moved" -> 1
                    [] seen = "none"  -> 0
        expired == h.latched /\ h.off + 1 >= need
    IN  IF seen # "none"
        THEN [streak |-> streak, latched |-> h.latched \/ streak >= need,
              off |-> 0]
        ELSE [streak |-> 0, latched |-> h.latched /\ ~expired,
              off |-> IF expired THEN 0
                      ELSE IF h.latched THEN h.off + 1 ELSE h.off]

\* Fault: an unlocked window is no confirmation to reset.
ResetConfirmingOnly ==
    IF fstate = "CONFIRMING"
    THEN fstate' = "IDLE" /\ confirmId' = NoOne /\ confirmCount' = 0
    ELSE UNCHANGED <<fstate, confirmId, confirmCount>>

\* _reset_fstate, and the confirmation half of _reset.  The code does
\* nothing when the state is already IDLE, whatever confirmId holds.
ResetConfirmation ==
    IF fstate # "IDLE"
    THEN fstate' = "IDLE" /\ confirmId' = NoOne /\ confirmCount' = 0
    ELSE UNCHANGED <<fstate, confirmId, confirmCount>>

Reset == ResetConfirmation /\ hand' = Dropped(hand)

\* The liveness step for a face that is not FAKE.  An inference error lets
\* the frame through and counts towards the throttled warning, for which
\* the minimum interval since the last one may or may not have passed.
NotFake(mode, live) ==
    \/ /\ live = "real"
       /\ fakeStreak' = 0
       /\ liveErrors' = 0
    \/ /\ live = "error"
       /\ fakeStreak' = FakeBefore(mode)
       /\ liveErrors' = Sat(liveErrors, ErrorAlertAfter)
    \/ /\ live = "error"
       /\ fakeStreak' = FakeBefore(mode)
       /\ Sat(liveErrors, ErrorAlertAfter) = ErrorAlertAfter
       /\ liveErrors' = 0

LivenessCalls(live) ==
    (IF live = "real" THEN {"spoof_clear"} ELSE {}) \cup
    (IF live = "error" /\ liveErrors' = 0 THEN {"liveness_error"} ELSE {})

-----------------------------------------------------------------------------
(* History.  Frames of p vouch for p while nothing interrupts them; an     *)
(* unlock spends them.                                                     *)

Vouched == IF "unlock" \in calls THEN NoVouch ELSE vouched
Vouch(p) ==
    vouched' = [who |-> p,
                frames |-> IF Vouched.who = p
                           THEN Sat(Vouched.frames, MaxConfirm) ELSE 1]
Interrupt == vouched' = NoVouch
Overlook == vouched' = Vouched
LatchedBy(face) ==
    latchedBy' = IF hand'.latched /\ ~hand.latched THEN face ELSE latchedBy

-----------------------------------------------------------------------------
(* One action per way through _process.                                    *)

\* Outside the run window the edge cools down and recognises nobody.
Cooling(mode) ==
    /\ ir' = mode
    /\ fakeStreak' = FakeBefore(mode)
    /\ Reset
    /\ calls' = {}
    /\ Interrupt
    /\ raised' = 0
    /\ UNCHANGED <<noFace, liveErrors, latchedBy>>

\* Redis cannot be reached, or holds no face: the frame is skipped.
StoreUnavailable(mode) ==
    /\ ir' = mode
    /\ fakeStreak' = FakeBefore(mode)
    /\ calls' = {}
    /\ Overlook
    /\ raised' = 0
    /\ UNCHANGED <<fstate, confirmId, confirmCount, noFace, hand, liveErrors,
                   latchedBy>>

\* Fault: the latch is kept while nobody is in frame.
AbsentHandLatched == hand

\* The hand state of an empty frame: the latch falls at once, the streak
\* only with the reset.
AbsentHand == [streak |-> hand.streak, latched |-> FALSE, off |-> 0]

\* Nobody in frame, for the first or the NoFaceReset-th time.
NoFace(mode) ==
    /\ ir' = mode
    /\ fakeStreak' = 0
    /\ noFace' = Sat(noFace, NoFaceReset)
    /\ IF noFace' >= NoFaceReset
       THEN /\ ResetConfirmation
            /\ hand' = [streak |-> 0, latched |-> FALSE, off |-> 0]
       ELSE /\ hand' = AbsentHand
            /\ UNCHANGED <<fstate, confirmId, confirmCount>>
    /\ calls' = {"spoof_clear"}
    /\ Interrupt
    /\ raised' = 0
    /\ UNCHANGED <<liveErrors, latchedBy>>

\* The unlocked window, same person: a cheap match keeps it open.
StillGranted(mode, p) ==
    /\ fstate = "UNLOCKED" /\ confirmId = p
    /\ ir' = mode
    /\ fakeStreak' = FakeBefore(mode)
    /\ noFace' = 0
    /\ calls' = {}
    /\ Overlook
    /\ raised' = 0
    /\ UNCHANGED <<fstate, confirmId, confirmCount, hand, liveErrors,
                   latchedBy>>

\* The same, but a lockdown has landed since the unlock.
GrantRevoked(mode, p) ==
    /\ fstate = "UNLOCKED" /\ confirmId = p
    /\ ir' = mode
    /\ fakeStreak' = FakeBefore(mode)
    /\ noFace' = 0
    /\ Reset
    /\ calls' = {"deny_schedule"}
    /\ Interrupt
    /\ raised' = 0
    /\ UNCHANGED <<liveErrors, latchedBy>>

(***************************************************************************)
(* From here on the frame is past the unlocked short-circuit.  A frame of  *)
(* the granted person gets here too, when the search of the short-circuit  *)
(* fails and the one of the full pipeline answers.                         *)
(***************************************************************************)

\* "Move closer": nothing is reset.
TooFar(mode) ==
    /\ ir' = mode
    /\ fakeStreak' = FakeBefore(mode)
    /\ noFace' = 0
    /\ calls' = {}
    /\ Overlook
    /\ raised' = 0
    /\ UNCHANGED <<fstate, confirmId, confirmCount, hand, liveErrors,
                   latchedBy>>

\* A FAKE face, of whomever: a long enough streak resets the gate and
\* raises the alert chain; a close one is also denied as too close; in
\* every case the frame then ends without touching the confirmation.
FakeFace(mode, close) ==
    LET streak == Sat(FakeBefore(mode), MaxFake)
        alarm == streak >= FakeStreak[mode]
    IN  /\ ir' = mode
        /\ fakeStreak' = streak
        /\ liveErrors' = 0
        /\ noFace' = 0
        /\ IF alarm \/ close
           THEN Reset /\ Interrupt
           ELSE UNCHANGED <<fstate, confirmId, confirmCount, hand>> /\ Overlook
        /\ calls' = (IF alarm THEN {"deny_spoof", "record_spoof"} ELSE {})
                    \cup (IF close THEN {"deny_close"} ELSE {})
        /\ raised' = 0
        /\ UNCHANGED latchedBy

TooClose(mode, live) ==
    /\ ir' = mode
    /\ noFace' = 0
    /\ NotFake(mode, live)
    /\ Reset
    /\ calls' = LivenessCalls(live) \cup {"deny_close"}
    /\ Interrupt
    /\ raised' = 0
    /\ UNCHANGED latchedBy

\* The search itself fails: the frame is not taken for an unknown face.
SearchFailed(mode, live) ==
    /\ ir' = mode
    /\ noFace' = 0
    /\ NotFake(mode, live)
    /\ calls' = LivenessCalls(live)
    /\ Overlook
    /\ raised' = 0
    /\ UNCHANGED <<fstate, confirmId, confirmCount, hand, latchedBy>>

\* Fault: every unknown frame starts the hand streak again.
StrangerHandForgotten(mode, seen) == HandSeen(Dropped(hand), mode, seen)

\* Hand state held by a confirmation subject is not a stranger's.
StrangerHand(mode, seen) ==
    HandSeen(IF confirmId # NoOne THEN Dropped(hand) ELSE hand, mode, seen)

\* No match: a held hand makes it an access attempt, counted and denied.
UnknownFace(mode, live, seen) ==
    /\ ir' = mode
    /\ noFace' = 0
    /\ NotFake(mode, live)
    /\ hand' = StrangerHand(mode, seen)
    /\ ResetConfirmation
    /\ calls' = LivenessCalls(live) \cup
                (IF hand'.latched THEN {"record_unknown", "deny_unknown"}
                                  ELSE {})
    /\ Interrupt
    /\ LatchedBy(Stranger)
    /\ raised' = IF seen = "still" THEN Sat(raised, MaxHand) ELSE 0

\* A recognised person during a hard lockdown.
LockdownDeny(mode, p, live) ==
    /\ ir' = mode
    /\ noFace' = 0
    /\ NotFake(mode, live)
    /\ Reset
    /\ calls' = LivenessCalls(live) \cup {"deny_schedule"}
    /\ Interrupt
    /\ raised' = 0
    /\ UNCHANGED latchedBy

\* Already unlocked for p, seen by the full pipeline.
AlreadyGranted(mode, p, live) ==
    /\ fstate = "UNLOCKED" /\ confirmId = p
    /\ ir' = mode
    /\ noFace' = 0
    /\ NotFake(mode, live)
    /\ calls' = LivenessCalls(live)
    /\ Overlook
    /\ raised' = 0
    /\ UNCHANGED <<fstate, confirmId, confirmCount, hand, latchedBy>>

\* Fault: the latch of the previous subject is left to the next one.
HandForAnyone(p, mode, seen) ==
    IF confirmId = p /\ confirmCount > 0 THEN hand
    ELSE HandSeen(hand, mode, seen)

\* The hand state a recognised p is judged by.  Another subject's hand is
\* dropped; in mid-confirmation of p the hand model is skipped.
HandFor(p, mode, seen) ==
    LET mine == IF confirmId # NoOne /\ p # confirmId THEN Dropped(hand)
                ELSE hand
    IN  IF confirmId = p /\ confirmCount > 0 THEN mine
        ELSE HandSeen(mine, mode, seen)

Judged(mode, p, live, seen) ==
    /\ ~(fstate = "UNLOCKED" /\ confirmId = p)
    /\ ir' = mode
    /\ noFace' = 0
    /\ NotFake(mode, live)
    /\ hand' = HandFor(p, mode, seen)
    /\ LatchedBy(p)
    /\ raised' = 0

\* Fault: losing the hand does not restart the count.
WaitForHandCounting(mode, p, live, seen) ==
    /\ Judged(mode, p, live, seen)
    /\ ~HandFor(p, mode, seen).latched
    /\ confirmId' = p
    /\ confirmCount' = IF p = confirmId THEN confirmCount ELSE 1
    /\ fstate' = "IDLE"
    /\ calls' = LivenessCalls(live)
    /\ Vouch(p)

\* Recognised, no accepted hand: p becomes the subject, the count restarts
\* and the state is IDLE.
WaitForHand(mode, p, live, seen) ==
    /\ Judged(mode, p, live, seen)
    /\ ~HandFor(p, mode, seen).latched
    /\ confirmId' = p
    /\ confirmCount' = 0
    /\ fstate' = "IDLE"
    /\ calls' = LivenessCalls(live)
    /\ Vouch(p)

Counted(p) == IF p = confirmId THEN confirmCount + 1 ELSE 1

\* Recognised with an accepted hand, not yet often enough.  A subject that
\* was already waiting stays in the state it is in.
CountFrame(mode, p, live, seen) ==
    /\ Judged(mode, p, live, seen)
    /\ HandFor(p, mode, seen).latched
    /\ Counted(p) < ConfirmFrames[mode]
    /\ confirmId' = p
    /\ confirmCount' = Counted(p)
    /\ fstate' = IF p = confirmId THEN fstate ELSE "CONFIRMING"
    /\ calls' = LivenessCalls(live)
    /\ Vouch(p)

\* Often enough, but the schedule refuses p: the frame counts, and _reset
\* follows it, which keeps subject and count when the state was IDLE.
ScheduleDeny(mode, p, live, seen) ==
    /\ ~(fstate = "UNLOCKED" /\ confirmId = p)
    /\ ir' = mode
    /\ noFace' = 0
    /\ NotFake(mode, live)
    /\ HandFor(p, mode, seen).latched
    /\ Counted(p) >= ConfirmFrames[mode]
    /\ hand' = Dropped(HandFor(p, mode, seen))
    /\ IF p = confirmId /\ fstate = "IDLE"
       THEN confirmCount' = Counted(p) /\ UNCHANGED <<fstate, confirmId>>
       ELSE fstate' = "IDLE" /\ confirmId' = NoOne /\ confirmCount' = 0
    /\ calls' = LivenessCalls(live) \cup {"deny_schedule"}
    /\ Interrupt
    /\ raised' = 0
    /\ UNCHANGED latchedBy

Unlock(mode, p, live, seen) ==
    /\ Judged(mode, p, live, seen)
    /\ HandFor(p, mode, seen).latched
    /\ Counted(p) >= ConfirmFrames[mode]
    /\ confirmId' = p
    /\ confirmCount' = Counted(p)
    /\ fstate' = "UNLOCKED"
    /\ calls' = LivenessCalls(live) \cup {"unlock", "reset_counters"}
    /\ Vouch(p)

-----------------------------------------------------------------------------
(***************************************************************************)
(* A recognised person with no lockdown in force: the answer of is_granted *)
(* at the gate picks between ScheduleDeny and Unlock.                      *)
(***************************************************************************)
Recognised(mode, p, live, seen) ==
    \/ WaitForHand(mode, p, live, seen)
    \/ CountFrame(mode, p, live, seen)
    \/ ScheduleDeny(mode, p, live, seen)
    \/ Unlock(mode, p, live, seen)

Next ==
    \E mode \in BOOLEAN :
        \/ Cooling(mode)
        \/ StoreUnavailable(mode)
        \/ NoFace(mode)
        \/ TooFar(mode)
        \/ \E close \in BOOLEAN : FakeFace(mode, close)
        \/ \E p \in People : StillGranted(mode, p) \/ GrantRevoked(mode, p)
        \/ \E live \in Live \ {"fake"} :
              \/ TooClose(mode, live)
              \/ SearchFailed(mode, live)
              \/ \E p \in People : \/ LockdownDeny(mode, p, live)
                                   \/ AlreadyGranted(mode, p, live)
              \/ \E seen \in Hand :
                    \/ UnknownFace(mode, live, seen)
                    \/ \E p \in People : Recognised(mode, p, live, seen)

\* The inference loop never ends while the camera delivers frames, and an
\* exception in _process does not end it either.
Spec == Init /\ [][Next]_vars /\ WF_vars(Next)

-----------------------------------------------------------------------------
(* Properties.                                                             *)

(***************************************************************************)
(* Every unlock of p is paid for by ConfirmFrames frames of its own in     *)
(* which p was recognised and not FAKE, with no frame between them that    *)
(* showed nobody, a stranger, another person, a face too close, a spoof    *)
(* alarm, a refusal or a cooldown.  The confirmation count survives many   *)
(* of those interruptions in the code (_reset leaves it alone in IDLE):    *)
(* it is the fall of the hand latch that makes it start again.             *)
(***************************************************************************)
UnlockVouched ==
    "unlock" \in calls =>
        vouched.who = confirmId /\ vouched.frames >= ConfirmFrames[ir]

(***************************************************************************)
(* A hand raised by one enrolled person never opens the door for another   *)
(* (camera_worker.py:818-826).                                             *)
(***************************************************************************)
NoBorrowedHand ==
    "unlock" \in calls => latchedBy \in {confirmId, Stranger}

(***************************************************************************)
(* camera_worker.py:723-725: a stranger's held hand accumulates over       *)
(* consecutive unknown-face frames until it registers as an attempt.       *)
(***************************************************************************)
StrangerHeard ==
    raised >= HandStreak[ir] => "record_unknown" \in calls

(***************************************************************************)
(* What the code does keep of it: once no subject is left over from an     *)
(* earlier confirmation, a held hand does register.                        *)
(***************************************************************************)
FreeStrangerHeard ==
    confirmId = NoOne /\ raised >= HandStreak[ir]
        => "record_unknown" \in calls

\* The frame recognises somebody else than p: a stranger, or another person.
ShowsAnother(p) ==
    \E mode \in BOOLEAN, live \in Live \ {"fake"}, seen \in Hand :
        \/ UnknownFace(mode, live, seen)
        \/ \E q \in People \ {p} : \/ LockdownDeny(mode, q, live)
                                  \/ Recognised(mode, q, live, seen)

(***************************************************************************)
(* The granted window closes: it belongs to one person throughout, and it  *)
(* survives no frame that recognises another person or a stranger, with or *)
(* without a hand, none that is denied for any reason, and no run of       *)
(* NoFaceReset frames without a face.  The frames that keep it open are    *)
(* those of its person and those in which nobody is recognised: a face too *)
(* far away, a FAKE one below the streak, a search that fails.             *)
(***************************************************************************)
GrantWindow ==
    [][fstate = "UNLOCKED" /\ fstate' = "UNLOCKED" =>
          /\ confirmId' = confirmId
          /\ "unlock" \notin calls'
          /\ ~ShowsAnother(confirmId)
          /\ noFace' < NoFaceReset
          /\ vouched'.who \in {NoOne, confirmId}
          /\ calls' \cap {"deny_unknown", "deny_spoof", "deny_close",
                          "deny_schedule", "record_unknown"} = {}]_vars

(***************************************************************************)
(* Nothing that happened before can shut a person out: one who stays in    *)
(* front of the camera, real, with a hand held still and a schedule that   *)
(* grants, is let in and stays let in, whatever came before, an earlier    *)
(* admission of the same person included.                                  *)
(***************************************************************************)
GoodFrame(p) ==
    \E mode \in BOOLEAN :
        \/ StillGranted(mode, p)
        \/ AlreadyGranted(mode, p, "real")
        \/ /\ Recognised(mode, p, "real", "still")
           /\ "deny_schedule" \notin calls'

PatienceAdmits ==
    \A p \in People :
        <>[][GoodFrame(p)]_vars
            => <>[](fstate = "UNLOCKED" /\ confirmId = p)
=============================================================================
