-------------------------- MODULE AdmissionProofs ---------------------------
(***************************************************************************)
(* Proofs about who is let in, and when.                                   *)
(*                                                                         *)
(* CameraGate, for every set of persons and every choice of the            *)
(* thresholds: type correctness, that every unlock is vouched for, that no *)
(* enrolled person's hand opens the door for another, that the held hand   *)
(* of a stranger is heard when no subject is left over, and that a granted *)
(* window belongs to one person and survives no refusal.                   *)
(*                                                                         *)
(* SchedulePolicy, for every bundle and every calendar.  The clock is the  *)
(* only thing that moves there, so the properties are facts about the      *)
(* operators at an instant; each is proved as one, for any bundle, and     *)
(* then carried to the reachable states by the type invariant.             *)
(***************************************************************************)
EXTENDS CameraGate, SchedulePolicy, TLAPS

(***************************************************************************)
(* The strengthening.  The confirmation count alone means nothing: it      *)
(* outlives resets in IDLE.  A positive count counts only together with    *)
(* the hand latch, and the two together are backed by vouching frames; a   *)
(* latch, in turn, was set by the subject or before there was one.         *)
(***************************************************************************)
NoSubject == confirmId = NoOne => confirmCount = 0 /\ fstate = "IDLE"
UnlockOpens == "unlock" \in calls => fstate = "UNLOCKED"
CountBacked ==
    hand.latched /\ fstate # "UNLOCKED" /\ confirmCount > 0 =>
        /\ vouched.who = confirmId
        /\ vouched.frames >= confirmCount
        /\ confirmCount < MaxConfirm
LatchOwned == hand.latched => latchedBy \in {confirmId, Stranger} \ {NoOne}

Backed ==
    /\ NoSubject
    /\ UnlockOpens
    /\ CountBacked
    /\ LatchOwned
    /\ UnlockVouched
    /\ NoBorrowedHand

GateInv == TypeOK /\ Backed

-----------------------------------------------------------------------------
(* The helpers.                                                            *)

\* A saturating counter stays within its cap and never decreases below it.
LEMMA SatRange ==
    ASSUME NEW cap \in Nat, NEW n \in 0 .. cap
    PROVE  /\ Sat(n, cap) \in 0 .. cap
           /\ Sat(n, cap) >= n
           /\ n < cap => Sat(n, cap) = n + 1
BY DEF Sat

\* The larger of two thresholds bounds both.
LEMMA LargerBounds ==
    ASSUME NEW low \in Nat, NEW f \in [BOOLEAN -> Nat],
           \A mode \in BOOLEAN : f[mode] >= low
    PROVE  /\ Larger(f) \in Nat /\ Larger(f) >= low
           /\ \A mode \in BOOLEAN : f[mode] \in low .. Larger(f)
<1>1. f[TRUE] \in Nat /\ f[FALSE] \in Nat /\ f[TRUE] >= low /\ f[FALSE] >= low
  OBVIOUS
<1>2. /\ Larger(f) \in Nat /\ Larger(f) >= low
      /\ f[TRUE] \in low .. Larger(f) /\ f[FALSE] \in low .. Larger(f)
  <2> DEFINE a == f[TRUE]
             b == f[FALSE]
             c == IF a > b THEN a ELSE b
  <2>1. a \in Nat /\ b \in Nat /\ a >= low /\ b >= low
    BY <1>1
  <2> HIDE DEF a, b
  <2>2. c \in Nat /\ c >= low /\ a \in low .. c /\ b \in low .. c
    BY <2>1
  <2>3. c = Larger(f)
    BY DEF Larger, a, b
  <2>4. QED
    BY <2>2, <2>3 DEF a, b
<1>3. ASSUME NEW mode \in BOOLEAN
      PROVE  f[mode] \in low .. Larger(f)
  <2>1. mode = TRUE \/ mode = FALSE
    OBVIOUS
  <2>2. QED
    BY <2>1, <1>2
<1>4. QED
  BY <1>2, <1>3

\* The caps are reached by each mode's own threshold.
LEMMA Thresholds ==
    /\ MaxConfirm \in Nat /\ MaxConfirm >= 1 /\ MaxHand \in Nat /\ MaxFake \in Nat
    /\ \A mode \in BOOLEAN :
          /\ ConfirmFrames[mode] \in 1 .. MaxConfirm
          /\ HandStreak[mode] \in 2 .. MaxHand
          /\ FakeStreak[mode] \in 1 .. MaxFake
<1>1. /\ ConfirmFrames \in [BOOLEAN -> Nat]
      /\ \A mode \in BOOLEAN : ConfirmFrames[mode] >= 1
  BY GateAssumption DEF GateAssumption
<1>2. /\ HandStreak \in [BOOLEAN -> Nat]
      /\ \A mode \in BOOLEAN : HandStreak[mode] >= 2
  BY GateAssumption DEF GateAssumption
<1>3. /\ FakeStreak \in [BOOLEAN -> Nat]
      /\ \A mode \in BOOLEAN : FakeStreak[mode] >= 1
  BY GateAssumption DEF GateAssumption
<1>4. QED
  BY <1>1, <1>2, <1>3, LargerBounds DEF MaxConfirm, MaxHand, MaxFake

HandType == [streak: 0 .. MaxHand, latched: BOOLEAN, off: 0 .. MaxHand]

\* _hand_present keeps the hand state in its type.
LEMMA HandSeenType ==
    ASSUME NEW h \in HandType, NEW mode \in BOOLEAN, NEW seen \in Hand
    PROVE  HandSeen(h, mode, seen) \in HandType
<1> DEFINE need == HandStreak[mode]
<1>1. need \in 2 .. MaxHand /\ MaxHand \in Nat
  BY Thresholds
<1>2. Sat(h.streak, MaxHand) \in 0 .. MaxHand
  BY <1>1, SatRange DEF HandType
<1>3. CASE seen = "still"
  BY <1>1, <1>2, <1>3 DEF HandSeen, HandType
<1>4. CASE seen = "moved"
  BY <1>1, <1>4 DEF HandSeen, HandType
<1>5. CASE seen = "none"
  BY <1>1, <1>5 DEF HandSeen, HandType
<1>6. QED
  BY <1>3, <1>4, <1>5 DEF Hand

\* A hand state that was just dropped cannot latch in the same frame: this
\* is where the streak has to be longer than one frame.
LEMMA DroppedDoesNotLatch ==
    ASSUME NEW h \in HandType, NEW mode \in BOOLEAN, NEW seen \in Hand
    PROVE  /\ Dropped(h) \in HandType
           /\ ~HandSeen(Dropped(h), mode, seen).latched
<1>1. HandStreak[mode] \in 2 .. MaxHand /\ MaxHand \in Nat
  BY Thresholds
<1>2. /\ Dropped(h) \in HandType
      /\ Dropped(h).streak = 0 /\ Dropped(h).latched = FALSE
  BY <1>1 DEF Dropped, HandType
<1>3. Sat(0, MaxHand) = 1
  BY <1>1 DEF Sat
<1> DEFINE d == Dropped(h)
           need == HandStreak[mode]
<1>4. ~(1 >= need) /\ d.streak = 0 /\ d.latched = FALSE
  BY <1>1, <1>2
<1> HIDE DEF d, need
<1>5. CASE seen = "still"
  <2>1. HandSeen(d, mode, seen).latched = FALSE
    BY <1>3, <1>4, <1>5 DEF HandSeen, need
  <2>2. QED
    BY <2>1, <1>2 DEF d
<1>6. CASE seen = "moved"
  <2>1. HandSeen(d, mode, seen).latched = FALSE
    BY <1>4, <1>6 DEF HandSeen, need
  <2>2. QED
    BY <2>1, <1>2 DEF d
<1>7. CASE seen = "none"
  <2>1. HandSeen(d, mode, seen).latched = FALSE
    BY <1>4, <1>7 DEF HandSeen
  <2>2. QED
    BY <2>1, <1>2 DEF d
<1>8. QED
  BY <1>5, <1>6, <1>7 DEF Hand

\* _reset clears the confirmation or finds it IDLE, and drops the hand.
LEMMA ResetFacts ==
    ASSUME TypeOK, NoSubject, Reset
    PROVE  /\ hand' \in HandType /\ hand'.latched = FALSE
           /\ fstate' = "IDLE"
           /\ confirmId' \in People \cup {NoOne}
           /\ confirmCount' \in 0 .. MaxConfirm
           /\ NoSubject'
BY Thresholds DEF Reset, ResetConfirmation, Dropped, HandType, TypeOK,
                  NoSubject, Fstate

\* The liveness step keeps its two counters in their types.
LEMMA NotFakeType ==
    ASSUME TypeOK, NEW mode \in BOOLEAN, NEW live, NotFake(mode, live)
    PROVE  fakeStreak' \in 0 .. MaxFake /\ liveErrors' \in 0 .. ErrorAlertAfter
<1>1. Sat(liveErrors, ErrorAlertAfter) \in 0 .. ErrorAlertAfter
  BY GateAssumption, SatRange DEF TypeOK, GateAssumption
<1>2. FakeBefore(mode) \in 0 .. MaxFake
  BY Thresholds DEF FakeBefore, TypeOK
<1>3. QED
  BY <1>1, <1>2, Thresholds, GateAssumption DEF NotFake, GateAssumption

\* The history of the vouching frames keeps its type.
VouchRecord == [who: People \cup {NoOne}, frames: 0 .. MaxConfirm]

LEMMA VouchedType ==
    ASSUME TypeOK
    PROVE  Vouched \in VouchRecord /\ NoVouch \in VouchRecord
BY Thresholds DEF Vouched, NoVouch, TypeOK, VouchRecord

LEMMA VouchType ==
    ASSUME TypeOK, NEW p \in People, Vouch(p)
    PROVE  /\ vouched' \in VouchRecord
           /\ vouched'.who = p
           /\ vouched'.frames >= 1
           /\ Vouched.who = p =>
                 vouched'.frames = Sat(Vouched.frames, MaxConfirm)
<1>1. Vouched \in VouchRecord /\ MaxConfirm \in Nat /\ MaxConfirm >= 1
  BY VouchedType, Thresholds
<1>2. /\ Sat(Vouched.frames, MaxConfirm) \in 0 .. MaxConfirm
      /\ Sat(Vouched.frames, MaxConfirm) >= 1
  BY <1>1 DEF Sat, VouchRecord
<1>3. QED
  BY <1>1, <1>2 DEF Vouch, VouchRecord

-----------------------------------------------------------------------------
(* TypeOK in three parts: what a frame brings, the subject of the          *)
(* confirmation, and the history.                                          *)

FrameType ==
    /\ ir \in BOOLEAN
    /\ calls \in SUBSET Call
    /\ noFace \in 0 .. NoFaceReset
    /\ fakeStreak \in 0 .. MaxFake
    /\ liveErrors \in 0 .. ErrorAlertAfter
    /\ raised \in 0 .. MaxHand
SubjectType ==
    /\ fstate \in Fstate
    /\ confirmId \in People \cup {NoOne}
    /\ confirmCount \in 0 .. MaxConfirm
    /\ hand \in HandType
HistoryType ==
    /\ vouched \in VouchRecord
    /\ latchedBy \in People \cup {NoOne, Stranger}

LEMMA TypeParts == TypeOK <=> FrameType /\ SubjectType /\ HistoryType
BY DEF TypeOK, FrameType, SubjectType, HistoryType, HandType, VouchRecord

LEMMA TypePartsNext ==
    FrameType' /\ SubjectType' /\ HistoryType' => TypeOK'
BY DEF TypeOK, FrameType, SubjectType, HistoryType, HandType, VouchRecord

\* FakeBefore keeps the type of the streak.
LEMMA FakeBeforeType ==
    ASSUME TypeOK, NEW mode \in BOOLEAN
    PROVE  FakeBefore(mode) \in 0 .. MaxFake
BY Thresholds DEF FakeBefore, TypeOK

\* The frames that leave subject and hand alone.
LEMMA KeepFacts ==
    ASSUME GateInv, Overlook, "unlock" \notin calls',
           UNCHANGED <<fstate, confirmId, confirmCount, hand, latchedBy>>
    PROVE  SubjectType' /\ HistoryType' /\ Backed'
<1>1. TypeOK /\ SubjectType /\ HistoryType
  BY TypeParts DEF GateInv
<1>2. SubjectType' /\ HistoryType'
  BY <1>1, VouchedType DEF SubjectType, HistoryType, Overlook
<1>3. CountBacked'
  BY DEF GateInv, Backed, CountBacked, UnlockOpens, Overlook, Vouched
<1>4. /\ NoSubject' /\ UnlockOpens' /\ LatchOwned'
      /\ UnlockVouched' /\ NoBorrowedHand'
  BY DEF GateInv, Backed, NoSubject, UnlockOpens, LatchOwned, UnlockVouched,
         NoBorrowedHand
<1>5. QED
  BY <1>2, <1>3, <1>4 DEF Backed

\* The frames that end in _reset.
LEMMA RefuseFacts ==
    ASSUME GateInv, Reset, Interrupt, "unlock" \notin calls',
           UNCHANGED latchedBy
    PROVE  SubjectType' /\ HistoryType' /\ Backed'
<1>1. TypeOK /\ SubjectType /\ HistoryType /\ NoSubject
  BY TypeParts DEF GateInv, Backed
<1>2. SubjectType' /\ HistoryType'
  BY <1>1, ResetFacts, VouchedType
     DEF SubjectType, HistoryType, Interrupt, Fstate
<1>3. /\ NoSubject' /\ UnlockOpens' /\ CountBacked' /\ LatchOwned'
      /\ UnlockVouched' /\ NoBorrowedHand'
  BY <1>1, ResetFacts
     DEF UnlockOpens, CountBacked, LatchOwned, UnlockVouched, NoBorrowedHand
<1>4. QED
  BY <1>2, <1>3 DEF Backed

-----------------------------------------------------------------------------
(* One lemma per way through _process.                                     *)

LEMMA CoolingStep ==
    ASSUME GateInv, NEW mode \in BOOLEAN, Cooling(mode)
    PROVE  GateInv'
<1>1. FrameType'
  BY TypeParts, FakeBeforeType, Thresholds DEF GateInv, Cooling, FrameType
<1>2. SubjectType' /\ HistoryType' /\ Backed'
  BY RefuseFacts DEF Cooling
<1>3. QED
  BY <1>1, <1>2, TypePartsNext DEF GateInv

LEMMA StoreUnavailableStep ==
    ASSUME GateInv, NEW mode \in BOOLEAN, StoreUnavailable(mode)
    PROVE  GateInv'
<1>1. FrameType'
  BY TypeParts, FakeBeforeType, Thresholds
     DEF GateInv, StoreUnavailable, FrameType
<1>2. SubjectType' /\ HistoryType' /\ Backed'
  BY KeepFacts DEF StoreUnavailable
<1>3. QED
  BY <1>1, <1>2, TypePartsNext DEF GateInv

LEMMA TooFarStep ==
    ASSUME GateInv, NEW mode \in BOOLEAN, TooFar(mode)
    PROVE  GateInv'
<1>1. FrameType'
  BY TypeParts, FakeBeforeType, Thresholds, GateAssumption
     DEF GateInv, TooFar, FrameType, GateAssumption
<1>2. SubjectType' /\ HistoryType' /\ Backed'
  BY KeepFacts DEF TooFar
<1>3. QED
  BY <1>1, <1>2, TypePartsNext DEF GateInv

LEMMA NoFaceStep ==
    ASSUME GateInv, NEW mode \in BOOLEAN, NoFace(mode)
    PROVE  GateInv'
<1>1. TypeOK /\ FrameType /\ SubjectType /\ HistoryType /\ NoSubject
  BY TypeParts DEF GateInv, Backed
<1>2. FrameType'
  <2>1. Sat(noFace, NoFaceReset) \in 0 .. NoFaceReset
    BY <1>1, GateAssumption, SatRange DEF FrameType, GateAssumption
  <2>2. QED
    BY <1>1, <2>1, Thresholds DEF NoFace, FrameType, Call
<1>3. /\ hand' \in HandType /\ hand'.latched = FALSE
      /\ NoSubject' /\ (fstate' = fstate \/ fstate' = "IDLE")
      /\ confirmId' \in People \cup {NoOne}
      /\ confirmCount' \in 0 .. MaxConfirm
  <2>1. hand' \in HandType /\ hand'.latched = FALSE
    <3>1. PICK n \in 0 .. MaxHand :
             hand' = [streak |-> n, latched |-> FALSE, off |-> 0]
      <4>1. 0 \in 0 .. MaxHand /\ hand.streak \in 0 .. MaxHand
        BY <1>1, Thresholds DEF SubjectType, HandType
      <4>2. QED
        BY <4>1 DEF NoFace, AbsentHand
    <3>2. 0 \in 0 .. MaxHand
      BY Thresholds
    <3>3. QED
      BY <3>1, <3>2 DEF HandType
  <2>2. CASE noFace' >= NoFaceReset
    <3>1. ResetConfirmation
      BY <2>2 DEF NoFace
    <3>2. QED
      BY <1>1, <2>1, <3>1, Thresholds
         DEF ResetConfirmation, NoSubject, SubjectType
  <2>3. CASE ~(noFace' >= NoFaceReset)
    <3>1. UNCHANGED <<fstate, confirmId, confirmCount>>
      BY <2>3 DEF NoFace
    <3>2. QED
      BY <1>1, <2>1, <3>1 DEF NoSubject, SubjectType
  <2>4. QED
    BY <2>2, <2>3
<1>4. SubjectType' /\ HistoryType'
  BY <1>1, <1>3, VouchedType
     DEF NoFace, SubjectType, HistoryType, Interrupt, Fstate
<1>5. "unlock" \notin calls'
  BY DEF NoFace
<1>6. Backed'
  BY <1>3, <1>5 DEF Backed, UnlockOpens, CountBacked, LatchOwned,
                    UnlockVouched, NoBorrowedHand
<1>7. QED
  BY <1>2, <1>4, <1>6, TypePartsNext DEF GateInv

LEMMA StillGrantedStep ==
    ASSUME GateInv, NEW mode \in BOOLEAN, NEW p, StillGranted(mode, p)
    PROVE  GateInv'
<1>1. FrameType'
  BY TypeParts, FakeBeforeType, Thresholds, GateAssumption
     DEF GateInv, StillGranted, FrameType, GateAssumption, Call
<1>2. SubjectType' /\ HistoryType' /\ Backed'
  BY KeepFacts DEF StillGranted
<1>3. QED
  BY <1>1, <1>2, TypePartsNext DEF GateInv

LEMMA GrantRevokedStep ==
    ASSUME GateInv, NEW mode \in BOOLEAN, NEW p, GrantRevoked(mode, p)
    PROVE  GateInv'
<1>1. FrameType'
  BY TypeParts, FakeBeforeType, Thresholds, GateAssumption
     DEF GateInv, GrantRevoked, FrameType, GateAssumption, Call
<1>2. SubjectType' /\ HistoryType' /\ Backed'
  BY RefuseFacts DEF GrantRevoked
<1>3. QED
  BY <1>1, <1>2, TypePartsNext DEF GateInv

LEMMA FakeFaceStep ==
    ASSUME GateInv, NEW mode \in BOOLEAN, NEW close \in BOOLEAN,
           FakeFace(mode, close)
    PROVE  GateInv'
<1>1. FrameType'
  <2>1. Sat(FakeBefore(mode), MaxFake) \in 0 .. MaxFake
    BY FakeBeforeType, SatRange, Thresholds DEF GateInv
  <2>2. calls' \in SUBSET Call
    BY DEF FakeFace, Call
  <2>3. QED
    BY <2>1, <2>2, Thresholds, GateAssumption
       DEF FakeFace, FrameType, GateAssumption
<1>2. "unlock" \notin calls'
  BY DEF FakeFace
<1>3. SubjectType' /\ HistoryType' /\ Backed'
  BY <1>2, KeepFacts, RefuseFacts DEF FakeFace
<1>4. QED
  BY <1>1, <1>3, TypePartsNext DEF GateInv

\* What TooClose, SearchFailed and everything after them share: the frame
\* is not FAKE and nobody but the frame itself decides its counters.
LEMMA LiveFrameType ==
    ASSUME TypeOK, NEW mode \in BOOLEAN, NEW live, NotFake(mode, live),
           ir' = mode, noFace' = 0, calls' \in SUBSET Call,
           raised' \in 0 .. MaxHand
    PROVE  FrameType'
BY NotFakeType, GateAssumption DEF FrameType, GateAssumption

LEMMA TooCloseStep ==
    ASSUME GateInv, NEW mode \in BOOLEAN, NEW live, TooClose(mode, live)
    PROVE  GateInv'
<1>1. FrameType'
  BY LiveFrameType, Thresholds DEF GateInv, TooClose, Call, LivenessCalls
<1>2. "unlock" \notin calls'
  BY DEF TooClose, LivenessCalls
<1>3. QED
  BY <1>1, <1>2, RefuseFacts, TypePartsNext DEF TooClose, GateInv

LEMMA SearchFailedStep ==
    ASSUME GateInv, NEW mode \in BOOLEAN, NEW live, SearchFailed(mode, live)
    PROVE  GateInv'
<1>1. FrameType'
  BY LiveFrameType, Thresholds DEF GateInv, SearchFailed, Call, LivenessCalls
<1>2. "unlock" \notin calls'
  BY DEF SearchFailed, LivenessCalls
<1>3. QED
  BY <1>1, <1>2, KeepFacts, TypePartsNext DEF SearchFailed, GateInv

LEMMA LockdownDenyStep ==
    ASSUME GateInv, NEW mode \in BOOLEAN, NEW p, NEW live,
           LockdownDeny(mode, p, live)
    PROVE  GateInv'
<1>1. FrameType'
  BY LiveFrameType, Thresholds DEF GateInv, LockdownDeny, Call, LivenessCalls
<1>2. "unlock" \notin calls'
  BY DEF LockdownDeny, LivenessCalls
<1>3. QED
  BY <1>1, <1>2, RefuseFacts, TypePartsNext DEF LockdownDeny, GateInv

LEMMA AlreadyGrantedStep ==
    ASSUME GateInv, NEW mode \in BOOLEAN, NEW p, NEW live,
           AlreadyGranted(mode, p, live)
    PROVE  GateInv'
<1>1. FrameType'
  BY LiveFrameType, Thresholds DEF GateInv, AlreadyGranted, Call, LivenessCalls
<1>2. "unlock" \notin calls'
  BY DEF AlreadyGranted, LivenessCalls
<1>3. QED
  BY <1>1, <1>2, KeepFacts, TypePartsNext DEF AlreadyGranted, GateInv

LEMMA UnknownFaceStep ==
    ASSUME GateInv, NEW mode \in BOOLEAN, NEW live, NEW seen \in Hand,
           UnknownFace(mode, live, seen)
    PROVE  GateInv'
<1>1. TypeOK /\ SubjectType /\ HistoryType /\ NoSubject /\ FrameType
  BY TypeParts DEF GateInv, Backed
<1>2. FrameType'
  <2>1. raised' \in 0 .. MaxHand
    BY <1>1, SatRange, Thresholds DEF UnknownFace, FrameType
  <2>2. calls' \in SUBSET Call
    BY DEF UnknownFace, Call, LivenessCalls
  <2>3. QED
    BY <1>1, <2>1, <2>2, LiveFrameType DEF UnknownFace
<1>3. /\ hand' \in HandType
      /\ confirmId # NoOne => ~hand'.latched
  BY <1>1, HandSeenType, DroppedDoesNotLatch
     DEF UnknownFace, StrangerHand, SubjectType
<1>4. /\ fstate' = "IDLE" /\ NoSubject'
      /\ confirmId' \in People \cup {NoOne}
      /\ confirmCount' \in 0 .. MaxConfirm
      /\ confirmId = NoOne => confirmId' = NoOne /\ confirmCount' = 0
  BY <1>1, Thresholds
     DEF UnknownFace, ResetConfirmation, NoSubject, SubjectType, Fstate
<1>5. SubjectType' /\ HistoryType'
  BY <1>1, <1>3, <1>4, VouchedType
     DEF UnknownFace, SubjectType, HistoryType, Interrupt, LatchedBy, Fstate
<1>6. LatchOwned'
  BY <1>1, <1>3, <1>4, GateAssumption
     DEF GateInv, Backed, LatchOwned, UnknownFace, LatchedBy, GateAssumption
<1>7. "unlock" \notin calls'
  BY DEF UnknownFace, LivenessCalls
<1>8. CountBacked'
  BY <1>3, <1>4 DEF CountBacked
<1>9. Backed'
  BY <1>4, <1>6, <1>7, <1>8
     DEF Backed, UnlockOpens, UnlockVouched, NoBorrowedHand
<1>10. QED
  BY <1>2, <1>5, <1>9, TypePartsNext DEF GateInv

-----------------------------------------------------------------------------
(* A recognised person.                                                    *)

\* The hand state p is judged by: it can only be latched when the latch was
\* set for p, or when there was no subject.
LEMMA HandForFacts ==
    ASSUME TypeOK, NEW mode \in BOOLEAN, NEW p \in People, NEW seen \in Hand
    PROVE  /\ HandFor(p, mode, seen) \in HandType
           /\ HandFor(p, mode, seen).latched => confirmId \in {NoOne, p}
           /\ confirmId = p /\ confirmCount > 0 =>
                 HandFor(p, mode, seen) = hand
<1>1. hand \in HandType /\ confirmId \in People \cup {NoOne}
  BY TypeParts DEF SubjectType
<1>2. CASE confirmId # NoOne /\ p # confirmId
  BY <1>1, <1>2, HandSeenType, DroppedDoesNotLatch DEF HandFor
<1>3. CASE confirmId = NoOne \/ p = confirmId
  BY <1>1, <1>3, HandSeenType DEF HandFor
<1>4. QED
  BY <1>2, <1>3

\* With an accepted hand the count never runs past its bound, and it is
\* backed by the frames that vouch for p.
LEMMA CountFacts ==
    ASSUME GateInv, NEW mode \in BOOLEAN, NEW p \in People, NEW seen \in Hand,
           ~(fstate = "UNLOCKED" /\ confirmId = p),
           HandFor(p, mode, seen).latched
    PROVE  /\ Counted(p) \in 1 .. MaxConfirm
           /\ Vouch(p) => vouched'.frames >= Counted(p)
<1>1. TypeOK /\ SubjectType /\ HistoryType
  BY TypeParts DEF GateInv
<1>2. CASE p = confirmId /\ confirmCount > 0
  <2>1. hand.latched
    BY <1>1, <1>2, HandForFacts
  <2>2. /\ vouched.who = p /\ vouched.frames >= confirmCount
        /\ confirmCount < MaxConfirm /\ "unlock" \notin calls
    BY <1>2, <2>1 DEF GateInv, Backed, CountBacked, UnlockOpens
  <2>3. confirmCount \in Nat /\ vouched.frames \in 0 .. MaxConfirm
        /\ MaxConfirm \in Nat
    BY <1>1, Thresholds DEF SubjectType, HistoryType, VouchRecord
  <2>4. Counted(p) = confirmCount + 1
    BY <1>2 DEF Counted
  <2>5. Vouched = vouched
    BY <2>2 DEF Vouched
  <2>6. Vouch(p) => vouched'.frames = Sat(vouched.frames, MaxConfirm)
    BY <1>1, <2>2, <2>5, VouchType
  <2>7. Sat(vouched.frames, MaxConfirm) >= confirmCount + 1
    BY <2>2, <2>3 DEF Sat
  <2>8. QED
    BY <2>2, <2>3, <2>4, <2>6, <2>7
<1>3. CASE ~(p = confirmId /\ confirmCount > 0)
  <2>1. Counted(p) = 1
    BY <1>1, <1>3, Thresholds DEF Counted, SubjectType
  <2>2. QED
    BY <1>1, <2>1, VouchType, Thresholds
<1>4. QED
  BY <1>2, <1>3

\* What the three outcomes that make p the subject have in common.
LEMMA JudgedFacts ==
    ASSUME GateInv, NEW mode \in BOOLEAN, NEW p \in People, NEW live,
           NEW seen \in Hand, Judged(mode, p, live, seen), Vouch(p),
           confirmId' = p, calls' \in SUBSET Call
    PROVE  /\ FrameType' /\ HistoryType' /\ LatchOwned'
           /\ hand' \in HandType
<1>1. TypeOK /\ FrameType /\ SubjectType /\ HistoryType
  BY TypeParts DEF GateInv
<1>2. FrameType'
  BY <1>1, LiveFrameType, Thresholds DEF Judged
<1>3. hand' \in HandType /\ (hand'.latched => confirmId \in {NoOne, p})
  BY <1>1, HandForFacts DEF Judged
<1>4. HistoryType'
  BY <1>1, VouchType DEF Judged, LatchedBy, HistoryType
<1>5. LatchOwned'
  BY <1>3, GateAssumption
     DEF GateInv, Backed, LatchOwned, Judged, LatchedBy, GateAssumption
<1>6. QED
  BY <1>2, <1>3, <1>4, <1>5

LEMMA WaitForHandStep ==
    ASSUME GateInv, NEW mode \in BOOLEAN, NEW p \in People, NEW live,
           NEW seen \in Hand, WaitForHand(mode, p, live, seen)
    PROVE  GateInv'
<1>1. calls' \in SUBSET Call /\ "unlock" \notin calls'
  BY DEF WaitForHand, LivenessCalls, Call
<1>2. FrameType' /\ HistoryType' /\ LatchOwned' /\ hand' \in HandType
  BY <1>1, JudgedFacts DEF WaitForHand
<1>3. SubjectType'
  BY <1>2, Thresholds DEF WaitForHand, SubjectType, Fstate
<1>4. NoSubject' /\ CountBacked'
  BY DEF WaitForHand, NoSubject, CountBacked
<1>5. UnlockOpens' /\ UnlockVouched' /\ NoBorrowedHand'
  BY <1>1 DEF UnlockOpens, UnlockVouched, NoBorrowedHand
<1>6. QED
  BY <1>2, <1>3, <1>4, <1>5, TypePartsNext DEF GateInv, Backed

LEMMA CountFrameStep ==
    ASSUME GateInv, NEW mode \in BOOLEAN, NEW p \in People, NEW live,
           NEW seen \in Hand, CountFrame(mode, p, live, seen)
    PROVE  GateInv'
<1>1. calls' \in SUBSET Call /\ "unlock" \notin calls'
  BY DEF CountFrame, LivenessCalls, Call
<1>2. FrameType' /\ HistoryType' /\ LatchOwned' /\ hand' \in HandType
  BY <1>1, JudgedFacts DEF CountFrame
<1>3. /\ Counted(p) \in 1 .. MaxConfirm /\ vouched'.frames >= Counted(p)
      /\ vouched'.who = p
  BY CountFacts, VouchType DEF CountFrame, Judged, GateInv
<1>4. SubjectType'
  BY <1>2, <1>3, TypeParts DEF CountFrame, SubjectType, Fstate, GateInv
<1>5. CountBacked'
  BY <1>3, Thresholds DEF CountFrame, CountBacked
<1>6. NoSubject'
  BY GateAssumption DEF CountFrame, NoSubject, GateAssumption
<1>7. UnlockOpens' /\ UnlockVouched' /\ NoBorrowedHand'
  BY <1>1 DEF UnlockOpens, UnlockVouched, NoBorrowedHand
<1>8. QED
  BY <1>2, <1>4, <1>5, <1>6, <1>7, TypePartsNext DEF GateInv, Backed

LEMMA UnlockStep ==
    ASSUME GateInv, NEW mode \in BOOLEAN, NEW p \in People, NEW live,
           NEW seen \in Hand, Unlock(mode, p, live, seen)
    PROVE  GateInv'
<1>1. calls' \in SUBSET Call
  BY DEF Unlock, LivenessCalls, Call
<1>2. FrameType' /\ HistoryType' /\ LatchOwned' /\ hand' \in HandType
  BY <1>1, JudgedFacts DEF Unlock
<1>3. /\ Counted(p) \in 1 .. MaxConfirm /\ vouched'.frames >= Counted(p)
      /\ vouched'.who = p
  BY CountFacts, VouchType DEF Unlock, Judged, GateInv
<1>4. SubjectType'
  BY <1>2, <1>3 DEF Unlock, SubjectType, Fstate
<1>5. UnlockVouched'
  <2>1. /\ confirmId' = p /\ ir' = mode /\ Counted(p) >= ConfirmFrames[mode]
    BY DEF Unlock, Judged
  <2>2. ConfirmFrames[mode] \in Nat /\ vouched'.frames \in Nat
    BY <1>2, Thresholds DEF HistoryType, VouchRecord
  <2>3. QED
    BY <1>3, <2>1, <2>2 DEF UnlockVouched
<1>6. NoBorrowedHand'
  BY <1>2 DEF Unlock, Judged, LatchOwned, NoBorrowedHand
<1>7. NoSubject' /\ CountBacked' /\ UnlockOpens'
  BY GateAssumption
     DEF Unlock, NoSubject, CountBacked, UnlockOpens, GateAssumption
<1>8. QED
  BY <1>2, <1>4, <1>5, <1>6, <1>7, TypePartsNext DEF GateInv, Backed

LEMMA ScheduleDenyStep ==
    ASSUME GateInv, NEW mode \in BOOLEAN, NEW p \in People, NEW live,
           NEW seen \in Hand, ScheduleDeny(mode, p, live, seen)
    PROVE  GateInv'
<1>1. TypeOK /\ SubjectType /\ HistoryType
  BY TypeParts DEF GateInv
<1>2. FrameType' /\ "unlock" \notin calls'
  BY <1>1, LiveFrameType, Thresholds DEF ScheduleDeny, LivenessCalls, Call
<1>3. hand' \in HandType /\ hand'.latched = FALSE
  <2>1. HandFor(p, mode, seen) \in HandType
    BY <1>1, HandForFacts
  <2>2. hand' = Dropped(HandFor(p, mode, seen))
    BY DEF ScheduleDeny
  <2>3. QED
    BY <2>1, <2>2, DroppedDoesNotLatch DEF Dropped
<1>4. Counted(p) \in 1 .. MaxConfirm
  BY CountFacts DEF ScheduleDeny
<1>5. SubjectType' /\ NoSubject' /\ fstate' = "IDLE"
  BY <1>1, <1>3, <1>4, GateAssumption, Thresholds
     DEF ScheduleDeny, SubjectType, NoSubject, Fstate, GateAssumption
<1>6. HistoryType'
  BY <1>1, VouchedType DEF ScheduleDeny, Interrupt, HistoryType
<1>7. /\ UnlockOpens' /\ CountBacked' /\ LatchOwned'
      /\ UnlockVouched' /\ NoBorrowedHand'
  BY <1>2, <1>3 DEF UnlockOpens, CountBacked, LatchOwned, UnlockVouched,
                    NoBorrowedHand
<1>8. QED
  BY <1>2, <1>5, <1>6, <1>7, TypePartsNext DEF GateInv, Backed

-----------------------------------------------------------------------------
(* The theorems.                                                           *)

LEMMA GateInit == Init => GateInv
<1>1. Init => TypeOK
  <2>1. Init => FrameType
    <3>1. /\ 0 \in 0 .. NoFaceReset /\ 0 \in 0 .. ErrorAlertAfter
          /\ 0 \in 0 .. MaxFake /\ 0 \in 0 .. MaxHand
      BY GateAssumption, Thresholds DEF GateAssumption
    <3>2. FALSE \in BOOLEAN /\ {} \in SUBSET Call
      OBVIOUS
    <3>3. QED
      BY <3>1, <3>2, Zenon DEF Init, FrameType
  <2>2. Init => SubjectType
    <3>1. [streak |-> 0, latched |-> FALSE, off |-> 0] \in HandType
      BY Thresholds DEF HandType
    <3>2. QED
      BY <3>1, Thresholds DEF Init, SubjectType, Fstate
  <2>3. Init => HistoryType
    BY Thresholds DEF Init, HistoryType, NoVouch, VouchRecord
  <2>4. QED
    BY <2>1, <2>2, <2>3, TypeParts
<1>2. Init => Backed
  BY DEF Init, Backed, NoSubject, UnlockOpens, CountBacked, LatchOwned,
         UnlockVouched, NoBorrowedHand
<1>3. QED
  BY <1>1, <1>2 DEF GateInv

LEMMA GateStutter == GateInv /\ UNCHANGED vars => GateInv'
BY DEF GateInv, TypeOK, Backed, NoSubject, UnlockOpens, CountBacked,
       LatchOwned, UnlockVouched, NoBorrowedHand, vars, gate, history

LEMMA GateNext == GateInv /\ Next => GateInv'
<1> SUFFICES ASSUME GateInv, Next PROVE GateInv'
  OBVIOUS
<1>1. PICK mode \in BOOLEAN :
        \/ Cooling(mode)
        \/ StoreUnavailable(mode)
        \/ NoFace(mode)
        \/ TooFar(mode)
        \/ \E close \in BOOLEAN : FakeFace(mode, close)
        \/ \E p \in People : StillGranted(mode, p) \/ GrantRevoked(mode, p)
        \/ \E live \in Live \ {"fake"} :
              \/ TooClose(mode, live)
              \/ SearchFailed(mode, live)
              \/ \E p \in People : \/ LockdownDeny(mode, p, live)
                                   \/ AlreadyGranted(mode, p, live)
              \/ \E seen \in Hand :
                    \/ UnknownFace(mode, live, seen)
                    \/ \E p \in People : Recognised(mode, p, live, seen)
  BY DEF Next
<1>2. CASE Cooling(mode)
  BY <1>2, CoolingStep
<1>3. CASE StoreUnavailable(mode)
  BY <1>3, StoreUnavailableStep
<1>4. CASE NoFace(mode)
  BY <1>4, NoFaceStep
<1>5. CASE TooFar(mode)
  BY <1>5, TooFarStep
<1>6. CASE \E close \in BOOLEAN : FakeFace(mode, close)
  BY <1>6, FakeFaceStep
<1>7. CASE \E p \in People : StillGranted(mode, p) \/ GrantRevoked(mode, p)
  BY <1>7, StillGrantedStep, GrantRevokedStep
<1>8. ASSUME NEW live \in Live \ {"fake"},
             TooClose(mode, live) \/ SearchFailed(mode, live)
      PROVE  GateInv'
  BY <1>8, TooCloseStep, SearchFailedStep
<1>9. ASSUME NEW live \in Live \ {"fake"}, NEW p \in People,
             LockdownDeny(mode, p, live) \/ AlreadyGranted(mode, p, live)
      PROVE  GateInv'
  BY <1>9, LockdownDenyStep, AlreadyGrantedStep
<1>10. ASSUME NEW live \in Live \ {"fake"}, NEW seen \in Hand,
              UnknownFace(mode, live, seen)
       PROVE  GateInv'
  BY <1>10, UnknownFaceStep
<1>11. ASSUME NEW live \in Live \ {"fake"}, NEW seen \in Hand,
              NEW p \in People, Recognised(mode, p, live, seen)
       PROVE  GateInv'
  BY <1>11, WaitForHandStep, CountFrameStep, ScheduleDenyStep, UnlockStep
     DEF Recognised
<1>12. QED
  BY <1>1, <1>2, <1>3, <1>4, <1>5, <1>6, <1>7, <1>8, <1>9, <1>10, <1>11

\* The strengthened invariant holds throughout.
THEOREM GateInvariant == Spec => []GateInv
<1>1. GateInv /\ [Next]_vars => GateInv'
  BY GateNext, GateStutter
<1>2. QED
  BY GateInit, <1>1, PTL DEF Spec

\* Type correctness of the face gate, for any thresholds.
THEOREM GateTypeCorrect == Spec => []TypeOK
<1>1. GateInv => TypeOK
  BY DEF GateInv
<1>2. QED
  BY <1>1, GateInvariant, PTL

\* Every unlock is paid for by enough uninterrupted frames of its person.
THEOREM UnlockIsVouched == Spec => []UnlockVouched
<1>1. GateInv => UnlockVouched
  BY DEF GateInv, Backed
<1>2. QED
  BY <1>1, GateInvariant, PTL

\* No enrolled person's hand opens the door for another.
THEOREM HandIsNotBorrowed == Spec => []NoBorrowedHand
<1>1. GateInv => NoBorrowedHand
  BY DEF GateInv, Backed
<1>2. QED
  BY <1>1, GateInvariant, PTL
-----------------------------------------------------------------------------
(***************************************************************************)
(* A stranger's held hand.  `raised' counts over frames whose hand may     *)
(* belong to a subject left over from before.  It is positive only in      *)
(* IDLE, where nothing forgets the subject: a frame that does forget one   *)
(* finds no frame counted.  So with no subject every counted frame is in   *)
(* the streak, and the streak sets the latch that makes the attempt.       *)
(***************************************************************************)
RaisedInIdle == raised > 0 => fstate = "IDLE"
RaisedInStreak == confirmId = NoOne => hand.streak >= raised

StrangerInv == RaisedInIdle /\ RaisedInStreak /\ FreeStrangerHeard

\* A still hand adds one frame to the streak, and a long enough streak
\* latches.
LEMMA StillHandSeen ==
    ASSUME NEW h \in HandType, NEW mode \in BOOLEAN
    PROVE  /\ HandSeen(h, mode, "still").streak = Sat(h.streak, MaxHand)
           /\ HandSeen(h, mode, "still").streak >= HandStreak[mode]
                 => HandSeen(h, mode, "still").latched
BY Thresholds DEF HandSeen, HandType, Sat

\* A frame without a stranger's still hand starts the count again.
LEMMA NotRaised ==
    ASSUME TypeOK', raised' = 0
    PROVE  StrangerInv'
<1>1. hand'.streak \in Nat /\ ir' \in BOOLEAN
  BY Thresholds DEF TypeOK
<1>2. HandStreak[ir'] >= 2 /\ HandStreak[ir'] \in Nat
  BY <1>1, Thresholds
<1>3. RaisedInIdle' /\ RaisedInStreak'
  BY <1>1 DEF RaisedInIdle, RaisedInStreak
<1>4. FreeStrangerHeard'
  BY <1>2 DEF FreeStrangerHeard
<1>5. QED
  BY <1>3, <1>4 DEF StrangerInv

LEMMA StrangerStep ==
    ASSUME GateInv, TypeOK', StrangerInv, NEW mode \in BOOLEAN, NEW live,
           NEW seen \in Hand, UnknownFace(mode, live, seen)
    PROVE  StrangerInv'
<1>1. CASE seen # "still"
  BY <1>1, NotRaised DEF UnknownFace
<1>2. CASE seen = "still"
  <2> DEFINE h == IF confirmId # NoOne THEN Dropped(hand) ELSE hand
  <2>1. /\ hand \in HandType /\ raised \in 0 .. MaxHand
        /\ raised' = Sat(raised, MaxHand)
        /\ hand' = HandSeen(h, mode, "still")
        /\ ir' = mode
    BY <1>2, TypeParts
       DEF GateInv, SubjectType, FrameType, UnknownFace, StrangerHand
  <2>2. h \in HandType
    BY <2>1, DroppedDoesNotLatch
  <2>3. h.streak \in 0 .. MaxHand /\ MaxHand \in Nat
    BY <2>2, Thresholds DEF HandType
  <2>4. fstate' = "IDLE"
    BY DEF UnknownFace, ResetConfirmation
  <2>5. confirmId' = NoOne => h.streak >= raised
    <3>1. CASE confirmId = NoOne
      BY <3>1 DEF StrangerInv, RaisedInStreak
    <3>2. CASE confirmId # NoOne /\ fstate = "IDLE"
      BY <3>2 DEF UnknownFace, ResetConfirmation
    <3>3. CASE fstate # "IDLE"
      <4>1. raised = 0
        BY <2>1, <3>3, Thresholds DEF StrangerInv, RaisedInIdle
      <4>2. QED
        BY <2>3, <4>1
    <3>4. QED
      BY <3>1, <3>2, <3>3
  <2>6. RaisedInStreak'
    <3>1. hand'.streak = Sat(h.streak, MaxHand)
      BY <2>1, <2>2, StillHandSeen
    <3>2. h.streak >= raised => Sat(h.streak, MaxHand) >= Sat(raised, MaxHand)
      BY <2>1, <2>3 DEF Sat
    <3>3. QED
      BY <2>1, <2>5, <3>1, <3>2 DEF RaisedInStreak
  <2>7. FreeStrangerHeard'
    <3>1. HandStreak[mode] \in Nat /\ raised' \in Nat /\ hand'.streak \in Nat
      <4>1. raised' \in Nat
        BY <2>1, <2>3, SatRange
      <4>2. hand'.streak \in Nat
        BY <2>1, <2>2, <2>3, StillHandSeen, SatRange
      <4>3. QED
        BY <4>1, <4>2, Thresholds
    <3>2. ASSUME confirmId' = NoOne, raised' >= HandStreak[mode]
          PROVE  "record_unknown" \in calls'
      <4>1. hand'.streak >= HandStreak[mode]
        BY <2>6, <3>1, <3>2 DEF RaisedInStreak
      <4>2. hand'.latched
        BY <2>1, <2>2, <4>1, StillHandSeen
      <4>3. QED
        BY <4>2 DEF UnknownFace
    <3>3. QED
      BY <2>1, <3>2 DEF FreeStrangerHeard
  <2>8. QED
    BY <2>4, <2>6, <2>7 DEF StrangerInv, RaisedInIdle
<1>3. QED
  BY <1>1, <1>2

\* Only a frame of a stranger counts.
LEMMA OthersDoNotRaise ==
    ASSUME Next
    PROVE  \/ raised' = 0
           \/ \E mode \in BOOLEAN, live \in Live, seen \in Hand :
                 UnknownFace(mode, live, seen)
<1>1. PICK mode \in BOOLEAN :
        \/ Cooling(mode)
        \/ StoreUnavailable(mode)
        \/ NoFace(mode)
        \/ TooFar(mode)
        \/ \E close \in BOOLEAN : FakeFace(mode, close)
        \/ \E p \in People : StillGranted(mode, p) \/ GrantRevoked(mode, p)
        \/ \E live \in Live \ {"fake"} :
              \/ TooClose(mode, live)
              \/ SearchFailed(mode, live)
              \/ \E p \in People : \/ LockdownDeny(mode, p, live)
                                   \/ AlreadyGranted(mode, p, live)
              \/ \E seen \in Hand :
                    \/ UnknownFace(mode, live, seen)
                    \/ \E p \in People : Recognised(mode, p, live, seen)
  BY DEF Next
<1>2. CASE \/ Cooling(mode) \/ StoreUnavailable(mode) \/ NoFace(mode)
           \/ TooFar(mode) \/ \E close \in BOOLEAN : FakeFace(mode, close)
           \/ \E p \in People : StillGranted(mode, p) \/ GrantRevoked(mode, p)
  BY <1>2 DEF Cooling, StoreUnavailable, NoFace, TooFar, FakeFace,
              StillGranted, GrantRevoked
<1>3. ASSUME NEW live \in Live,
             \/ TooClose(mode, live) \/ SearchFailed(mode, live)
             \/ \E p \in People : \/ LockdownDeny(mode, p, live)
                                  \/ AlreadyGranted(mode, p, live)
      PROVE  raised' = 0
  BY <1>3 DEF TooClose, SearchFailed, LockdownDeny, AlreadyGranted
<1>4. ASSUME NEW live \in Live, NEW seen \in Hand, NEW p \in People,
             Recognised(mode, p, live, seen)
      PROVE  raised' = 0
  BY <1>4 DEF Recognised, WaitForHand, CountFrame, ScheduleDeny, Unlock,
              Judged
<1>5. QED
  BY <1>1, <1>2, <1>3, <1>4

\* With no subject left over, a stranger's held hand registers as an attempt
\* (camera_worker.py:723-725), for every threshold.
THEOREM FreeStrangerIsHeard == Spec => []FreeStrangerHeard
<1>1. Init /\ GateInv => StrangerInv
  <2> SUFFICES ASSUME Init, GateInv PROVE StrangerInv
    OBVIOUS
  <2>1. hand.streak = 0 /\ raised = 0 /\ ir \in BOOLEAN
    BY DEF Init
  <2>2. HandStreak[ir] >= 2 /\ HandStreak[ir] \in Nat
    BY <2>1, Thresholds
  <2>3. QED
    BY <2>1, <2>2
       DEF StrangerInv, RaisedInIdle, RaisedInStreak, FreeStrangerHeard
<1>2. GateInv /\ GateInv' /\ StrangerInv /\ [Next]_vars => StrangerInv'
  <2> SUFFICES ASSUME GateInv, GateInv', StrangerInv, [Next]_vars
               PROVE  StrangerInv'
    OBVIOUS
  <2>1. TypeOK'
    BY DEF GateInv
  <2>2. CASE Next
    BY <2>1, <2>2, OthersDoNotRaise, NotRaised, StrangerStep
  <2>3. CASE UNCHANGED vars
    BY <2>3 DEF StrangerInv, RaisedInIdle, RaisedInStreak,
                FreeStrangerHeard, vars, gate, history
  <2>4. QED
    BY <2>2, <2>3
<1>3. StrangerInv => FreeStrangerHeard
  BY DEF StrangerInv
<1>4. QED
  BY <1>1, <1>2, <1>3, GateInvariant, PTL DEF Spec
-----------------------------------------------------------------------------
(***************************************************************************)
(* The granted window.  A frame that leaves it open changes neither its    *)
(* person nor, but to forget, the vouching, denies nobody, and is not the  *)
(* last of NoFaceReset empty ones: while the window is open their counter  *)
(* stays below that.  A recognised face closes it or is the granted one:   *)
(* another person's hand starts from nothing, so it cannot be accepted in  *)
(* the frame that would take the window over.                              *)
(***************************************************************************)
Refusal == {"deny_unknown", "deny_spoof", "deny_close", "deny_schedule",
            "record_unknown"}

WindowFrame ==
    /\ UNCHANGED <<fstate, confirmId>>
    /\ vouched' \in {Vouched, NoVouch}
    /\ noFace' \in {0, noFace} \/ ~(noFace' >= NoFaceReset)
    /\ calls' \cap (Refusal \cup {"unlock"}) = {}

WindowOwned ==
    fstate = "UNLOCKED" =>
        vouched.who \in {NoOne, confirmId} /\ noFace < NoFaceReset

\* What GrantWindow says of a step.
WindowKept ==
    fstate = "UNLOCKED" /\ fstate' = "UNLOCKED" =>
        /\ confirmId' = confirmId
        /\ "unlock" \notin calls'
        /\ ~ShowsAnother(confirmId)
        /\ noFace' < NoFaceReset
        /\ vouched'.who \in {NoOne, confirmId}
        /\ calls' \cap {"deny_unknown", "deny_spoof", "deny_close",
                        "deny_schedule", "record_unknown"} = {}

\* A recognised person judged by the gate takes over no open window.
LEMMA NoTakeover ==
    ASSUME GateInv, fstate = "UNLOCKED", NEW mode \in BOOLEAN,
           NEW p \in People, NEW live, NEW seen \in Hand,
           Recognised(mode, p, live, seen)
    PROVE  fstate' # "UNLOCKED"
<1>1. CASE WaitForHand(mode, p, live, seen) \/ ScheduleDeny(mode, p, live, seen)
  BY <1>1 DEF WaitForHand, ScheduleDeny
<1>2. CASE CountFrame(mode, p, live, seen)
  BY <1>2 DEF CountFrame, Judged
<1>3. ASSUME Unlock(mode, p, live, seen)
      PROVE  FALSE
  <2>1. HandFor(p, mode, seen).latched /\ p # confirmId
    BY <1>3 DEF Unlock, Judged
  <2>2. confirmId # NoOne
    BY DEF GateInv, Backed, NoSubject
  <2>3. QED
    BY <2>1, <2>2, HandForFacts DEF GateInv
<1>4. QED
  BY <1>1, <1>2, <1>3 DEF Recognised

\* No frame that leaves the window open recognises anybody else.
LEMMA AnotherCloses ==
    ASSUME GateInv, fstate = "UNLOCKED", fstate' = "UNLOCKED"
    PROVE  ~ShowsAnother(confirmId)
<1>1. ASSUME NEW mode \in BOOLEAN, NEW live \in Live, NEW seen \in Hand,
             UnknownFace(mode, live, seen)
      PROVE  FALSE
  BY <1>1 DEF UnknownFace, ResetConfirmation
<1>2. ASSUME NEW mode \in BOOLEAN, NEW live \in Live, NEW q \in People,
             LockdownDeny(mode, q, live)
      PROVE  FALSE
  BY <1>2 DEF LockdownDeny, Reset, ResetConfirmation
<1>3. ASSUME NEW mode \in BOOLEAN, NEW live \in Live, NEW seen \in Hand,
             NEW q \in People, Recognised(mode, q, live, seen)
      PROVE  FALSE
  BY <1>3, NoTakeover
<1>4. QED
  BY <1>1, <1>2, <1>3 DEF ShowsAnother

LEMMA WindowStep ==
    ASSUME GateInv, Next, fstate = "UNLOCKED", fstate' = "UNLOCKED"
    PROVE  WindowFrame
<1>1. PICK mode \in BOOLEAN :
        \/ Cooling(mode)
        \/ StoreUnavailable(mode)
        \/ NoFace(mode)
        \/ TooFar(mode)
        \/ \E close \in BOOLEAN : FakeFace(mode, close)
        \/ \E p \in People : StillGranted(mode, p) \/ GrantRevoked(mode, p)
        \/ \E live \in Live \ {"fake"} :
              \/ TooClose(mode, live)
              \/ SearchFailed(mode, live)
              \/ \E p \in People : \/ LockdownDeny(mode, p, live)
                                   \/ AlreadyGranted(mode, p, live)
              \/ \E seen \in Hand :
                    \/ UnknownFace(mode, live, seen)
                    \/ \E p \in People : Recognised(mode, p, live, seen)
  BY DEF Next
<1>2. CASE Cooling(mode)
  BY <1>2 DEF Cooling, Reset, ResetConfirmation
<1>3. CASE StoreUnavailable(mode) \/ TooFar(mode)
  BY <1>3 DEF StoreUnavailable, TooFar, WindowFrame, Overlook
<1>4. CASE NoFace(mode)
  <2>1. ~(noFace' >= NoFaceReset)
    BY <1>4 DEF NoFace, ResetConfirmation
  <2>2. QED
    BY <1>4, <2>1 DEF NoFace, WindowFrame, Interrupt, Refusal
<1>5. ASSUME NEW close \in BOOLEAN, FakeFace(mode, close)
      PROVE  WindowFrame
  BY <1>5 DEF FakeFace, Reset, ResetConfirmation, WindowFrame, Overlook
<1>6. ASSUME NEW p \in People, StillGranted(mode, p) \/ GrantRevoked(mode, p)
      PROVE  WindowFrame
  BY <1>6 DEF StillGranted, GrantRevoked, Reset, ResetConfirmation,
              WindowFrame, Overlook
<1>7. ASSUME NEW live \in Live, NEW p \in People,
             LockdownDeny(mode, p, live)
      PROVE  WindowFrame
  BY <1>7 DEF LockdownDeny, Reset, ResetConfirmation
<1>8. ASSUME NEW live \in Live, TooClose(mode, live)
      PROVE  WindowFrame
  BY <1>8 DEF TooClose, Reset, ResetConfirmation
<1>9. ASSUME NEW live \in Live, NEW p \in People,
             AlreadyGranted(mode, p, live)
      PROVE  WindowFrame
  BY <1>9 DEF AlreadyGranted, LivenessCalls, WindowFrame, Overlook, Refusal
<1>10. ASSUME NEW live \in Live, SearchFailed(mode, live)
       PROVE  WindowFrame
  BY <1>10 DEF SearchFailed, LivenessCalls, WindowFrame, Overlook, Refusal
<1>11. ASSUME NEW live \in Live, NEW seen \in Hand,
              UnknownFace(mode, live, seen)
       PROVE  WindowFrame
  BY <1>11 DEF UnknownFace, ResetConfirmation
<1>12. ASSUME NEW live \in Live, NEW seen \in Hand, NEW p \in People,
              Recognised(mode, p, live, seen)
       PROVE  WindowFrame
  BY <1>12, NoTakeover
<1>13. QED
  BY <1>1, <1>2, <1>3, <1>4, <1>5, <1>6, <1>7, <1>8, <1>9, <1>10, <1>11,
     <1>12

\* Only Unlock opens a window, for the person it vouched for.
LEMMA WindowOpens ==
    ASSUME GateInv, Next, fstate # "UNLOCKED", fstate' = "UNLOCKED"
    PROVE  \E p \in People : confirmId' = p /\ Vouch(p) /\ noFace' = 0
<1>1. PICK mode \in BOOLEAN :
        \/ \E live \in Live \ {"fake"}, seen \in Hand, p \in People :
              Recognised(mode, p, live, seen)
        \/ \E close \in BOOLEAN : FakeFace(mode, close)
        \/ fstate' \in {fstate, "IDLE"}
  BY DEF Next, Cooling, StoreUnavailable, NoFace, TooFar, StillGranted,
         GrantRevoked, TooClose, SearchFailed, UnknownFace, LockdownDeny,
         AlreadyGranted, Reset, ResetConfirmation
<1>2. ASSUME NEW close \in BOOLEAN, FakeFace(mode, close)
      PROVE  fstate' \in {fstate, "IDLE"}
  BY <1>2 DEF FakeFace, Reset, ResetConfirmation
<1>3. ASSUME NEW live \in Live, NEW seen \in Hand, NEW p \in People,
             Recognised(mode, p, live, seen)
      PROVE  confirmId' = p /\ Vouch(p) /\ noFace' = 0
  BY <1>3 DEF Recognised, WaitForHand, CountFrame, ScheduleDeny, Unlock,
              Judged
<1>4. QED
  BY <1>1, <1>2, <1>3

LEMMA WindowNext ==
    ASSUME GateInv, GateInv', WindowOwned, [Next]_vars
    PROVE  WindowOwned' /\ (vars' # vars => WindowKept)
<1>1. CASE UNCHANGED vars
  BY <1>1 DEF WindowOwned, vars, gate, history
<1>2. CASE Next /\ fstate = "UNLOCKED" /\ fstate' = "UNLOCKED"
  <2>1. WindowFrame
    BY <1>2, WindowStep
  <2>2. Vouched.who \in {NoOne, confirmId}
    BY <1>2 DEF Vouched, NoVouch, WindowOwned
  <2>3. vouched'.who \in {NoOne, confirmId}
    BY <2>1, <2>2 DEF WindowFrame, NoVouch
  <2>4. noFace' < NoFaceReset
    <3>1. noFace \in Nat /\ noFace < NoFaceReset /\ NoFaceReset \in Nat
          /\ NoFaceReset > 0 /\ noFace' \in Nat
      BY <1>2, GateAssumption DEF GateInv, TypeOK, WindowOwned, GateAssumption
    <3>2. noFace' \in {0, noFace} \/ ~(noFace' >= NoFaceReset)
      BY <2>1 DEF WindowFrame
    <3>3. QED
      BY <3>1, <3>2
  <2>5. ~ShowsAnother(confirmId)
    BY <1>2, AnotherCloses
  <2>6. QED
    BY <2>1, <2>3, <2>4, <2>5 DEF WindowFrame, WindowKept, WindowOwned, Refusal
<1>3. CASE Next /\ fstate # "UNLOCKED" /\ fstate' = "UNLOCKED"
  <2>1. PICK p \in People : confirmId' = p /\ Vouch(p) /\ noFace' = 0
    BY <1>3, WindowOpens
  <2>2. vouched'.who = confirmId'
    BY <2>1 DEF Vouch
  <2>3. noFace' < NoFaceReset
    BY <2>1, GateAssumption DEF GateAssumption
  <2>4. QED
    BY <1>3, <2>2, <2>3 DEF WindowOwned, WindowKept
<1>4. CASE fstate' # "UNLOCKED"
  BY <1>4 DEF WindowOwned, WindowKept
<1>5. QED
  BY <1>1, <1>2, <1>3, <1>4

\* The granted window belongs to one person; another person, a stranger, a
\* refusal or NoFaceReset empty frames end it.
THEOREM GrantedWindowCloses == Spec => GrantWindow
<1>1. Init => WindowOwned
  BY DEF Init, WindowOwned
<1>2. GateInv /\ GateInv' /\ WindowOwned /\ [Next]_vars => WindowOwned'
  BY WindowNext
<1>3. GateInv /\ GateInv' /\ WindowOwned /\ [Next]_vars => [WindowKept]_vars
  BY WindowNext
<1>4. QED
  <2>1. Spec => []WindowOwned
    BY <1>1, <1>2, GateInvariant, PTL DEF Spec
  <2>2. Spec => [][WindowKept]_vars
    BY <1>3, <2>1, GateInvariant, PTL DEF Spec
  <2>3. QED
    BY <2>2, PTL DEF GrantWindow, WindowKept

-----------------------------------------------------------------------------
(* The schedule evaluator.                                                 *)

LEMMA InitTyped == PolicyInit => PolicyTypeOK
BY ScheduleAssumption DEF ScheduleAssumption, PolicyInit, PolicyTypeOK, Instant, Time

LEMMA StepTyped == PolicyTypeOK /\ [PolicyNext]_policyVars => PolicyTypeOK'
<1> SUFFICES ASSUME PolicyTypeOK, [PolicyNext]_policyVars PROVE PolicyTypeOK'
  OBVIOUS
<1> USE ScheduleAssumption DEF ScheduleAssumption, PolicyTypeOK, Instant, Time
<1>1. CASE Tick
  <2>1. CASE now.time + 1 < DayLength
    BY <1>1, <2>1 DEF Tick
  <2>2. CASE ~(now.time + 1 < DayLength)
    BY <1>1, <2>2 DEF Tick
  <2> QED BY <2>1, <2>2
<1>2. CASE UNCHANGED policyVars
  BY <1>2 DEF policyVars
<1> QED BY <1>1, <1>2 DEF PolicyNext

\* The bundle stays one, and the clock never leaves the day.
THEOREM ScheduleTypeCorrect == PolicySpec => []PolicyTypeOK
BY InitTyped, StepTyped, PTL DEF PolicySpec

-----------------------------------------------------------------------------
\* With any number of rules meeting at an instant, the code's order of the
\* rules of a scheduled room and the prescribed one give a member the same
\* answer: all the states the two may disagree on need an exception.
LEMMA SameDecision ==
  ASSUME NEW b, NEW m, NEW n
  PROVE  IsGranted(b, m, n) <=> Prescribed(b, m, n)
<1>1. \/ ScheduledState(b, n) = PrescribedScheduled(b, n)
      \/ /\ ScheduledState(b, n) \in
                {"RESTRICTED", "SCHEDULED_LOCKDOWN", "HOLIDAY"}
         /\ PrescribedScheduled(b, n) \in
                {"RESTRICTED", "SCHEDULED_LOCKDOWN", "HOLIDAY"}
  BY DEF ScheduledState, PrescribedScheduled
<1>2. \/ State(b, n) = PrescribedState(b, n)
      \/ /\ State(b, n) \in {"RESTRICTED", "SCHEDULED_LOCKDOWN", "HOLIDAY"}
         /\ PrescribedState(b, n) \in
                {"RESTRICTED", "SCHEDULED_LOCKDOWN", "HOLIDAY"}
  BY <1>1 DEF State, PrescribedState
<1> QED BY <1>2 DEF IsGranted, Prescribed

\* The order of the rules in the code is harmless: at every instant the door
\* decides as SCHEDULED_ACCESS_EDGE_TASK.md prescribes.
THEOREM OrderIsHarmless == PolicySpec => []OrderHarmless
<1>1. OrderHarmless
  BY SameDecision DEF OrderHarmless
<1> QED BY <1>1, PTL

-----------------------------------------------------------------------------
\* A rule that is active in b is active in c, and what lets people in at c
\* lets them in at b.
LEMMA TightenedRules ==
  ASSUME NEW b, NEW c, NEW m, NEW n, Tightened(b, c)
  PROVE  /\ InSchoolBreak(b, n) => InSchoolBreak(c, n)
         /\ LockedDown(b, n) => LockedDown(c, n)
         /\ IsHoliday(b, n) => IsHoliday(c, n)
         /\ Overridden(c, n) => Overridden(b, n)
         /\ Excepted(c, m, n) => Excepted(b, m, n)
         /\ RowOpen(c, n) <=> RowOpen(b, n)
         /\ WithinValidity(c, n) <=> WithinValidity(b, n)
         /\ InRunWindow(c, n) <=> InRunWindow(b, n)
BY DEF Tightened, InSchoolBreak, LockedDown, IsHoliday, Overridden, Excepted,
   RowOpen, WithinValidity, InRunWindow

\* However many restrictions are added and permissions taken away, nobody is
\* let in whom the bundle itself keeps out.
THEOREM TighteningOnlyCloses ==
  ASSUME NEW b, NEW c, NEW m, NEW n, Tightened(b, c), IsGranted(c, m, n)
  PROVE  IsGranted(b, m, n)
<1> USE TightenedRules
<1>1. b.lockdown => c.lockdown
  BY DEF Tightened
<1>2. b.require_request => c.require_request
  BY DEF Tightened
<1>3. c.weekly_schedule = b.weekly_schedule
  BY DEF Tightened
<1>4. ScheduledState(c, n) = "WEEKDAY" => ScheduledState(b, n) = "WEEKDAY"
  BY DEF ScheduledState
<1>5. DefaultState(c, n) = "WEEKDAY" => DefaultState(b, n) = "WEEKDAY"
  BY <1>2 DEF DefaultState
<1>6. State(b, n) = "LOCKDOWN" => State(c, n) = "LOCKDOWN"
  BY <1>1 DEF State, ScheduledState, DefaultState
<1>7. State(c, n) \in {"WEEKDAY", "OPEN"} => State(b, n) \in {"WEEKDAY", "OPEN"}
  BY <1>1, <1>3, <1>4, <1>5 DEF State, ScheduledState, DefaultState
<1> QED BY <1>6, <1>7 DEF IsGranted

-----------------------------------------------------------------------------
\* The bundles that the run looks at are tightened ones.
LEMMA OneStepIsTighter ==
  ASSUME NEW b \in Bundle, NEW days, NEW windows, NEW breaks,
         NEW c \in OneStepTighter(b, days, windows, breaks)
  PROVE  Tightened(b, c)
<1> USE DEF Bundle, Tightened
<1>1. CASE c = [b EXCEPT !.lockdown = TRUE]
  BY <1>1
<1>2. CASE c = [b EXCEPT !.require_request = TRUE]
  BY <1>2
<1>3. CASE \E d \in days : c = [b EXCEPT !.holidays = @ \cup {d}]
  BY <1>3
<1>4. CASE \E br \in breaks : c = [b EXCEPT !.school_breaks = @ \cup {br}]
  BY <1>4
<1>5. CASE \E w \in windows :
              c = [b EXCEPT !.scheduled_lockdowns = @ \cup {w}]
  BY <1>5
<1>6. CASE \E w \in b.access_overrides :
              c = [b EXCEPT !.access_overrides = @ \ {w}]
  BY <1>6
<1>7. CASE \E e \in b.exceptions : c = [b EXCEPT !.exceptions = @ \ {e}]
  BY <1>7
<1> QED BY <1>1, <1>2, <1>3, <1>4, <1>5, <1>6, <1>7 DEF OneStepTighter

\* In every reachable state a restriction more only closes.
THEOREM RestrictionsRestrict == PolicySpec => []TightenOnlyCloses
<1>1. PolicyTypeOK => TightenOnlyCloses
  BY TighteningOnlyCloses, OneStepIsTighter DEF PolicyTypeOK, TightenOnlyCloses
<1> QED BY <1>1, ScheduleTypeCorrect, PTL

-----------------------------------------------------------------------------
\* Of two machines that share a day exactly one runs.
THEOREM RunWindowsDivideTheDay == PolicySpec => []RunWindowsPartition
<1>1. PolicyTypeOK => RunWindowsPartition
  <2> SUFFICES ASSUME PolicyTypeOK, NEW s \in Time, NEW e \in Time, s # e
               PROVE  InRunWindow([bundle EXCEPT !.edge_run_start = s,
                                                 !.edge_run_end = e], now)
                      <=> ~InRunWindow([bundle EXCEPT !.edge_run_start = e,
                                                      !.edge_run_end = s], now)
    BY DEF RunWindowsPartition
  <2> DEFINE forth == [bundle EXCEPT !.edge_run_start = s, !.edge_run_end = e]
             back == [bundle EXCEPT !.edge_run_start = e, !.edge_run_end = s]
  <2>1. /\ forth.edge_run_start = s /\ forth.edge_run_end = e
        /\ back.edge_run_start = e /\ back.edge_run_end = s
    BY DEF PolicyTypeOK, Bundle
  <2>2. s \in Int /\ e \in Int /\ now.time \in Int
    BY ScheduleAssumption DEF ScheduleAssumption, PolicyTypeOK, Instant, Time
  <2> HIDE DEF forth, back
  <2>3. InRunWindow(forth, now) <=> ~InRunWindow(back, now)
    BY <2>1, <2>2 DEF InRunWindow, IsTime
  <2> QED BY <2>3 DEF forth, back
<1> QED BY <1>1, ScheduleTypeCorrect, PTL
=============================================================================
