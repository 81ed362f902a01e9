------------------------- MODULE AlertTrackerProofs -------------------------
(***************************************************************************)
(* Proofs about core/alert_tracker.py and what becomes of its verdicts,    *)
(* for all thresholds, intervals, queues and chains: the attempt and spoof *)
(* alerts of AttemptAlerts, the denials of EventFlow, and the offline      *)
(* alarm of EspAlerts.                                                     *)
(*                                                                         *)
(* Attempts.  The counters, the open incident and the time of the last     *)
(* alert are written by two threads.  What ties them together, and makes   *)
(* the properties inductive, is the cycle they go through: while no alert  *)
(* time is recorded the door is counting and has no incident; from an      *)
(* alert on the time is recorded, and only the first attempt after it has  *)
(* expired removes it and starts to count anew.                            *)
(*                                                                         *)
(* Denials.  EventFlow does nothing to the tracker that AttemptAlerts does *)
(* not do, so that all of the above holds of it.  The line of denials      *)
(* stays in order because the one that is put a second time is the latest  *)
(* of all; and the attempts are denied without a gap because the number    *)
(* denied last is the one the cycle has counted to.                        *)
(*                                                                         *)
(* Offline alarm.  Its type invariant, and that the installed handle       *)
(* always leads to a timer that has yet to act.  The strengthening says    *)
(* that a timer waiting to be cancelled is not the installed one.          *)
(***************************************************************************)
EXTENDS EventFlow, EspAlerts, SequenceTheorems, TLAPS

\* The history clocks agree with those of the tracker, and an attempt under
\* way found no cooldown.
Clocks ==
  /\ calm = lastSpoof
  /\ lastFace = Never => quiet = FaceGap
  /\ lastFace # Never => quiet = lastFace
  /\ camera \in {"reset", "count"} => ~Cooldown

\* The two halves of a cycle.
Cycle ==
  /\ lastFace = Never => earned = tried.count /\ ~incident
  /\ lastFace # Never => earned = 0

AttemptInv == TypeOK /\ NeverMuted /\ SilentAfterAlert /\ Clocks /\ Cycle

\* MaxThreshold is the larger of the two thresholds.
LEMMA ThresholdBounds ==
  /\ MaxThreshold \in Nat \ {0}
  /\ \A ir \in BOOLEAN : Threshold[ir] \in 1 .. MaxThreshold
<1> DEFINE a == Threshold[TRUE]
           b == Threshold[FALSE]
           c == IF a > b THEN a ELSE b
<1>1. a \in Nat \ {0} /\ b \in Nat \ {0}
  BY AttemptAssumption DEF AttemptAssumption
<1>2. c = MaxThreshold
  BY DEF MaxThreshold
<1> HIDE DEF a, b
<1>3. c \in Nat \ {0} /\ a \in 1 .. c /\ b \in 1 .. c
  BY <1>1
<1>4. \A ir \in BOOLEAN : Threshold[ir] = a \/ Threshold[ir] = b
  BY DEF a, b
<1> QED
  BY <1>2, <1>3, <1>4

\* The invariant holds when the edge starts.
LEMMA AttemptInit == Init => AttemptInv
<1> SUFFICES ASSUME Init PROVE AttemptInv
  OBVIOUS
<1>1. 0 \in Count /\ MaxThreshold # 0
  BY ThresholdBounds DEF Count
<1>2. TypeOK
  <2>1. /\ 0 \in 0 .. AttemptGap /\ 0 \in 0 .. ResetAfter + 1
        /\ SpoofGap \in 0 .. SpoofGap /\ FaceGap \in 0 .. FaceGap
    BY AttemptAssumption DEF AttemptAssumption
  <2>2. tried \in [count: Count, age: 0 .. AttemptGap]
    BY <1>1, <2>1 DEF Init, NoEntry
  <2> QED
    BY <1>1, <2>1, <2>2 DEF Init, TypeOK
<1>3. NeverMuted /\ SilentAfterAlert /\ Clocks /\ Cycle
  BY <1>1 DEF Init, NeverMuted, SilentAfterAlert, Clocks, Cycle, NoEntry,
              Cooldown
<1> QED
  BY <1>2, <1>3 DEF AttemptInv

\* reset_counters leaves a door that is either counting from zero or still
\* in the gap after its last alert.
LEMMA ResetKeeps ==
  ASSUME AttemptInv, ResetCounters, UNCHANGED <<quiet, calm>>
  PROVE  /\ tried' = NoEntry /\ tried' \in [count: Count, age: 0 .. AttemptGap]
         /\ incident' = FALSE /\ spoofing' = FALSE
         /\ lastFace' = lastFace /\ lastSpoof' = lastSpoof
         /\ earned' = 0 /\ earned' \in Count
         /\ NeverMuted' /\ Cycle'
  BY AttemptAssumption, ThresholdBounds
     DEF AttemptAssumption, ResetCounters, LastFaceAfterReset, NoEntry, Count,
         AttemptInv, TypeOK, NeverMuted, Cycle

\* The counting step: the fresh cycle never carries an incident, so the
\* attempt that reaches the larger threshold alerts at the latest.
LEMMA CountKeeps ==
  ASSUME AttemptInv, NEW ir \in BOOLEAN, FaceCount(ir)
  PROVE  /\ AttemptInv'
         /\ "face_alert" \in calls' => /\ quiet >= FaceGap
                                       /\ earned + 1 >= Threshold[ir]
<1> DEFINE fresh == FreshCycle
           soon == fresh.entry.count > 0 /\ fresh.entry.age < AttemptGap
           count == fresh.entry.count + 1
           alert == ~soon /\ count >= Threshold[ir] /\ ~fresh.incident
<1>1. /\ fresh.entry \in [count: Count, age: 0 .. AttemptGap]
      /\ fresh.incident = FALSE
      /\ fresh.entry.count = earned
      /\ fresh.entry.count # MaxThreshold
  <2>1. CASE lastFace = Never
    <3>1. fresh = [entry |-> tried, incident |-> incident]
      BY <2>1 DEF FreshCycle
    <3> HIDE DEF fresh
    <3> QED
      BY <2>1, <3>1 DEF AttemptInv, TypeOK, NeverMuted, Cycle
  <2>2. CASE lastFace # Never
    <3>1. fresh = [entry |-> NoEntry, incident |-> FALSE]
      BY <2>2 DEF FreshCycle
    <3> HIDE DEF fresh
    <3> QED
      BY <2>2, <3>1, ThresholdBounds, AttemptAssumption
         DEF AttemptAssumption, AttemptInv, TypeOK, Cycle, NoEntry, Count
  <2> QED
    BY <2>1, <2>2
<1>2. /\ camera = "count" /\ camera' = "deny" /\ activity' = 0
      /\ tried' = IF soon THEN fresh.entry ELSE [count |-> count, age |-> 0]
      /\ incident' = (fresh.incident \/ alert)
      /\ lastFace' = IF alert THEN 0 ELSE Never
      /\ counted' = IF soon THEN 0 ELSE count
      /\ calls' = IF alert THEN {"face_alert"} ELSE {}
      /\ quiet' = IF alert THEN 0 ELSE quiet
      /\ earned' = IF alert THEN 0 ELSE IF soon THEN earned ELSE earned + 1
      /\ UNCHANGED <<spoofing, lastSpoof, card, calm>>
  BY DEF FaceCount
<1>3. quiet = FaceGap
  BY <1>2, AttemptAssumption
     DEF AttemptAssumption, AttemptInv, TypeOK, Clocks, Cooldown
<1>4. /\ fresh.entry.count \in Nat /\ fresh.entry.count < MaxThreshold
      /\ count \in Count /\ 0 \in Count
  BY <1>1, ThresholdBounds DEF Count
<1> HIDE DEF fresh
<1>5. TypeOK'
  BY <1>1, <1>2, <1>3, <1>4, AttemptAssumption
     DEF AttemptAssumption, AttemptInv, TypeOK
<1>6. NeverMuted' /\ Cycle'
  <2>1. tried'.count = IF soon THEN fresh.entry.count ELSE count
    BY <1>2
  <2>2. count = MaxThreshold /\ ~soon => alert
    BY <1>1, ThresholdBounds
  <2>3. count = fresh.entry.count + 1
    OBVIOUS
  <2> HIDE DEF alert, soon, count
  <2>4. incident' <=> alert
    BY <1>1, <1>2
  <2>5. lastFace' = Never <=> ~alert
    BY <1>2, AttemptAssumption DEF AttemptAssumption
  <2>6. NeverMuted'
    BY <1>1, <2>1, <2>2, <2>4, <2>5 DEF NeverMuted
  <2>7. Cycle'
    BY <1>1, <1>2, <2>1, <2>3, <2>4, <2>5 DEF Cycle
  <2> QED
    BY <2>6, <2>7
<1>7. SilentAfterAlert' /\ Clocks'
  <2> HIDE DEF alert, soon, count
  <2>1. "event" \notin calls' /\ camera' = "deny" /\ calm' = lastSpoof'
    BY <1>2 DEF AttemptInv, Clocks
  <2>2. lastFace' = Never => quiet' = FaceGap
    BY <1>2, <1>3, AttemptAssumption DEF AttemptAssumption
  <2>3. lastFace' # Never => quiet' = lastFace'
    BY <1>2
  <2> QED
    BY <2>1, <2>2, <2>3 DEF SilentAfterAlert, Clocks
<1>8. "face_alert" \in calls' => quiet >= FaceGap /\ earned + 1 >= Threshold[ir]
  BY <1>1, <1>2, <1>3, AttemptAssumption DEF AttemptAssumption
<1> QED
  BY <1>5, <1>6, <1>7, <1>8 DEF AttemptInv

\* The other steps of the inference thread.
LEMMA CameraKeeps ==
  ASSUME AttemptInv,
         FaceAttempt \/ FaceReset \/ FaceDeny \/ Unlocked \/ SpoofSeen
            \/ SpoofGone
  PROVE  /\ AttemptInv'
         /\ "face_alert" \notin calls'
         /\ "spoof_alert" \in calls' => calm >= SpoofGap
<1>1. CASE FaceAttempt
  BY <1>1 DEF FaceAttempt, tracker, history, AttemptInv, TypeOK, NeverMuted,
              SilentAfterAlert, Clocks, Cycle, Cooldown
<1>2. CASE FaceReset
  BY <1>2, ResetKeeps
     DEF FaceReset, AttemptInv, TypeOK, SilentAfterAlert, Clocks, Cooldown
<1>3. CASE FaceDeny
  <2>1. 0 \in Count
    BY ThresholdBounds DEF Count
  <2>2. "event" \in calls' => quiet >= FaceGap
    BY <1>3, AttemptAssumption
       DEF AttemptAssumption, FaceDeny, Silenced, Cooldown, AttemptInv,
           TypeOK, Clocks, history
  <2> QED
    BY <1>3, <2>1, <2>2
       DEF FaceDeny, tracker, history, AttemptInv, TypeOK, NeverMuted,
           SilentAfterAlert, Clocks, Cycle, Cooldown
<1>4. CASE Unlocked
  BY <1>4, ResetKeeps
     DEF Unlocked, AttemptInv, TypeOK, SilentAfterAlert, Clocks, Cooldown
<1>5. CASE SpoofSeen
  <2>1. /\ spoofing' \in BOOLEAN
        /\ lastSpoof' \in 0 .. SpoofGap /\ calm' = lastSpoof'
        /\ calls' \subseteq {"spoof_alert"}
        /\ "spoof_alert" \in calls' => calm >= SpoofGap
    <3>1. CASE SpoofDue
      BY <1>5, <3>1, AttemptAssumption
         DEF AttemptAssumption, SpoofSeen, SpoofDue, Older, AttemptInv, TypeOK,
             Clocks
    <3>2. CASE ~SpoofDue
      BY <1>5, <3>2 DEF SpoofSeen, AttemptInv, TypeOK, Clocks
    <3> QED
      BY <3>1, <3>2
  <2>2. UNCHANGED <<tried, incident, lastFace, activity, camera, counted,
                    card, quiet, earned>>
    BY <1>5 DEF SpoofSeen
  <2> QED
    BY <2>1, <2>2
       DEF AttemptInv, TypeOK, NeverMuted, SilentAfterAlert, Clocks, Cycle,
           Cooldown
<1>6. CASE SpoofGone
  <2>1. spoofing' = FALSE /\ calls' = {}
    BY <1>6 DEF SpoofGone
  <2>2. UNCHANGED <<tried, incident, lastFace, lastSpoof, activity, camera,
                    counted, card, quiet, calm, earned>>
    BY <1>6 DEF SpoofGone
  <2> QED
    BY <2>1, <2>2
       DEF AttemptInv, TypeOK, NeverMuted, SilentAfterAlert, Clocks, Cycle,
           Cooldown
<1> QED
  BY <1>1, <1>2, <1>3, <1>4, <1>5, <1>6

\* The steps of the MQTT thread.
LEMMA CardKeeps ==
  ASSUME AttemptInv, CardAttempt \/ CardReset \/ CardCount
  PROVE  /\ AttemptInv'
         /\ "face_alert" \notin calls' /\ "spoof_alert" \notin calls'
<1>1. CASE CardAttempt
  BY <1>1 DEF CardAttempt, tracker, history, AttemptInv, TypeOK, NeverMuted,
              SilentAfterAlert, Clocks, Cycle, Cooldown
<1>2. CASE CardReset
  BY <1>2, ResetKeeps
     DEF CardReset, AttemptInv, TypeOK, SilentAfterAlert, Clocks, Cooldown
<1>3. CASE CardCount
  BY <1>3, AttemptAssumption
     DEF AttemptAssumption, CardCount, history, AttemptInv, TypeOK, NeverMuted,
         SilentAfterAlert, Clocks, Cycle, Cooldown
<1> QED
  BY <1>1, <1>2, <1>3

\* Time goes by for the tracker and for the history alike.
LEMMA TickKeeps ==
  ASSUME AttemptInv, Tick
  PROVE  /\ AttemptInv'
         /\ "face_alert" \notin calls' /\ "spoof_alert" \notin calls'
<1>1. /\ tried' \in [count: Count, age: 0 .. AttemptGap]
      /\ tried'.count = tried.count
  BY AttemptAssumption DEF AttemptAssumption, Tick, Older, AttemptInv, TypeOK
<1>2. /\ lastFace' \in 0 .. FaceGap \cup {Never}
      /\ quiet' \in 0 .. FaceGap /\ quiet' >= quiet
      /\ lastFace = Never <=> lastFace' = Never
      /\ lastFace = Never => quiet' = FaceGap
      /\ lastFace # Never => quiet' = lastFace'
  BY AttemptAssumption
     DEF AttemptAssumption, Tick, Older, AttemptInv, TypeOK, Clocks
<1>3. /\ lastSpoof' \in 0 .. SpoofGap /\ calm' = lastSpoof'
      /\ calm' \in 0 .. SpoofGap
      /\ activity' \in 0 .. ResetAfter + 1
  BY AttemptAssumption
     DEF AttemptAssumption, Tick, Older, AttemptInv, TypeOK, Clocks
<1> QED
  BY <1>1, <1>2, <1>3
     DEF Tick, AttemptInv, TypeOK, NeverMuted, SilentAfterAlert, Clocks, Cycle

\* Every step keeps the invariant, and what it sends respects the intervals
\* and the threshold.
LEMMA AttemptNext ==
  ASSUME AttemptInv, [Next]_vars
  PROVE  /\ AttemptInv'
         /\ [/\ "face_alert" \in calls' => quiet >= FaceGap
             /\ "spoof_alert" \in calls' => calm >= SpoofGap]_vars
         /\ [\A ir \in BOOLEAN :
                FaceCount(ir) /\ "face_alert" \in calls'
                    => earned + 1 >= Threshold[ir]]_vars
<1>1. CASE \E ir \in BOOLEAN : FaceCount(ir)
  <2>1. "spoof_alert" \notin calls'
    BY <1>1 DEF FaceCount
  <2> QED
    BY <1>1, <2>1, CountKeeps
<1>2. CASE FaceAttempt \/ FaceReset \/ FaceDeny \/ Unlocked \/ SpoofSeen
              \/ SpoofGone
  BY <1>2, CameraKeeps
<1>3. CASE CardAttempt \/ CardReset \/ CardCount
  BY <1>3, CardKeeps
<1>4. CASE Tick
  BY <1>4, TickKeeps
<1>5. CASE UNCHANGED vars
  BY <1>5 DEF vars, tracker, history, AttemptInv, TypeOK, NeverMuted,
              SilentAfterAlert, Clocks, Cycle, Cooldown
<1> QED
  BY <1>1, <1>2, <1>3, <1>4, <1>5 DEF Next

\* The inductive invariant holds in every behaviour.
THEOREM AttemptInvariant == Spec => []AttemptInv
<1>1. AttemptInv /\ [Next]_vars => AttemptInv'
  BY AttemptNext
<1> QED
  BY <1>1, AttemptInit, PTL DEF Spec

\* No counter passes the larger threshold.
THEOREM AttemptTypeCorrect == Spec => []TypeOK
<1>1. AttemptInv => TypeOK
  BY DEF AttemptInv
<1> QED
  BY <1>1, AttemptInvariant, PTL

\* An incident always has an alert time, whose expiry ends it.
THEOREM DoorIsNeverMuted == Spec => []NeverMuted
<1>1. AttemptInv => NeverMuted
  BY DEF AttemptInv
<1> QED
  BY <1>1, AttemptInvariant, PTL

\* Alerts of one kind keep their distance through any resets.
THEOREM AlertsAreSpaced == Spec => AlertsSpaced
<1>1. AttemptInv /\ [Next]_vars
        => [/\ "face_alert" \in calls' => quiet >= FaceGap
            /\ "spoof_alert" \in calls' => calm >= SpoofGap]_vars
  BY AttemptNext
<1> QED
  BY <1>1, AttemptInvariant, PTL DEF Spec, AlertsSpaced

\* A face alert takes as many attempts as its threshold, counted since the
\* last alert and the last reset.
THEOREM AlertIsEarned == Spec => AlertEarned
<1>1. AttemptInv /\ [Next]_vars
        => [\A ir \in BOOLEAN :
               FaceCount(ir) /\ "face_alert" \in calls'
                   => earned + 1 >= Threshold[ir]]_vars
  BY AttemptNext
<1> QED
  BY <1>1, AttemptInvariant, PTL DEF Spec, AlertEarned

-----------------------------------------------------------------------------
(* The denials.                                                            *)

line == <<denied, putting, posting, made, handed, lost>>

\* Numbers never run ahead of the latest one made, and the one that is put
\* a second time is that one.
Latest ==
  /\ posting <= made
  /\ \A i \in DOMAIN denied : denied[i] <= made
  /\ putting # 0 => putting = made

LineType ==
  /\ denied \in Seq(1 .. MaxDenials) /\ Len(denied) <= QueueMax
  /\ putting \in 0 .. MaxDenials /\ posting \in 0 .. MaxDenials
  /\ made \in 0 .. MaxDenials /\ handed \in 0 .. made
  /\ lost \subseteq 1 .. made

LineInv == LineType /\ DenialsInLine /\ Latest

\* Once an attempt is under way its denial has a number to come.
Reserved ==
  /\ putting # 0 \/ faking => camera = "idle"
  /\ camera # "idle" => Room

\* While the cycle counts, the latest denial is that of the latest attempt
\* counted; while that is still to be denied, of the one before.
Gapless ==
  /\ camera = "deny" /\ counted # 0
        => /\ counted = 1 \/ counted = logged + 1
           /\ lastFace = Never /\ tried.count # 0 => tried.count = counted
  /\ ~(camera = "deny" /\ counted # 0) /\ lastFace = Never /\ tried.count # 0
        => logged = tried.count

RestType ==
  /\ cooling \subseteq Reasons \cup {"mqtt"} /\ faking \in BOOLEAN
  /\ errands \in 0 .. MaxErrands /\ logged \in Count

FlowInv == AttemptInv /\ LineInv /\ Reserved /\ Gapless /\ RestType

\* Nothing is done to the tracker that AttemptAlerts does not do.
LEMMA FlowStep == [FlowNext]_flowVars => [Next]_vars
<1> SUFFICES ASSUME [FlowNext]_flowVars PROVE [Next]_vars
  OBVIOUS
<1>1. CASE UNCHANGED flowVars
  BY <1>1 DEF flowVars
<1>2. CASE Attempt \/ Real \/ Unlock \/ InFrame \/ TapDenied \/ TapRecord
              \/ Time
  BY <1>2 DEF Attempt, Real, Unlock, InFrame, Record, Deny, PutText, Fake,
              TapDenied, TapRecord, Time, Next
<1>3. CASE Ignored \/ (\E reason \in Reasons : Refuse(reason)) \/ TapGranted
              \/ Reported \/ Take \/ Posted
              \/ (\E key \in cooling : CooldownEnds(key))
  BY <1>3 DEF Ignored, Refuse, TapGranted, Reported, Take, Posted,
              CooldownEnds
<1> QED
  BY <1>1, <1>2, <1>3 DEF FlowNext

\* EventFlow implements AttemptAlerts.
THEOREM FlowImplementsAttempts == FlowSpec => Spec
<1>1. FlowInit => Init
  BY DEF FlowInit
<1> QED
  BY <1>1, FlowStep, PTL DEF FlowSpec, Spec

\* What waits in the queue are numbers.
LEMMA Numbers ==
  ASSUME LineInv
  PROVE  /\ MaxDenials \in Nat /\ made \in Nat
         /\ Len(denied) \in Nat /\ DOMAIN denied = 1 .. Len(denied)
         /\ \A i \in 1 .. Len(denied) : denied[i] \in 1 .. MaxDenials
<1>1. denied \in Seq(1 .. MaxDenials) /\ MaxDenials \in Nat /\ made \in Nat
  BY FlowAssumption DEF FlowAssumption, LineInv, LineType
<1> QED
  BY <1>1, LenProperties, ElementOfSeq

\* The next number comes after all that wait.
LEMMA PutKeeps ==
  ASSUME LineInv, putting = 0, Room, Put, posting' = posting
  PROVE  LineInv'
<1> USE FlowAssumption DEF FlowAssumption
<1>1. CASE ~Behind
  <2>1. denied = <<>> /\ posting = 0
    BY <1>1 DEF Behind
  <2>2. Len(denied) < QueueMax
    BY <2>1
  <2>3. /\ made' = 1 /\ handed' = 0 /\ lost' = {} /\ putting' = 0
        /\ denied' = <<1>> /\ posting' = 0
    BY <1>1, <2>1, <2>2 DEF Put, Number
  <2>4. LineType'
    BY <2>3 DEF LineType
  <2>5. DenialsInLine'
    BY <2>3 DEF DenialsInLine, Waiting
  <2>6. Latest'
    BY <2>3 DEF Latest
  <2> QED
    BY <2>4, <2>5, <2>6 DEF LineInv
<1>2. CASE Behind
  <2>1. /\ made' = made + 1 /\ handed' = handed /\ lost' = lost
        /\ posting' = posting /\ made \in 0 .. MaxDenials - 1
    BY <1>2 DEF Put, Number, Room, LineInv, LineType
  <2>2. /\ denied \in Seq(1 .. MaxDenials)
        /\ handed \in 0 .. made /\ posting \in 0 .. made
        /\ \A i \in DOMAIN denied : denied[i] <= made
    BY <2>1 DEF LineInv, LineType, Latest
  <2>3. CASE Len(denied) < QueueMax
    <3>1. denied' = Append(denied, made + 1) /\ putting' = 0
      BY <1>2, <2>3 DEF Put, Number
    <3>2. /\ denied' \in Seq(1 .. MaxDenials) /\ Len(denied') = Len(denied) + 1
          /\ DOMAIN denied' = 1 .. Len(denied) + 1
          /\ DOMAIN denied = 1 .. Len(denied) /\ Len(denied) \in Nat
          /\ \A i \in 1 .. Len(denied) : denied'[i] = denied[i]
          /\ denied'[Len(denied) + 1] = made + 1
      BY <2>1, <2>2, <3>1
    <3>3. LineType'
      BY <2>1, <2>3, <3>1, <3>2 DEF LineInv, LineType
    <3>4. DenialsInLine'
      <4>1. \A i, j \in DOMAIN denied' : i < j => denied'[i] < denied'[j]
        <5> SUFFICES ASSUME NEW i \in 1 .. Len(denied) + 1,
                            NEW j \in 1 .. Len(denied) + 1, i < j
                     PROVE  denied'[i] < denied'[j]
          BY <3>2
        <5>1. i \in 1 .. Len(denied) /\ denied[i] \in 1 .. made
          <6>1. i \in 1 .. Len(denied)
            BY <3>2
          <6>2. denied[i] \in 1 .. MaxDenials /\ denied[i] <= made
            BY <2>2, <6>1, Numbers
          <6> QED
            BY <2>1, <6>1, <6>2
        <5>2. CASE j = Len(denied) + 1
          <6>1. denied'[i] = denied[i] /\ denied'[j] = made + 1
            BY <2>1, <3>2, <5>1, <5>2
          <6>2. denied[i] < made + 1
            BY <2>1, <5>1
          <6> QED
            BY <6>1, <6>2
        <5>3. CASE j # Len(denied) + 1
          <6>1. j \in 1 .. Len(denied)
            <7>1. Len(denied) \in Nat
              BY <2>2
            <7> QED
              BY <5>3, <7>1
          <6>2. denied[i] < denied[j]
            BY <3>2, <5>1, <6>1 DEF LineInv, DenialsInLine
          <6> QED
            BY <3>2, <5>1, <6>1, <6>2
        <5> QED
          BY <5>2, <5>3
      <4>2. \A i \in DOMAIN denied' : handed' < denied'[i] /\ posting' < denied'[i]
        BY <2>1, <2>2, <3>2 DEF LineInv, DenialsInLine
      <4>3. posting' # 0 => handed' < posting'
        BY <2>1 DEF LineInv, DenialsInLine
      <4>4. \A n \in handed' + 1 .. made' : Waiting(n)' \/ n \in lost'
        <5> SUFFICES ASSUME NEW n \in handed + 1 .. made + 1
                     PROVE  Waiting(n)' \/ n \in lost'
          BY <2>1
        <5>1. CASE n = made + 1
          BY <3>2, <5>1 DEF Waiting
        <5>2. CASE n # made + 1
          <6>1. Waiting(n) \/ n \in lost
            BY <2>1, <2>2, <5>2 DEF LineInv, DenialsInLine
          <6>2. n # putting
            BY <2>2
          <6> QED
            BY <2>1, <3>2, <6>1, <6>2 DEF Waiting
        <5> QED
          BY <5>1, <5>2
      <4> QED
        BY <3>1, <4>1, <4>2, <4>3, <4>4 DEF DenialsInLine
    <3>5. Latest'
      BY <2>1, <2>2, <3>1, <3>2 DEF Latest
    <3> QED
      BY <3>3, <3>4, <3>5 DEF LineInv
  <2>4. CASE ~(Len(denied) < QueueMax)
    <3>1. denied' = denied /\ putting' = made + 1
      BY <1>2, <2>4 DEF Put, Number
    <3>2. LineType'
      BY <2>1, <3>1 DEF LineInv, LineType
    <3>3. DenialsInLine'
      <4>1. \A i \in DOMAIN denied' : denied'[i] < putting'
        BY <2>1, <2>2, <3>1
      <4>2. handed' < putting' /\ posting' < putting'
        BY <2>1, <2>2, <3>1
      <4>3. \A n \in handed' + 1 .. made' : Waiting(n)' \/ n \in lost'
        <5> SUFFICES ASSUME NEW n \in handed + 1 .. made + 1
                     PROVE  Waiting(n)' \/ n \in lost'
          BY <2>1
        <5>1. CASE n = made + 1
          BY <3>1, <5>1 DEF Waiting
        <5>2. CASE n # made + 1
          <6>1. Waiting(n) \/ n \in lost
            BY <2>1, <2>2, <5>2 DEF LineInv, DenialsInLine
          <6>2. n # putting
            BY <2>2
          <6> QED
            BY <2>1, <3>1, <6>1, <6>2 DEF Waiting
        <5> QED
          BY <5>1, <5>2
      <4> QED
        BY <2>1, <3>1, <4>1, <4>2, <4>3 DEF LineInv, DenialsInLine
    <3>4. Latest'
      BY <2>1, <2>2, <3>1 DEF Latest
    <3> QED
      BY <3>2, <3>3, <3>4 DEF LineInv
  <2> QED
    BY <2>3, <2>4
<1> QED
  BY <1>1, <1>2

\* The second try appends the latest denial, or drops it.
LEMMA PutTextKeeps ==
  ASSUME LineInv, PutText
  PROVE  LineInv'
<1>1. /\ made' = made /\ handed' = handed /\ posting' = posting
      /\ putting' = 0 /\ putting # 0 /\ putting = made
  BY DEF PutText, LineInv, Latest
<1>2. /\ denied \in Seq(1 .. MaxDenials) /\ made \in 1 .. MaxDenials
      /\ handed \in 0 .. made /\ posting \in 0 .. MaxDenials
      /\ handed < made /\ posting < made
      /\ \A i \in DOMAIN denied : denied[i] < made
      /\ lost \subseteq 1 .. made
  BY <1>1 DEF LineInv, LineType, DenialsInLine
<1>3. CASE Len(denied) < QueueMax
  <2>1. denied' = Append(denied, made) /\ lost' = lost
    BY <1>1, <1>3 DEF PutText
  <2>2. /\ denied' \in Seq(1 .. MaxDenials) /\ Len(denied') = Len(denied) + 1
        /\ DOMAIN denied' = 1 .. Len(denied) + 1
        /\ DOMAIN denied = 1 .. Len(denied) /\ Len(denied) \in Nat
        /\ \A i \in 1 .. Len(denied) : denied'[i] = denied[i]
        /\ denied'[Len(denied) + 1] = made
    BY <1>2, <2>1
  <2>3. LineType'
    BY <1>1, <1>2, <1>3, <2>1, <2>2, FlowAssumption
       DEF LineInv, LineType, FlowAssumption
  <2>4. \A i, j \in DOMAIN denied' : i < j => denied'[i] < denied'[j]
    <3> SUFFICES ASSUME NEW i \in 1 .. Len(denied) + 1,
                        NEW j \in 1 .. Len(denied) + 1, i < j
                 PROVE  denied'[i] < denied'[j]
      BY <2>2
    <3>1. i \in 1 .. Len(denied) /\ denied[i] < made
      BY <1>2, <2>2
    <3>2. CASE j = Len(denied) + 1
      BY <2>2, <3>1, <3>2
    <3>3. CASE j # Len(denied) + 1
      <4>1. j \in 1 .. Len(denied)
        BY <2>2, <3>3
      <4>2. denied[i] < denied[j]
        BY <2>2, <3>1, <4>1 DEF LineInv, DenialsInLine
      <4> QED
        BY <2>2, <3>1, <4>1, <4>2
    <3> QED
      BY <3>2, <3>3
  <2>5. \A i \in DOMAIN denied' : handed' < denied'[i] /\ posting' < denied'[i]
    BY <1>1, <1>2, <2>2 DEF LineInv, DenialsInLine
  <2>6. posting' # 0 => handed' < posting'
    BY <1>1 DEF LineInv, DenialsInLine
  <2>7. \A n \in handed' + 1 .. made' : Waiting(n)' \/ n \in lost'
    <3> SUFFICES ASSUME NEW n \in handed + 1 .. made
                 PROVE  Waiting(n)' \/ n \in lost'
      BY <1>1
    <3>1. Waiting(n) \/ n \in lost
      BY DEF LineInv, DenialsInLine
    <3> QED
      BY <1>1, <2>1, <2>2, <3>1 DEF Waiting
  <2>8. DenialsInLine'
    BY <1>1, <2>4, <2>5, <2>6, <2>7 DEF DenialsInLine
  <2>9. Latest'
    <3>1. \A i \in DOMAIN denied' : denied'[i] <= made
      <4> SUFFICES ASSUME NEW i \in 1 .. Len(denied) + 1
                   PROVE  denied'[i] <= made
        BY <2>2
      <4>1. CASE i = Len(denied) + 1
        BY <2>2, <4>1, Numbers
      <4>2. CASE i # Len(denied) + 1
        <5>1. i \in 1 .. Len(denied)
          BY <2>2, <4>2
        <5> QED
          BY <2>2, <5>1, Numbers DEF LineInv, Latest
      <4> QED
        BY <4>1, <4>2
    <3> QED
      BY <1>1, <3>1 DEF LineInv, Latest
  <2> QED
    BY <2>3, <2>8, <2>9 DEF LineInv
<1>4. CASE ~(Len(denied) < QueueMax)
  <2>1. denied' = denied /\ lost' = lost \cup {made}
    BY <1>1, <1>4 DEF PutText
  <2>2. LineType'
    <3>1. lost' \subseteq 1 .. made'
      BY <1>1, <1>2, <2>1, Numbers
    <3>2. putting' \in 0 .. MaxDenials
      BY <1>1, <1>2, Numbers
    <3> QED
      BY <1>1, <2>1, <3>1, <3>2 DEF LineInv, LineType
  <2>3. \A n \in handed' + 1 .. made' : Waiting(n)' \/ n \in lost'
    <3> SUFFICES ASSUME NEW n \in handed + 1 .. made
                 PROVE  Waiting(n)' \/ n \in lost'
      BY <1>1
    <3>1. Waiting(n) \/ n \in lost
      BY DEF LineInv, DenialsInLine
    <3> QED
      BY <1>1, <2>1, <3>1 DEF Waiting
  <2>4. DenialsInLine'
    <3>1. \A i \in DOMAIN denied :
             handed < denied[i] /\ posting < denied[i]
      BY DEF LineInv, DenialsInLine
    <3>2. \A i, j \in DOMAIN denied : i < j => denied[i] < denied[j]
      BY DEF LineInv, DenialsInLine
    <3>3. posting # 0 => handed < posting
      BY DEF LineInv, DenialsInLine
    <3> QED
      BY <1>1, <2>1, <2>3, <3>1, <3>2, <3>3 DEF DenialsInLine
  <2>5. Latest'
    BY <1>1, <2>1 DEF LineInv, Latest
  <2> QED
    BY <2>2, <2>4, <2>5 DEF LineInv
<1> QED
  BY <1>3, <1>4

\* The worker takes the denial that comes before all others.
LEMMA TakeKeeps ==
  ASSUME LineInv, Take
  PROVE  LineInv'
<1>1. /\ made' = made /\ handed' = handed /\ putting' = putting /\ lost' = lost
      /\ posting = 0 /\ denied # <<>>
      /\ posting' = Head(denied) /\ denied' = Tail(denied)
  BY DEF Take
<1>2. denied \in Seq(1 .. MaxDenials)
  BY DEF LineInv, LineType
<1>3. /\ Len(denied) \in Nat \ {0} /\ DOMAIN denied = 1 .. Len(denied)
      /\ posting' = denied[1] /\ 1 \in DOMAIN denied
      /\ denied' \in Seq(1 .. MaxDenials) /\ Len(denied') = Len(denied) - 1
      /\ DOMAIN denied' = 1 .. Len(denied) - 1
      /\ \A i \in 1 .. Len(denied) - 1 : denied'[i] = denied[i + 1]
  BY <1>1, <1>2
<1>4. /\ \A i \in 1 .. Len(denied) : denied[i] \in 1 .. MaxDenials
      /\ QueueMax \in Nat
  BY <1>2, <1>3, FlowAssumption DEF FlowAssumption
<1>5. \A i \in 1 .. Len(denied) - 1 : i + 1 \in 1 .. Len(denied) /\ 1 < i + 1
  BY <1>3
<1>6. LineType'
  BY <1>1, <1>3, <1>4 DEF LineInv, LineType
<1>7. DenialsInLine'
  <2>1. \A i, j \in DOMAIN denied' : i < j => denied'[i] < denied'[j]
    <3> SUFFICES ASSUME NEW i \in 1 .. Len(denied) - 1,
                        NEW j \in 1 .. Len(denied) - 1, i < j
                 PROVE  denied'[i] < denied'[j]
      BY <1>3
    <3>1. denied[i + 1] < denied[j + 1]
      BY <1>3, <1>5 DEF LineInv, DenialsInLine
    <3> QED
      BY <1>3, <3>1
  <2>2. \A i \in DOMAIN denied' :
           /\ handed' < denied'[i] /\ posting' < denied'[i]
           /\ putting' # 0 => denied'[i] < putting'
    <3> SUFFICES ASSUME NEW i \in 1 .. Len(denied) - 1
                 PROVE  /\ handed < denied[i + 1] /\ denied[1] < denied[i + 1]
                        /\ putting # 0 => denied[i + 1] < putting
      BY <1>1, <1>3
    <3> QED
      BY <1>3, <1>5 DEF LineInv, DenialsInLine
  <2>3. handed' < posting'
    BY <1>1, <1>3 DEF LineInv, DenialsInLine
  <2>4. putting' # 0 => handed' < putting' /\ posting' < putting'
    BY <1>1, <1>3 DEF LineInv, DenialsInLine
  <2>5. \A n \in handed' + 1 .. made' : Waiting(n)' \/ n \in lost'
    <3> SUFFICES ASSUME NEW n \in handed + 1 .. made, n \notin lost
                 PROVE  Waiting(n)'
      BY <1>1
    <3>1. Waiting(n) /\ n # 0
      BY DEF LineInv, LineType, DenialsInLine
    <3>2. CASE n = putting
      BY <1>1, <3>2 DEF Waiting
    <3>3. CASE \E i \in DOMAIN denied : denied[i] = n
      <4>1. PICK i \in 1 .. Len(denied) : denied[i] = n
        BY <1>3, <3>3
      <4>2. CASE i = 1
        BY <1>3, <4>1, <4>2 DEF Waiting
      <4>3. CASE i # 1
        <5>1. i - 1 \in DOMAIN denied' /\ denied'[i - 1] = n
          BY <1>3, <4>1, <4>3
        <5> QED
          BY <5>1 DEF Waiting
      <4> QED
        BY <4>2, <4>3
    <3> QED
      BY <1>1, <3>1, <3>2, <3>3 DEF Waiting
  <2> QED
    BY <2>1, <2>2, <2>3, <2>4, <2>5 DEF DenialsInLine
<1>8. Latest'
  BY <1>1, <1>3, <1>5 DEF LineInv, Latest
<1> QED
  BY <1>6, <1>7, <1>8 DEF LineInv

\* What has been posted came before all that waits.
LEMMA PostedKeeps ==
  ASSUME LineInv, Posted
  PROVE  LineInv'
<1>1. /\ made' = made /\ handed' = posting /\ putting' = putting
      /\ lost' = lost /\ denied' = denied /\ posting' = 0 /\ posting # 0
  BY DEF Posted
<1>2. posting \in 1 .. made /\ handed \in Nat /\ handed < posting /\ made \in Nat
  BY <1>1 DEF LineInv, LineType, DenialsInLine, Latest
<1>3. \A i \in DOMAIN denied : denied[i] \in Nat /\ 0 < denied[i]
  BY Numbers
<1>4. LineType'
  <2>1. posting' \in 0 .. MaxDenials /\ handed' \in 0 .. made'
    BY <1>1, <1>2, FlowAssumption DEF FlowAssumption
  <2> QED
    BY <1>1, <2>1 DEF LineInv, LineType
<1>5. \A n \in handed' + 1 .. made' : Waiting(n)' \/ n \in lost'
  <2> SUFFICES ASSUME NEW n \in posting + 1 .. made
               PROVE  Waiting(n)' \/ n \in lost'
    BY <1>1
  <2>1. n \in handed + 1 .. made /\ n # posting
    BY <1>2
  <2>2. Waiting(n) \/ n \in lost
    BY <2>1 DEF LineInv, DenialsInLine
  <2> QED
    BY <1>1, <2>1, <2>2 DEF Waiting
<1>6. DenialsInLine'
  BY <1>1, <1>2, <1>3, <1>5 DEF LineInv, DenialsInLine, LineType
<1>7. Latest'
  BY <1>1, <1>2 DEF LineInv, Latest
<1> QED
  BY <1>4, <1>6, <1>7 DEF LineInv

LEMMA LineUnchanged ==
  ASSUME LineInv, UNCHANGED line
  PROVE  LineInv'
BY DEF line, LineInv, LineType, DenialsInLine, Waiting, Latest

\* The edge starts with nothing to deny.
LEMMA FlowStarts == FlowInit => FlowInv
<1> SUFFICES ASSUME FlowInit PROVE FlowInv
  OBVIOUS
<1> USE FlowAssumption DEF FlowAssumption
<1>1. AttemptInv /\ 0 \in Count
  BY AttemptInit, ThresholdBounds DEF FlowInit, Count
<1>2. LineInv
  BY DEF FlowInit, LineInv, LineType, DenialsInLine, Latest
<1>3. Reserved
  BY DEF FlowInit, Init, Reserved
<1>4. Gapless
  <2>1. camera # "deny" /\ tried.count = 0
    BY DEF FlowInit, Init, NoEntry
  <2> QED
    BY <2>1 DEF Gapless
<1>5. RestType
  <2>1. cooling = {} /\ ~faking /\ faking \in BOOLEAN
    BY DEF FlowInit
  <2>2. errands \in 0 .. MaxErrands
    BY DEF FlowInit
  <2>3. logged \in Count
    BY <1>1 DEF FlowInit
  <2> QED
    BY <2>1, <2>2, <2>3 DEF RestType
<1> QED
  BY <1>1, <1>2, <1>3, <1>4, <1>5 DEF FlowInv

\* A place kept for a denial stays as long as none is made.
LEMMA RoomKeeps ==
  ASSUME Room, made' = made, Behind' => Behind
  PROVE  Room'
BY DEF Room

\* A frame up to the tracker's verdict.
LEMMA RecordKeeps ==
  ASSUME FlowInv, AttemptInv', Record
  PROVE  FlowInv'
<1>1. LineInv' /\ Reserved'
  <2>1. UNCHANGED line /\ UNCHANGED <<putting, faking>> /\ camera # "idle"
    BY DEF Record, inference, line, FaceReset, FaceCount
  <2> QED
    BY <2>1, LineUnchanged, RoomKeeps DEF FlowInv, Reserved, line, Behind, Room
<1>2. RestType'
  <2>1. errands' \in 0 .. MaxErrands
    BY FlowAssumption DEF FlowAssumption, Record, TriggerAlert, Spawn, FlowInv, RestType
  <2> QED
    BY <2>1 DEF Record, inference, FlowInv, RestType
<1>3. Gapless'
  <2>1. logged' = logged
    BY DEF Record, inference
  <2>2. CASE FaceReset
    BY <2>1, <2>2 DEF FaceReset, ResetCounters, NoEntry, Gapless
  <2>3. CASE \E ir \in BOOLEAN : FaceCount(ir)
    <3> PICK ir \in BOOLEAN : FaceCount(ir)
      BY <2>3
    <3> DEFINE e == FreshCycle.entry
               soon == e.count > 0 /\ e.age < AttemptGap
    <3>1. /\ camera = "count" /\ camera' = "deny"
          /\ tried' = IF soon THEN e ELSE [count |-> e.count + 1, age |-> 0]
          /\ counted' = IF soon THEN 0 ELSE e.count + 1
      BY DEF FaceCount
    <3>2. /\ e = IF lastFace # Never THEN NoEntry ELSE tried
          /\ e.count \in Nat
      BY DEF FreshCycle, NoEntry, FlowInv, AttemptInv, TypeOK, Count
    <3>3. e.count # 0 => lastFace = Never /\ logged = e.count
      BY <3>1, <3>2 DEF NoEntry, FlowInv, Gapless
    <3> HIDE DEF e
    <3>4. CASE soon
      <4>1. counted' = 0 /\ tried'.count = e.count
        BY <3>1, <3>4
      <4> QED
        BY <2>1, <3>3, <4>1 DEF Gapless
    <3>5. CASE ~soon
      <4>1. counted' = e.count + 1 /\ tried'.count = e.count + 1
        BY <3>1, <3>5
      <4>2. counted' = 1 \/ counted' = logged' + 1
        BY <2>1, <3>2, <3>3, <4>1
      <4>3. counted' # 0
        BY <3>2, <4>1
      <4> QED
        BY <3>1, <4>1, <4>2, <4>3 DEF Gapless
    <3> QED
      BY <3>4, <3>5
  <2> QED
    BY <2>2, <2>3 DEF Record
<1> QED
  BY <1>1, <1>2, <1>3 DEF FlowInv

\* The denial of the attempt just counted.
LEMMA DenyKeeps ==
  ASSUME FlowInv, AttemptInv', Deny
  PROVE  /\ FlowInv'
         /\ "event" \in calls' => counted = 1 \/ counted = logged + 1
<1>1. /\ camera = "deny" /\ camera' = "idle" /\ counted' = 0
      /\ calls' = IF Silenced THEN {} ELSE {"event"}
      /\ UNCHANGED <<tried, incident, lastFace, faking, posting, errands>>
      /\ cooling' = cooling \cup {"mqtt"}
  BY DEF Deny, FaceDeny, tracker
<1>2. putting = 0 /\ ~faking /\ Room
  BY <1>1 DEF FlowInv, Reserved
<1>3. CASE "event" \in calls'
  <2>1. Put /\ logged' = counted
    BY <1>3 DEF Deny
  <2>2. LineInv'
    BY <1>1, <1>2, <2>1, PutKeeps DEF FlowInv
  <2>3. counted # 0
    BY <1>1, <1>3 DEF Silenced
  <2>4. Reserved'
    BY <1>1 DEF Reserved
  <2>5. Gapless'
    BY <1>1, <2>1, <2>3 DEF FlowInv, Gapless
  <2>6. RestType'
    BY <1>1, <2>1 DEF FlowInv, RestType, AttemptInv, TypeOK
  <2> QED
    BY <1>1, <2>2, <2>3, <2>4, <2>5, <2>6 DEF FlowInv, Gapless
<1>4. CASE "event" \notin calls'
  <2>1. UNCHANGED line /\ logged' = logged
    BY <1>1, <1>4 DEF Deny, line
  <2>2. LineInv'
    BY <2>1, LineUnchanged DEF FlowInv
  <2>3. Reserved'
    BY <1>1 DEF Reserved
  <2>4. Gapless'
    <3>1. Silenced
      BY <1>1, <1>4
    <3>2. lastFace = Never => counted = 0
      BY <3>1 DEF Silenced, Cooldown, FlowInv, AttemptInv, Cycle
    <3> QED
      BY <1>1, <2>1, <3>2 DEF FlowInv, Gapless
  <2>5. RestType'
    BY <1>1, <2>1 DEF FlowInv, RestType
  <2> QED
    BY <1>4, <2>2, <2>3, <2>4, <2>5 DEF FlowInv
<1> QED
  BY <1>3, <1>4

\* All else the inference thread does.
LEMMA InferenceKeeps ==
  ASSUME FlowInv, AttemptInv',
         \/ Attempt \/ Ignored \/ PutText \/ Fake \/ Real \/ Unlock
         \/ \E reason \in Reasons : Refuse(reason)
  PROVE  FlowInv'
<1>1. CASE Attempt
  <2>1. /\ UNCHANGED line /\ UNCHANGED <<cooling, faking, errands, logged>>
        /\ camera = "idle" /\ camera' # "deny" /\ putting = 0 /\ ~faking /\ Room
        /\ UNCHANGED <<tried, lastFace, counted>>
    BY <1>1 DEF Attempt, Idle, FaceAttempt, tracker, flow, inference, line
  <2>2. LineInv' /\ Reserved'
    BY <2>1, LineUnchanged DEF FlowInv, Reserved, Room, Behind, line
  <2> QED
    BY <2>1, <2>2 DEF FlowInv, Gapless, RestType
<1>2. CASE Ignored
  <2>1. UNCHANGED vars /\ UNCHANGED line /\ UNCHANGED <<faking, errands, logged>>
    BY <1>2 DEF Ignored, line
  <2>2. LineInv' /\ Reserved' /\ Gapless'
    BY <2>1, LineUnchanged
       DEF FlowInv, Reserved, Gapless, Room, Behind, line, vars, tracker
  <2> QED
    BY <1>2, <2>1, <2>2 DEF Ignored, FlowInv, RestType
<1>3. CASE PutText
  <2>1. /\ UNCHANGED vars /\ UNCHANGED <<cooling, faking, errands, logged>>
        /\ putting # 0 /\ putting' = 0
    BY <1>3 DEF PutText
  <2>2. LineInv'
    BY <1>3, PutTextKeeps DEF FlowInv
  <2>3. camera' = "idle"
    BY <2>1 DEF FlowInv, Reserved, vars
  <2>4. Reserved' /\ Gapless'
    BY <2>1, <2>3 DEF FlowInv, Reserved, Gapless, vars, tracker
  <2> QED
    BY <2>1, <2>2, <2>4 DEF FlowInv, RestType
<1>4. CASE Fake
  <2>1. /\ UNCHANGED line /\ UNCHANGED <<cooling, logged>> /\ faking' = FALSE
        /\ SpoofSeen /\ TriggerAlert /\ putting = 0
    BY <1>4 DEF Fake, line
  <2>2. UNCHANGED <<tried, lastFace, camera, counted>> /\ camera = "idle"
    BY <2>1 DEF SpoofSeen
  <2>3. LineInv' /\ Reserved' /\ Gapless'
    BY <2>1, <2>2, LineUnchanged DEF FlowInv, Reserved, Gapless, line
  <2>4. errands' \in 0 .. MaxErrands
    BY <2>1, FlowAssumption
       DEF FlowAssumption, TriggerAlert, Spawn, FlowInv, RestType
  <2> QED
    BY <2>1, <2>3, <2>4 DEF FlowInv, RestType
<1>5. CASE Real
  <2>1. /\ UNCHANGED line /\ UNCHANGED <<cooling, faking, errands, logged>>
        /\ UNCHANGED <<tried, lastFace, camera, counted>> /\ camera = "idle"
    BY <1>5 DEF Real, SpoofGone, flow, inference, line
  <2>2. LineInv' /\ Reserved' /\ Gapless'
    BY <2>1, LineUnchanged DEF FlowInv, Reserved, Gapless, line
  <2> QED
    BY <2>1, <2>2 DEF FlowInv, RestType
<1>6. CASE Unlock
  <2>1. /\ UNCHANGED line /\ UNCHANGED <<cooling, faking, logged>>
        /\ tried' = NoEntry /\ camera = "idle" /\ camera' = camera /\ Spawn
    BY <1>6 DEF Unlock, Unlocked, ResetCounters, Idle, inference, line
  <2>2. tried'.count = 0
    BY <2>1 DEF NoEntry
  <2>3. LineInv' /\ Reserved' /\ Gapless'
    BY <2>1, <2>2, LineUnchanged DEF FlowInv, Reserved, Gapless, line
  <2>4. errands' \in 0 .. MaxErrands
    BY <2>1, FlowAssumption DEF FlowAssumption, Spawn, FlowInv, RestType
  <2> QED
    BY <2>1, <2>3, <2>4 DEF FlowInv, RestType
<1>7. CASE \E reason \in Reasons : Refuse(reason)
  <2> PICK reason \in Reasons : Refuse(reason)
    BY <1>7
  <2>1. /\ UNCHANGED vars /\ UNCHANGED <<posting, errands, logged>>
        /\ camera = "idle" /\ putting = 0 /\ Room
        /\ cooling' = cooling \cup {"mqtt", reason}
        /\ faking' = (reason = "spoof_detected")
        /\ UNCHANGED line \/ Put
    BY DEF Refuse, Idle, line
  <2>2. LineInv'
    BY <2>1, LineUnchanged, PutKeeps DEF FlowInv
  <2>3. Reserved' /\ Gapless'
    BY <2>1 DEF FlowInv, Reserved, Gapless, vars, tracker
  <2>4. RestType'
    BY <2>1 DEF FlowInv, RestType
  <2> QED
    BY <2>2, <2>3, <2>4 DEF FlowInv
<1> QED
  BY <1>1, <1>2, <1>3, <1>4, <1>5, <1>6, <1>7

\* The MQTT thread, the threads that post, and time.
LEMMA OthersKeep ==
  ASSUME FlowInv, AttemptInv',
         \/ TapDenied \/ TapRecord \/ TapGranted \/ Reported
         \/ Take \/ Posted \/ Time
         \/ \E key \in cooling : CooldownEnds(key)
  PROVE  FlowInv'
<1> USE FlowAssumption DEF FlowAssumption
<1>1. CASE TapDenied \/ TapRecord \/ TapGranted \/ Reported
  <2>1. UNCHANGED line /\ UNCHANGED <<cooling, faking, logged, posting>>
    BY <1>1 DEF TapDenied, TapRecord, TapGranted, Reported, OnAccessLog,
                inference, line
  <2>2. /\ UNCHANGED <<camera, counted, lastFace>>
        /\ tried' = tried \/ tried' = NoEntry
    BY <1>1 DEF TapDenied, TapRecord, TapGranted, Reported, CardAttempt,
                CardReset, CardCount, ResetCounters, LastFaceAfterReset,
                vars, tracker
  <2>3. tried' = tried \/ tried'.count = 0
    BY <2>2 DEF NoEntry
  <2>4. LineInv'
    BY <2>1, LineUnchanged DEF FlowInv
  <2>5. Reserved' /\ Gapless'
    BY <2>1, <2>2, <2>3 DEF FlowInv, Reserved, Gapless, Room, Behind, line
  <2>6. errands' \in 0 .. MaxErrands
    BY <1>1 DEF TapDenied, TapRecord, TapGranted, Reported, OnAccessLog,
                Submit, TriggerAlert, Spawn, FlowInv, RestType
  <2> QED
    BY <2>1, <2>4, <2>5, <2>6 DEF FlowInv, RestType
<1>2. CASE Take \/ Posted
  <2>1. /\ UNCHANGED vars
        /\ UNCHANGED <<cooling, faking, errands, logged, putting, made>>
    BY <1>2 DEF Take, Posted
  <2>2. LineInv'
    BY <1>2, TakeKeeps, PostedKeeps DEF FlowInv
  <2>3. Behind
    BY <1>2 DEF Take, Posted, Behind
  <2>4. Room => Room'
    BY <2>1, <2>3, RoomKeeps
  <2>5. Reserved' /\ Gapless'
    BY <2>1, <2>4 DEF FlowInv, Reserved, Gapless, vars, tracker
  <2> QED
    BY <2>1, <2>2, <2>5 DEF FlowInv, RestType
<1>3. CASE Time
  <2>1. /\ UNCHANGED line /\ UNCHANGED <<cooling, faking, errands, logged>>
        /\ camera = "idle" /\ camera' = camera
    BY <1>3 DEF Time, Idle, Tick, flow, inference, line
  <2>2. TypeOK
    BY DEF FlowInv, AttemptInv
  <2>3. tried'.count = tried.count
    BY <1>3, <2>2 DEF Time, Tick, TypeOK
  <2>4. lastFace' = Never => lastFace = Never
    <3>1. CASE lastFace = Never
      BY <3>1
    <3>2. CASE lastFace # Never
      <4>1. lastFace' = Older(lastFace, FaceGap)
        BY <1>3, <3>2 DEF Time, Tick
      <4>2. lastFace \in Nat
        BY <2>2, <3>2, AttemptAssumption DEF TypeOK, AttemptAssumption
      <4>3. lastFace' \in Nat
        BY <4>1, <4>2 DEF Older
      <4> QED
        BY <4>3, AttemptAssumption DEF AttemptAssumption
    <3> QED
      BY <3>1, <3>2
  <2>5. LineInv' /\ Reserved' /\ Gapless'
    BY <2>1, <2>3, <2>4, LineUnchanged DEF FlowInv, Reserved, Gapless, line
  <2> QED
    BY <2>1, <2>5 DEF FlowInv, RestType
<1>4. CASE \E key \in cooling : CooldownEnds(key)
  <2>1. /\ UNCHANGED vars /\ UNCHANGED line /\ UNCHANGED <<faking, errands, logged>>
        /\ cooling' \subseteq cooling
    BY <1>4 DEF CooldownEnds, line
  <2>2. LineInv' /\ Reserved' /\ Gapless'
    BY <2>1, LineUnchanged
       DEF FlowInv, Reserved, Gapless, Room, Behind, line, vars, tracker
  <2> QED
    BY <2>1, <2>2 DEF FlowInv, RestType
<1> QED
  BY <1>1, <1>2, <1>3, <1>4

LEMMA FlowKeeps ==
  ASSUME FlowInv, [FlowNext]_flowVars
  PROVE  /\ FlowInv'
         /\ [Deny /\ "event" \in calls'
                => counted = 1 \/ counted = logged + 1]_flowVars
<1>1. AttemptInv'
  BY FlowStep, AttemptNext DEF FlowInv
<1>2. CASE Record
  <2>1. ~Deny
    BY <1>2 DEF Record, Deny, FaceReset, FaceCount, FaceDeny
  <2> QED
    BY <1>1, <1>2, <2>1, RecordKeeps
<1>3. CASE Deny
  BY <1>1, <1>3, DenyKeeps
<1>4. CASE /\ ~Deny
           /\ \/ Attempt \/ Ignored \/ PutText \/ Fake \/ Real \/ Unlock
              \/ \E reason \in Reasons : Refuse(reason)
  BY <1>1, <1>4, InferenceKeeps
<1>5. CASE /\ ~Deny
           /\ \/ TapDenied \/ TapRecord \/ TapGranted \/ Reported
              \/ Take \/ Posted \/ Time
              \/ \E key \in cooling : CooldownEnds(key)
  BY <1>1, <1>5, OthersKeep
<1>6. CASE UNCHANGED flowVars
  <2>1. UNCHANGED vars /\ UNCHANGED line
        /\ UNCHANGED <<cooling, faking, errands, logged>>
    BY <1>6 DEF flowVars, flow, inference, line
  <2>2. LineInv' /\ Reserved' /\ Gapless'
    BY <2>1, LineUnchanged
       DEF FlowInv, Reserved, Gapless, Room, Behind, line, vars, tracker
  <2> QED
    BY <1>1, <1>6, <2>1, <2>2 DEF FlowInv, RestType
<1> QED
  BY <1>2, <1>3, <1>4, <1>5, <1>6 DEF FlowNext, InFrame

\* The inductive invariant of tracker and line together.
THEOREM FlowInvariant == FlowSpec => []FlowInv
<1>1. FlowInv /\ [FlowNext]_flowVars => FlowInv'
  BY FlowKeeps
<1> QED
  BY <1>1, FlowStarts, PTL DEF FlowSpec

\* Queue, numbers and counters keep their types; the queue never holds more
\* than _DENIED_QUEUE_MAX denials.
THEOREM FlowTypeCorrect == FlowSpec => []FlowTypeOK
<1>1. FlowInv => FlowTypeOK
  BY DEF FlowInv, AttemptInv, LineInv, LineType, RestType, FlowTypeOK
<1> QED
  BY <1>1, FlowInvariant, PTL

\* The denials are posted in the order of the attempts, each once, and none
\* is forgotten that found a place in the queue, for a queue of any length.
THEOREM DenialsAreInLine == FlowSpec => []DenialsInLine
<1>1. FlowInv => DenialsInLine
  BY DEF FlowInv, LineInv
<1> QED
  BY <1>1, FlowInvariant, PTL

\* The attempts of a cycle are denied without a gap, for any thresholds and
\* intervals and whatever cards and resets come in between.
THEOREM NoAttemptIsSkipped == FlowSpec => AttemptsWithoutGap
<1>1. FlowInv /\ [FlowNext]_flowVars
        => [Deny /\ "event" \in calls'
               => counted = 1 \/ counted = logged + 1]_flowVars
  BY FlowKeeps
<1> QED
  BY <1>1, FlowInvariant, PTL DEF FlowSpec, AttemptsWithoutGap

\* In the gap after a face alert no attempt's denial joins the line, for any
\* gap and threshold and whatever the other thread resets in between.
THEOREM AlertSilences == FlowSpec => NoDenialInGap
<1>1. AttemptInv /\ AttemptInv' /\ [FlowNext]_flowVars
        => [Deny /\ quiet < FaceGap
               => UNCHANGED <<denied, putting, made, lost>>]_flowVars
  <2> SUFFICES ASSUME AttemptInv, AttemptInv', Deny, quiet < FaceGap
               PROVE  UNCHANGED <<denied, putting, made, lost>>
    OBVIOUS
  <2>1. quiet' = quiet /\ FaceGap \in Nat /\ quiet \in Nat
    BY AttemptAssumption
       DEF Deny, FaceDeny, history, AttemptInv, TypeOK, AttemptAssumption
  <2>2. "event" \in calls' => quiet' >= FaceGap
    BY DEF AttemptInv, SilentAfterAlert
  <2>3. "event" \notin calls'
    BY <2>1, <2>2
  <2>4. QED
    BY <2>3 DEF Deny
<1>2. FlowSpec => []AttemptInv
  BY FlowImplementsAttempts, AttemptInvariant, PTL
<1> QED
  BY <1>1, <1>2, PTL DEF FlowSpec, NoDenialInGap

-----------------------------------------------------------------------------
(* The offline alarm.                                                      *)

TakenIsNotInstalled == taken # NoChain => taken # handle

EspInv == OfflineTypeOK /\ HandleAlive /\ TakenIsNotInstalled

\* The edge starts with no timer at all.
LEMMA EspInit == OfflineInit => EspInv
  BY EspAssumption DEF EspAssumption, OfflineInit, EspInv, OfflineTypeOK, HandleAlive,
                       TakenIsNotInstalled, Chain

\* record_esp_offline: a chain it installs is new, hence no timer that some
\* other thread is about to cancel.
LEMMA RecordOfflineStep ==
  ASSUME EspInv, RecordOffline
  PROVE  /\ handle' \in Chains \cup {NoChain}
         /\ chain' \in [Chains -> Chain]
         /\ \A c \in Chains : chain'[c] = "posting" => escalate
         /\ taken # NoChain => chain'[taken] \in Unfired /\ taken # handle'
         /\ handle' # NoChain => chain'[handle'] \notin {"none", "last"}
<1>1. CASE handle # NoChain
  BY <1>1 DEF EspInv, OfflineTypeOK, HandleAlive, TakenIsNotInstalled, RecordOffline
<1>2. CASE handle = NoChain
  <2>1. PICK c \in Chains : /\ chain[c] = "none"
                            /\ handle' = c
                            /\ chain' = [chain EXCEPT ![c] = "new"]
    BY <1>2 DEF RecordOffline
  <2>2. chain' \in [Chains -> Chain] /\ chain'[c] = "new"
    BY <2>1 DEF EspInv, OfflineTypeOK, Chain
  <2>3. \A d \in Chains : d # c => chain'[d] = chain[d]
    BY <2>1 DEF EspInv, OfflineTypeOK
  <2>4. taken # NoChain => taken \in Chains /\ taken # c
    BY <2>1 DEF EspInv, OfflineTypeOK, Unfired
  <2> QED
    BY <2>1, <2>2, <2>3, <2>4 DEF EspInv, OfflineTypeOK
<1> QED
  BY <1>1, <1>2

\* The steps of the MQTT thread.
LEMMA MqttKeeps == ASSUME EspInv, MqttStep PROVE EspInv'
<1>1. CASE OfflineCallback
  BY <1>1, RecordOfflineStep
     DEF OfflineCallback, EspInv, OfflineTypeOK, HandleAlive, TakenIsNotInstalled
<1>2. CASE Restored
  BY <1>2, EspAssumption
     DEF EspAssumption, Restored, HandleAfterRestore, EspInv, OfflineTypeOK,
         HandleAlive, TakenIsNotInstalled
<1>3. CASE CancelTaken
  <2>1. CASE taken = NoChain
    BY <1>3, <2>1
       DEF CancelTaken, EspInv, OfflineTypeOK, HandleAlive, TakenIsNotInstalled
  <2>2. CASE taken # NoChain
    <3>1. taken \in Chains /\ taken # handle /\ chain[taken] \in Unfired
      BY <2>2 DEF EspInv, OfflineTypeOK, TakenIsNotInstalled
    <3>2. /\ chain' \in [Chains -> Chain]
          /\ chain'[taken] \in {"none", "last"}
          /\ \A d \in Chains : d # taken => chain'[d] = chain[d]
      BY <1>3, <2>2, <3>1 DEF CancelTaken, EspInv, OfflineTypeOK, Chain
    <3> QED
      BY <1>3, <2>2, <3>1, <3>2
         DEF CancelTaken, EspInv, OfflineTypeOK, HandleAlive, TakenIsNotInstalled
  <2> QED
    BY <2>1, <2>2
<1> QED
  BY <1>1, <1>2, <1>3 DEF MqttStep

\* The steps of a timer thread: each moves its own chain only.
LEMMA TimerKeeps == ASSUME EspInv, NEW c \in Chains, TimerStep(c) PROVE EspInv'
<1>1. CASE Start(c)
  <2>1. /\ chain' \in [Chains -> Chain] /\ chain'[c] = "armed"
        /\ \A d \in Chains : d # c => chain'[d] = chain[d]
    BY <1>1 DEF Start, EspInv, OfflineTypeOK, Chain
  <2> QED
    BY <1>1, <2>1 DEF Start, EspInv, OfflineTypeOK, HandleAlive, TakenIsNotInstalled,
                      Unfired
<1>2. CASE Fire(c)
  <2>1. /\ chain' \in [Chains -> Chain] /\ chain'[c] \in {"away", "back"}
        /\ \A d \in Chains : d # c => chain'[d] = chain[d]
    BY <1>2 DEF Fire, Seen, EspInv, OfflineTypeOK, Chain
  <2>2. taken' = NoChain \/ (taken' = taken /\ taken # c)
    BY <1>2 DEF Fire
  <2> QED
    BY <1>2, <2>1, <2>2 DEF Fire, EspInv, OfflineTypeOK, HandleAlive,
                            TakenIsNotInstalled, Unfired
<1>3. CASE CameBack(c)
  <2>1. /\ chain' \in [Chains -> Chain] /\ chain'[c] = "none"
        /\ \A d \in Chains : d # c => chain'[d] = chain[d]
    BY <1>3 DEF CameBack, EspInv, OfflineTypeOK, Chain
  <2>2. taken # NoChain => taken # c
    BY <1>3 DEF CameBack, EspInv, OfflineTypeOK, Unfired
  <2>3. handle' = NoChain
    BY <1>3 DEF CameBack, HandleAfterBack
  <2> QED
    BY <1>3, <2>1, <2>2, <2>3
       DEF CameBack, EspInv, OfflineTypeOK, HandleAlive, TakenIsNotInstalled
<1>4. CASE StillAway(c)
  <2>1. /\ chain' \in [Chains -> Chain]
        /\ chain'[c] = IF escalate THEN "posting" ELSE "last"
        /\ \A d \in Chains : d # c => chain'[d] = chain[d]
    BY <1>4 DEF StillAway, Escalates, EspInv, OfflineTypeOK, Chain
  <2>2. taken # NoChain => taken # c
    BY <1>4 DEF StillAway, EspInv, OfflineTypeOK, Unfired
  <2>3. handle' = IF escalate THEN c ELSE NoChain
    BY <1>4 DEF StillAway, Escalates
  <2> QED
    BY <1>4, <2>1, <2>2, <2>3
       DEF StillAway, EspInv, OfflineTypeOK, HandleAlive, TakenIsNotInstalled
<1>5. CASE Post(c)
  <2>1. /\ chain' \in [Chains -> Chain]
        /\ chain'[c] = IF chain[c] = "posting" THEN "armed" ELSE "none"
        /\ \A d \in Chains : d # c => chain'[d] = chain[d]
    BY <1>5 DEF Post, EspInv, OfflineTypeOK, Chain
  <2>2. chain[c] = "last" => c # handle /\ (taken # NoChain => taken # c)
    BY EspAssumption DEF EspAssumption, EspInv, OfflineTypeOK, HandleAlive, Unfired
  <2> QED
    BY <1>5, <2>1, <2>2 DEF Post, EspInv, OfflineTypeOK, HandleAlive,
                            TakenIsNotInstalled, Unfired
<1> QED
  BY <1>1, <1>2, <1>3, <1>4, <1>5 DEF TimerStep

\* The watchdog arms chains like the MQTT thread does.
LEMMA WatchdogKeeps == ASSUME EspInv, WatchdogStep PROVE EspInv'
<1>1. CASE Probe
  BY <1>1 DEF Probe, EspInv, OfflineTypeOK, HandleAlive, TakenIsNotInstalled
<1>2. CASE ProbeOffline
  BY <1>2, RecordOfflineStep
     DEF ProbeOffline, EspInv, OfflineTypeOK, HandleAlive, TakenIsNotInstalled
<1> QED
  BY <1>1, <1>2 DEF WatchdogStep

\* Every step of every thread keeps the invariant.
LEMMA EspNext == EspInv /\ [OfflineNext]_offlineVars => EspInv'
<1> SUFFICES ASSUME EspInv, [OfflineNext]_offlineVars PROVE EspInv'
  OBVIOUS
<1>1. CASE \E now \in {"offline", "online"} : OnMessage(now)
  BY <1>1 DEF OnMessage, Callback, EspInv, OfflineTypeOK, HandleAlive,
              TakenIsNotInstalled
<1>2. CASE MqttStep
  BY <1>2, MqttKeeps
<1>3. CASE \E c \in Chains : TimerStep(c)
  BY <1>3, TimerKeeps
<1>4. CASE WatchdogStep
  BY <1>4, WatchdogKeeps
<1>5. CASE UNCHANGED offlineVars
  BY <1>5 DEF offlineVars, EspInv, OfflineTypeOK, HandleAlive, TakenIsNotInstalled
<1> QED
  BY <1>1, <1>2, <1>3, <1>4, <1>5 DEF OfflineNext

\* The inductive invariant holds in every behaviour.
THEOREM EspInvariant == OfflineSpec => []EspInv
  BY EspInit, EspNext, PTL DEF OfflineSpec

\* The state of the chains keeps its type, and a timer that waits to be
\* cancelled has not fired.
THEOREM EspTypeCorrect == OfflineSpec => []OfflineTypeOK
<1>1. EspInv => OfflineTypeOK
  BY DEF EspInv
<1> QED
  BY <1>1, EspInvariant, PTL

\* For any number of chains, the handle that makes record_esp_offline
\* return early is never that of a timer that is over.
THEOREM HandleIsAlive == OfflineSpec => []HandleAlive
<1>1. EspInv => HandleAlive
  BY DEF EspInv
<1> QED
  BY <1>1, EspInvariant, PTL
=============================================================================
