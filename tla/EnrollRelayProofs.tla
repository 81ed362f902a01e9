------------------------- MODULE EnrollRelayProofs --------------------------
(***************************************************************************)
(* Proofs about EnrollRelay, for any number of enrolments and captures:    *)
(* its type invariant, and that the controller follows the relay.          *)
(*                                                                         *)
(* DoorFollows speaks of quiet states only, so it is not inductive.  The   *)
(* strengthening says where the controller is heading while it is not yet  *)
(* there: as long as nothing led the two apart, at most one thread is      *)
(* about to publish, what it will publish is what armed says, and when no  *)
(* thread is, the last command on its way says the same.                   *)
(***************************************************************************)
EXTENDS EnrollRelay, SequenceTheorems, TLAPS

Quiet == \A t \in Threads : ~Publishing(t)

OnePublisher ==
    \A t, u \in Threads : Publishing(t) /\ Publishing(u) => t = u

PublisherAgrees ==
    \A t \in Threads : /\ pc[t] = "arm_publish" => armed
                       /\ pc[t] = "disarm_publish" => ~armed

WireAgrees == Quiet /\ wire # <<>> => (wire[Len(wire)] = "arm" <=> armed)

Heading ==
    ~astray => OnePublisher /\ PublisherAgrees /\ WireAgrees /\ DoorFollows

RelayInv == TypeOK /\ Heading

-----------------------------------------------------------------------------
(* The commands on their way, and one thread's step.                       *)

Command == {"arm", "disarm"}

\* A command that is published is the last on its way.
LEMMA AppendLast ==
  ASSUME NEW s \in Seq(Command), NEW c \in Command
  PROVE  /\ Append(s, c) \in Seq(Command)
         /\ Append(s, c) # <<>>
         /\ Append(s, c)[Len(Append(s, c))] = c
  BY AppendProperties

\* A command that is taken leaves the last one in place.
LEMMA TailLast ==
  ASSUME NEW s \in Seq(Command), s # <<>>
  PROVE  /\ Tail(s) \in Seq(Command) /\ Head(s) \in Command
         /\ Tail(s) = <<>> => Head(s) = s[Len(s)]
         /\ Tail(s) # <<>> => Tail(s)[Len(Tail(s))] = s[Len(s)]
<1>1. /\ Head(s) \in Command /\ Tail(s) \in Seq(Command)
      /\ Len(Tail(s)) = Len(s) - 1
      /\ \A i \in 1 .. Len(Tail(s)) : Tail(s)[i] = s[i + 1]
  BY HeadTailProperties
<1>2. Len(s) \in Nat \ {0}
  OBVIOUS
<1>3. Tail(s) = <<>> => Len(s) = 1
  BY <1>1, <1>2
<1>4. Tail(s) # <<>> => Len(Tail(s)) \in 1 .. Len(Tail(s))
  BY <1>1
<1>5. Head(s) = s[1]
  OBVIOUS
<1> QED
  BY <1>1, <1>2, <1>3, <1>4, <1>5

\* A thread that goes somewhere leaves the others where they are.
LEMMA GotoOne ==
  ASSUME TypeOK, NEW t \in Threads, NEW stage \in Stage[t], Goto(t, stage)
  PROVE  /\ DOMAIN pc' = Threads
         /\ \A u \in Threads : pc'[u] = IF u = t THEN stage ELSE pc[u]
         /\ \A u \in Threads : pc'[u] \in Stage[u]
  BY DEF TypeOK, Goto

\* The edge and the controller start apart from each other and in step.
LEMMA RelayInit == Init => RelayInv
<1> SUFFICES ASSUME Init PROVE RelayInv
  OBVIOUS
<1>1. DOMAIN pc = Threads /\ \A t \in Threads : pc[t] \in Stage[t]
  BY DEF Init, AtStart, Threads, Stage
<1>2. TypeOK
  <2>1. wire \in Seq({"arm", "disarm"})
    BY EmptySeq DEF Init
  <2>2. 0 \in 0 .. MaxCaptures /\ 0 \in 0 .. MaxEnrolls
    BY EnrollAssumption DEF EnrollAssumption
  <2> QED
    BY <1>1, <2>1, <2>2 DEF Init, TypeOK
<1>3. \A t \in Threads : ~Publishing(t)
  BY DEF Init, AtStart, Threads, Publishing
<1> QED
  BY <1>2, <1>3 DEF RelayInv, Heading, OnePublisher, PublisherAgrees,
                    WireAgrees, DoorFollows, Publishing, Init

\* A step that no publisher and no command has a part in, and that at most
\* ends the capturing of a controller that is due, leaves the heading.
LEMMA HeadingKept ==
  ASSUME Heading, wire' = wire, armed' = armed, astray => astray',
         enrolArmed' => enrolArmed, enrolArmed => enrolArmed' \/ enrolDue',
         enrolDue => enrolDue',
         \A t \in Threads : /\ pc'[t] = "arm_publish" <=> pc[t] = "arm_publish"
                            /\ pc'[t] = "disarm_publish"
                                  <=> pc[t] = "disarm_publish"
  PROVE  Heading'
<1>1. \A t \in Threads : Publishing(t)' <=> Publishing(t)
  BY DEF Publishing
<1> QED
  BY <1>1 DEF Heading, OnePublisher, PublisherAgrees, WireAgrees, DoorFollows,
              Quiet

\* A session that changes while somebody is to publish goes astray; else the
\* thread that changed it is the only one to publish, what armed says now.
LEMMA SessionChange ==
  ASSUME Heading, NEW t \in Threads, NEW stage,
         stage = IF armed' THEN "arm_publish" ELSE "disarm_publish",
         armed' \in BOOLEAN,
         astray' = (astray \/ \E u \in Threads : Publishing(u)),
         \A u \in Threads : pc'[u] = IF u = t THEN stage ELSE pc[u]
  PROVE  Heading'
<1>1. CASE astray'
  BY <1>1 DEF Heading
<1>2. CASE ~astray'
  <2>1. \A u \in Threads : ~Publishing(u)
    BY <1>2
  <2>2. \A u \in Threads : Publishing(u)' <=> u = t
    BY <2>1 DEF Publishing
  <2>3. OnePublisher' /\ ~Quiet'
    BY <2>2 DEF OnePublisher, Quiet
  <2>4. PublisherAgrees'
    BY <2>1 DEF PublisherAgrees, Publishing
  <2> QED
    BY <2>3, <2>4 DEF Heading, WireAgrees, DoorFollows, Quiet
<1> QED
  BY <1>1, <1>2

\* The one thread that publishes puts the command that armed asks for last on
\* the way, and nobody is left to publish.
LEMMA Publication ==
  ASSUME TypeOK, Heading, NEW t \in Threads, NEW c \in Command, NEW stage,
         pc[t] = IF c = "arm" THEN "arm_publish" ELSE "disarm_publish",
         stage \notin {"arm_publish", "disarm_publish"},
         \A u \in Threads : pc'[u] = IF u = t THEN stage ELSE pc[u],
         wire' = Append(wire, c), armed' = armed, astray' = astray
  PROVE  Heading' /\ wire' \in Seq(Command)
<1>1. wire \in Seq(Command)
  BY DEF TypeOK, Command
<1>2. wire' \in Seq(Command) /\ wire' # <<>> /\ wire'[Len(wire')] = c
  BY <1>1, AppendLast
<1>3. ASSUME ~astray PROVE Heading'
  <2>1. OnePublisher /\ PublisherAgrees
    BY <1>3 DEF Heading
  <2>2. c = "arm" <=> armed
    BY <2>1 DEF PublisherAgrees, Command
  <2>3. Publishing(t)
    BY DEF Publishing
  <2>4. \A u \in Threads : ~Publishing(u)'
    BY <2>1, <2>3 DEF OnePublisher, Publishing
  <2>5. OnePublisher' /\ PublisherAgrees'
    BY <2>4 DEF OnePublisher, PublisherAgrees, Publishing
  <2>6. WireAgrees' /\ DoorFollows'
    BY <1>2, <2>2 DEF WireAgrees, DoorFollows
  <2> QED
    BY <2>5, <2>6 DEF Heading
<1> QED
  BY <1>2, <1>3 DEF Heading

-----------------------------------------------------------------------------
(* The steps.                                                              *)

\* The threads of the edge, when they begin, change or end a session.
LEMMA SessionSteps ==
  ASSUME RelayInv, Enroll \/ (\E t \in Threads : Disarm(t))
  PROVE  RelayInv'
<1> USE DEF RelayInv
<1>1. CASE Enroll
  <2>1. /\ "sse" \in Threads /\ "arm_publish" \in Stage["sse"]
        /\ Goto("sse", "arm_publish")
    BY <1>1 DEF Enroll, Threads, Stage
  <2>2. /\ DOMAIN pc' = Threads
        /\ \A u \in Threads : pc'[u] = IF u = "sse" THEN "arm_publish"
                                       ELSE pc[u]
        /\ \A u \in Threads : pc'[u] \in Stage[u]
    BY <2>1, GotoOne
  <2>3. enrolls' \in 0 .. MaxEnrolls
    BY <1>1, EnrollAssumption DEF EnrollAssumption, Enroll, TypeOK
  <2>4. TypeOK'
    BY <1>1, <2>2, <2>3 DEF Enroll, TypeOK, edge, esp
  <2>5. Heading'
    BY <1>1, <2>1, <2>2, SessionChange DEF Enroll
  <2> QED
    BY <2>4, <2>5
<1>2. ASSUME NEW t \in Threads, Disarm(t) PROVE RelayInv'
  <2> DEFINE stage == IF armed THEN "disarm_publish" ELSE After(t)
  <2>1. stage \in Stage[t] /\ Goto(t, stage)
    BY <1>2 DEF Disarm, After, Threads, Stage
  <2>2. /\ DOMAIN pc' = Threads
        /\ \A u \in Threads : pc'[u] = IF u = t THEN stage ELSE pc[u]
        /\ \A u \in Threads : pc'[u] \in Stage[u]
    BY <2>1, GotoOne
  <2>3. TypeOK'
    BY <1>2, <2>2 DEF Disarm, TypeOK, edge, esp
  <2>4. CASE armed
    <3>1. /\ stage = IF armed' THEN "arm_publish" ELSE "disarm_publish"
          /\ armed' \in BOOLEAN
          /\ astray' = (astray \/ \E u \in Threads : Publishing(u))
      BY <1>2, <2>4 DEF Disarm
    <3> HIDE DEF stage
    <3> QED
      BY <2>2, <2>3, <3>1, SessionChange
  <2>5. CASE ~armed
    <3>1. pc[t] = "disarm" /\ stage \notin {"arm_publish", "disarm_publish"}
      BY <1>2, <2>5 DEF Disarm, After, Threads
    <3> QED
      BY <1>2, <2>2, <2>3, <2>5, <3>1, HeadingKept DEF Disarm, TypeOK, esp
  <2> QED
    BY <2>3, <2>4, <2>5
<1> QED
  BY <1>1, <1>2

\* The threads of the edge, when they tell the controller.
LEMMA PublishSteps ==
  ASSUME RelayInv, ArmPublish \/ (\E t \in Threads : DisarmPublish(t))
  PROVE  RelayInv'
<1> USE DEF RelayInv
<1>1. CASE ArmPublish
  <2>1. /\ "sse" \in Threads /\ "arm_watch" \in Stage["sse"]
        /\ Goto("sse", "arm_watch")
    BY <1>1 DEF ArmPublish, Threads, Stage
  <2>2. /\ DOMAIN pc' = Threads
        /\ \A u \in Threads : pc'[u] = IF u = "sse" THEN "arm_watch"
                                       ELSE pc[u]
        /\ \A u \in Threads : pc'[u] \in Stage[u]
    BY <2>1, GotoOne
  <2>3. Heading' /\ wire' \in Seq(Command)
    <3> "arm" \in Command
      BY DEF Command
    <3> QED
      BY <1>1, <2>1, <2>2, Publication DEF ArmPublish
  <2> QED
    BY <1>1, <2>2, <2>3 DEF ArmPublish, TypeOK, Command, esp
<1>2. ASSUME NEW t \in Threads, DisarmPublish(t) PROVE RelayInv'
  <2>1. /\ After(t) \in Stage[t] \ {"arm_publish", "disarm_publish"}
        /\ Goto(t, After(t))
    BY <1>2 DEF DisarmPublish, After, Threads, Stage
  <2>2. /\ DOMAIN pc' = Threads
        /\ \A u \in Threads : pc'[u] = IF u = t THEN After(t) ELSE pc[u]
        /\ \A u \in Threads : pc'[u] \in Stage[u]
    BY <2>1, GotoOne
  <2>3. Heading' /\ wire' \in Seq(Command)
    <3> "disarm" \in Command
      BY DEF Command
    <3> QED
      BY <1>2, <2>1, <2>2, Publication DEF DisarmPublish
  <2> QED
    BY <1>2, <2>2, <2>3 DEF DisarmPublish, TypeOK, Command, esp
<1> QED
  BY <1>1, <1>2

\* A step of a thread that neither comes from publishing nor leads to it.
LEMMA BesidesPublishing ==
  ASSUME RelayInv, NEW t \in Threads, NEW stage \in Stage[t], Goto(t, stage),
         pc[t] \notin {"arm_publish", "disarm_publish"},
         stage \notin {"arm_publish", "disarm_publish"},
         wire' = wire, armed' = armed, astray' = astray,
         due' = due, enrolls' = enrolls, UNCHANGED esp,
         captures' \in 0 .. MaxCaptures, unwatched' \in BOOLEAN
  PROVE  RelayInv'
<1> USE DEF RelayInv, esp
<1>1. /\ DOMAIN pc' = Threads
      /\ \A u \in Threads : pc'[u] = IF u = t THEN stage ELSE pc[u]
      /\ \A u \in Threads : pc'[u] \in Stage[u]
  BY GotoOne
<1>2. TypeOK'
  BY <1>1 DEF TypeOK
<1>3. Heading'
  BY <1>1, HeadingKept DEF TypeOK
<1> QED
  BY <1>2, <1>3

\* What the threads do besides: watching, waiting, relaying, ending.
LEMMA OtherSteps ==
  ASSUME RelayInv,
         \/ ArmWatch \/ Cancel \/ Capture \/ Look \/ Wake \/ WatchdogEnds
         \/ Stop \/ (\E ok \in BOOLEAN : Relayed(ok))
  PROVE  RelayInv'
<1>1. /\ \A t \in Threads : pc[t] \in Stage[t]
      /\ captures \in 0 .. MaxCaptures /\ unwatched \in BOOLEAN
  BY DEF RelayInv, TypeOK
<1>2. CASE ArmWatch
  <2>1. /\ DOMAIN pc' = Threads
        /\ \A t \in Threads :
              pc'[t] = IF t = "sse" THEN "idle"
                       ELSE IF t = "watchdog" /\ pc[t] = "dead" THEN "look"
                       ELSE pc[t]
    BY <1>2 DEF ArmWatch, RelayInv, TypeOK, Threads
  <2>2. TypeOK'
    BY <1>1, <1>2, <2>1 DEF ArmWatch, RelayInv, TypeOK, Threads, Stage, esp
  <2>3. Heading'
    BY <1>2, <2>1, HeadingKept DEF ArmWatch, RelayInv, esp
  <2> QED
    BY <2>2, <2>3 DEF RelayInv
<1>3. CASE Cancel
  <2>1. "sse" \in Threads /\ "disarm" \in Stage["sse"]
    BY DEF Threads, Stage
  <2> QED
    BY <1>1, <1>3, <2>1, BesidesPublishing DEF Cancel
<1>4. CASE Capture
  <2> DEFINE stage == IF armed THEN "relay" ELSE "idle"
  <2>1. "mqtt" \in Threads /\ stage \in Stage["mqtt"]
    BY DEF Threads, Stage
  <2>2. captures' \in 0 .. MaxCaptures
    BY <1>1, <1>4, EnrollAssumption DEF EnrollAssumption, Capture
  <2> QED
    BY <1>1, <1>4, <2>1, <2>2, BesidesPublishing DEF Capture
<1>5. CASE \E ok \in BOOLEAN : Relayed(ok)
  <2>1. PICK ok \in BOOLEAN : Relayed(ok)
    BY <1>5
  <2> DEFINE stage == IF ok THEN "disarm" ELSE "idle"
  <2>2. "mqtt" \in Threads /\ stage \in Stage["mqtt"]
    BY DEF Threads, Stage
  <2> QED
    BY <1>1, <2>1, <2>2, BesidesPublishing DEF Relayed
<1>6. CASE Look
  <2> DEFINE stage == IF ~armed \/ pc["main"] # "run" THEN "return"
                      ELSE IF due THEN "disarm" ELSE "wait"
  <2>1. "watchdog" \in Threads /\ stage \in Stage["watchdog"]
    BY DEF Threads, Stage
  <2> QED
    BY <1>1, <1>6, <2>1, BesidesPublishing DEF Look
<1>7. CASE Wake
  <2>1. "watchdog" \in Threads /\ "look" \in Stage["watchdog"]
    BY DEF Threads, Stage
  <2> QED
    BY <1>1, <1>7, <2>1, BesidesPublishing DEF Wake
<1>8. CASE WatchdogEnds
  <2>1. "watchdog" \in Threads /\ "dead" \in Stage["watchdog"]
    BY DEF Threads, Stage
  <2> QED
    BY <1>1, <1>8, <2>1, BesidesPublishing DEF WatchdogEnds
<1>9. CASE Stop
  <2>1. "main" \in Threads /\ "disarm" \in Stage["main"]
    BY DEF Threads, Stage
  <2> QED
    BY <1>1, <1>9, <2>1, BesidesPublishing DEF Stop
<1> QED
  BY <1>2, <1>3, <1>4, <1>5, <1>6, <1>7, <1>8, <1>9

\* The end of the process, and time: what is left behind is astray.
LEMMA ProcessSteps == ASSUME RelayInv, Restart \/ Deadline PROVE RelayInv'
<1> USE DEF RelayInv
<1>1. CASE Restart
  <2>1. DOMAIN pc' = Threads /\ \A t \in Threads : pc'[t] \in Stage[t]
    BY <1>1 DEF Restart, AtStart, Threads, Stage
  <2>2. TypeOK'
    BY <1>1, <2>1 DEF Restart, TypeOK, esp
  <2>3. ASSUME ~astray' PROVE Heading'
    <3>1. ~armed /\ ~astray /\ \A t \in Threads : ~Publishing(t)
      BY <1>1, <2>3 DEF Restart
    <3>2. \A t \in Threads : ~Publishing(t)'
      BY <1>1 DEF Restart, AtStart, Threads, Publishing
    <3> QED
      BY <1>1, <3>1, <3>2, HeadingKept DEF Restart, Publishing, TypeOK, esp
  <2> QED
    BY <2>2, <2>3 DEF Heading
<1>2. CASE Deadline
  <2>1. TypeOK'
    BY <1>2 DEF Deadline, TypeOK, esp
  <2>2. Heading'
    BY <1>2, HeadingKept DEF Deadline, esp
  <2> QED
    BY <2>1, <2>2
<1> QED
  BY <1>1, <1>2

\* The controller, when it takes or misses a command: the last one leaves it
\* as armed says.
LEMMA CommandSteps ==
  ASSUME RelayInv, TakeCommand \/ LoseCommand PROVE RelayInv'
<1> USE DEF RelayInv
<1>1. wire \in Seq(Command) /\ wire # <<>>
  BY DEF TakeCommand, LoseCommand, TypeOK, Command
<1>2. /\ Tail(wire) \in Seq(Command)
      /\ Tail(wire) = <<>> => Head(wire) = wire[Len(wire)]
      /\ Tail(wire) # <<>> => Tail(wire)[Len(Tail(wire))] = wire[Len(wire)]
  BY <1>1, TailLast
<1>3. CASE TakeCommand
  <2>1. TypeOK'
    BY <1>2, <1>3 DEF TakeCommand, TypeOK, Command, edge
  <2>2. ASSUME ~astray PROVE Heading'
    <3>1. UNCHANGED <<armed, pc, astray>> /\ wire' = Tail(wire)
      BY <1>3 DEF TakeCommand, edge
    <3>2. OnePublisher /\ PublisherAgrees /\ WireAgrees
      BY <2>2 DEF Heading
    <3>3. \A t \in Threads : Publishing(t)' <=> Publishing(t)
      BY <3>1 DEF Publishing
    <3>4. OnePublisher' /\ PublisherAgrees'
      BY <3>1, <3>2, <3>3 DEF OnePublisher, PublisherAgrees
    <3>5. WireAgrees'
      BY <1>1, <1>2, <3>1, <3>2, <3>3 DEF WireAgrees, Quiet
    <3>6. ASSUME Quiet', wire' = <<>> PROVE enrolArmed' = armed'
      BY <1>1, <1>2, <1>3, <3>1, <3>2, <3>3, <3>6
         DEF TakeCommand, WireAgrees, Quiet, TypeOK
    <3>7. DoorFollows'
      BY <3>6 DEF DoorFollows, Quiet
    <3> QED
      BY <3>4, <3>5, <3>7 DEF Heading
  <2> QED
    BY <1>3, <2>1, <2>2 DEF TakeCommand, Heading
<1>4. CASE LoseCommand
  <2>1. TypeOK'
    BY <1>2, <1>4 DEF LoseCommand, TypeOK, Command, edge, esp
  <2> QED
    BY <1>4, <2>1 DEF LoseCommand, Heading
<1> QED
  BY <1>3, <1>4

\* The controller on its own: cards, its deadline, a reboot.
LEMMA ControllerSteps ==
  ASSUME RelayInv, Swipe \/ LoseCapture \/ EnrolDeadline \/ EspReboot
  PROVE  RelayInv'
<1> USE DEF RelayInv
<1>1. captures' \in 0 .. MaxCaptures
  BY EnrollAssumption
     DEF EnrollAssumption, TypeOK, Swipe, LoseCapture, EnrolDeadline, EspReboot
<1>2. TypeOK'
  BY <1>1 DEF TypeOK, Swipe, LoseCapture, EnrolDeadline, EspReboot, edge, esp
<1>3. /\ UNCHANGED <<armed, pc, wire, astray>>
      /\ enrolArmed' => enrolArmed
      /\ enrolArmed => enrolArmed' \/ enrolDue'
      /\ enrolDue => enrolDue'
  BY DEF Swipe, LoseCapture, EnrolDeadline, EspReboot, edge, esp
<1>4. Heading'
  BY <1>3, HeadingKept
<1> QED
  BY <1>2, <1>4

\* Every step of the edge, of the controller and of what is between them
\* keeps the invariant.
LEMMA RelayNext == RelayInv /\ [Next]_vars => RelayInv'
<1> SUFFICES ASSUME RelayInv, [Next]_vars PROVE RelayInv'
  OBVIOUS
<1>1. CASE UNCHANGED vars
  <2>1. TypeOK'
    BY <1>1 DEF vars, edge, esp, RelayInv, TypeOK
  <2>2. Heading'
    BY <1>1, HeadingKept DEF vars, edge, esp, RelayInv
  <2> QED
    BY <2>1, <2>2 DEF RelayInv
<1> QED
  BY <1>1, SessionSteps, PublishSteps, OtherSteps, ProcessSteps, CommandSteps,
     ControllerSteps DEF Next, Relay

-----------------------------------------------------------------------------
\* The inductive invariant holds in every behaviour.
THEOREM RelayInvariant == Spec => []RelayInv
  BY RelayInit, RelayNext, PTL DEF Spec

\* Every thread is where its code can be, and only the two commands are ever
\* on their way.
THEOREM RelayTypeCorrect == Spec => []TypeOK
<1>1. RelayInv => TypeOK
  BY DEF RelayInv
<1> QED
  BY <1>1, RelayInvariant, PTL

\* With any number of sessions and captures, whichever of the four threads
\* ends a session: once everything published has arrived, the controller
\* captures only while the relay is armed, and an armed relay has a
\* controller that captures or whose own time is over.
THEOREM DoorFollowsRelay == Spec => []DoorFollows
<1>1. RelayInv => DoorFollows
  BY DEF RelayInv, Heading, DoorFollows
<1> QED
  BY <1>1, RelayInvariant, PTL
=============================================================================
