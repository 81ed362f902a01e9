----------------------------- MODULE EnrollRelay -----------------------------
(***************************************************************************)
(* The enrolment relay, core/enroll_relay.py, with the door controller of  *)
(* esp_test: the cloud arms the door over the event stream, the next card  *)
(* the controller reads is relayed to the cloud, and the door is disarmed  *)
(* by whichever comes first: that relay, a cancellation, the watchdog at   *)
(* the deadline or the end of the process.                                 *)
(*                                                                         *)
(* Four threads call disarm() and one calls arm().  A lock makes each      *)
(* change of armed atomic; the command that tells the controller is        *)
(* published after the lock is released.  Commands arrive in order or are  *)
(* lost: the controller subscribes with QoS 0 and a clean session.         *)
(*                                                                         *)
(* A deadline is a flag that time raises.  Events for other rooms,         *)
(* captures without a card and a second card that is read in an enrolment  *)
(* that was relayed change nothing and are left out.                       *)
(***************************************************************************)
EXTENDS Naturals, Sequences

CONSTANTS
    MaxEnrolls,   \* bound of the model: enroll events
    MaxCaptures   \* bound of the model: captures on their way to the edge

ASSUME EnrollAssumption == MaxEnrolls \in Nat /\ MaxCaptures \in Nat

Threads == {"sse", "mqtt", "watchdog", "main"}

VARIABLES
    armed,       \* _armed
    due,         \* time.time() has reached _deadline
    pc,
    wire,        \* commands on their way to the controller
    captures,    \* captures on their way to the edge
    enrolArmed,  \* at the controller
    enrolDue,    \* its own deadline has passed
    \* History, read by the properties only:
    enrolls,     \* enroll events so far
    unwatched,   \* arm() took a watchdog that was done for one that watches
    astray       \* see DoorFollows

edge == <<armed, due, pc>>
esp == <<enrolArmed, enrolDue>>
vars == <<edge, wire, captures, esp, enrolls, unwatched, astray>>

Stage == [sse      |-> {"idle", "arm_publish", "arm_watch", "disarm",
                        "disarm_publish"},
          mqtt     |-> {"idle", "relay", "disarm", "disarm_publish"},
          watchdog |-> {"dead", "look", "wait", "disarm", "disarm_publish",
                        "return"},
          main     |-> {"run", "disarm", "disarm_publish", "exit"}]

TypeOK ==
    /\ armed \in BOOLEAN /\ due \in BOOLEAN
    /\ DOMAIN pc = Threads /\ \A t \in Threads : pc[t] \in Stage[t]
    /\ wire \in Seq({"arm", "disarm"})
    /\ captures \in 0 .. MaxCaptures
    /\ enrolArmed \in BOOLEAN /\ enrolDue \in BOOLEAN
    /\ enrolls \in 0 .. MaxEnrolls
    /\ unwatched \in BOOLEAN /\ astray \in BOOLEAN

AtStart == [sse |-> "idle", mqtt |-> "idle", watchdog |-> "dead",
            main |-> "run"]

Init ==
    /\ armed = FALSE /\ due = TRUE
    /\ pc = AtStart
    /\ wire = <<>> /\ captures = 0
    /\ enrolArmed = FALSE /\ enrolDue = TRUE
    /\ enrolls = 0
    /\ unwatched = FALSE /\ astray = FALSE

Goto(t, stage) == pc' = [pc EXCEPT ![t] = stage]
Publishing(t) == pc[t] \in {"arm_publish", "disarm_publish"}

-----------------------------------------------------------------------------
(* The thread of the event stream: on_enroll and on_enroll_cancel.  It is  *)
(* stopped before the relay, but is not waited for for ever.               *)

\* arm(), under the lock.
Enroll ==
    /\ pc["sse"] = "idle" /\ pc["main"] = "run" /\ enrolls < MaxEnrolls
    /\ armed' = TRUE /\ due' = FALSE
    /\ Goto("sse", "arm_publish")
    /\ enrolls' = enrolls + 1
    /\ astray' = (astray \/ \E t \in Threads : Publishing(t))
    /\ UNCHANGED <<wire, captures, esp, unwatched>>

\* arm(): publish_enroll_cmd(True, timeout_s).
ArmPublish ==
    /\ pc["sse"] = "arm_publish"
    /\ wire' = Append(wire, "arm")
    /\ Goto("sse", "arm_watch")
    /\ UNCHANGED <<armed, due, captures, esp, enrolls, unwatched, astray>>

\* _start_watchdog: a thread that is alive is taken for one that watches.
ArmWatch ==
    /\ pc["sse"] = "arm_watch"
    /\ pc' = [pc EXCEPT !["sse"] = "idle",
                        !["watchdog"] = IF @ = "dead" THEN "look" ELSE @]
    /\ unwatched' = (pc["watchdog"] \in {"disarm_publish", "return"})
    /\ UNCHANGED <<armed, due, wire, captures, esp, enrolls, astray>>

Cancel ==
    /\ pc["sse"] = "idle" /\ pc["main"] = "run"
    /\ Goto("sse", "disarm")
    /\ UNCHANGED <<armed, due, wire, captures, esp, enrolls, unwatched, astray>>

-----------------------------------------------------------------------------
(* disarm(), in any of the four threads.                                   *)

\* Fault: every thread goes back to wait for an event.
AfterIdle(t) == "idle"

\* Where a thread goes on when disarm() returns.
After(t) ==
    CASE t \in {"sse", "mqtt"} -> "idle"
      [] t = "watchdog" -> "return"
      [] t = "main" -> "exit"

\* Fault: the flag is cleared and the controller is not told.
DisarmQuietly(t) ==
    /\ pc[t] = "disarm"
    /\ armed' = FALSE /\ due' = TRUE
    /\ Goto(t, After(t))
    /\ UNCHANGED <<wire, captures, esp, enrolls, unwatched, astray>>

\* Under the lock: only the thread that found the door armed publishes.
Disarm(t) ==
    /\ pc[t] = "disarm"
    /\ armed' = FALSE /\ due' = TRUE
    /\ Goto(t, IF armed THEN "disarm_publish" ELSE After(t))
    /\ astray' = (astray \/ (armed /\ \E u \in Threads : Publishing(u)))
    /\ UNCHANGED <<wire, captures, esp, enrolls, unwatched>>

\* publish_enroll_cmd(False, 0).
DisarmPublish(t) ==
    /\ pc[t] = "disarm_publish"
    /\ wire' = Append(wire, "disarm")
    /\ Goto(t, After(t))
    /\ UNCHANGED <<armed, due, captures, esp, enrolls, unwatched, astray>>

-----------------------------------------------------------------------------
(* The MQTT thread: on_capture.                                            *)

\* armed is read without the lock, once, before the call to the cloud.
Capture ==
    /\ pc["mqtt"] = "idle" /\ captures > 0
    /\ captures' = captures - 1
    /\ Goto("mqtt", IF armed THEN "relay" ELSE "idle")
    /\ UNCHANGED <<armed, due, wire, esp, enrolls, unwatched, astray>>

\* The cloud took the card, or did not, after all the retries of _request.
Relayed(ok) ==
    /\ pc["mqtt"] = "relay"
    /\ Goto("mqtt", IF ok THEN "disarm" ELSE "idle")
    /\ UNCHANGED <<armed, due, wire, captures, esp, enrolls, unwatched, astray>>

-----------------------------------------------------------------------------
(* _watchdog_loop.                                                         *)

\* Fault: the loop ends at the deadline and leaves the door as it is.
LookAway ==
    /\ pc["watchdog"] = "look"
    /\ Goto("watchdog", IF ~armed \/ due \/ pc["main"] # "run" THEN "return"
                        ELSE "wait")
    /\ UNCHANGED <<armed, due, wire, captures, esp, enrolls, unwatched, astray>>

\* armed and the deadline are read together, after _stop; what is done about
\* them is done later.
Look ==
    /\ pc["watchdog"] = "look"
    /\ Goto("watchdog", IF ~armed \/ pc["main"] # "run" THEN "return"
                        ELSE IF due THEN "disarm" ELSE "wait")
    /\ UNCHANGED <<armed, due, wire, captures, esp, enrolls, unwatched, astray>>

\* The wait is over: of five seconds, until the deadline or until stop().
Wake ==
    /\ pc["watchdog"] = "wait"
    /\ Goto("watchdog", "look")
    /\ UNCHANGED <<armed, due, wire, captures, esp, enrolls, unwatched, astray>>

\* The thread has returned and is no longer alive.
WatchdogEnds ==
    /\ pc["watchdog"] = "return"
    /\ Goto("watchdog", "dead")
    /\ UNCHANGED <<armed, due, wire, captures, esp, enrolls, unwatched, astray>>

\* Time reaches the deadline.
Deadline ==
    /\ armed /\ ~due
    /\ due' = TRUE
    /\ UNCHANGED <<armed, pc, wire, captures, esp, enrolls, unwatched, astray>>

-----------------------------------------------------------------------------
(* The end of the process.                                                 *)

\* stop(): _stop is set, which is pc["main"] # "run".
Stop ==
    /\ pc["main"] = "run"
    /\ Goto("main", "disarm")
    /\ UNCHANGED <<armed, due, wire, captures, esp, enrolls, unwatched, astray>>

\* os._exit after stop(), or a crash; the process starts again.
Restart ==
    /\ armed' = FALSE /\ due' = TRUE
    /\ pc' = AtStart
    /\ unwatched' = FALSE
    /\ astray' = (astray \/ armed \/ \E t \in Threads : Publishing(t))
    /\ UNCHANGED <<wire, captures, esp, enrolls>>

-----------------------------------------------------------------------------
(* The controller.                                                         *)

\* onEnroll.
TakeCommand ==
    /\ wire # <<>>
    /\ wire' = Tail(wire)
    /\ enrolArmed' = (Head(wire) = "arm")
    /\ enrolDue' = IF Head(wire) = "arm" THEN FALSE ELSE enrolDue
    /\ UNCHANGED <<edge, captures, enrolls, unwatched, astray>>

\* The controller is away when a command comes.
LoseCommand ==
    /\ wire # <<>>
    /\ wire' = Tail(wire)
    /\ astray' = TRUE
    /\ UNCHANGED <<edge, captures, esp, enrolls, unwatched>>

\* loop(): the controller looks at its deadline when it reads a card, and only
\* then; the card that finds it passed goes through the access logic.
Swipe ==
    /\ enrolArmed
    /\ IF enrolDue
       THEN enrolArmed' = FALSE /\ UNCHANGED captures
       ELSE /\ captures < MaxCaptures
            /\ captures' = captures + 1
            /\ UNCHANGED enrolArmed
    /\ UNCHANGED <<edge, wire, enrolDue, enrolls, unwatched, astray>>

LoseCapture ==
    /\ captures > 0
    /\ captures' = captures - 1
    /\ UNCHANGED <<edge, wire, esp, enrolls, unwatched, astray>>

EnrolDeadline ==
    /\ enrolArmed /\ ~enrolDue
    /\ enrolDue' = TRUE
    /\ UNCHANGED <<edge, wire, captures, enrolArmed, enrolls, unwatched, astray>>

EspReboot ==
    /\ enrolArmed' = FALSE /\ enrolDue' = TRUE
    /\ UNCHANGED <<edge, wire, captures, enrolls, unwatched, astray>>

-----------------------------------------------------------------------------
Relay ==
    \/ ArmPublish \/ ArmWatch
    \/ \E t \in Threads : Disarm(t) \/ DisarmPublish(t)
    \/ \E ok \in BOOLEAN : Relayed(ok)
    \/ Look \/ Wake \/ WatchdogEnds

Next ==
    \/ Enroll \/ Cancel \/ Capture
    \/ Relay \/ Deadline
    \/ Stop \/ Restart
    \/ TakeCommand \/ LoseCommand \/ Swipe \/ LoseCapture \/ EnrolDeadline
    \/ EspReboot

\* Every thread goes on, a call to the cloud ends, and time passes.
Fairness ==
    /\ WF_vars(ArmPublish \/ ArmWatch)
    /\ \A t \in Threads : WF_vars(Disarm(t) \/ DisarmPublish(t))
    /\ WF_vars(\E ok \in BOOLEAN : Relayed(ok))
    /\ WF_vars(Look \/ Wake \/ WatchdogEnds)
    /\ WF_vars(Deadline)

Spec == Init /\ [][Next]_vars
FairSpec == Spec /\ Fairness

-----------------------------------------------------------------------------
\* When nothing is about to be published and nothing is on its way, the
\* controller captures only while the relay is armed, and a relay that is armed
\* has a controller that captures or whose own time has run out: whichever of
\* the four threads ended the enrolment, and in whatever order.  Three things
\* lead the two apart, and astray remembers them: a session that changed while
\* another thread was still to publish, because the lock does not cover that; a
\* command that was lost; and a process that ended while the door was armed.
DoorFollows ==
    (\A t \in Threads : ~Publishing(t)) /\ wire = <<>> /\ ~astray =>
        /\ enrolArmed => armed
        /\ armed => enrolArmed \/ enrolDue

\* An enrolment nobody uses is ended by its watchdog, although sessions follow
\* each other and are ended by others: unless arm() met a watchdog that was
\* done with the session before and had not yet returned.
SessionEnds == armed ~> ~armed \/ unwatched

\* enroll_relay.py:91: "Watchdog: auto-disarm after timeout".
AutoDisarm == armed ~> ~armed
=============================================================================
