# Door-edge: a formal model

TLA+ modules, TLC configurations and TLAPS proofs for the edge computer of the
door (`edge_app.py`, `core/`) and the door controller it talks to
(`ESP_mqtt.ino`). Paths below are relative to the repository root; `core/x.py:n`
is line *n* of that file.

Contents: [the system](#1-the-system), [components and what makes them
correct](#2-components), [the modules](#3-the-modules), [the
runs](#4-what-the-runs-check), [fairness](#5-fairness), [proofs](#6-proofs),
[disagreements found](#7-where-code-and-comments-disagree), [limits](#8-what-is-not-modelled-and-why),
[plan](#9-plan), [how to run](#10-running-the-checks).

## 1. The system

One Linux process watches a camera, recognises enrolled faces, asks for a raised
hand, and opens a door by sending a command over MQTT to an ESP controller. The
controller also reads cards and decides on them alone, from a card table in its
flash that the edge keeps up to date. A cloud service holds persons, cards and
schedules; it is told of every access, every refusal and every alarm.

```
   camera --> CameraWorker --unlock--> MQTTPublisher ==MQTT==> ESP controller --> door, buzzer
                 |   |                      ^   |                  |  card table (flash)
                 |   +--match--> Redis      |   +<==presence, card events==+
                 |                 ^        |
     AlertTracker|                 |     SyncAgent <--SSE, polling-- cloud
                 v                 +---------+                         ^
        denied worker, event pool --> CloudClient --(failed)--> OfflineQueue
```

The threads of the edge process, which is where its difficulty lies:

| thread | runs | state shared with others |
|---|---|---|
| main | start-up, first sync, then a watchdog for the controller | index, revisions, presence, tracker |
| capture / inference | `CameraWorker._capture_loop`, `_infer_loop` | latest frame; tracker; Redis index (reads) |
| denied worker | posts refusals with a photo | bounded queue, offline queue |
| MQTT loop | `_on_message`: presence, card granted/denied, enrolment | presence, tracker, event pool |
| event pool (4) | posts card events | offline queue |
| alert timers | one `threading.Timer` per pending alarm | presence, tracker |
| SSE, consistency check | `SyncAgent._on_sync`, `_check_consistency` | index, caches, revisions |
| allowlist on reconnect | one thread per "online" of the controller | card cache, its revision |
| offline flush | `OfflineQueue._loop` | deque, file |
| heartbeat, enrolment watchdog, display | periodic | schedule, enrolment session |

No state survives the process but the Redis index, the buffer's file, the cached
schedule bundle, and the controller's flash.

## 2. Components

For each: the state it keeps, its operations, what is hard, and what makes it
correct. "Module" names where it is modelled.

**Face gate** (`core/camera_worker.py` `_process`; module `CameraGate`). State:
confirmation (id, count, IDLE/CONFIRMING/UNLOCKED), hand streak and latch, fake
streak, no-face count, liveness errors. One operation per frame with about
twenty ways out. Hard: each way out resets a different part of the
confirmation, in two modes (normal/IR) with different thresholds, so what is
left over from one person meets the next. Correct: the door is opened only for
a person confirmed by an uninterrupted series of own frames; no enrolled
person's hand serves another; the granted window closes; a stranger is noticed;
nobody is shut out by the past.

**Attempt and spoof alerts** (`core/alert_tracker.py`; `AttemptAlerts`, composed
with the denied worker in `EventFlow`). State:
attempt counter, open incidents, times of the last alerts and of the last
activity. Called by the inference and the MQTT thread, which read parts of it
without the lock. Correct: alerts are spaced, earned, and never muted for good.

**ESP offline alerts** (`core/alert_tracker.py`, `core/mqtt_publisher.py`,
`edge_app.py`; `EspAlerts`). State: presence, the installed timer, whether an
alert is out. Hard: timers fire while being cancelled, and are created by three
kinds of thread. Correct: a lasting outage is reported, again and again with
escalation on, and a device back for good is quiet.

**Offline event queue** (`core/offline_queue.py`, `core/cloud_client.py`;
`OfflineQueue`, abstractly `AuditQueue`). State: deque, batch of the flush in
progress, file. Hard: enqueue during a flush, eviction at the cap, partial
failure of a batch, crash between any two steps, lost replies. Correct: order,
no duplicates of what is known to be delivered, the file covers the backlog,
nothing stays forever.

**Sync agent, faces** (`core/sync_agent.py`, `core/face_matcher.py`;
`FaceSync`). State: Redis index, recorded revision. Hard: three threads clear
and fill the index without a lock, from answers that are old when they are used.
Correct: whoever stays enrolled is found, the recorded revision stands for what
is in the index, removed persons are forgotten.

**Sync agent, cards** (`core/sync_agent.py`, `handleCardSync` of `ESP_mqtt.ino`;
`CardSync`). State: allowlist cache and its revision, the controller's table.
Hard: pushes of four kinds of thread cross, MQTT loses them, "unchanged" and
"failed" are the same answer, and a check comes to the cards only after the
faces. Correct: the table is never emptied by mistake and follows the allowlist.

**Schedule policy** (`core/schedule_policy.py`; `SchedulePolicy`). State: the
bundle. Pure evaluation of a layered calendar: lockdown, override, school break,
lockdown window, holiday, weekly rows, and around all of them the run window.
Hard: rules coincide, windows include or exclude their end, and only some may run
over midnight. Correct: the door decides as specified whatever coincides, and a
restriction never opens it.

**Sync agent, schedule** (`core/sync_agent.py`, `core/sse_client.py`, and the
locking and cache of `core/schedule_policy.py`; `ScheduleSync`). State: bundle
in force, recorded revision, cache file and the temporary file beside it. Hard:
three threads fetch, replace, write and record without a common lock, and come
to it only when faces and roster have not raised; the inference thread reads the
policy in three steps meanwhile; the process dies between any two. Correct: a
lockdown in force denies, the cache is whole, and the cloud's rules arrive.

**Enrolment relay** (`core/enroll_relay.py`, with the controller's side in
`esp_test/`; `EnrollRelay`). State: armed session with a deadline; a watchdog
thread that ends with it; the controller's own armed state. Hard: four threads
disarm, the command goes out after the lock is released, the watchdog ends while
the next session starts, a capture outlasts its session. Correct: relay and
controller agree, and a session ends.

**Denied-event worker and capture thread** (`core/camera_worker.py`;
`EventFlow`). State: bounded queue with its worker; latest frame. Hard: the
queue is full while the cloud is away, and the fallback without the photo meets
it full or not, as the worker got on in between. Correct: denials are posted in
the order of the attempts, none twice, none of a cycle skipped, and the
inference thread never waits for a post. The capture thread is not modelled.

**Door firmware** (`ESP_mqtt.ino`; `EspDoor`, its card table in `CardSync`).
State: relay, door timer, bypass, edges of the switches, buzzer, debounce,
firmware write in progress. Hard: a clock that wraps, commands the broker kept, a
loop that stands still while it connects or writes firmware, a switch that is
turned while it starts. Correct: the door locks again and bypass is honoured. The
separate test build under `esp_test/` is modelled as far as its enrolment mode.

**Edge process wiring** (`edge_app.py`). Its watchdog is in `EspAlerts`, the order of
start-up and the shutdown by `os._exit` in `ScheduleSync` and `EnrollRelay`, the
card callbacks with their pool in `EventFlow`. The single-instance lock is not
modelled.

**MQTT publisher** (sending side), **heartbeat**: thin; their effects on others
(messages lost, kept or late) are the environment of the modules above.

**Screen state, display, inference, configuration, tools, tests**: not
modelled, see section 8.

`PROJECT.json` lists the components with their status, and the hazards, each at
the line where it bites, with the properties that cover it or the reason why
none does yet.

## 3. The modules

Each module has one action per way through the code, a type invariant, and its
properties at the end. Variables named "history" are read by the properties
only; no action's guard looks at them. Operators whose comment starts with
"Fault:" are mistakes that a plausible edit could make: they are not part of the
specification, but show for each property what it would catch.

### CameraGate

A step is a frame. `_process` runs in one thread, nobody else writes its state,
and no other thread reads it to decide anything, so that the frame is the right
grain. Each action is one way from the top of `_process` to a return: `Cooling`,
`StoreUnavailable`, `NoFace`, `StillGranted`, `GrantRevoked`, `TooFar`,
`FakeFace`, `TooClose`, `SearchFailed`, `UnknownFace`, `LockdownDeny`,
`AlreadyGranted`, `WaitForHand`, `CountFrame`, `ScheduleDeny`, `Unlock`. What
the networks see (who, how close, live or not, hand up, still or moving) and
what Redis and the schedule answer are free inputs of the frame. `calls` holds
the calls made on other components in the frame. Mode changes (IR) reset what
`_process` resets. History: `vouched` (whose uninterrupted frames were seen, and
how many), `latchedBy` (whose face was shown when the hand latch was set),
`raised` (stranger frames with a hand held still).

### AttemptAlerts

Two threads, split where the code takes its lock: `FaceAttempt` / `CardAttempt`
read the cooldown and the timeout outside it, `FaceReset` / `CardReset` call
`reset_counters`, `FaceCount` / `CardCount` are the critical sections, `FaceDeny`
is what `_send_denied` does with the result. Time is an age per event that
`Tick` increases up to the longest interval it is compared with; a call takes no
time. The module is checked as part of `EventFlow`, whose steps do to the tracker
what its own do (`FlowImplementsAttempts`).

### EventFlow

`AttemptAlerts` with what its attempts set off. The inference thread goes through
a frame in steps: `Attempt`, `Record`, `Deny` for an unknown face, `Refuse` and
`Fake` for the other reasons, `Unlock`, `Ignored` in the cooldown of the alert.
`Put` is the first `put_nowait` of `_send_denied`, part of the step that denies;
`PutText` is the second, a step of its own, since the worker may take a denial out
between the two. `Take` and `Posted` are the worker, one post at a time. Alerts,
unlocks and the events of cards are posted by threads of their own (`Spawn`,
`Submit`, `Reported`), which are counted and do not know of each other's order.
`TapDenied`, `TapRecord` and `TapGranted` are the MQTT thread. What `Reported` and
`Posted` leave to the offline queue is `OfflineQueue`'s `Report`. Denials are
numbered in the order in which they are made, afresh when none is waiting. History:
`made`, `handed`, `lost`, `logged` (attempt number of the latest denial).

### EspAlerts

`OnMessage`, `OfflineCallback`, `Restored` and `CancelTaken` are the MQTT
thread, `Probe` and `ProbeOffline` the watchdog, and `Start`, `Fire`,
`CameBack`, `StillAway`, `Post` the timer threads. A *chain* is a timer with the
successors its firing creates. The presence is read before the lock is taken and
timers are started and cancelled after it is released, each as a step of its
own. `escalate` is `ESP_OFFLINE_ESCALATE_S` > 0. History: `reported` (an alert
went out since the device went away).

### OfflineQueue and AuditQueue

`Report` is a caller that posts an event itself, `Enqueue` the buffer taking it,
`TakeBatch`, `FlushPost` and `Requeue` the flush thread, `Crash` a restart at
any point, including between the post and the record of its answer. `FlushPost`
has four answers: taken, taken but the reply is lost, unreachable, refused.
A rewrite of the file may fail. `AuditQueue` is what callers may rely on, with
one backlog instead of deque, batch and file; `OfflineQueue` implements it with
`Backlog == batch \o pending`.

### FaceSync

Threads `main`, `sse` and `check` go through `compare`, `fetch`, `clear`,
`load`, `status`, `record`, with another thread between any two stages and
between any two upserts. `Outage` lets any call on the cloud or Redis fail;
`RedisFails` is the exception from `clear` or `upsert`, which ends the sync of a
background thread (`Broken`) and the process if it hits the main thread
(`Reborn`, then restarted by systemd). `Restart` is a restart for any other
reason. The index outlives both. `heard` lets the event stream deliver any
revision it has not delivered yet, and lose any. History: `staying` (persons in
every revision), `held`, `plain`, `disturbed`, `torn`.

### CardSync

Threads `main`, `sse`, `check` and one per reconnect (`Again`) go through `ask`,
`await`, `cache`, `stamp`, `publish` of `_sync_card_uid_to_esp32`. The revision
named in the request is read at `ask`, the answer is the cloud's at `await`,
list and revision are written by two steps, and what is published is the cache
at that moment. A push replaces the whole table, so `broker` is the last push or
none; it is lost with the controller's session. The controller is away,
announced but not subscribed (`arriving`), or listening. Every start has an
arbitrary table and an arbitrary push left over, which is how restarts of the
edge are covered without an action of their own. Start-up, sync event and check
resync the faces first, which raises while Redis or the cloud does not answer
(`outage`): they may get past that at any time, and are relied upon to do so
only when both answer.

### SchedulePolicy

The clock is the only thing that moves: `Tick` goes through the instants of some
days, the bundle is any of `Bundles` and stays. The rest are operators named for
the methods and helpers they translate, applied to a bundle and an instant:
`State`, `InRunWindow`, `IsGranted`, `DenyReason` and the rules they ask.
`Absent` is a missing value, and the time text `DayLength` one that `_t` refuses.
`Prescribed` is the decision of `SCHEDULED_ACCESS_EDGE_TASK.md` 4.2, the abstract
definition the code's order of rules is compared with.

### ScheduleSync

The threads `main` (start-up), `sse` and `check` go through `fetch`, `update`,
`open`, `write`, `replace`, `record`, the steps of `_sync_schedule`,
`SchedulePolicy.update` and `_persist`; `gate` is the inference thread in
`in_run_window`, `state` and the exceptions, with the operators of
`SchedulePolicy` (`Rules!`) at each step. All threads write one temporary file
beside the cache, so `fd` follows a handle through the renames of others. The
event stream carries revisions in order, begins with the current one and may
break at any time. `down` says what does not answer: with `"any"` every request
to cloud or Redis may fail or succeed; with `"redis"` the cloud answers and
whatever touches the index raises. A caller of `_sync_schedule` resyncs faces
and roster first and comes to the schedule only past them (`InitialSync`,
`SyncEvent`, `CheckConsistency`). The disk may refuse at any of its three steps
(`DiskRefuses`: `open`, `json.dump`, `os.replace`), and `Restart` may come
between any two steps, any number of times. History: `seen` (bundles in force
during the decision at hand), `crossed` (two threads were past `update` at
once), `refused` (the disk has not taken the bundle held last).

### EspDoor

`pc` is the place in `setup()` or `loop()`, and each part of a pass is an action:
firmware, bypass switch, exit switch, reader, door timer, MQTT. Levels of
pins, cards, the network and commands are inputs; `Tick` advances `millis()`
modulo `Wrap`, and the deadline and the debounce are kept as differences to it.
The broker keeps commands while the controller is away and repeats one whose
acknowledgement was lost. `Reboot` may come at any time. History: `openFor`,
`skewed` (the bypass switch was turned during `setup()`), `shutOut` (a lock
command came in bypass).

### EnrollRelay

The threads `sse`, `mqtt`, `watchdog` and `main`; `Disarm(t)` is the locked part
of `disarm()`, `DisarmPublish(t)` the command after it, for each of the four. A
deadline is a flag that time raises, one at the relay and one at the controller,
which looks at its own only when it reads a card. Commands are lost when the
controller is away (`LoseCommand`), captures at the broker. History: `unwatched`
(arm took a watchdog that was done for one that watches), `astray` (what can make
the two sides disagree, see `DoorFollows`).

## 4. What the runs check

| run | module, cfg | states | shows |
|---|---|---|---|
| `gate` | `MCCameraGate`, `CameraGate.cfg` | 10,569 | `UnlockVouched`, `NoBorrowedHand`, `FreeStrangerHeard`, `GrantWindow`, `PatienceAdmits` |
| `queue` | `MCOfflineQueue`, `OfflineQueue.cfg` | 70,616 | `InOrder`, `CrashSafe`, `NoDuplicate`, `Drains`, `ImplementsAudit` |
| `esp` | `MCEspAlerts`, `EspAlerts.cfg` | 50,344 | `HandleAlive`, `OutageReported`, `QuietWhenOnline` |
| `attempts` | `MCEventFlow`, `EventFlow.cfg` | 970,270 | `NeverMuted`, `NoDenialInGap`, `DenialsInLine`, `AlertsSpaced`, `AlertEarned`, `AttemptsWithoutGap`, `NeverFrozen` |
| `faces` | `MCFaceSync`, `FaceSync.cfg` | 1,303,268 | `StayingFound`, `RecordedIsLoaded`, `CatchesUp` |
| `cards` | `MCCardSync`, `CardSync.cfg` | 1,717,674 | `KeepsOpening`, `TableFollows` |
| `schedule` | `MCSchedulePolicy`, `SchedulePolicy.cfg` | 186,624 | `OrderHarmless`, `TightenOnlyCloses` |
| `schedule_sync` | `MCScheduleSync`, `ScheduleSync.cfg` | 941,962 | `LockdownDenies`, `CacheWhole`, `PolicyFollows` |
| `door` | `MCEspDoor`, `EspDoor.cfg` | 1,503,668 | `OpenBounded`, `BypassFollows` |
| `enroll` | `MCEnrollRelay`, `EnrollRelay.cfg` | 304,007 | `DoorFollows`, `SessionEnds` |

The type invariants are checked by the runs `gate`, `queue`, `attempts`
(`FlowTypeOK`), `schedule_sync`, `door` and `enroll`; those of the other modules,
like these, are proved (section 6).
Two more runs, `faces_removed` and `door_bypass`, end in a counterexample;
section 7 tells them, and further configurations that do.

Bounds, and why they suffice:

- *CameraGate*: two enrolled persons and a stranger, since every rule of the gate
  relates the present face to one earlier subject. Thresholds of two and three
  frames, different in the two modes (two is the least that tells a streak from
  a frame; `config.py` ships 5/3 and 6/4). Counters saturate at the largest
  threshold, which is where the code stops looking at them.
- *OfflineQueue*: three events with a deque capped at two, so that eviction
  happens with a batch out; two tries, so that an entry survives a cycle and is
  given up in the next; one crash, after which everything else may still
  happen.
- *EspAlerts*: three chains at a time: an orphan, one being cancelled, and the
  installed one. The proofs need no such bound.
- *EventFlow*, with *AttemptAlerts*: thresholds 3 and 2; intervals 1 < 2 = 2 < 3 in
  the order of those in `config.py`. A queue of two, the least in which an order
  can be wrong, and four denials while the worker is behind: one it posts, two
  that wait and one that finds the queue full. `MaxDenials` ends no run, since
  the numbers start again when the worker has caught up. Posts on other threads
  are counted up to `MaxErrands`, which then stands for that or more. The proofs
  need no such bound, but for the two of the numbering.
- *FaceSync*: two persons, one who stays and one who comes and goes; two edits,
  so that data, status and record can each belong to a different revision; one
  restart that no failure caused (those that a failure causes are not bounded).
- *CardSync*: two lists with cards and the empty one; one edit besides the
  arbitrary contents of table and broker at the start; one reconnect thread at a
  time next to the three others.
- *SchedulePolicy*: a Saturday, a Sunday and a Monday of four instants each, so
  that a window has an instant before it, two ends and one after it; 15,552
  bundles that combine the rules for the Monday freely, unreadable and overnight
  times among them. The proofs need no such bound.
- *ScheduleSync*: three bundles (closed for a holiday, open, locked down with an
  exception) at one instant; one edit, so that what a thread was told, fetched
  and records can be of the revision before or after it; restarts are not bounded.
  `Outages = {"any"}`: requests that may fail or succeed include every way in which
  Redis alone is down for a while; for good, it is `ScheduleSyncRedis.cfg`. The
  proofs hold for every `Outages`, and any number of edits.
- *EspDoor*: an unlock time and a debounce of two ticks, passes of up to two, and
  a clock that wraps at ten, so that a deadline is crossed, and missed by a pass,
  on either side of the wrap; two cards; two commands at the broker, so that one
  waits behind one that is repeated. The assumption needs the unlock time and a
  pass to be less than half the wrap; the firmware has 2^32 ms and seconds.
- *EnrollRelay*: three sessions and two captures at a time, enough for a capture of one
  session to be relayed in the next while a third thread disarms.

Deadlock is checked everywhere but in `queue` and `schedule`: an edge with no
event left to report and an empty buffer has nothing to do, and the calendar of
the model ends.

## 5. Fairness

Fairness is weak fairness of what a running thread does next, never of the
environment.

- *CameraGate*: frames keep coming (`WF(Next)`): `_infer_loop` has no exit and
  swallows exceptions. `PatienceAdmits` speaks of a person whose frames are all
  good from some time on, and says that from some time on the door is theirs: what
  came before, an earlier admission included, does not discharge it.
- *OfflineQueue*: the flush thread wakes up every cycle and goes on (`Flush`).
  Nothing is assumed of the cloud: an entry leaves because its tries run out.
- *EspAlerts*: the MQTT thread finishes its callback, the watchdog loops, a
  timer that was started fires and finishes. Messages are not fair: a device may
  stay away, and status changes may never come.
- *FaceSync*: the main thread starts, the consistency check wakes up every
  `SYNC_CONSISTENCY_CHECK` seconds, and a sync that began goes on. The event
  stream is not fair: `CatchesUp` holds without it.
- *CardSync*: the main thread starts and a check comes round to the cards, both
  only while cloud and Redis answer (with one of them down the faces raise
  first, every time); a push that began goes on; and the broker delivers to a
  controller that listens (QoS 1 subscriptions).
- *ScheduleSync*: the first sync begins, a sync that began goes on, and the
  consistency check comes round to the schedule while nothing is down. Nothing is
  assumed of outages, deaths, the stream, the disk and the visitors;
  `PolicyFollows` supposes that from some time on nothing is down and the process
  stays up.
- *EnrollRelay* (`FairSpec`): each thread goes on, a call to the cloud ends, and
  time reaches a deadline. Neither cloud, controller nor MQTT is fair.
- *EventFlow*: the inference thread goes through the frame it has begun
  (`InFrame`). Nothing else is fair: neither the worker nor any other thread
  need ever finish a post, so that `NeverFrozen` shows that the frame does not
  wait for one.
- *SchedulePolicy* and *EspDoor* have no liveness property and no fairness.

## 6. Proofs

The theorems hold for every value of the constants, under the modules' `ASSUME`s
only: sets of persons, lists and chains of any size, thresholds and intervals of
any length, any number of edits and restarts.

**AdmissionProofs**, of `CameraGate`: `GateTypeCorrect`, `UnlockIsVouched`,
`HandIsNotBorrowed`, `FreeStrangerIsHeard`, `GrantedWindowCloses`.
`UnlockVouched` speaks of the frame of an unlock; what makes it true was built
up over many frames, and the confirmation count alone proves nothing, since most
resets leave it alone in IDLE. The strengthening: a positive count is backed by
vouching frames *while the hand is latched* (`CountBacked`), since every
interruption drops the latch and the count starts again with the latch; and a
latch was set by the subject or before there was one (`LatchOwned`). The
assumption that a hand streak is at least two frames is needed.
`FreeStrangerHeard` counts frames whose hand may be a leftover subject's: they
are counted in IDLE only, where no subject is forgotten, so with no subject all
of them are in the streak (`RaisedInIdle`, `RaisedInStreak`). `GrantWindow`
rests on `NoTakeover`, that another person's hand cannot be accepted in the
frame that would take the window over, on whom the window's frames vouch for and
that their empty frames stay below `NoFaceReset` (`WindowOwned`), and on
`AnotherCloses`, that a frame which recognises somebody else, a stranger
included, leaves no window open.

**AlertTrackerProofs**, of `EspAlerts`: `EspTypeCorrect`, `HandleIsAlive`.
Strengthening: a timer
waiting to be cancelled is not the installed one (`TakenIsNotInstalled`).

**AlertTrackerProofs**, of `AttemptAlerts`: `AttemptTypeCorrect`, `DoorIsNeverMuted`,
`AlertsAreSpaced`, `AlertIsEarned`. Strengthening: the clocks of
the history agree with the tracker's (`Clocks`), and the tracker goes through two
halves of a cycle (`Cycle`): no alert time recorded, counting and no incident;
or an alert time and nothing counted since.

**AlertTrackerProofs**, of `EventFlow`: `FlowImplementsAttempts`,
`FlowTypeCorrect`, `DenialsAreInLine`, `NoAttemptIsSkipped`, `AlertSilences`.
The first carries everything proved of `AttemptAlerts` over to the composition:
a step of `EventFlow` is one of its steps or leaves the tracker alone
(`FlowStep`). For the order (`LineInv`), what the worker holds, what waits and
what is put a second time are in the order of the numbers, none newer than the
latest (`Latest`); the second `put_nowait` keeps it because the inference thread
makes no other denial before it. For the gaps (`Gapless`): while the cycle
counts, the latest denial posted is that of the latest attempt counted, or, with
an attempt counted and still to be denied, of the one before. It holds through
the two looks at the tracker because an attempt is silenced only by an alert,
after which the count starts again at one; `Cycle` is what makes the next count
one. `AlertSilences` is of the step that decides a denial: in the gap the
tracker silences it (`SilentAfterAlert`, a part of the invariant of
`AttemptAlerts`), so queue and worker are left as they were.

**FaceSyncProofs**: `SyncTypeCorrect`, `StayingIsFound`, `RecordedIsInTheIndex`. `StayingFound` speaks of
the moments between loads. Strengthening: while a load is under way, whoever
stays and is missing is on the list of some thread that is loading
(`MissingIsDue`), because what is about to be loaded by a thread that clears
includes everybody who stays (`StayingFetched`).
`RecordedIsInTheIndex` needs another invariant (`RecordInv`): revisions read are
never newer than the cloud's, a plain sync has the index to itself from its begin
to its record, and after that every sync fetches the revision that is recorded
already, so that what is in the index or still on a list is the cloud's.

**CardSyncProofs**: `CardTypeCorrect`, `CardsKeepOpening`. `KeepsOpening` looks at
broker and table; an empty list reaches them from the cache through a thread
about to publish. Strengthening: such a thread finds a list that was fetched
(`PublishesFetched`), and while no list was empty nothing fetched is
(`NothingEmpty`).

**AdmissionProofs**, of `SchedulePolicy`: `ScheduleTypeCorrect`, `OrderIsHarmless`,
`TighteningOnlyCloses`, `RestrictionsRestrict`, `RunWindowsDivideTheDay`. The
properties are facts about the operators at an instant and are proved as such, for
any bundle; `TighteningOnlyCloses` is stronger than the property the run checks:
any number of rules may be tightened at once.

**EspDoorProofs**: `DoorTypeCorrect`, `DoorIsNotLeftOpen`, `BypassDoesAsTold`.
Strengthening: a door open by its timer has been so for as long as its deadline
says, taken modulo the wrap, with at most a pass to spare; a timer runs only
outside bypass, setup and firmware writes.

**ScheduleSyncProofs**: `SyncTypeCorrect`, `LockdownAlwaysDenies`,
`CacheIsWhole`. Strengthening for the gate (`GateInv`): during a decision the
bundle in force is among those seen, and whoever got past the state was judged
by one without lockdown. For the cache (`CacheInv`): while updates have not
crossed, one thread at a time is past `update`, its bundle is the one in force,
and the temporary file is its own until it renames it; cache and bundle in force
differ only while it is on its way there, or when the disk refused it.

**OfflineQueueProofs**: `QueueTypeCorrect`, `BacklogInOrder`, `FileCoversBacklog`,
`NeverSentAgain`, `BufferImplementsAudit`. The three invariants need each other. A
crash makes the file the backlog, so the file has to be in order too (`Placed`); the
order is that of tickets, so no event may have two, and one that has a ticket is
done with its caller (`OneTicket`); and nothing is sent again because whatever is
still to be sent, by its caller or from the backlog, was never confirmed
(`OwedUnconfirmed`). What a cycle does to the buffer is stated once, as a buffer of
which some events are left (`Part` and its lemmas). The refinement takes one lemma
per kind of step; the entry that an overflow drops is the one behind the batch
(`EventSeqDropped`).

**EnrollRelayProofs**: `RelayTypeCorrect`, `DoorFollowsRelay`. `DoorFollows` speaks of
rest; until then at most one thread is to publish (`OnePublisher`, as long as
nothing led the two apart, which `astray` records), what that thread will publish says
what the relay is, and while no thread is, the last command on its way does.

Only model-checked: everything under fairness (`PatienceAdmits`, `Drains`,
`OutageReported`, `QuietWhenOnline`, `CatchesUp`, `TableFollows`,
`PolicyFollows`, `SessionEnds`, `NeverFrozen`), since the prover has no rules for
fairness and `ENABLED`. Every invariant and every action property of the passing
runs, and the refinement of `AuditQueue`, is proved. Recursive definitions and
induction over data are out of the prover's reach; no module uses them.

## 7. Where code and comments disagree

| run | property | what happens |
|---|---|---|
| `faces_removed` | `RemovedIsForgotten` | The initial sync records the cloud's revision although the faces could not be fetched: a removed person stays in the index. The revision recorded after the data has the same effect. |
| `door_bypass` | `BypassOverrides` | `setup()` stores the raw level of the bypass pin, `loop()` whether the switch is on: a switch turned on while the controller waits for the network is never noticed. A lock command drops the relay in bypass. |

These configurations are not among the listed runs and end in a counterexample
as well; each violates the property named, with the MC module of its component.

| cfg | property | what happens |
|---|---|---|
| `CameraGateStranger.cfg` | `StrangerHeard` | Somebody enrolled walks off before the hand was accepted: `_confirm_id` stays, and every frame of a later stranger drops the stranger's hand streak (`core/camera_worker.py:938`). The stranger's attempt is neither counted nor recorded. |
| `OfflineQueueRestart.cfg` | `SurvivesRestart` | An event enqueued during a flush rewrites the file without the batch (`core/offline_queue.py:87`); a restart then loses the batch. |
| `OfflineQueueRefused.cfg` | `RefusedIsDropped` | A 4xx is meant to drop the entry, but the exception that says so is caught by the general handler of the same `try` (`core/cloud_client.py:96`): the entry is retried at the head of the buffer. |
| `EventFlowQuiet.cfg` | `QuietGap` | `_send_denied` means the cloud to hear of no denial during the quiet gap after an alert (`core/camera_worker.py:981-983`). It decides when it puts a denial into the queue; those already waiting are posted by a worker that is behind, during the gap. |
| `EventFlowCounted.cfg` | `EveryAttemptPosts` | Every counted attempt is said to post its own event (`core/camera_worker.py:753-754`, 964, 987, `WHOLE_SYSTEM.md:114`). The attempt that raises the alert is silenced by the alert it raised, before its denial gets into the queue. |
| `EspAlertsEscalate.cfg` | `NoEscalation` | With `ESP_OFFLINE_ESCALATE_S` 0 there is no escalation (`config.py:178-183`). The timer then leaves no handle, so that the watchdog, at its next look at a device still away, starts another one (`edge_app.py:236-238`): the alert is repeated all the same. |
| `EspAlertsRestore.cfg` | `RestoreSettles` | A timer that looked at the presence before the device came back raises its alert after the restore cancelled it (`core/alert_tracker.py:273`). |
| `CardSyncEmpty.cfg` | `EmptyListFollows` | A push of an empty allowlist that is lost is never repeated (`core/sync_agent.py:315`): the revoked cards go on opening the door. |
| `ScheduleSyncMixed.cfg` | `GrantBacked` | `is_granted` reads state and exceptions in two steps: a visitor is let in by the state of one bundle and the exception of another, though either alone denies (`core/schedule_policy.py:233`). |
| `ScheduleSyncRedis.cfg` | `FollowsWithoutRedis` | A sync re-fetches "whichever moved" (`core/sync_agent.py:443`). With Redis down the faces, when they moved as well, raise first in every check and every event (397-399, 452-453), and the schedule is never fetched though the cloud answers. The cards behind the same line (401-409, 455-456) fare alike. |
| `EnrollRelayWatchdog.cfg` | `AutoDisarm` | `arm` takes a watchdog that is about to return for one that watches (`core/enroll_relay.py:94`): nothing ends the session at its deadline. |

More that no configuration repeats, and that the properties are worded around:

- `core/camera_worker.py:818-820` says that a new person has to raise their own
  hand. The latch is dropped on a change of person only while `_confirm_id` is
  set; a stranger leaves it unset, so that a hand a stranger raised serves the
  next enrolled person. `NoBorrowedHand` therefore admits `Stranger`.
- `core/alert_tracker.py:192-193` says that a spoof alert fires once per episode.
  `reset_counters` re-arms it with the object still in view; only the minimum
  distance holds, which `AlertsSpaced` states.
- `core/camera_worker.py:1007-1010` says that a denial that finds the queue full
  keeps its text. The text goes into the same queue, and is dropped as well unless
  the worker took one out in between; `DenialsInLine` therefore excepts what was
  `lost`.
- `TableFollows` assumes that the recorded revision belongs to the list in the
  cache. Two pushes that cross between the two writes
  (`core/sync_agent.py:351-352`) leave the older list under the newer revision,
  and later answers are then "unchanged".
- `core/schedule_policy.py:310` promises to persist the bundle atomically. All
  threads use one temporary file: a handle that is still open follows a rename,
  and the cache itself is then written in place. `CacheWhole` therefore excludes
  updates that crossed. The same crossing leaves an older bundle under a newer
  recorded revision, which `PolicyFollows` excludes.
- `core/schedule_policy.py:174-179` asks for breaks, lockdown windows and holidays
  in the reverse of the order in `SCHEDULED_ACCESS_EDGE_TASK.md` 4.2. Labels may
  differ; the decision does not (`OrderHarmless`).

## 8. What is not modelled, and why

- Pixels, networks, embeddings, liveness scores, hand landmarks: numerical code;
  its verdicts are free inputs, so that the results hold for any of them.
- Real time: intervals are compared, never measured; how long a call takes is
  left out but for its order with others.
- The display and the screen state: they decide nothing.
- Payloads: names, rows, photos, counts shown to operators.
- A loss of Redis' data while the edge runs (`core/face_matcher.py:116` rebuilds
  an empty index); a full card table or a list without a valid UID, which
  `handleCardSync` refuses; `TagManager.h`, which is not in the repository.
- A schedule cache that exists and cannot be read for a reason of the disk;
  `load_cached_bundle` then starts empty, as it does for a broken file. A cloud
  whose roster is empty: `_resync_students` then does nothing
  (`core/sync_agent.py:433`).
- `core/cloud_client.py` retries within one request: one request with one
  outcome.
- Of the door firmware: the LEDs, single-card updates, tag expiry, the wait for
  NTP but for its length. A WiFi that is down is a controller without broker.
- The `enroll` commands to the production controller, which it does not subscribe
  to: only the build in `esp_test/` has an enrolment mode.
- Tools, previews, the mock server and the tests.
- Denials still in the queue when the process ends are lost: `EventFlow` has no
  restart. What a failed post leaves in the offline queue may be overtaken by a
  later one that reaches the cloud at once; the order that `OfflineQueue` keeps is
  that of what it holds.
- Not yet: what section 9 lists.

## 9. Plan

Order of the modules, by what the system does that matters most:

1. `CameraGate`, who is let in. *Done, proved.*
2. `OfflineQueue` with `AuditQueue`, what is recorded of it. *Done, proved.*
3. `EspAlerts`, `AttemptAlerts`, `EventFlow`, what is reported. *Done, proved.*
4. `FaceSync`, `CardSync`, who is known. *Done, safety proved.*
5. `SchedulePolicy`, `ScheduleSync`, when they are let in. *Done, safety proved.*
6. `EspDoor`, whether the door locks. *Done, proved.*
7. `EnrollRelay`, who enrols a card. *Done, safety proved.*
8. `NvsCards`, the test build's card table and unlock timer, as an implementation
   of a set; the capture thread; the single-instance lock.
9. `DoorSystem`: gate, broker and controller composed, for the delay with which
   an unlock may take effect.

Bounds stay at two or three of each kind and one edit or two, as in section 4.

## 10. Running the checks

`tlc -workers 2 -config X.cfg MCX` for a run, with the pairs of section 4 (the
configurations of section 7 use the MC module of their component);
`tlapm` on the module that section 6 names for the proofs. `PROJECT.json` maps every
definition to the lines it models, and names for every property a mutated
definition under which it fails.
