---------------------------- MODULE ScheduleSync ----------------------------
(***************************************************************************)
(* How the schedule bundle gets from the cloud to the door's decision:     *)
(* SyncAgent._sync_schedule with its callers on three threads, SSEClient,  *)
(* SchedulePolicy.update and _persist, load_cached_bundle after a restart, *)
(* and the schedule gate of CameraWorker._process, which reads the policy  *)
(* step by step on the inference thread while the others replace it.       *)
(*                                                                         *)
(* What the rules of a bundle say is SchedulePolicy's matter; here they    *)
(* are asked at one instant for one member.  A cached file is a bundle,    *)
(* the empty file an open leaves (Blank), or something json.load refuses   *)
(* (Torn).  _persist writes a fixed path beside the cache and renames it:  *)
(* fd tells where the handle of a thread points, since a rename by another *)
(* thread makes an open temporary file the cache itself.                   *)
(*                                                                         *)
(* The controller ignores the schedule that is pushed to it, so the push   *)
(* at the end of a sync is left out.  The process may die between any two  *)
(* steps and is started again.                                             *)
(*                                                                         *)
(* Every caller of _sync_schedule sees to the faces and the roster first,  *)
(* and does not get to the schedule when that raises.  Whether they have   *)
(* moved is FaceSync's and CardSync's matter: here a caller may get past   *)
(* them at any time, and may raise whenever something is down.             *)
(***************************************************************************)
EXTENDS Integers, Sequences

CONSTANTS
    Member, DayLength, Bundles,   \* as in SchedulePolicy
    Moment,    \* the instant at which the gate asks
    Visitor,    \* the member it asks for
    First,      \* the rules that the cloud has at first
    Outages,    \* bound of the model: which outages there are
    MaxEdits    \* bound of the model: edits of the room's schedule

VARIABLES
    cloud,     \* [rev, rules]: what the cloud serves
    down,      \* what may fail: "nothing" or one of Outages
    stream,    \* revisions in the SSE connection; NoStream: not connected
    held,      \* SchedulePolicy._bundle; NoBundle: {}
    local,     \* _local_schedule_revision; 0: none
    pc,        \* [Threads -> Stage]
    told,      \* [Threads -> revision]: the argument of _sync_schedule
    got,       \* [Threads -> bundle]: what it fetched
    file,      \* what SCHEDULE_BUNDLE_PATH holds
    temp,      \* what the temporary file beside it holds
    fd,        \* [Threads -> where the handle of _persist points]
    gate,      \* where the inference thread is in its decision
    \* History, read by the properties only:
    seen,      \* bundles in force during the decision at hand
    crossed,   \* two threads were between update and record at a time
    refused    \* the disk has not taken the bundle held last

policy == <<held, local, file, temp, fd>>
vars == <<cloud, down, stream, policy, pc, told, got, gate, seen, crossed,
          refused>>

Rules == INSTANCE SchedulePolicy
    WITH bundle <- held, now <- Moment,
         FirstDay <- Moment.day, LastDay <- Moment.day

Threads == {"main", "sse", "check"}
Stage == {"start", "idle", "fetch", "update", "open", "write", "replace",
          "record"}
Revision == 1 .. MaxEdits + 1
Versioned == [rev: Revision, rules: Bundles]

\* "redis": a resync of the faces raises, and the cloud answers.
\* "any": a request to the cloud or to Redis may fail or succeed.
Trouble == {"nothing"} \cup Outages

NoBundle == [rev |-> 0]
Blank == [rev |-> -1]
Torn == [rev |-> -2]
NoFile == [rev |-> -3]
NoStream == <<0>>

ASSUME SyncAssumption ==
    /\ First \in Bundles /\ Visitor \in Member
    /\ DayLength \in Nat \ {0} /\ Bundles \subseteq Rules!Bundle
    /\ Moment \in Rules!Instant
    /\ Outages \subseteq {"redis", "any"}
    /\ MaxEdits \in Nat

TypeOK ==
    /\ cloud \in Versioned
    /\ down \in Trouble
    /\ stream = NoStream \/ stream \in Seq(Revision)
    /\ held \in Versioned \cup {NoBundle}
    /\ local \in Revision \cup {0}
    /\ pc \in [Threads -> Stage]
    /\ told \in [Threads -> Revision \cup {0}]
    /\ got \in [Threads -> Versioned \cup {NoBundle}]
    /\ \A t \in Threads :
          pc[t] \in {"update", "open", "write", "replace", "record"} <=>
              got[t] # NoBundle
    /\ file \in Versioned \cup {Blank, Torn, NoFile}
    /\ temp \in Versioned \cup {Blank, Torn, NoFile}
    /\ fd \in [Threads -> {"none", "temp", "file", "gone"}]
    /\ gate \in {"idle", "state", "exceptions", "granted"}
    /\ seen \subseteq Versioned
    /\ crossed \in BOOLEAN /\ refused \in BOOLEAN

AtStart == [t \in Threads |-> IF t = "main" THEN "start" ELSE "idle"]

Init ==
    /\ cloud = [rev |-> 1, rules |-> First]
    /\ down \in Trouble
    /\ stream = NoStream
    /\ held = NoBundle /\ local = 0
    /\ pc = AtStart
    /\ told = [t \in Threads |-> 0]
    /\ got = [t \in Threads |-> NoBundle]
    /\ file = NoFile /\ temp = NoFile
    /\ fd = [t \in Threads |-> "none"]
    /\ gate = "idle"
    /\ seen = {} /\ crossed = FALSE /\ refused = FALSE

-----------------------------------------------------------------------------
(* The cloud and the connection to it.                                     *)

Connected == stream # NoStream

\* The schedule of the room is edited, and the stream says so.
Edit(rules) ==
    /\ cloud.rev <= MaxEdits
    /\ rules # cloud.rules
    /\ cloud' = [rev |-> cloud.rev + 1, rules |-> rules]
    /\ stream' = IF Connected THEN Append(stream, cloud.rev + 1) ELSE stream
    /\ UNCHANGED <<down, policy, pc, told, got, gate, seen, crossed, refused>>

\* Cloud and Redis come and go.
Outage ==
    /\ \E what \in Trouble \ {down} : down' = what
    /\ UNCHANGED <<cloud, stream, policy, pc, told, got, gate, seen, crossed,
                   refused>>

\* _run and _connect_and_listen: sync.start() comes after the first sync; the
\* cloud begins a connection with the current revisions.
Connect ==
    /\ ~Connected /\ pc["main"] = "idle" /\ pc["sse"] = "idle"
    /\ stream' = <<cloud.rev>>
    /\ UNCHANGED <<cloud, down, policy, pc, told, got, gate, seen, crossed,
                   refused>>

\* The connection ends: what it still carries is lost, and so is the event
\* whose blank line has not come.
Disconnect ==
    /\ Connected
    /\ stream' = NoStream
    /\ UNCHANGED <<cloud, down, policy, pc, told, got, gate, seen, crossed,
                   refused>>

-----------------------------------------------------------------------------
(* The callers of _sync_schedule.  A revision of 0 stands for a cloud that *)
(* reports none.                                                           *)

Call(t, rev) ==
    /\ pc' = [pc EXCEPT ![t] = "fetch"]
    /\ told' = [told EXCEPT ![t] = rev]

\* _do_initial_sync: the status is asked for, and the schedule synced unless
\* it cannot be had; the revision is compared in _sync_schedule.  With only
\* Redis down the clearing of the index raises on the main thread, and that
\* ends the process: a Restart, and the first sync is still to come.
InitialSync ==
    /\ pc["main"] = "start"
    /\ \/ /\ down # "redis"
          /\ \E rev \in {0, cloud.rev} : Call("main", rev)
       \/ /\ down = "any"
          /\ pc' = [pc EXCEPT !["main"] = "idle"]
          /\ UNCHANGED told
    /\ UNCHANGED <<cloud, down, stream, policy, got, gate, seen, crossed,
                   refused>>

\* _handle_event and _on_sync: the revision an event names is compared when
\* faces and roster had their turn.  Those may raise when Redis or the cloud
\* does not answer, and that ends the connection.
SyncEvent ==
    /\ Connected /\ stream # <<>> /\ pc["sse"] = "idle"
    /\ \/ /\ stream' = Tail(stream)
          /\ Call("sse", Head(stream))
       \/ /\ down # "nothing"
          /\ stream' = NoStream
          /\ UNCHANGED <<pc, told>>
    /\ UNCHANGED <<cloud, down, policy, got, gate, seen, crossed, refused>>

\* A check of _check_consistency that gets to the schedule.  One that does
\* not, because the status cannot be had or the faces or the roster raise,
\* changes nothing here: only when nothing is down can it be relied upon.
CheckConsistency ==
    /\ pc["main"] = "idle" /\ pc["check"] = "idle"
    /\ Call("check", cloud.rev)
    /\ UNCHANGED <<cloud, down, stream, policy, got, gate, seen, crossed,
                   refused>>

-----------------------------------------------------------------------------
(* _sync_schedule.                                                         *)

Return(t) ==
    /\ pc' = [pc EXCEPT ![t] = "idle"]
    /\ got' = [got EXCEPT ![t] = NoBundle]
    /\ told' = [told EXCEPT ![t] = 0]

\* The comparison with the recorded revision, the room id and the bundle; a
\* request that fails leaves everything as it was.
Fetch(t) ==
    /\ pc[t] = "fetch"
    /\ \/ /\ down = "any" \/ (told[t] # 0 /\ told[t] = local)
          /\ Return(t)
       \/ /\ told[t] = 0 \/ told[t] # local
          /\ pc' = [pc EXCEPT ![t] = "update"]
          /\ got' = [got EXCEPT ![t] = cloud]
          /\ UNCHANGED told
    /\ UNCHANGED <<cloud, down, stream, policy, gate, seen, crossed, refused>>

Deciding == gate \in {"state", "exceptions"}

\* SchedulePolicy.update: under the lock the bundle is replaced.
Update(t) ==
    /\ pc[t] = "update"
    /\ held' = got[t]
    /\ seen' = IF Deciding THEN seen \cup {got[t]} ELSE seen
    /\ pc' = [pc EXCEPT ![t] = "open"]
    /\ crossed' = (crossed \/ \E u \in Threads \ {t} :
                       pc[u] \in {"open", "write", "replace", "record"})
    /\ UNCHANGED <<cloud, down, stream, local, told, got, file, temp, fd, gate,
                   refused>>

\* Fault: the cache itself is opened and written.
OpenInPlace(t) ==
    /\ pc[t] = "open"
    /\ file' = Blank
    /\ fd' = [fd EXCEPT ![t] = "file"]
    /\ pc' = [pc EXCEPT ![t] = "write"]
    /\ UNCHANGED <<cloud, down, stream, held, local, told, got, temp, gate,
                   seen, crossed, refused>>

\* _persist, open(tmp, "w"): the file is made, or emptied under the handle of
\* another thread.
Open(t) ==
    /\ pc[t] = "open"
    /\ temp' = Blank
    /\ fd' = [fd EXCEPT ![t] = "temp"]
    /\ pc' = [pc EXCEPT ![t] = "write"]
    /\ UNCHANGED <<cloud, down, stream, held, local, told, got, file, gate,
                   seen, crossed, refused>>

\* What a file holds after bundle b is written from its beginning: over the
\* text of another thread only a longer text leaves nothing of it.
Overwritten(content, b) ==
    IF content \in {Blank, b} THEN {b} ELSE {b, Torn}

\* json.dump and close.
Write(t) ==
    /\ pc[t] = "write"
    /\ \/ /\ fd[t] = "temp"
          /\ temp' \in Overwritten(temp, got[t])
          /\ UNCHANGED file
       \/ /\ fd[t] = "file"
          /\ file' \in Overwritten(file, got[t])
          /\ UNCHANGED temp
       \/ /\ fd[t] = "gone"
          /\ UNCHANGED <<file, temp>>
    /\ pc' = [pc EXCEPT ![t] = "replace"]
    /\ fd' = [fd EXCEPT ![t] = "none"]
    /\ UNCHANGED <<cloud, down, stream, held, local, told, got, gate, seen,
                   crossed, refused>>

\* The disk refuses to open, to write or to rename, and the error is
\* swallowed: what was written so far stays in the file, what is left of
\* _persist is skipped, and the sync goes on.
DiskRefuses(t) ==
    /\ pc[t] \in {"open", "write", "replace"}
    /\ temp' \in IF fd[t] = "temp" THEN {temp, Torn} ELSE {temp}
    /\ file' \in IF fd[t] = "file" THEN {file, Torn} ELSE {file}
    /\ pc' = [pc EXCEPT ![t] = "record"]
    /\ fd' = [fd EXCEPT ![t] = "none"]
    /\ refused' = TRUE
    /\ UNCHANGED <<cloud, down, stream, held, local, told, got, gate, seen,
                   crossed>>

\* os.replace: the handle of another thread follows the file it points to.
\* When another thread has renamed the file already the error is swallowed.
Replace(t) ==
    /\ pc[t] = "replace"
    /\ IF temp = NoFile
       THEN UNCHANGED <<file, temp, fd, refused>>
       ELSE /\ file' = temp
            /\ temp' = NoFile
            /\ refused' = FALSE
            /\ fd' = [u \in Threads |-> IF fd[u] = "temp" THEN "file"
                                        ELSE IF fd[u] = "file" THEN "gone"
                                        ELSE fd[u]]
    /\ pc' = [pc EXCEPT ![t] = "record"]
    /\ UNCHANGED <<cloud, down, stream, held, local, told, got, gate, seen,
                   crossed>>

\* Fault: the revision the cloud has by now is recorded.
RecordStatus(t) ==
    /\ pc[t] = "record"
    /\ local' = cloud.rev
    /\ Return(t)
    /\ UNCHANGED <<cloud, down, stream, held, file, temp, fd, gate, seen,
                   crossed, refused>>

\* The revision that was told is recorded, or the bundle's own one.
Record(t) ==
    /\ pc[t] = "record"
    /\ local' = IF told[t] # 0 THEN told[t] ELSE got[t].rev
    /\ Return(t)
    /\ UNCHANGED <<cloud, down, stream, held, file, temp, fd, gate, seen,
                   crossed, refused>>

-----------------------------------------------------------------------------
(* The schedule gate of _process.                                          *)

\* is_empty and in_run_window.  Without a bundle the door opens as before;
\* whoever is denied leaves the gate idle.
GateWindow ==
    /\ gate \in {"idle", "granted"}
    /\ IF held = NoBundle
       THEN gate' = "granted" /\ seen' = {}
       ELSE IF Rules!InRunWindow(held.rules, Moment)
       THEN gate' = "state" /\ seen' = {held}
       ELSE gate' = "idle" /\ seen' = {}
    /\ UNCHANGED <<cloud, down, stream, policy, pc, told, got, crossed,
                   refused>>

Decide(verdict) ==
    /\ gate' = verdict
    /\ seen' = IF verdict = "idle" THEN {} ELSE seen
    /\ UNCHANGED <<cloud, down, stream, policy, pc, told, got, crossed,
                   refused>>

\* Fault: in a lockdown, too, an exception counts.
JudgedByException(st) ==
    IF st \in {"WEEKDAY", "OPEN"} THEN "granted" ELSE "exceptions"

\* What is_granted makes of the state.
Judged(st) ==
    IF st = "LOCKDOWN" THEN "idle"
    ELSE IF st \in {"WEEKDAY", "OPEN"} THEN "granted"
    ELSE "exceptions"

\* state().
GateState ==
    gate = "state" /\ Decide(Judged(Rules!State(held.rules, Moment)))

\* The exceptions, read without the lock.
GateExceptions ==
    /\ gate = "exceptions"
    /\ Decide(IF Rules!Excepted(held.rules, Visitor, Moment)
              THEN "granted" ELSE "idle")

-----------------------------------------------------------------------------
\* Fault: the cache is taken as it is.
LoadedUnchecked == file

\* load_cached_bundle: what is not a dict of JSON leaves the policy empty.
Loaded == IF file \in Versioned THEN file ELSE NoBundle

\* The process dies and the edge is started again.
Restart ==
    /\ held' = Loaded /\ local' = 0
    /\ stream' = NoStream
    /\ pc' = AtStart
    /\ told' = [t \in Threads |-> 0]
    /\ got' = [t \in Threads |-> NoBundle]
    /\ fd' = [t \in Threads |-> "none"]
    /\ gate' = "idle" /\ seen' = {}
    /\ refused' = FALSE
    /\ UNCHANGED <<cloud, down, file, temp, crossed>>

Step(t) ==
    \/ Fetch(t) \/ Update(t)
    \/ Open(t) \/ Write(t) \/ Replace(t) \/ DiskRefuses(t)
    \/ Record(t)

Gate == GateWindow \/ GateState \/ GateExceptions

Next ==
    \/ \E rules \in Bundles : Edit(rules)
    \/ Outage \/ Connect \/ Disconnect
    \/ InitialSync \/ SyncEvent \/ CheckConsistency
    \/ \E t \in Threads : Step(t)
    \/ Gate
    \/ Restart

\* The threads run, and with everything up the check comes round to the
\* schedule.  The stream may break as often as it likes, nobody needs to come
\* to the door, and nothing is assumed of outages and deaths.
Fairness ==
    /\ WF_vars(InitialSync) /\ WF_vars(down = "nothing" /\ CheckConsistency)
    /\ \A t \in Threads : WF_vars(Step(t))

Spec == Init /\ [][Next]_vars /\ Fairness

-----------------------------------------------------------------------------
\* A lockdown that was in force during the whole decision denies: however
\* updates fall between the steps of is_granted, and whatever exceptions the
\* bundles carry, who is let in was judged by some bundle without lockdown.
LockdownDenies ==
    gate = "granted" /\ seen # {} => \E b \in seen : ~b.rules.lockdown

\* Whenever the process dies, the cache holds no bundle or a whole one, and
\* between two updates it holds what the door enforces, unless the disk
\* refused that (to open, to write or to rename): a restart without the cloud
\* goes on with the rules as they were.  This takes that no two threads are
\* updating at a time.
CacheWhole ==
    ~crossed =>
        /\ file \in Versioned \cup {NoFile}
        /\ held # NoBundle /\ ~refused
           /\ (\A t \in Threads : pc[t] \notin {"open", "write", "replace"})
              => file = held

\* Once cloud and Redis answer for good and the process stays up, the door
\* ends up with the rules of the cloud, whatever the stream loses, whichever
\* threads raised and wherever the process died before; only updates that
\* cross may leave an older bundle under a newer revision.
StaysUp == <>[][~Restart]_vars
PolicyFollows ==
    (<>[](down = "nothing")) /\ StaysUp => <>[](crossed \/ held = cloud)

\* _on_sync (sync_agent.py:443): "revisions changed: re-fetch whichever
\* moved", so that after a first sync the schedule does not depend on Redis.
FollowsWithoutRedis ==
    (<>[](down = "redis" /\ pc["main"] # "start")) /\ StaysUp
        => <>[](crossed \/ held = cloud)

\* is_granted (schedule_policy.py:213-219): who is let in, is let in by one
\* of the bundles in force, and a hard lockdown always denies.
GrantBacked ==
    gate = "granted" /\ seen # {} =>
        \E b \in seen : Rules!IsGranted(b.rules, Visitor, Moment)
=============================================================================
