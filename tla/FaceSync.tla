------------------------------ MODULE FaceSync ------------------------------
(***************************************************************************)
(* Keeping the face index in Redis equal to the cloud's embeddings: the    *)
(* embedding part of core/sync_agent.py (_do_initial_sync, _on_sync,       *)
(* _check_consistency, _resync_embeddings) with FaceMatcher.clear and      *)
(* upsert.                                                                 *)
(*                                                                         *)
(* The main thread syncs once at start-up; then the SSE thread and the     *)
(* consistency thread each start a sync when the revision they were told   *)
(* differs from the one recorded.  There is no lock: what a thread read    *)
(* from the cloud may be old when it uses it, and two syncs may write to   *)
(* the index at once, person by person.  The index outlives the process.   *)
(*                                                                         *)
(* A person stands for all their variants.  Roster, cards and schedule     *)
(* follow in the same handlers but share no state with the faces; a        *)
(* handler that dies in another part is one that is not called here.       *)
(***************************************************************************)
EXTENDS Naturals

CONSTANTS
    People,     \* persons that may be enrolled
    MaxEdits,   \* bound of the model: edits in the cloud
    MaxRestarts \* bound of the model: restarts that no failure caused

ASSUME SyncAssumption == MaxEdits \in Nat /\ MaxRestarts \in Nat

VARIABLES
    cloud,    \* [enrolled, revision] of the cloud
    outage,   \* calls on the cloud and on Redis may fail
    restarts, \* restarts so far
    index,    \* the persons in the Redis index
    local,    \* _local_revision; 0: nothing recorded
    heard,    \* the latest revision the SSE stream delivered
    pc,       \* [Threads -> Stage]
    told,     \* [Threads -> Nat]: the revision a thread was told, 0 if idle
    todo,     \* [Threads -> SUBSET People]: fetched and not yet upserted
    \* History, read by the properties only:
    held,     \* [Threads -> Nat]: the revision of what a thread fetched
    plain,    \* the latest sync started alone and because it had to
    disturbed, \* the latest sync to record or fail was not plain
    torn,     \* a load was cut short and none has begun after it
    staying   \* the persons enrolled in every revision

sync == <<local, pc, told, todo>>
history == <<held, plain, disturbed, torn, staying>>
vars == <<cloud, outage, restarts, index, sync, heard, history>>

Threads == {"main", "sse", "check"}
Stage == {"idle", "connect", "compare", "fetch", "clear", "load", "status",
          "record"}
Revision == 0 .. MaxEdits + 1

TypeOK ==
    /\ cloud \in [enrolled: SUBSET People, revision: Revision \ {0}]
    /\ outage \in BOOLEAN
    /\ restarts \in 0 .. MaxRestarts
    /\ index \subseteq People
    /\ local \in Revision
    /\ heard \in Revision
    /\ pc \in [Threads -> Stage]
    /\ told \in [Threads -> Revision]
    /\ todo \in [Threads -> SUBSET People]
    /\ \A t \in Threads : todo[t] # {} => pc[t] \in {"clear", "load"}
    /\ pc["main"] # "idle" => pc["sse"] = "idle" /\ pc["check"] = "idle"
    /\ held \in [Threads -> Revision]
    /\ plain \in BOOLEAN /\ disturbed \in BOOLEAN /\ torn \in BOOLEAN
    /\ staying \subseteq cloud.enrolled

\* A start of the process: nothing is recorded, and the main thread is on
\* its way to the initial sync.
AtStart == [t \in Threads |-> IF t = "main" THEN "connect" ELSE "idle"]
Nothing == [t \in Threads |-> {}]
NoRevision == [t \in Threads |-> 0]

Init ==
    /\ cloud \in [enrolled: SUBSET People, revision: {1}]
    /\ outage \in BOOLEAN
    /\ restarts = 0
    /\ index \in SUBSET People
    /\ local = 0 /\ heard = 0
    /\ pc = AtStart /\ told = NoRevision /\ todo = Nothing
    /\ held = NoRevision /\ plain = TRUE
    /\ disturbed = TRUE /\ torn = TRUE
    /\ staying = cloud.enrolled

-----------------------------------------------------------------------------
(* The surroundings.                                                       *)

\* Somebody is enrolled or removed.
Edit(p) ==
    /\ cloud.revision <= MaxEdits
    /\ LET enrolled == IF p \in cloud.enrolled THEN cloud.enrolled \ {p}
                                               ELSE cloud.enrolled \cup {p}
       IN  cloud' = [enrolled |-> enrolled, revision |-> cloud.revision + 1]
    /\ staying' = staying \ {p}
    /\ UNCHANGED <<outage, restarts, index, sync, heard, held, plain,
                   disturbed, torn>>

\* The network, the cloud or Redis goes or comes back.
Outage ==
    /\ outage' = ~outage
    /\ UNCHANGED <<cloud, restarts, index, sync, heard, history>>

\* The process ends and is started again.
Reborn ==
    /\ local' = 0 /\ heard' = 0
    /\ pc' = AtStart /\ told' = NoRevision /\ todo' = Nothing
    /\ held' = NoRevision
    /\ torn' = (torn \/ \E t \in Threads : pc[t] = "load")
    /\ UNCHANGED <<cloud, outage, index, staying>>

Restart ==
    /\ restarts < MaxRestarts
    /\ restarts' = restarts + 1
    /\ Reborn
    /\ UNCHANGED <<plain, disturbed>>

-----------------------------------------------------------------------------
(* What makes a thread sync.                                               *)

Goto(t, stage) == pc' = [pc EXCEPT ![t] = stage]
Told(t, revision) == told' = [told EXCEPT ![t] = revision]

\* A thread that ends its sync keeps nothing of it.
End(t) ==
    /\ Goto(t, "idle") /\ Told(t, 0)
    /\ todo' = [todo EXCEPT ![t] = {}]
    /\ held' = [held EXCEPT ![t] = 0]

Alone(t) == \A u \in Threads \ {t} : pc[u] \in {"idle", "compare"}

Begin(t) ==
    /\ Goto(t, "fetch")
    /\ plain' = (Alone(t) /\ local # cloud.revision)

\* _do_initial_sync asks for the status first and ends when there is none.
Connect ==
    /\ pc["main"] = "connect"
    /\ \/ /\ Told("main", cloud.revision) /\ Begin("main")
          /\ UNCHANGED <<todo, held>>
       \/ outage /\ End("main") /\ UNCHANGED plain
    /\ UNCHANGED <<cloud, outage, restarts, index, local, heard, disturbed,
                   torn, staying>>

\* The stream delivers `sync' events in order, some of them late; they are
\* lost while it is disconnected.
SyncEvent(revision) ==
    /\ pc["main"] = "idle" /\ pc["sse"] = "idle"
    /\ revision \in heard .. cloud.revision /\ revision > 0
    /\ heard' = revision
    /\ Told("sse", revision)
    /\ Goto("sse", "compare")
    /\ UNCHANGED <<cloud, outage, restarts, index, local, todo, history>>

\* Every SYNC_CONSISTENCY_CHECK the other thread asks for itself.  Without
\* an answer it waits for the next time.
CheckConsistency ==
    /\ pc["main"] = "idle" /\ pc["check"] = "idle"
    /\ Told("check", cloud.revision)
    /\ Goto("check", "compare")
    /\ UNCHANGED <<cloud, outage, restarts, index, local, todo, heard,
                   history>>

\* Fault: only a process that has nothing yet asks for the faces.
DiffersAtFirst(t) == local = 0

Differs(t) == told[t] # local

Compare(t) ==
    /\ pc[t] = "compare"
    /\ IF Differs(t) THEN Begin(t) /\ UNCHANGED <<told, todo, held>>
                     ELSE End(t) /\ UNCHANGED plain
    /\ UNCHANGED <<cloud, outage, restarts, index, local, heard, disturbed,
                   torn, staying>>

-----------------------------------------------------------------------------
(* The sync.                                                               *)

\* Fault: an answer that did not come is an empty answer.
UnansweredEmpty(t) == Goto(t, "clear") /\ UNCHANGED <<told, todo, held>>

\* Without an answer the index stays as it is.  The initial sync goes on to
\* record the revision all the same.
Unanswered(t) ==
    IF t = "main" THEN Goto(t, "record") /\ UNCHANGED <<told, todo, held>>
                  ELSE End(t)

\* get_embeddings
Fetch(t) ==
    /\ pc[t] = "fetch"
    /\ \/ /\ todo' = [todo EXCEPT ![t] = cloud.enrolled]
          /\ held' = [held EXCEPT ![t] = cloud.revision]
          /\ Goto(t, "clear")
          /\ UNCHANGED told
       \/ outage /\ Unanswered(t)
    /\ UNCHANGED <<cloud, outage, restarts, index, local, heard, plain,
                   disturbed, torn, staying>>

\* Fault: a failing upsert ends the load like a complete one.
BrokenUnnoticed(t) ==
    /\ Goto(t, "status")
    /\ todo' = [todo EXCEPT ![t] = {}]
    /\ UNCHANGED <<told, held>>

\* An exception ends the handler of the SSE or the consistency thread, and
\* what it had fetched is gone.
Broken(t) == End(t)

\* FaceMatcher.clear or upsert raises.  On the main thread nothing catches
\* it: the process dies and is started again.
RedisFails(t) ==
    /\ outage
    /\ pc[t] \in {"clear", "load"}
    /\ disturbed' = (disturbed \/ ~plain)
    /\ IF t = "main" THEN Reborn
       ELSE /\ Broken(t)
            /\ torn' = (torn \/ pc[t] = "load")
            /\ UNCHANGED <<cloud, outage, index, local, heard, staying>>
    /\ UNCHANGED <<restarts, plain>>

Clear(t) ==
    /\ pc[t] = "clear"
    /\ index' = {}
    /\ torn' = FALSE
    /\ Goto(t, "load")
    /\ UNCHANGED <<cloud, outage, restarts, local, told, todo, heard, held,
                   plain, disturbed, staying>>

\* _load_embeddings_to_redis, one upsert.
Upsert(t, p) ==
    /\ pc[t] = "load" /\ p \in todo[t]
    /\ index' = index \cup {p}
    /\ todo' = [todo EXCEPT ![t] = @ \ {p}]
    /\ UNCHANGED <<cloud, outage, restarts, local, pc, told, heard, history>>

\* The initial sync has its revision already.
Loaded(t) ==
    /\ pc[t] = "load" /\ todo[t] = {}
    /\ Goto(t, IF t = "main" THEN "record" ELSE "status")
    /\ UNCHANGED <<cloud, outage, restarts, index, local, told, todo, heard,
                   history>>

\* The revision that is going to be recorded is asked for after the load.
\* Without an answer the attribute access raises.
Status(t) ==
    /\ pc[t] = "status"
    /\ \/ /\ Told(t, cloud.revision) /\ Goto(t, "record")
          /\ UNCHANGED <<todo, held>>
       \/ outage /\ End(t)
    /\ UNCHANGED <<cloud, outage, restarts, index, local, heard, plain,
                   disturbed, torn, staying>>

Record(t) ==
    /\ pc[t] = "record"
    /\ local' = told[t]
    /\ End(t)
    /\ disturbed' = (~plain \/ held[t] # told[t])
    /\ UNCHANGED <<cloud, outage, restarts, index, heard, plain, torn,
                   staying>>

-----------------------------------------------------------------------------
SyncStep(t) ==
    \/ Compare(t) \/ Fetch(t) \/ RedisFails(t) \/ Clear(t)
    \/ (\E p \in People : Upsert(t, p))
    \/ Loaded(t) \/ Status(t) \/ Record(t)

Next ==
    \/ \E p \in People : Edit(p)
    \/ Outage \/ Restart
    \/ Connect \/ CheckConsistency
    \/ \E revision \in Revision : SyncEvent(revision)
    \/ \E t \in Threads : SyncStep(t)

\* Every call has a timeout, so threads keep going, and the consistency
\* thread wakes up again and again.  No event has to arrive.
Spec ==
    /\ Init /\ [][Next]_vars
    /\ WF_vars(Connect) /\ WF_vars(CheckConsistency)
    /\ \A t \in Threads : WF_vars(SyncStep(t))

-----------------------------------------------------------------------------
(* Properties.                                                             *)

AllIdle == \A t \in Threads : pc[t] = "idle"

(***************************************************************************)
(* Somebody whom no edit ever touches is in the index whenever no load is  *)
(* under way, however many syncs run at once and whatever fails in them:   *)
(* only a load cut short may leave them out, and only until the next one   *)
(* begins.                                                                 *)
(***************************************************************************)
StayingFound ==
    ~torn /\ (\A t \in Threads : pc[t] # "load") => staying \subseteq index

(***************************************************************************)
(* The recorded revision stands for what the index holds, so that nothing  *)
(* more needs to be fetched, if the last sync had the index to itself, was *)
(* due, and was not overtaken by an edit.  Failures that come before it    *)
(* and in it do not matter: a sync that fails records nothing.             *)
(***************************************************************************)
RecordedIsLoaded ==
    AllIdle /\ ~disturbed /\ local = cloud.revision => index = cloud.enrolled

\* When the cloud and Redis answer, the edge ends up with the cloud's
\* revision, though every event of the stream may be lost.
CatchesUp == (<>[]~outage) => <>[](local = cloud.revision)

(***************************************************************************)
(* sync_agent.py, _do_initial_sync: "clear the previous index first so     *)
(* deletions on the Cloud are mirrored locally".  With every thread idle   *)
(* and the cloud's revision recorded, nobody is found who was removed.     *)
(***************************************************************************)
RemovedIsForgotten ==
    AllIdle /\ local = cloud.revision => index \subseteq cloud.enrolled
=============================================================================
