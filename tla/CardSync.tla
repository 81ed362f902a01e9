------------------------------ MODULE CardSync ------------------------------
(***************************************************************************)
(* Keeping the door controller's card table equal to the cloud's           *)
(* allowlist: the roster and allowlist part of core/sync_agent.py          *)
(* (_do_initial_sync, _on_sync, _check_consistency, _resync_students,      *)
(* _on_esp_online, _sync_card_uid_to_esp32, _publish_uids_to_esp), the     *)
(* broker, and handleCardSync of ESP_mqtt.ino.                             *)
(*                                                                         *)
(* Four kinds of thread push the list: main at start-up, SSE and the       *)
(* consistency check when the roster moved, the check whenever the         *)
(* controller is online, and a thread of its own for every time it comes   *)
(* online.  Cache and revision are written without a lock, one after the   *)
(* other, and what is published is the cache at that moment.               *)
(*                                                                         *)
(* Names are payload, and so is the roster, which only supplies them.  A   *)
(* push replaces the whole table, so of those that wait at the broker only *)
(* the last counts.  The edge keeps nothing, so that a restart is another  *)
(* beginning.  What the edge believes of the controller's presence is      *)
(* EspAlerts' matter; here it knows.                                       *)
(*                                                                         *)
(* The initial sync, a sync event and a check see to the faces first, and  *)
(* do not get to roster and cards when those raise, because Redis or the   *)
(* cloud does not answer.  Whether the faces have moved is FaceSync's      *)
(* matter: here a thread may get past them at any time, and is relied upon *)
(* to get past them only when both answer.                                 *)
(***************************************************************************)
EXTENDS Naturals

CONSTANTS
    Lists,      \* allowlists with at least one card
    Empty,      \* the allowlist without cards
    Again,      \* bound of the model: AllowlistOnReconnect threads at a time
    MaxEdits    \* bound of the model: edits of the allowlist

ASSUME CardAssumption ==
    /\ Again \cap {"main", "sse", "check"} = {}
    /\ Empty \notin Lists
    /\ MaxEdits \in Nat

VARIABLES
    cloud,    \* [list, revision]: the allowlist of the cloud
    moved,    \* roster_revision differs from _local_roster_revision
    outage,   \* requests to the cloud, or to Redis, may fail
    cache,    \* _allowlist_cache of this room
    rev,      \* _local_allowlist_revision; 0: none
    pc,       \* [Threads -> Stage]
    since,    \* [Threads -> Nat]: the revision a request names
    got,      \* [Threads -> ..]: the answer to it
    broker,   \* the push that waits for the controller, if there is one
    esp,      \* the controller: away, arriving (announced), or listening
    table,    \* the list in its card table, in flash
    \* History, read by the properties only:
    cacheRev, \* the revision of the list in the cache
    wasEmpty  \* the allowlist was empty at some time

agent == <<cache, rev, pc, since, got, cacheRev>>
vars == <<cloud, moved, outage, agent, broker, esp, table, wasEmpty>>

Threads == {"main", "sse", "check"} \cup Again
Stage == {"start", "idle", "ask", "await", "cache", "stamp", "publish"}
Revision == 0 .. MaxEdits + 1
List == Lists \cup {Empty}
Answer == [list: List, revision: Revision]
NoAnswer == [list |-> Empty, revision |-> 0]

TypeOK ==
    /\ cloud \in Answer /\ cloud.revision # 0
    /\ moved \in BOOLEAN /\ outage \in BOOLEAN
    /\ cache \in List
    /\ rev \in Revision
    /\ pc \in [Threads -> Stage]
    /\ since \in [Threads -> Revision]
    /\ got \in [Threads -> Answer]
    /\ \A t \in Threads :
          /\ since[t] # 0 => pc[t] = "await"
          /\ got[t].revision # 0 <=> pc[t] \in {"cache", "stamp"}
    /\ broker \in {{}} \cup {{push} : push \in List}
    /\ esp \in {"away", "arriving", "listening"}
    /\ table \in List
    /\ cacheRev \in Revision
    /\ cacheRev = 0 => cache = Empty
    /\ wasEmpty \in BOOLEAN

AtStart == [t \in Threads |-> IF t = "main" THEN "start" ELSE "idle"]

Init ==
    /\ cloud \in [list: List, revision: {1}]
    /\ moved = TRUE
    /\ outage \in BOOLEAN
    /\ cache = Empty /\ rev = 0 /\ cacheRev = 0
    /\ pc = AtStart
    /\ since = [t \in Threads |-> 0] /\ got = [t \in Threads |-> NoAnswer]
    /\ table \in List /\ broker \in {{}, {table}}
    /\ esp \in {"away", "listening"}
    /\ wasEmpty = (Empty \in {cloud.list, table} \cup broker)

-----------------------------------------------------------------------------
(* The surroundings.                                                       *)

\* A card is added or taken off, with its member or alone: an edit of the
\* card does not always move the roster's revision.
Edit(list) ==
    /\ cloud.revision <= MaxEdits
    /\ list # cloud.list
    /\ cloud' = [list |-> list, revision |-> cloud.revision + 1]
    /\ wasEmpty' = (wasEmpty \/ list = Empty)
    /\ moved' \in {moved, TRUE}
    /\ UNCHANGED <<outage, agent, broker, esp, table>>

Outage ==
    /\ outage' = ~outage
    /\ UNCHANGED <<cloud, moved, agent, broker, esp, table,
                   wasEmpty>>

-----------------------------------------------------------------------------
(* The controller and the broker.                                          *)

Goto(t, stage) == pc' = [pc EXCEPT ![t] = stage]

\* tickMqtt announces itself before it subscribes; the edge answers with a
\* thread that fetches and pushes the list.
EspArrives(t) ==
    /\ esp = "away" /\ t \in Again /\ pc[t] = "idle"
    /\ esp' = "arriving"
    /\ Goto(t, "ask")
    /\ UNCHANGED <<cloud, moved, outage, cache, rev, since, got,
                   broker, table, cacheRev, wasEmpty>>

EspSubscribes ==
    /\ esp = "arriving"
    /\ esp' = "listening"
    /\ UNCHANGED <<cloud, moved, outage, agent, broker, table,
                   wasEmpty>>

EspLeaves ==
    /\ esp # "away"
    /\ esp' = "away"
    /\ UNCHANGED <<cloud, moved, outage, agent, broker, table,
                   wasEmpty>>

\* Without a session of the controller, or when it loses it, the broker
\* drops the push.
Lose ==
    /\ esp # "listening" /\ broker # {}
    /\ broker' = {}
    /\ UNCHANGED <<cloud, moved, outage, agent, esp, table,
                   wasEmpty>>

\* handleCardSync: a full_sync replaces the table or, when it is empty,
\* clears it.  Lists are those the table can hold, with a valid card; the
\* edge sends nothing but full_sync.
HandleCardSync ==
    /\ esp = "listening" /\ broker # {}
    /\ \E push \in broker : table' = push
    /\ broker' = {}
    /\ UNCHANGED <<cloud, moved, outage, agent, esp, wasEmpty>>

-----------------------------------------------------------------------------
(* What makes a thread push.                                               *)

OnlyTheThread == UNCHANGED <<cloud, outage, cache, rev, since, got,
                             broker, esp, table, cacheRev, wasEmpty>>

\* The initial sync goes on to the cards unless there is no status.  When
\* the faces raise, on the main thread, the process dies before the cards: a
\* restart, which is another beginning.
InitialSync ==
    /\ pc["main"] = "start"
    /\ \/ Goto("main", "ask") /\ moved' = FALSE
       \/ outage /\ Goto("main", "idle") /\ UNCHANGED moved
    /\ OnlyTheThread

Running == pc["main"] = "idle"

\* _resync_students: roster, its revision, then the cards.  An empty roster
\* ends it at once, and is left out: a card has a member.
ResyncStudents(t) ==
    /\ moved' = FALSE
    /\ Goto(t, "ask")

\* _on_sync, when it gets past the faces.
SyncEvent ==
    /\ Running /\ pc["sse"] = "idle"
    /\ moved
    /\ ResyncStudents("sse")
    /\ OnlyTheThread

\* Fault: the check leaves the cards alone as long as the roster stays.
ChecksOnMoveOnly == FALSE

ChecksCards == esp # "away"

\* _check_consistency, when it gets past status and faces; a check that does
\* not ends without doing anything.
CheckConsistency ==
    /\ Running /\ pc["check"] = "idle"
    /\ \/ moved /\ ResyncStudents("check")
       \/ ~moved /\ ChecksCards /\ Goto("check", "ask") /\ UNCHANGED moved
    /\ OnlyTheThread

-----------------------------------------------------------------------------
(* _sync_card_uid_to_esp32, by any of the threads.                         *)

Ask(t) ==
    /\ pc[t] = "ask"
    /\ since' = [since EXCEPT ![t] = rev]
    /\ Goto(t, "await")
    /\ UNCHANGED <<cloud, moved, outage, cache, rev, got, broker,
                   esp, table, cacheRev, wasEmpty>>

\* Fault: no text is an empty text.
NoTextEmpty(t) == Goto(t, "cache")

\* No text means "unchanged" when the request named a revision, though it
\* may have failed.  A list in the cache, if it has cards, is sent again.
NoText(t) ==
    IF since[t] # 0 /\ cache # Empty
    THEN Goto(t, "publish")
    ELSE Goto(t, "idle")

\* get_allowlist
Await(t) ==
    /\ pc[t] = "await"
    /\ \/ /\ since[t] # cloud.revision
          /\ got' = [got EXCEPT ![t] = cloud]
          /\ Goto(t, "cache")
       \/ /\ since[t] = cloud.revision \/ outage
          /\ NoText(t)
          /\ UNCHANGED got
    /\ since' = [since EXCEPT ![t] = 0]
    /\ UNCHANGED <<cloud, moved, outage, cache, rev, broker, esp,
                   table, cacheRev, wasEmpty>>

Cache(t) ==
    /\ pc[t] = "cache"
    /\ cache' = got[t].list
    /\ cacheRev' = got[t].revision
    /\ Goto(t, "stamp")
    /\ UNCHANGED <<cloud, moved, outage, rev, since, got, broker,
                   esp, table, wasEmpty>>

Stamp(t) ==
    /\ pc[t] = "stamp"
    /\ rev' = got[t].revision
    /\ got' = [got EXCEPT ![t] = NoAnswer]
    /\ Goto(t, "publish")
    /\ UNCHANGED <<cloud, moved, outage, cache, since, broker, esp,
                   table, cacheRev, wasEmpty>>

Publish(t) ==
    /\ pc[t] = "publish"
    /\ broker' = {cache}
    /\ Goto(t, "idle")
    /\ UNCHANGED <<cloud, moved, outage, cache, rev, since, got,
                   esp, table, cacheRev, wasEmpty>>

-----------------------------------------------------------------------------
PushStep(t) == Ask(t) \/ Await(t) \/ Cache(t) \/ Stamp(t) \/ Publish(t)

Next ==
    \/ \E list \in List : Edit(list)
    \/ Outage
    \/ \E t \in Again : EspArrives(t)
    \/ EspSubscribes \/ EspLeaves \/ Lose \/ HandleCardSync
    \/ InitialSync \/ SyncEvent \/ CheckConsistency
    \/ \E t \in Threads : PushStep(t)

\* Threads keep going, the broker delivers to a controller that listens, and
\* the consistency thread wakes up again and again.  The first sync and the
\* check are relied upon to get to the cards only while cloud and Redis
\* answer.
Spec ==
    /\ Init /\ [][Next]_vars
    /\ WF_vars(~outage /\ InitialSync)
    /\ WF_vars(~outage /\ CheckConsistency)
    /\ WF_vars(HandleCardSync)
    /\ \A t \in Threads : WF_vars(PushStep(t))

-----------------------------------------------------------------------------
(* Properties.                                                             *)

(***************************************************************************)
(* Cards keep opening the door through outages of the cloud, restarts of   *)
(* the edge and disconnects of the controller: its table is never emptied  *)
(* unless the allowlist was empty at some time.                            *)
(***************************************************************************)
KeepsOpening == ~wasEmpty => Empty \notin {table} \cup broker

(***************************************************************************)
(* With the cloud and Redis answering and the controller listening, the    *)
(* table ends up equal to an allowlist that has cards, whatever pushes     *)
(* were lost, crossed or refused before: unless the cache and the revision *)
(* recorded for it come from two different answers.  With Redis down for   *)
(* good it need not: the check raises before it comes to the cards.        *)
(***************************************************************************)
Settles == ~outage /\ esp = "listening" /\ rev = cacheRev
TableFollows ==
    (<>[](Settles /\ cloud.list # Empty)) => <>[](table = cloud.list)

(***************************************************************************)
(* sync_agent.py, _sync_card_uid_to_esp32: "re-push them to the ESP32      *)
(* anyway", lest it keep "an empty/stale tag table until the next Cloud    *)
(* allowlist edit".  The same as TableFollows, for every allowlist.        *)
(***************************************************************************)
EmptyListFollows == (<>[]Settles) => <>[](table = cloud.list)
=============================================================================
