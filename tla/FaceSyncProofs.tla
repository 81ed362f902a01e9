--------------------------- MODULE FaceSyncProofs ---------------------------
(***************************************************************************)
(* Proofs about FaceSync, for any set of persons and any number of edits.  *)
(*                                                                         *)
(* StayingFound speaks of the moments when no load is under way; it is not *)
(* inductive, since it says nothing of the moments before.  During loads,  *)
(* somebody who stays and is missing is still to be upserted by a thread   *)
(* that is loading (MissingIsDue): a Clear puts everybody who stays on the *)
(* list of the thread that clears, since what a thread fetched, it fetched *)
(* from a revision that had them (StayingFetched).                         *)
(*                                                                         *)
(* RecordedIsLoaded speaks of the moments when every thread is idle.       *)
(* RecordInv carries it there: a plain sync has the index to itself from   *)
(* its begin to its record (PlainSync), and what comes after it fetches    *)
(* the revision that is recorded already (Settled).                        *)
(***************************************************************************)
EXTENDS FaceSync, TLAPS

StayingFetched ==
    \A t \in Threads : pc[t] = "clear" => staying \subseteq todo[t]

MissingIsDue ==
    ~torn => \A p \in staying \ index :
                \E t \in Threads : pc[t] = "load" /\ p \in todo[t]

SyncInv == TypeOK /\ StayingFetched /\ MissingIsDue

-----------------------------------------------------------------------------
(* Type correctness, step by step.                                         *)

LEMMA InitTyped == Init => TypeOK
  BY SyncAssumption DEF Init, TypeOK, Revision, AtStart, Nothing, NoRevision,
     Threads, Stage

LEMMA EndTyped ==
  ASSUME TypeOK, NEW t \in Threads, End(t)
  PROVE  /\ pc' \in [Threads -> Stage] /\ pc'[t] = "idle"
         /\ \A u \in Threads \ {t} : pc'[u] = pc[u]
         /\ todo' \in [Threads -> SUBSET People] /\ todo'[t] = {}
         /\ \A u \in Threads \ {t} : todo'[u] = todo[u]
         /\ told' \in [Threads -> Revision]
         /\ held' \in [Threads -> Revision]
  BY SyncAssumption DEF TypeOK, End, Goto, Told, Stage, Revision

LEMMA RebornTyped ==
  ASSUME TypeOK, Reborn, restarts' \in 0 .. MaxRestarts,
         plain' \in BOOLEAN, disturbed' \in BOOLEAN
  PROVE  TypeOK'
  BY SyncAssumption DEF TypeOK, Reborn, AtStart, Nothing, NoRevision, Threads,
     Stage, Revision

LEMMA TypeStep == TypeOK /\ [Next]_vars => TypeOK'
<1> SUFFICES ASSUME TypeOK, [Next]_vars PROVE TypeOK'
  OBVIOUS
<1> USE SyncAssumption
<1>1. ASSUME NEW p \in People, Edit(p) PROVE TypeOK'
  BY <1>1 DEF TypeOK, Edit, sync, Revision
<1>2. CASE Outage
  BY <1>2 DEF TypeOK, Outage, sync, history
<1>3. CASE Restart
  <2>1. /\ restarts' \in 0 .. MaxRestarts
        /\ plain' \in BOOLEAN /\ disturbed' \in BOOLEAN
    BY <1>3 DEF Restart, TypeOK
  <2> QED BY <1>3, <2>1, RebornTyped DEF Restart
<1>4. CASE Connect
  <2>1. CASE End("main") /\ UNCHANGED plain
    BY <1>4, <2>1, EndTyped DEF Connect, TypeOK, Threads
  <2>2. CASE Told("main", cloud.revision) /\ Begin("main")
             /\ UNCHANGED <<todo, held>>
    BY <1>4, <2>2
    DEF Connect, TypeOK, Begin, Goto, Told, Threads, Stage, Revision
  <2> QED BY <1>4, <2>1, <2>2 DEF Connect
<1>5. CASE CheckConsistency
  BY <1>5 DEF CheckConsistency, TypeOK, Goto, Told, Threads, Stage, Revision,
     history
<1>6. ASSUME NEW revision \in Revision, SyncEvent(revision) PROVE TypeOK'
  BY <1>6 DEF SyncEvent, TypeOK, Goto, Told, Threads, Stage, Revision, history
<1>7. ASSUME NEW t \in Threads, SyncStep(t) PROVE TypeOK'
  <2>1. CASE Compare(t)
    <3>1. CASE Differs(t)
      BY <2>1, <3>1
      DEF Compare, Begin, TypeOK, Goto, Threads, Stage
    <3>2. CASE ~Differs(t)
      BY <2>1, <3>2, EndTyped DEF Compare, TypeOK, Threads
    <3> QED BY <3>1, <3>2
  <2>2. CASE Fetch(t)
    <3>1. CASE Goto(t, "clear")
      BY <2>2, <3>1 DEF Fetch, Unanswered, TypeOK, Goto, Told, End, Threads,
         Stage, Revision
    <3>2. CASE Unanswered(t) /\ outage
      <4>1. CASE t = "main"
        BY <2>2, <3>2, <4>1
        DEF Fetch, Unanswered, TypeOK, Goto, Threads, Stage
      <4>2. CASE t # "main"
        BY <2>2, <3>2, <4>2, EndTyped DEF Fetch, Unanswered, TypeOK, Threads
      <4> QED BY <4>1, <4>2
    <3> QED BY <2>2, <3>1, <3>2 DEF Fetch
  <2>3. CASE RedisFails(t)
    <3>1. CASE t = "main"
      <4>1. /\ restarts' \in 0 .. MaxRestarts
            /\ plain' \in BOOLEAN /\ disturbed' \in BOOLEAN
        BY <2>3 DEF RedisFails, TypeOK
      <4> QED BY <2>3, <3>1, <4>1, RebornTyped DEF RedisFails
    <3>2. CASE t # "main"
      BY <2>3, <3>2, EndTyped DEF RedisFails, Broken, TypeOK, Threads
    <3> QED BY <3>1, <3>2
  <2>4. CASE Clear(t)
    BY <2>4 DEF Clear, TypeOK, Goto, Threads, Stage
  <2>5. ASSUME NEW p \in People, Upsert(t, p) PROVE TypeOK'
    BY <2>5 DEF Upsert, TypeOK, Threads, history
  <2>6. CASE Loaded(t)
    BY <2>6 DEF Loaded, TypeOK, Goto, Threads, Stage, history
  <2>7. CASE Status(t)
    <3>1. CASE End(t)
      BY <2>7, <3>1, EndTyped DEF Status, TypeOK, Threads
    <3>2. CASE Told(t, cloud.revision) /\ Goto(t, "record")
               /\ UNCHANGED <<todo, held>>
      BY <2>7, <3>2 DEF Status, TypeOK, Goto, Told, Threads, Stage, Revision
    <3> QED BY <2>7, <3>1, <3>2 DEF Status
  <2>8. CASE Record(t)
    BY <2>8, EndTyped DEF Record, TypeOK, Threads
  <2> QED BY <1>7, <2>1, <2>2, <2>3, <2>4, <2>5, <2>6, <2>7, <2>8
          DEF SyncStep
<1>8. CASE UNCHANGED vars
  BY <1>8 DEF vars, TypeOK, sync, history
<1> QED BY <1>1, <1>2, <1>3, <1>4, <1>5, <1>6, <1>7, <1>8 DEF Next
-----------------------------------------------------------------------------
(* Who stays is not lost.                                                  *)

\* A step that writes neither to the index nor to the lists, and begins no
\* Clear and ends no load, preserves both parts.
LEMMA Untouched ==
  ASSUME StayingFetched, MissingIsDue, UNCHANGED <<index, torn>>,
         staying' \subseteq staying,
         \A t \in Threads :
            /\ pc'[t] = "clear" => pc[t] = "clear"
            /\ pc[t] = "load" => pc'[t] = "load"
            /\ pc[t] \in {"clear", "load"} => todo'[t] = todo[t]
  PROVE  StayingFetched' /\ MissingIsDue'
  BY DEF StayingFetched, MissingIsDue

\* A thread that stops before its Clear or after its load.
LEMMA Stopped ==
  ASSUME TypeOK, StayingFetched, MissingIsDue, NEW t \in Threads,
         pc[t] # "load", End(t), UNCHANGED <<index, torn, staying>>
  PROVE  StayingFetched' /\ MissingIsDue'
  <1>1. \A u \in Threads :
           /\ pc'[u] = "clear" => pc[u] = "clear"
           /\ pc[u] = "load" => pc'[u] = "load" /\ todo'[u] = todo[u]
    BY EndTyped
  <1>2. \A u \in Threads : pc'[u] = "clear" => todo'[u] = todo[u]
    BY EndTyped
  <1> QED BY <1>1, <1>2 DEF StayingFetched, MissingIsDue

LEMMA RebornKeeps ==
  ASSUME TypeOK, StayingFetched, MissingIsDue, Reborn
  PROVE  StayingFetched' /\ MissingIsDue'
  <1>1. StayingFetched'
    BY DEF Reborn, AtStart, StayingFetched, Threads
  <1>2. ~torn' => ~torn /\ \A t \in Threads : pc[t] # "load"
    BY DEF Reborn
  <1>3. index' = index /\ staying' = staying
    BY DEF Reborn
  <1> QED BY <1>1, <1>2, <1>3 DEF MissingIsDue

LEMMA StayingStep ==
  SyncInv /\ [Next]_vars => StayingFetched' /\ MissingIsDue'
<1> SUFFICES ASSUME SyncInv, [Next]_vars
             PROVE  StayingFetched' /\ MissingIsDue'
  OBVIOUS
<1>0. TypeOK /\ StayingFetched /\ MissingIsDue
  BY DEF SyncInv
<1>1. ASSUME NEW p \in People, Edit(p) PROVE StayingFetched' /\ MissingIsDue'
  BY <1>0, <1>1, Untouched DEF Edit, sync
<1>2. CASE Outage
  BY <1>0, <1>2, Untouched DEF Outage, sync, history
<1>3. CASE Restart
  BY <1>0, <1>3, RebornKeeps DEF Restart
<1>4. CASE Connect
  <2>1. CASE End("main") /\ UNCHANGED plain
    <3>1. "main" \in Threads /\ pc["main"] # "load"
      BY <1>4 DEF Connect, Threads
    <3> QED BY <1>0, <1>4, <2>1, <3>1, Stopped DEF Connect
  <2>2. CASE Begin("main") /\ UNCHANGED <<todo, held>>
    BY <1>0, <1>4, <2>2, Untouched DEF Connect, Begin, Goto, TypeOK, Threads
  <2> QED BY <1>4, <2>1, <2>2 DEF Connect
<1>5. CASE CheckConsistency
  BY <1>0, <1>5, Untouched
  DEF CheckConsistency, Goto, TypeOK, Threads, history
<1>6. ASSUME NEW revision \in Revision, SyncEvent(revision)
      PROVE  StayingFetched' /\ MissingIsDue'
  BY <1>0, <1>6, Untouched DEF SyncEvent, Goto, TypeOK, Threads, history
<1>7. ASSUME NEW t \in Threads, SyncStep(t)
      PROVE  StayingFetched' /\ MissingIsDue'
  <2>1. CASE Compare(t)
    <3>1. CASE Differs(t)
      BY <1>0, <2>1, <3>1, Untouched DEF Compare, Begin, Goto, TypeOK
    <3>2. CASE ~Differs(t)
      BY <1>0, <2>1, <3>2, Stopped DEF Compare
    <3> QED BY <3>1, <3>2
  <2>2. CASE Fetch(t)
    <3>1. CASE /\ todo' = [todo EXCEPT ![t] = cloud.enrolled]
               /\ Goto(t, "clear")
      <4>1. staying \subseteq cloud.enrolled /\ staying' = staying
            /\ index' = index /\ torn' = torn
        BY <1>0, <2>2 DEF TypeOK, Fetch
      <4>2. StayingFetched'
        BY <1>0, <3>1, <4>1 DEF StayingFetched, TypeOK, Goto
      <4>3. \A u \in Threads : pc[u] = "load" =>
                 pc'[u] = "load" /\ todo'[u] = todo[u]
        BY <1>0, <2>2, <3>1 DEF Fetch, TypeOK, Goto
      <4> QED BY <1>0, <4>1, <4>2, <4>3 DEF MissingIsDue
    <3>2. CASE Unanswered(t)
      <4>1. CASE t = "main"
        BY <1>0, <2>2, <3>2, <4>1, Untouched
        DEF Fetch, Unanswered, Goto, TypeOK
      <4>2. CASE t # "main"
        BY <1>0, <2>2, <3>2, <4>2, Stopped DEF Fetch, Unanswered
      <4> QED BY <4>1, <4>2
    <3> QED BY <2>2, <3>1, <3>2 DEF Fetch
  <2>3. CASE RedisFails(t)
    <3>1. CASE t = "main"
      BY <1>0, <2>3, <3>1, RebornKeeps DEF RedisFails
    <3>2. CASE t # "main" /\ pc[t] = "load"
      <4>1. torn' /\ staying' = staying
        BY <2>3, <3>2 DEF RedisFails
      <4>2. \A u \in Threads : pc'[u] = "clear" =>
                 pc[u] = "clear" /\ todo'[u] = todo[u]
        BY <1>0, <2>3, <3>2, EndTyped DEF RedisFails, Broken
      <4> QED BY <1>0, <4>1, <4>2 DEF StayingFetched, MissingIsDue
    <3>3. CASE t # "main" /\ pc[t] # "load"
      <4>1. torn' = torn
        BY <1>0, <2>3, <3>3 DEF RedisFails, TypeOK
      <4> QED BY <1>0, <2>3, <3>3, <4>1, Stopped DEF RedisFails, Broken
    <3> QED BY <3>1, <3>2, <3>3
  <2>4. CASE Clear(t)
    <3>1. pc'[t] = "load" /\ staying \subseteq todo[t]
          /\ todo' = todo /\ staying' = staying
      BY <1>0, <2>4 DEF Clear, Goto, TypeOK, StayingFetched
    <3>2. \A u \in Threads : pc'[u] = "clear" => pc[u] = "clear"
      BY <1>0, <2>4 DEF Clear, Goto, TypeOK
    <3> QED BY <1>0, <3>1, <3>2 DEF StayingFetched, MissingIsDue
  <2>5. ASSUME NEW p \in People, Upsert(t, p)
        PROVE  StayingFetched' /\ MissingIsDue'
    <3>1. /\ index' = index \cup {p}
          /\ pc' = pc /\ staying' = staying /\ torn' = torn
          /\ \A u \in Threads : todo[u] \subseteq todo'[u] \cup {p}
          /\ \A u \in Threads : pc[u] = "clear" => todo'[u] = todo[u]
      BY <1>0, <2>5 DEF Upsert, TypeOK, history
    <3>2. StayingFetched'
      BY <1>0, <3>1 DEF StayingFetched
    <3>3. MissingIsDue'
      BY <1>0, <3>1 DEF MissingIsDue
    <3> QED BY <3>2, <3>3
  <2>6. CASE Loaded(t)
    <3>1. /\ index' = index /\ staying' = staying /\ torn' = torn
          /\ todo' = todo /\ todo[t] = {}
          /\ \A u \in Threads \ {t} : pc'[u] = pc[u]
          /\ pc'[t] # "clear"
      BY <1>0, <2>6 DEF Loaded, Goto, TypeOK, history
    <3>2. StayingFetched'
      BY <1>0, <3>1 DEF StayingFetched
    <3>3. MissingIsDue'
      BY <1>0, <3>1 DEF MissingIsDue
    <3> QED BY <3>2, <3>3
  <2>7. CASE Status(t)
    <3>1. CASE End(t)
      BY <1>0, <2>7, <3>1, Stopped DEF Status
    <3>2. CASE Goto(t, "record") /\ UNCHANGED <<todo, held>>
      BY <1>0, <2>7, <3>2, Untouched DEF Status, Goto, TypeOK
    <3> QED BY <2>7, <3>1, <3>2 DEF Status
  <2>8. CASE Record(t)
    BY <1>0, <2>8, Stopped DEF Record
  <2> QED BY <1>7, <2>1, <2>2, <2>3, <2>4, <2>5, <2>6, <2>7, <2>8
          DEF SyncStep
<1>8. CASE UNCHANGED vars
  BY <1>0, <1>8, Untouched DEF vars, sync, history
<1> QED BY <1>1, <1>2, <1>3, <1>4, <1>5, <1>6, <1>7, <1>8 DEF Next

-----------------------------------------------------------------------------
\* The invariant holds in every state the three sync threads can reach.
THEOREM SyncInvariant == Spec => []SyncInv
<1>1. Init => SyncInv
  <2> SUFFICES ASSUME Init PROVE SyncInv
    OBVIOUS
  <2>1. StayingFetched /\ MissingIsDue
    BY DEF Init, AtStart, StayingFetched, MissingIsDue, Threads
  <2> QED BY <2>1, InitTyped DEF SyncInv
<1>2. SyncInv /\ [Next]_vars => SyncInv'
  BY TypeStep, StayingStep DEF SyncInv
<1> QED BY <1>1, <1>2, PTL DEF Spec

\* The threads of sync_agent.py keep their stages, lists and revisions in
\* range.
THEOREM SyncTypeCorrect == Spec => []TypeOK
<1>1. SyncInv => TypeOK
  BY DEF SyncInv
<1> QED BY <1>1, SyncInvariant, PTL

\* Whoever stays enrolled is found between the loads, in every interleaving
\* of the syncs and with failures anywhere.
THEOREM StayingIsFound == Spec => []StayingFound
<1>1. SyncInv => StayingFound
  BY DEF SyncInv, MissingIsDue, StayingFound
<1> QED BY <1>1, SyncInvariant, PTL

-----------------------------------------------------------------------------
(* What is recorded is loaded.                                             *)

Active(t) == pc[t] \in {"fetch", "clear", "load", "status", "record"}

\* Revisions only grow: nothing that was read is newer than the cloud.
NothingNewer ==
    /\ local <= cloud.revision
    /\ \A t \in Threads :
          /\ told[t] <= cloud.revision
          /\ held[t] <= cloud.revision
          /\ pc[t] \in {"idle", "connect", "compare", "fetch"} => held[t] = 0

\* A plain sync has the index to itself; while no edit overtakes it, what it
\* has loaded and what it is still going to load are the cloud's persons.
PlainSync ==
    plain => \A t \in Threads : Active(t) =>
        /\ \A u \in Threads \ {t} : ~Active(u)
        /\ held[t] = cloud.revision =>
              /\ pc[t] = "clear" => todo[t] = cloud.enrolled
              /\ pc[t] = "load" => index \cup todo[t] = cloud.enrolled
              /\ pc[t] \in {"status", "record"} => index = cloud.enrolled

\* Once a plain sync has recorded the cloud's revision, every later sync loads
\* the same persons, and none of them is plain.
Settled ==
    ~disturbed /\ local = cloud.revision =>
        /\ index \subseteq cloud.enrolled
        /\ \A p \in cloud.enrolled \ index :
              \E t \in Threads : pc[t] = "load" /\ p \in todo[t]
        /\ \A t \in Threads :
              /\ Active(t) => ~plain
              /\ pc[t] = "clear" => todo[t] = cloud.enrolled
              /\ pc[t] = "load" => todo[t] \subseteq cloud.enrolled

RecordInv == NothingNewer /\ PlainSync /\ Settled

LEMMA CloudRevision ==
  TypeOK => /\ cloud.revision \in Nat /\ cloud.revision >= 1 /\ local \in Nat
            /\ \A t \in Threads : told[t] \in Nat /\ held[t] \in Nat
  BY SyncAssumption DEF TypeOK, Revision

LEMMA RebornRecords ==
  ASSUME TypeOK, RecordInv, Reborn PROVE RecordInv'
  <1>1. \A t \in Threads : pc'[t] \in {"idle", "connect"}
    BY DEF Reborn, AtStart
  <1>2. \A t \in Threads : told'[t] = 0 /\ held'[t] = 0
    BY DEF Reborn, NoRevision
  <1>3. cloud' = cloud /\ local' = 0
    BY DEF Reborn
  <1>4. NothingNewer'
    BY <1>1, <1>2, <1>3, CloudRevision DEF NothingNewer
  <1>5. PlainSync'
    BY <1>1 DEF PlainSync, Active
  <1>6. Settled'
    BY <1>3, CloudRevision DEF Settled
  <1> QED BY <1>4, <1>5, <1>6 DEF RecordInv

\* A thread that ends outside a load leaves everything as it is for the rest.
LEMMA EndRecords ==
  ASSUME TypeOK, RecordInv, NEW t \in Threads, pc[t] # "load", End(t),
         UNCHANGED <<cloud, index, local, plain, disturbed>>
  PROVE  RecordInv'
  <1>1. /\ pc'[t] = "idle" /\ told'[t] = 0 /\ held'[t] = 0
        /\ \A u \in Threads \ {t} : /\ pc'[u] = pc[u] /\ told'[u] = told[u]
                                    /\ held'[u] = held[u] /\ todo'[u] = todo[u]
    BY DEF End, Goto, Told, TypeOK
  <1>2. NothingNewer'
    BY <1>1, CloudRevision DEF RecordInv, NothingNewer
  <1>3. PlainSync'
    BY <1>1 DEF RecordInv, PlainSync, Active
  <1>4. Settled'
    BY <1>1 DEF RecordInv, Settled, Active
  <1> QED BY <1>2, <1>3, <1>4 DEF RecordInv

\* A sync that begins is plain only when it is alone and due.
LEMMA BeginRecords ==
  ASSUME TypeOK, RecordInv, NEW t \in Threads,
         pc[t] \in {"connect", "compare"}, Begin(t),
         told'[t] = told[t] \/ told'[t] = cloud.revision,
         \A u \in Threads \ {t} : told'[u] = told[u],
         UNCHANGED <<cloud, index, local, todo, held, disturbed>>
  PROVE  RecordInv'
  <1>1. /\ pc'[t] = "fetch" /\ held[t] = 0
        /\ \A u \in Threads \ {t} : pc'[u] = pc[u]
    BY DEF Begin, Goto, TypeOK, RecordInv, NothingNewer
  <1>2. NothingNewer'
    BY <1>1, CloudRevision DEF RecordInv, NothingNewer
  <1>3. PlainSync'
    BY <1>1 DEF Begin, Alone, PlainSync, Active
  <1>4. Settled'
    BY <1>1 DEF RecordInv, Begin, Settled, Active
  <1> QED BY <1>2, <1>3, <1>4 DEF RecordInv

\* A thread that is idle is told of a revision.
LEMMA ToldRecords ==
  ASSUME TypeOK, RecordInv, NEW t \in Threads, pc[t] = "idle",
         NEW revision \in Nat, revision <= cloud.revision,
         Goto(t, "compare"), Told(t, revision),
         UNCHANGED <<cloud, index, local, todo, history>>
  PROVE  RecordInv'
  <1>1. /\ pc'[t] = "compare" /\ told'[t] = revision
        /\ \A u \in Threads \ {t} : pc'[u] = pc[u] /\ told'[u] = told[u]
    BY DEF Goto, Told, TypeOK
  <1>2. NothingNewer'
    BY <1>1, CloudRevision DEF RecordInv, NothingNewer, history
  <1>3. PlainSync'
    BY <1>1 DEF RecordInv, PlainSync, Active, history
  <1>4. Settled'
    BY <1>1 DEF RecordInv, Settled, Active, history
  <1> QED BY <1>2, <1>3, <1>4 DEF RecordInv

LEMMA FetchRecords ==
  ASSUME TypeOK, RecordInv, NEW t \in Threads, Fetch(t) PROVE RecordInv'
<1>1. CASE /\ todo' = [todo EXCEPT ![t] = cloud.enrolled]
           /\ held' = [held EXCEPT ![t] = cloud.revision]
           /\ Goto(t, "clear") /\ UNCHANGED told
  <2>1. /\ pc[t] = "fetch" /\ pc'[t] = "clear" /\ todo'[t] = cloud.enrolled
        /\ held'[t] = cloud.revision
        /\ \A u \in Threads \ {t} : /\ pc'[u] = pc[u] /\ held'[u] = held[u]
                                    /\ todo'[u] = todo[u]
        /\ UNCHANGED <<cloud, index, local, plain, disturbed, told>>
    BY <1>1 DEF Fetch, Goto, TypeOK
  <2>2. NothingNewer'
    BY <2>1, CloudRevision DEF RecordInv, NothingNewer
  <2>3. PlainSync'
    BY <2>1 DEF RecordInv, PlainSync, Active
  <2>4. Settled'
    BY <2>1 DEF RecordInv, Settled, Active
  <2> QED BY <2>2, <2>3, <2>4 DEF RecordInv
<1>2. CASE t = "main" /\ Unanswered(t)
  <2>1. /\ pc[t] = "fetch" /\ pc'[t] = "record" /\ held[t] = 0
        /\ \A u \in Threads \ {t} : pc'[u] = pc[u]
        /\ UNCHANGED <<cloud, index, local, plain, disturbed, told, todo, held>>
    BY <1>2 DEF Fetch, Unanswered, Goto, TypeOK, RecordInv, NothingNewer
  <2>2. NothingNewer'
    BY <2>1 DEF RecordInv, NothingNewer
  <2>3. PlainSync'
    BY <2>1, CloudRevision DEF RecordInv, PlainSync, Active
  <2>4. Settled'
    BY <2>1 DEF RecordInv, Settled, Active
  <2> QED BY <2>2, <2>3, <2>4 DEF RecordInv
<1>3. CASE t # "main" /\ Unanswered(t)
  BY <1>3, EndRecords DEF Fetch, Unanswered
<1> QED BY <1>1, <1>2, <1>3 DEF Fetch

\* Redis fails on another thread than the first one: the sync that was plain
\* is over, and one that was not leaves its trace.
LEMMA BrokenRecords ==
  ASSUME TypeOK, RecordInv, NEW t \in Threads, RedisFails(t), t # "main"
  PROVE  RecordInv'
<1>1. /\ pc'[t] = "idle" /\ told'[t] = 0 /\ held'[t] = 0 /\ Active(t)
      /\ \A u \in Threads \ {t} : /\ pc'[u] = pc[u] /\ told'[u] = told[u]
                                  /\ held'[u] = held[u] /\ todo'[u] = todo[u]
      /\ UNCHANGED <<cloud, index, local, plain>>
      /\ disturbed' = (disturbed \/ ~plain)
  BY DEF RedisFails, Broken, End, Goto, Told, TypeOK, Active
<1>2. NothingNewer'
  BY <1>1, CloudRevision DEF RecordInv, NothingNewer
<1>3. PlainSync'
  BY <1>1 DEF RecordInv, PlainSync, Active
<1>4. Settled'
  BY <1>1 DEF RecordInv, Settled
<1> QED BY <1>2, <1>3, <1>4 DEF RecordInv

LEMMA ClearRecords ==
  ASSUME TypeOK, RecordInv, NEW t \in Threads, Clear(t) PROVE RecordInv'
<1>1. /\ pc[t] = "clear" /\ pc'[t] = "load" /\ index' = {}
      /\ \A u \in Threads \ {t} : pc'[u] = pc[u]
      /\ UNCHANGED <<cloud, local, told, todo, held, plain, disturbed>>
  BY DEF Clear, Goto, TypeOK
<1>2. NothingNewer'
  BY <1>1 DEF RecordInv, NothingNewer
<1>3. PlainSync'
  BY <1>1 DEF RecordInv, PlainSync, Active
<1>4. Settled'
  BY <1>1 DEF RecordInv, Settled, Active
<1> QED BY <1>2, <1>3, <1>4 DEF RecordInv

LEMMA UpsertRecords ==
  ASSUME TypeOK, RecordInv, NEW t \in Threads, NEW p \in People, Upsert(t, p)
  PROVE  RecordInv'
<1>1. /\ pc[t] = "load" /\ p \in todo[t] /\ index' = index \cup {p}
      /\ todo'[t] = todo[t] \ {p}
      /\ \A u \in Threads \ {t} : todo'[u] = todo[u]
      /\ UNCHANGED <<cloud, local, pc, told, held, plain, disturbed>>
  BY DEF Upsert, TypeOK, history
<1>2. NothingNewer'
  BY <1>1 DEF RecordInv, NothingNewer
<1>3. PlainSync'
  BY <1>1 DEF RecordInv, PlainSync, Active
<1>4. Settled'
  BY <1>1 DEF RecordInv, Settled, Active
<1> QED BY <1>2, <1>3, <1>4 DEF RecordInv

LEMMA LoadedRecords ==
  ASSUME TypeOK, RecordInv, NEW t \in Threads, Loaded(t) PROVE RecordInv'
<1>1. /\ pc[t] = "load" /\ todo[t] = {} /\ pc'[t] \in {"status", "record"}
      /\ \A u \in Threads \ {t} : pc'[u] = pc[u]
      /\ UNCHANGED <<cloud, index, local, told, todo, held, plain, disturbed>>
  BY DEF Loaded, Goto, TypeOK, history
<1>2. NothingNewer'
  BY <1>1 DEF RecordInv, NothingNewer
<1>3. PlainSync'
  BY <1>1 DEF RecordInv, PlainSync, Active
<1>4. Settled'
  BY <1>1 DEF RecordInv, Settled, Active
<1> QED BY <1>2, <1>3, <1>4 DEF RecordInv

LEMMA StatusRecords ==
  ASSUME TypeOK, RecordInv, NEW t \in Threads, Status(t) PROVE RecordInv'
<1>1. CASE End(t)
  BY <1>1, EndRecords DEF Status
<1>2. CASE Told(t, cloud.revision) /\ Goto(t, "record")
           /\ UNCHANGED <<todo, held>>
  <2>1. /\ pc[t] = "status" /\ pc'[t] = "record" /\ told'[t] = cloud.revision
        /\ \A u \in Threads \ {t} : pc'[u] = pc[u] /\ told'[u] = told[u]
        /\ UNCHANGED <<cloud, index, local, todo, held, plain, disturbed>>
    BY <1>2 DEF Status, Goto, Told, TypeOK
  <2>2. NothingNewer'
    BY <2>1, CloudRevision DEF RecordInv, NothingNewer
  <2>3. PlainSync'
    BY <2>1 DEF RecordInv, PlainSync, Active
  <2>4. Settled'
    BY <2>1 DEF RecordInv, Settled, Active
  <2> QED BY <2>2, <2>3, <2>4 DEF RecordInv
<1> QED BY <1>1, <1>2 DEF Status

LEMMA RecordRecords ==
  ASSUME TypeOK, RecordInv, NEW t \in Threads, Record(t) PROVE RecordInv'
<1>1. /\ pc[t] = "record" /\ pc'[t] = "idle" /\ told'[t] = 0 /\ held'[t] = 0
      /\ \A u \in Threads \ {t} : /\ pc'[u] = pc[u] /\ told'[u] = told[u]
                                  /\ held'[u] = held[u] /\ todo'[u] = todo[u]
      /\ local' = told[t] /\ disturbed' = (~plain \/ held[t] # told[t])
      /\ UNCHANGED <<cloud, index, plain>>
  BY DEF Record, End, Goto, Told, TypeOK
<1>2. NothingNewer'
  BY <1>1, CloudRevision DEF RecordInv, NothingNewer
<1>3. PlainSync'
  BY <1>1 DEF RecordInv, PlainSync, Active
<1>4. Settled'
  <2> SUFFICES ASSUME ~disturbed', local' = cloud'.revision
               PROVE  /\ index' = cloud'.enrolled
                      /\ \A u \in Threads : ~Active(u)'
    BY DEF Settled, Active
  <2>1. plain /\ held[t] = cloud.revision /\ Active(t)
    BY <1>1 DEF Active
  <2> QED BY <1>1, <2>1 DEF RecordInv, PlainSync, Active
<1> QED BY <1>2, <1>3, <1>4 DEF RecordInv

LEMMA EditRecords ==
  ASSUME TypeOK, RecordInv, NEW p \in People, Edit(p) PROVE RecordInv'
<1>1. /\ cloud'.revision = cloud.revision + 1
      /\ UNCHANGED <<index, local, pc, told, todo, held, plain, disturbed>>
  BY DEF Edit, sync
<1>2. NothingNewer'
  BY <1>1, CloudRevision DEF RecordInv, NothingNewer
<1>3. \A t \in Threads : held[t] # cloud'.revision
  BY <1>1, CloudRevision DEF RecordInv, NothingNewer
<1>4. PlainSync'
  BY <1>1, <1>3 DEF RecordInv, PlainSync, Active
<1>5. local # cloud'.revision
  BY <1>1, CloudRevision DEF RecordInv, NothingNewer
<1>6. Settled'
  BY <1>1, <1>5 DEF Settled
<1> QED BY <1>2, <1>4, <1>6 DEF RecordInv

LEMMA RecordStep == TypeOK /\ RecordInv /\ [Next]_vars => RecordInv'
<1> SUFFICES ASSUME TypeOK, RecordInv, [Next]_vars PROVE RecordInv'
  OBVIOUS
<1>1. ASSUME NEW p \in People, Edit(p) PROVE RecordInv'
  BY <1>1, EditRecords
<1>2. CASE Outage \/ UNCHANGED vars
  BY <1>2 DEF Outage, sync, history, vars, RecordInv, NothingNewer, PlainSync,
     Settled, Active
<1>3. CASE Restart
  BY <1>3, RebornRecords DEF Restart
<1>4. CASE Connect
  <2>1. "main" \in Threads /\ pc["main"] = "connect"
    BY <1>4 DEF Connect, Threads
  <2>2. CASE End("main") /\ UNCHANGED plain
    BY <1>4, <2>1, <2>2, EndRecords DEF Connect
  <2>3. CASE /\ Told("main", cloud.revision) /\ Begin("main")
             /\ UNCHANGED <<todo, held>>
    <3>1. /\ told'["main"] = cloud.revision
          /\ \A u \in Threads \ {"main"} : told'[u] = told[u]
      BY <2>1, <2>3 DEF Told, TypeOK
    <3> QED BY <1>4, <2>1, <2>3, <3>1, BeginRecords DEF Connect
  <2> QED BY <1>4, <2>2, <2>3 DEF Connect
<1>5. CASE CheckConsistency
  BY <1>5, CloudRevision, ToldRecords DEF CheckConsistency, Threads
<1>6. ASSUME NEW revision \in Revision, SyncEvent(revision) PROVE RecordInv'
  <2>1. revision \in Nat /\ revision <= cloud.revision
    BY <1>6, SyncAssumption, CloudRevision DEF SyncEvent, Revision, TypeOK
  <2> QED BY <1>6, <2>1, ToldRecords DEF SyncEvent, Threads
<1>7. ASSUME NEW t \in Threads, SyncStep(t) PROVE RecordInv'
  <2>1. CASE Compare(t)
    <3>1. CASE Differs(t)
      BY <2>1, <3>1, BeginRecords DEF Compare
    <3>2. CASE ~Differs(t)
      BY <2>1, <3>2, EndRecords DEF Compare
    <3> QED BY <3>1, <3>2
  <2>2. CASE RedisFails(t)
    <3>1. CASE t = "main"
      BY <2>2, <3>1, RebornRecords DEF RedisFails
    <3>2. CASE t # "main"
      BY <2>2, <3>2, BrokenRecords
    <3> QED BY <3>1, <3>2
  <2> QED BY <1>7, <2>1, <2>2, FetchRecords, ClearRecords, UpsertRecords,
             LoadedRecords, StatusRecords, RecordRecords DEF SyncStep
<1> QED BY <1>1, <1>2, <1>3, <1>4, <1>5, <1>6, <1>7 DEF Next

\* The recorded revision stands for what the index holds, whenever the sync
\* that recorded it was due and had the index to itself: for any number of
\* edits, and whatever syncs came before and after it or failed.
THEOREM RecordedIsInTheIndex == Spec => []RecordedIsLoaded
<1>1. Init => RecordInv
  <2> SUFFICES ASSUME Init PROVE RecordInv
    OBVIOUS
  <2>1. /\ \A t \in Threads : pc[t] \in {"idle", "connect"}
        /\ \A t \in Threads : told[t] = 0 /\ held[t] = 0
        /\ cloud.revision = 1 /\ local = 0 /\ disturbed
    BY DEF Init, AtStart, NoRevision
  <2> QED BY <2>1 DEF RecordInv, NothingNewer, PlainSync, Settled, Active
<1>2. TypeOK /\ RecordInv => RecordedIsLoaded
  BY DEF RecordInv, Settled, RecordedIsLoaded, AllIdle
<1> QED BY <1>1, <1>2, RecordStep, SyncTypeCorrect, PTL DEF Spec
=============================================================================
