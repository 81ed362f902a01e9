--------------------------- MODULE CardSyncProofs ---------------------------
(***************************************************************************)
(* Proofs about CardSync, for any lists, any number of reconnect threads   *)
(* and any number of edits.                                                *)
(*                                                                         *)
(* KeepsOpening looks at the controller and the broker alone.  An empty    *)
(* list comes to them from the cache, through a thread that is about to    *)
(* publish: so the invariant says that such a thread finds a list that was *)
(* fetched (PublishesFetched), and that as long as no list was empty,      *)
(* nothing that was fetched is (NothingEmpty).                             *)
(***************************************************************************)
EXTENDS CardSync, TLAPS

PublishesFetched ==
    \A t \in Threads : pc[t] \in {"stamp", "publish"} => cacheRev # 0

NothingEmpty ==
    ~wasEmpty => /\ cloud.list # Empty
                 /\ \A t \in Threads :
                       got[t].revision # 0 => got[t].list # Empty
                 /\ cacheRev # 0 => cache # Empty

CardInv == TypeOK /\ PublishesFetched /\ NothingEmpty /\ KeepsOpening

-----------------------------------------------------------------------------
LEMMA InitCard == Init => CardInv
<1> SUFFICES ASSUME Init PROVE CardInv
  OBVIOUS
<1> USE CardAssumption DEF CardAssumption
<1>1. TypeOK
  BY DEF Init, TypeOK, AtStart, NoAnswer, Answer, List, Revision, Threads,
     Stage
<1>2. PublishesFetched /\ NothingEmpty
  BY DEF Init, PublishesFetched, NothingEmpty, AtStart, NoAnswer, Threads
<1>3. KeepsOpening
  BY DEF Init, KeepsOpening
<1> QED BY <1>1, <1>2, <1>3 DEF CardInv

\* Steps of the surroundings and of the controller leave the agent alone.
LEMMA OutsideStep ==
  ASSUME CardInv,
         \/ \E list \in List : Edit(list)
         \/ Outage
         \/ \E t \in Again : EspArrives(t)
         \/ EspSubscribes \/ EspLeaves \/ Lose \/ HandleCardSync
  PROVE  CardInv'
<1> USE CardAssumption DEF CardAssumption
<1>1. ASSUME NEW list \in List, Edit(list) PROVE CardInv'
  <2>1. /\ cloud' \in Answer /\ cloud'.revision # 0
        /\ cloud'.list = list /\ wasEmpty' = (wasEmpty \/ list = Empty)
    BY <1>1 DEF Edit, CardInv, TypeOK, Answer, Revision
  <2>2. TypeOK'
    BY <1>1, <2>1 DEF Edit, agent, CardInv, TypeOK
  <2>3. (PublishesFetched /\ NothingEmpty /\ KeepsOpening)'
    BY <1>1, <2>1 DEF Edit, agent, CardInv, TypeOK, PublishesFetched,
       NothingEmpty, KeepsOpening
  <2> QED BY <2>2, <2>3 DEF CardInv
<1>2. CASE Outage
  BY <1>2 DEF Outage, agent, CardInv, TypeOK, PublishesFetched, NothingEmpty,
     KeepsOpening
<1>3. ASSUME NEW t \in Again, EspArrives(t) PROVE CardInv'
  <2>1. /\ pc' \in [Threads -> Stage] /\ pc'[t] = "ask" /\ pc[t] = "idle"
        /\ \A u \in Threads \ {t} : pc'[u] = pc[u]
        /\ esp' = "arriving"
    BY <1>3 DEF EspArrives, Goto, CardInv, TypeOK, Threads, Stage
  <2>2. TypeOK'
    BY <1>3, <2>1 DEF EspArrives, CardInv, TypeOK
  <2>3. (PublishesFetched /\ NothingEmpty /\ KeepsOpening)'
    BY <1>3, <2>1 DEF EspArrives, CardInv, PublishesFetched, NothingEmpty,
       KeepsOpening
  <2> QED BY <2>2, <2>3 DEF CardInv
<1>4. CASE EspSubscribes \/ EspLeaves
  BY <1>4 DEF EspSubscribes, EspLeaves, agent, CardInv, TypeOK,
     PublishesFetched, NothingEmpty, KeepsOpening
<1>5. CASE Lose \/ HandleCardSync
  BY <1>5 DEF Lose, HandleCardSync, agent, CardInv, TypeOK, PublishesFetched,
     NothingEmpty, KeepsOpening
<1> QED BY <1>1, <1>2, <1>3, <1>4, <1>5

\* A thread that only changes its place among the first stages.
LEMMA PlaceStep ==
  ASSUME CardInv, NEW t \in Threads, NEW stage \in {"idle", "ask"},
         pc[t] \in {"start", "idle"}, Goto(t, stage), OnlyTheThread,
         moved' \in BOOLEAN
  PROVE  CardInv'
<1>1. /\ pc' \in [Threads -> Stage] /\ pc'[t] = stage
      /\ \A u \in Threads \ {t} : pc'[u] = pc[u]
  BY DEF Goto, CardInv, TypeOK, Stage
<1>2. TypeOK'
  BY <1>1 DEF OnlyTheThread, CardInv, TypeOK
<1>3. (PublishesFetched /\ NothingEmpty /\ KeepsOpening)'
  BY <1>1 DEF OnlyTheThread, CardInv, PublishesFetched, NothingEmpty,
     KeepsOpening
<1> QED BY <1>2, <1>3 DEF CardInv

LEMMA PushPreserves ==
  ASSUME CardInv, NEW t \in Threads, PushStep(t)
  PROVE  CardInv'
<1> USE CardAssumption DEF CardAssumption
<1>1. CASE Ask(t)
  <2>1. /\ pc' \in [Threads -> Stage] /\ pc'[t] = "await" /\ pc[t] = "ask"
        /\ since' \in [Threads -> Revision]
        /\ \A u \in Threads \ {t} : pc'[u] = pc[u] /\ since'[u] = since[u]
    BY <1>1 DEF Ask, Goto, CardInv, TypeOK, Stage
  <2>2. TypeOK'
    BY <1>1, <2>1 DEF Ask, CardInv, TypeOK
  <2>3. (PublishesFetched /\ NothingEmpty /\ KeepsOpening)'
    BY <1>1, <2>1 DEF Ask, CardInv, PublishesFetched, NothingEmpty,
       KeepsOpening
  <2> QED BY <2>2, <2>3 DEF CardInv
<1>2. CASE Await(t)
  <2>1. /\ since' \in [Threads -> Revision] /\ since'[t] = 0
        /\ \A u \in Threads \ {t} : since'[u] = since[u]
        /\ pc[t] = "await" /\ got[t].revision = 0
    BY <1>2 DEF Await, CardInv, TypeOK, Revision
  <2>2. CASE got' = [got EXCEPT ![t] = cloud] /\ Goto(t, "cache")
    <3>1. /\ pc' \in [Threads -> Stage] /\ pc'[t] = "cache"
          /\ got' \in [Threads -> Answer] /\ got'[t] = cloud
          /\ \A u \in Threads \ {t} : pc'[u] = pc[u] /\ got'[u] = got[u]
      BY <2>2 DEF Goto, CardInv, TypeOK, Stage
    <3>2. TypeOK'
      BY <1>2, <2>1, <3>1 DEF Await, CardInv, TypeOK
    <3>3. (PublishesFetched /\ NothingEmpty /\ KeepsOpening)'
      BY <1>2, <3>1 DEF Await, CardInv, PublishesFetched, NothingEmpty,
         KeepsOpening
    <3> QED BY <3>2, <3>3 DEF CardInv
  <2>3. CASE NoText(t) /\ UNCHANGED got
    <3>1. /\ pc' \in [Threads -> Stage]
          /\ \/ pc'[t] = "publish" /\ cache # Empty
             \/ pc'[t] = "idle"
          /\ \A u \in Threads \ {t} : pc'[u] = pc[u]
      BY <2>3 DEF NoText, Goto, CardInv, TypeOK, Stage
    <3>2. TypeOK'
      BY <1>2, <2>1, <2>3, <3>1 DEF Await, CardInv, TypeOK
    <3>3. (PublishesFetched /\ NothingEmpty /\ KeepsOpening)'
      BY <1>2, <2>3, <3>1 DEF Await, CardInv, TypeOK, PublishesFetched,
         NothingEmpty, KeepsOpening
    <3> QED BY <3>2, <3>3 DEF CardInv
  <2> QED BY <1>2, <2>2, <2>3 DEF Await
<1>3. CASE Cache(t)
  <2>1. /\ pc' \in [Threads -> Stage] /\ pc'[t] = "stamp" /\ pc[t] = "cache"
        /\ \A u \in Threads \ {t} : pc'[u] = pc[u]
        /\ cache' = got[t].list /\ cacheRev' = got[t].revision
        /\ got[t] \in Answer /\ got[t].revision # 0
    BY <1>3 DEF Cache, Goto, CardInv, TypeOK, Stage
  <2>2. cache' \in List /\ cacheRev' \in Revision
    BY <2>1 DEF Answer
  <2>3. TypeOK'
    BY <1>3, <2>1, <2>2 DEF Cache, CardInv, TypeOK
  <2>4. (PublishesFetched /\ NothingEmpty /\ KeepsOpening)'
    BY <1>3, <2>1 DEF Cache, CardInv, PublishesFetched, NothingEmpty,
       KeepsOpening
  <2> QED BY <2>3, <2>4 DEF CardInv
<1>4. CASE Stamp(t)
  <2>1. /\ pc' \in [Threads -> Stage] /\ pc'[t] = "publish" /\ pc[t] = "stamp"
        /\ got' \in [Threads -> Answer] /\ got'[t] = NoAnswer
        /\ NoAnswer.revision = 0
        /\ \A u \in Threads \ {t} : pc'[u] = pc[u] /\ got'[u] = got[u]
        /\ rev' \in Revision
    BY <1>4 DEF Stamp, Goto, CardInv, TypeOK, Stage, NoAnswer, Answer, List,
       Revision
  <2>2. TypeOK'
    BY <1>4, <2>1 DEF Stamp, CardInv, TypeOK
  <2>3. (PublishesFetched /\ NothingEmpty /\ KeepsOpening)'
    BY <1>4, <2>1 DEF Stamp, CardInv, PublishesFetched, NothingEmpty,
       KeepsOpening
  <2> QED BY <2>2, <2>3 DEF CardInv
<1>5. CASE Publish(t)
  <2>1. /\ pc' \in [Threads -> Stage] /\ pc'[t] = "idle" /\ pc[t] = "publish"
        /\ \A u \in Threads \ {t} : pc'[u] = pc[u]
        /\ cacheRev # 0 /\ broker' = {cache} /\ cache \in List
    BY <1>5 DEF Publish, Goto, CardInv, TypeOK, Stage, PublishesFetched
  <2>2. TypeOK'
    BY <1>5, <2>1 DEF Publish, CardInv, TypeOK
  <2>3. (PublishesFetched /\ NothingEmpty /\ KeepsOpening)'
    BY <1>5, <2>1 DEF Publish, CardInv, PublishesFetched, NothingEmpty,
       KeepsOpening
  <2> QED BY <2>2, <2>3 DEF CardInv
<1> QED BY <1>1, <1>2, <1>3, <1>4, <1>5 DEF PushStep

LEMMA CardStep == CardInv /\ [Next]_vars => CardInv'
<1> SUFFICES ASSUME CardInv, [Next]_vars PROVE CardInv'
  OBVIOUS
<1>1. CASE InitialSync
  <2>1. moved' \in BOOLEAN
    BY <1>1 DEF InitialSync, CardInv, TypeOK
  <2> QED BY <1>1, <2>1, PlaceStep DEF InitialSync, Threads
<1>2. CASE SyncEvent
  BY <1>2, PlaceStep DEF SyncEvent, ResyncStudents, Threads
<1>3. CASE CheckConsistency
  <2>1. moved' \in BOOLEAN
    BY <1>3 DEF CheckConsistency, ResyncStudents, CardInv, TypeOK
  <2> QED BY <1>3, <2>1, PlaceStep
          DEF CheckConsistency, ResyncStudents, Threads
<1>4. ASSUME NEW t \in Threads, PushStep(t) PROVE CardInv'
  BY <1>4, PushPreserves
<1>5. CASE UNCHANGED vars
  BY <1>5 DEF vars, agent, CardInv, TypeOK, PublishesFetched, NothingEmpty,
     KeepsOpening
<1> QED BY <1>1, <1>2, <1>3, <1>4, <1>5, OutsideStep DEF Next

-----------------------------------------------------------------------------
\* The invariant holds in every state the pushing threads can reach.
THEOREM CardInvariant == Spec => []CardInv
<1> QED BY InitCard, CardStep, PTL DEF Spec

\* Stages, revisions and answers of the threads of sync_agent.py stay in
\* range, and an answer is held only between its arrival and its record.
THEOREM CardTypeCorrect == Spec => []TypeOK
<1>1. CardInv => TypeOK
  BY DEF CardInv
<1> QED BY <1>1, CardInvariant, PTL

\* No interleaving of the pushes, no failure of the cloud and no disconnect
\* empties the card table, unless the allowlist was empty at some time.
THEOREM CardsKeepOpening == Spec => []KeepsOpening
<1>1. CardInv => KeepsOpening
  BY DEF CardInv
<1> QED BY <1>1, CardInvariant, PTL
=============================================================================
