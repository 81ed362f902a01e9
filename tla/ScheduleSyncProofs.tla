------------------------- MODULE ScheduleSyncProofs -------------------------
(***************************************************************************)
(* Proofs about the way of the schedule bundle to the door, for any        *)
(* bundles, any number of edits, of deaths of the process and of refusals  *)
(* of the disk.  The types come first; the gate and the cache each have an *)
(* invariant of their own that rests on them.                              *)
(***************************************************************************)
EXTENDS ScheduleSync, TLAPS

Busy(t) == pc[t] \in {"open", "write", "replace", "record"}
Holding(t) == pc[t] \in {"update", "open", "write", "replace", "record"}

-----------------------------------------------------------------------------
(* The marks that are no bundle.                                           *)

LEMMA Marks ==
  /\ NoBundle \notin Versioned /\ Blank \notin Versioned
  /\ Torn \notin Versioned /\ NoFile \notin Versioned
  /\ Blank # NoFile /\ Torn # NoFile
<1>1. \A b \in Versioned : b.rev >= 1
  BY SyncAssumption DEF SyncAssumption, Versioned, Revision
<1>2. /\ NoBundle.rev = 0 /\ Blank.rev = -1 /\ Torn.rev = -2
      /\ NoFile.rev = -3
  BY DEF NoBundle, Blank, Torn, NoFile
<1> QED BY <1>1, <1>2

LEMMA CloudTyped ==
  ASSUME cloud \in Versioned
  PROVE  /\ cloud.rev \in Revision
         /\ cloud.rev <= MaxEdits =>
              /\ cloud.rev + 1 \in Revision
              /\ \A rules \in Bundles :
                    [rev |-> cloud.rev + 1, rules |-> rules] \in Versioned
BY SyncAssumption DEF SyncAssumption, Versioned, Revision

-----------------------------------------------------------------------------
(* Types.                                                                  *)

LEMMA InitTyped == Init => TypeOK
<1> SUFFICES ASSUME Init PROVE TypeOK
  OBVIOUS
<1> USE DEF Init
<1>1. cloud \in Versioned
  BY SyncAssumption DEF SyncAssumption, Versioned, Revision
<1>2. pc \in [Threads -> Stage]
  BY DEF AtStart, Threads, Stage
<1>3. \A t \in Threads :
        pc[t] \notin {"update", "open", "write", "replace", "record"}
  BY DEF AtStart, Threads
<1> QED BY <1>1, <1>2, <1>3 DEF TypeOK

\* The typing of the steps; got follows pc, and a thread's stage tells which
\* of its variables mean something.
LEMMA StepTyped == TypeOK /\ [Next]_vars => TypeOK'
<1> SUFFICES ASSUME TypeOK, [Next]_vars PROVE TypeOK'
  OBVIOUS
<1> USE DEF TypeOK, policy
<1>0. AtStart \in [Threads -> Stage]
      /\ \A t \in Threads : AtStart[t] \in {"start", "idle"}
  BY DEF AtStart, Threads, Stage
<1>1. ASSUME NEW rules \in Bundles, Edit(rules) PROVE TypeOK'
  <2>1. cloud' \in Versioned
    BY <1>1, CloudTyped DEF Edit
  <2>2. stream' = NoStream \/ stream' \in Seq(Revision)
    <3>1. CASE Connected
      <4>1. stream \in Seq(Revision) /\ cloud.rev + 1 \in Revision
        BY <1>1, <3>1, CloudTyped DEF Edit, Connected
      <4> QED BY <1>1, <3>1, <4>1 DEF Edit
    <3>2. CASE ~Connected
      BY <1>1, <3>2 DEF Edit
    <3> QED BY <3>1, <3>2
  <2> QED BY <1>1, <2>1, <2>2 DEF Edit
<1>2. CASE Outage
  BY <1>2 DEF Outage
<1>3. CASE Connect
  <2>1. <<cloud.rev>> \in Seq(Revision)
    BY CloudTyped
  <2> QED BY <1>3, <2>1 DEF Connect
<1>4. CASE Disconnect
  BY <1>4 DEF Disconnect
<1>5. CASE InitialSync
  <2>1. cloud.rev \in Revision
    BY CloudTyped
  <2> QED BY <1>5, <2>1 DEF InitialSync, Call, Threads, Stage
<1>6. CASE SyncEvent
  <2>1. stream \in Seq(Revision) /\ stream # <<>>
    BY <1>6 DEF SyncEvent, Connected
  <2>2. Head(stream) \in Revision /\ Tail(stream) \in Seq(Revision)
    BY <2>1
  <2>3. CASE Call("sse", Head(stream)) /\ stream' = Tail(stream)
    BY <1>6, <2>2, <2>3 DEF SyncEvent, Call, Threads, Stage
  <2>4. CASE stream' = NoStream /\ UNCHANGED <<pc, told>>
    BY <1>6, <2>4 DEF SyncEvent
  <2> QED BY <1>6, <2>3, <2>4 DEF SyncEvent
<1>7. CASE CheckConsistency
  <2>1. cloud.rev \in Revision
    BY CloudTyped
  <2> QED BY <1>7, <2>1 DEF CheckConsistency, Call, Threads, Stage
<1>8. ASSUME NEW t \in Threads, Fetch(t) PROVE TypeOK'
  BY <1>8, Marks DEF Fetch, Return, Stage
<1>9. ASSUME NEW t \in Threads, Update(t) PROVE TypeOK'
  BY <1>9 DEF Update, Stage
<1>10. ASSUME NEW t \in Threads, Open(t) PROVE TypeOK'
  BY <1>10 DEF Open, Stage
<1>11. ASSUME NEW t \in Threads, Write(t) PROVE TypeOK'
  BY <1>11 DEF Write, Overwritten, Stage
<1>12. ASSUME NEW t \in Threads, DiskRefuses(t) PROVE TypeOK'
  BY <1>12 DEF DiskRefuses, Stage
<1>13. ASSUME NEW t \in Threads, Replace(t) PROVE TypeOK'
  BY <1>13 DEF Replace, Stage
<1>14. ASSUME NEW t \in Threads, Record(t) PROVE TypeOK'
  <2>1. got[t].rev \in Revision
    BY <1>14 DEF Record, Versioned
  <2> QED BY <1>14, <2>1 DEF Record, Return, Stage
<1>15. CASE GateWindow
  BY <1>15 DEF GateWindow
<1>16. CASE GateState
  BY <1>16 DEF GateState, Decide, Judged
<1>17. CASE GateExceptions
  BY <1>17 DEF GateExceptions, Decide
<1>18. CASE Restart
  BY <1>0, <1>18 DEF Restart, Loaded
<1>19. CASE UNCHANGED vars
  BY <1>19 DEF vars
<1> QED
  BY <1>1, <1>2, <1>3, <1>4, <1>5, <1>6, <1>7, <1>8, <1>9, <1>10, <1>11,
     <1>12, <1>13, <1>14, <1>15, <1>16, <1>17, <1>18, <1>19
     DEF Next, Step, Gate

\* Whatever the stream, the disk, the outages and the other threads do, every
\* variable keeps its range, and a thread holds a bundle exactly while it is
\* updating the policy.
THEOREM SyncTypeCorrect == Spec => []TypeOK
BY InitTyped, StepTyped, PTL DEF Spec

-----------------------------------------------------------------------------
(* The gate.                                                               *)

\* The bundle in force is among those that were seen, and whoever gets past
\* the state was judged by one without lockdown.
GateInv ==
    /\ Deciding => held \in seen
    /\ gate \in {"exceptions", "granted"} /\ seen # {} =>
          \E b \in seen : ~b.rules.lockdown

LEMMA LockdownState ==
  ASSUME NEW b, NEW n, b.lockdown PROVE Rules!State(b, n) = "LOCKDOWN"
BY DEF Rules!State

LEMMA GateStep == TypeOK /\ GateInv /\ [Next]_vars => GateInv'
<1> SUFFICES ASSUME TypeOK, GateInv, [Next]_vars PROVE GateInv'
  OBVIOUS
<1> USE DEF GateInv, Deciding, policy
<1>1. ASSUME UNCHANGED <<held, gate, seen>> PROVE GateInv'
  BY <1>1
<1>2. ASSUME NEW t \in Threads, Update(t) PROVE GateInv'
  <2>1. CASE Deciding
    BY <1>2, <2>1 DEF Update
  <2>2. CASE ~Deciding
    BY <1>2, <2>2 DEF Update
  <2> QED BY <2>1, <2>2
<1>3. CASE GateWindow
  BY <1>3 DEF GateWindow
<1>4. CASE GateState
  <2>1. gate = "state" /\ held \in seen
    BY <1>4 DEF GateState
  <2>2. gate' = Judged(Rules!State(held.rules, Moment))
    BY <1>4 DEF GateState, Decide
  <2>3. CASE gate' = "idle"
    BY <1>4, <2>3 DEF GateState, Decide
  <2>4. CASE gate' # "idle"
    <3>1. ~held.rules.lockdown
      BY <2>2, <2>4, LockdownState DEF Judged
    <3>2. /\ gate' \in {"granted", "exceptions"}
          /\ seen' = seen /\ held' = held
      BY <1>4, <2>2, <2>4 DEF GateState, Decide, Judged
    <3> QED BY <2>1, <3>1, <3>2
  <2> QED BY <2>3, <2>4
<1>5. CASE GateExceptions
  BY <1>5 DEF GateExceptions, Decide
<1>6. CASE Restart
  BY <1>6 DEF Restart
<1>7. CASE UNCHANGED vars
  BY <1>1, <1>7 DEF vars
<1>8. CASE \/ \E rules \in Bundles : Edit(rules)
           \/ Outage \/ Connect \/ Disconnect
           \/ InitialSync \/ SyncEvent \/ CheckConsistency
  BY <1>1, <1>8 DEF Edit, Outage, Connect, Disconnect, InitialSync,
     SyncEvent, CheckConsistency
<1>9. ASSUME NEW t \in Threads,
             Fetch(t) \/ Open(t) \/ Write(t) \/ DiskRefuses(t)
             \/ Replace(t) \/ Record(t)
      PROVE  GateInv'
  BY <1>1, <1>9 DEF Fetch, Open, Write, DiskRefuses, Replace, Record
<1> QED
  BY <1>2, <1>3, <1>4, <1>5, <1>6, <1>7, <1>8, <1>9 DEF Next, Step, Gate

\* A hard lockdown denies, whatever updates fall between the steps of a
\* decision: nobody is let in while every bundle that was in force during it
\* locks the room down.
THEOREM LockdownAlwaysDenies == Spec => []LockdownDenies
<1>1. Init => GateInv
  BY DEF Init, GateInv, Deciding
<1>2. GateInv => LockdownDenies
  BY DEF GateInv, LockdownDenies
<1> QED BY <1>1, <1>2, GateStep, SyncTypeCorrect, PTL DEF Spec

-----------------------------------------------------------------------------
(* The cache.                                                              *)

\* While updates have not crossed, one thread at a time is past update(): its
\* bundle is the one in force, its handle points to the temporary file, and
\* that file is its own until it is renamed.
CacheInv ==
    /\ \A t, u \in Threads : Busy(t) /\ Busy(u) => t = u
    /\ \A t \in Threads :
          /\ Busy(t) => held = got[t]
          /\ fd[t] = (IF pc[t] = "write" THEN "temp" ELSE "none")
          /\ pc[t] = "write" => temp = Blank
          /\ pc[t] = "replace" => temp = got[t]
    /\ file \in Versioned \cup {NoFile}
    /\ held # NoBundle /\ ~refused
       /\ (\A t \in Threads : pc[t] \notin {"open", "write", "replace"})
          => file = held

LEMMA CacheStep ==
  TypeOK /\ (~crossed => CacheInv) /\ [Next]_vars => (~crossed => CacheInv)'
<1> SUFFICES ASSUME TypeOK, ~crossed => CacheInv, [Next]_vars, ~crossed'
             PROVE  CacheInv'
  OBVIOUS
<1>0. ~crossed
  BY DEF Next, Step, Gate, Edit, Outage, Connect, Disconnect, InitialSync,
     SyncEvent, CheckConsistency, Fetch, Update, Open, Write, DiskRefuses,
     Replace, Record, GateWindow, GateState, GateExceptions, Decide, Restart,
     vars
<1> CacheInv
  BY <1>0
<1> USE Marks DEF CacheInv, TypeOK, Busy
<1>1. ASSUME UNCHANGED <<held, got, file, temp, fd, refused>>,
             \A t \in Threads : \/ pc'[t] = pc[t]
                               \/ /\ pc[t] \notin {"open", "write", "replace"}
                                  /\ pc'[t] \in {"idle", "fetch"}
      PROVE  CacheInv'
  BY <1>1
<1>2. CASE \/ \E rules \in Bundles : Edit(rules)
           \/ Outage \/ Connect \/ Disconnect
           \/ InitialSync \/ SyncEvent \/ CheckConsistency
  BY <1>1, <1>2 DEF Edit, Outage, Connect, Disconnect, InitialSync,
     SyncEvent, CheckConsistency, Call, policy
<1>3. CASE Gate \/ UNCHANGED vars
  BY <1>1, <1>3 DEF Gate, GateWindow, GateState, GateExceptions, Decide,
     policy, vars
<1>4. ASSUME NEW t \in Threads, Fetch(t) PROVE CacheInv'
  BY <1>4 DEF Fetch, Return, policy
<1>5. ASSUME NEW t \in Threads, Update(t) PROVE CacheInv'
  <2>1. \A u \in Threads : u # t => ~Busy(u) /\ pc'[u] = pc[u]
    BY <1>5 DEF Update
  <2>2. pc'[t] = "open" /\ held' = got[t] /\ UNCHANGED <<got, file, temp, fd>>
    BY <1>5 DEF Update
  <2>3. fd[t] = "none"
    BY <1>5 DEF Update
  <2> QED
    BY <2>1, <2>2, <2>3
<1>6. ASSUME NEW t \in Threads, Open(t) PROVE CacheInv'
  BY <1>6 DEF Open
<1>7. ASSUME NEW t \in Threads, Write(t) PROVE CacheInv'
  <2>1. temp' = got[t] /\ UNCHANGED file
    BY <1>7 DEF Write, Overwritten
  <2> QED BY <1>7, <2>1 DEF Write
<1>8. ASSUME NEW t \in Threads, DiskRefuses(t) PROVE CacheInv'
  BY <1>8 DEF DiskRefuses
<1>9. ASSUME NEW t \in Threads, Replace(t) PROVE CacheInv'
  <2>1. temp = got[t] /\ temp \in Versioned /\ temp = held
    BY <1>9 DEF Replace
  <2>2. file' = held /\ temp' = NoFile
    BY <1>9, <2>1 DEF Replace
  <2> QED BY <1>9, <2>2 DEF Replace
<1>10. ASSUME NEW t \in Threads, Record(t) PROVE CacheInv'
  BY <1>10 DEF Record, Return
<1>11. CASE Restart
  BY <1>11 DEF Restart, AtStart, Loaded
<1> QED
  BY <1>2, <1>3, <1>4, <1>5, <1>6, <1>7, <1>8, <1>9, <1>10, <1>11
     DEF Next, Step

\* While no two updates crossed, the cache is a whole bundle or none whenever
\* the process dies, and between two updates it is what the door enforces
\* unless the disk refused that bundle, at whichever step of writing it.
THEOREM CacheIsWhole == Spec => []CacheWhole
<1>1. Init => CacheInv
  BY DEF Init, CacheInv, AtStart, Threads, Busy
<1>2. (~crossed => CacheInv) => CacheWhole
  BY DEF CacheInv, CacheWhole
<1> QED BY <1>1, <1>2, CacheStep, SyncTypeCorrect, PTL DEF Spec
=============================================================================
