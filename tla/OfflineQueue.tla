---------------------------- MODULE OfflineQueue ----------------------------
(***************************************************************************)
(* The buffer for audit events the cloud did not take: core/               *)
(* offline_queue.py, and CloudClient.post_event / post_alert that feed it. *)
(*                                                                         *)
(* Callers (the event pool, the denied worker, the alert timers) post an   *)
(* event themselves and hand it to the buffer when that fails; one flush   *)
(* thread takes the whole deque as a batch, posts it entry by entry        *)
(* without the lock, and puts the rest back in front of what arrived       *)
(* meanwhile.  The file is rewritten by enqueue and at the end of a flush, *)
(* not when the batch is taken.  A crash (or os._exit at the end of main,  *)
(* which does not wait for a slow flush) may come between any two steps.   *)
(* An event stands for its kind, endpoint, payload and time.               *)
(***************************************************************************)
EXTENDS Naturals, Sequences

CONSTANTS
    Events,     \* events the edge reports, numbered by their first attempt
    MaxEntries, \* QUEUE_MAX_ENTRIES
    MaxTries,   \* QUEUE_MAX_TRIES
    MaxCrashes  \* bound of the model: crashes in a behaviour

ASSUME QueueAssumption ==
    /\ Events \subseteq Nat
    /\ MaxEntries \in Nat \ {0}
    /\ MaxTries \in Nat \ {0}
    /\ MaxCrashes \in Nat

VARIABLES
    caller,  \* [Events -> ..]: how far the reporting of an event has come
    pending, \* _pending, a sequence of [ev, tries]
    batch,   \* _flush_once: what is left of batch, or kept once pc is requeue
    pc,      \* where the flush thread is
    file,    \* EVENT_QUEUE_PATH
    crashes, \* crashes so far
    \* History, read by the properties only:
    order,     \* the events enqueue took, in order
    stored,    \* [Events -> ..]: what the cloud has of an event
    stale,     \* the latest rewrite of the file failed
    exposed    \* the file was rewritten while a batch was out

queue == <<pending, batch, pc>>
history == <<order, stored, stale, exposed>>
vars == <<caller, pending, batch, pc, file, crashes, history>>

Entry == [ev: Events, tries: 0 .. MaxTries - 1]
Caller == {"idle", "failed", "done"}
\* A reply may get lost after the cloud has stored the event.
Reply == {"ok", "unheard", "unreachable", "rejected"}
\* "known": a sender was told so; "twice": stored again after that.
Storage == {"no", "unknown", "known", "twice"}

EventsOf(s) == {s[i].ev : i \in DOMAIN s}
EventSeq(s) == [i \in DOMAIN s |-> s[i].ev]

\* Everything the buffer still owes the cloud, oldest first.
Backlog == batch \o pending

TypeOK ==
    /\ caller \in [Events -> Caller]
    /\ pending \in Seq(Entry)
    /\ batch \in Seq(Entry)
    /\ pc \in {"idle", "posting", "requeue"}
    /\ pc = "idle" => batch = <<>>
    /\ file \in Seq(Entry)
    /\ crashes \in 0 .. MaxCrashes
    /\ order \in Seq(Events)
    /\ stored \in [Events -> Storage]
    /\ stale \in BOOLEAN /\ exposed \in BOOLEAN

Init ==
    /\ caller = [e \in Events |-> "idle"]
    /\ pending = <<>> /\ batch = <<>> /\ pc = "idle"
    /\ file = <<>>
    /\ crashes = 0
    /\ order = <<>>
    /\ stored = [e \in Events |-> "no"]
    /\ stale = FALSE /\ exposed = FALSE

-----------------------------------------------------------------------------
(* The cloud client.                                                       *)

\* What _request makes of a reply.  With raise_on_4xx it raises
\* CloudPermanentError for a 4xx inside its own try, whose last handler
\* (except Exception) catches it and returns None like any failure.
Request(reply) == IF reply = "ok" THEN "response" ELSE "none"

\* The cloud's side of a POST of e.
Store(e, reply) ==
    stored' = [stored EXCEPT ![e] =
                 CASE reply \notin {"ok", "unheard"} -> @
                   [] reply \in {"ok", "unheard"} /\ @ \in {"known", "twice"}
                        -> "twice"
                   [] reply = "ok" /\ @ \in {"no", "unknown"} -> "known"
                   [] reply = "unheard" /\ @ \in {"no", "unknown"} -> "unknown"]

\* post_event / post_alert: the immediate attempt.
Report(e, reply) ==
    /\ caller[e] = "idle"
    /\ \A f \in Events : f < e => caller[f] # "idle"
    /\ Store(e, reply)
    /\ caller' = [caller EXCEPT
                    ![e] = IF Request(reply) = "none" THEN "failed" ELSE "done"]
    /\ UNCHANGED <<queue, file, crashes, order, stale, exposed>>

-----------------------------------------------------------------------------
(* The buffer.                                                             *)

\* _persist_locked: the whole file is replaced, or an OSError leaves it.
Persist(entries) ==
    \/ file' = entries /\ stale' = FALSE
    \/ file' = file /\ stale' = TRUE

\* Fault: a full deque refuses the new event and says nothing.
AppendedRefusing(e) ==
    IF Len(pending) >= MaxEntries THEN pending
    ELSE Append(pending, [ev |-> e, tries |-> 0])

\* The deque after enqueue: the cap drops the oldest entry of the deque.
Appended(e) ==
    Append(IF Len(pending) >= MaxEntries THEN Tail(pending) ELSE pending,
           [ev |-> e, tries |-> 0])

\* enqueue, under the lock.
Enqueue(e) ==
    /\ caller[e] = "failed"
    /\ caller' = [caller EXCEPT ![e] = "done"]
    /\ pending' = Appended(e)
    /\ Persist(pending')
    /\ order' = Append(order, e)
    /\ exposed' = (pc # "idle")
    /\ UNCHANGED <<batch, pc, crashes, stored>>

\* Fault: the emptied deque is written out with the batch still in memory.
FileOnTakeEmptied == <<>>

\* Taking the batch leaves the file alone.
FileOnTake == file

\* _flush_once, first critical section.
TakeBatch ==
    /\ pc = "idle" /\ pending # <<>>
    /\ batch' = pending
    /\ pending' = <<>>
    /\ pc' = "posting"
    /\ file' = FileOnTake
    /\ UNCHANGED <<caller, crashes, history>>

\* Fault: an entry may fail one cycle more than the limit.
FailedOnceMore ==
    LET first == [Head(batch) EXCEPT !.tries = @ + 1]
    IN  IF first.tries > MaxTries THEN Tail(batch)
        ELSE <<first>> \o Tail(batch)

\* Fault: the counter of failed cycles is not kept.
FailedUncounted == batch

\* Fault: only the failed entry is kept, not the tail behind it.
FailedAlone ==
    LET first == [Head(batch) EXCEPT !.tries = @ + 1]
    IN  IF first.tries >= MaxTries THEN Tail(batch) ELSE <<first>>

\* What is left of the batch when its first entry fails: the entry waits
\* for the next cycle, or is given up after MaxTries of them.
Failed ==
    LET first == [Head(batch) EXCEPT !.tries = @ + 1]
    IN  IF first.tries >= MaxTries THEN Tail(batch)
        ELSE <<first>> \o Tail(batch)

\* Fault: after a delivery the loop runs on into the failure branch.
AnsweredRetried(answer) == Failed

Answered(answer) ==
    IF answer \in {"response", "permanent"} THEN Tail(batch) ELSE Failed

\* _flush_once, one round of its loop.  It ends at the first entry that is
\* kept, or with the batch.
FlushPost(reply) ==
    /\ pc = "posting" /\ batch # <<>>
    /\ Store(Head(batch).ev, reply)
    /\ batch' = Answered(Request(reply))
    /\ pc' = IF batch' = Tail(batch) THEN "posting" ELSE "requeue"
    /\ UNCHANGED <<caller, pending, file, crashes, order, stale, exposed>>

\* Fault: extendleft without reversed() turns the kept entries around.
RequeuedReversed ==
    [i \in DOMAIN batch |-> batch[Len(batch) + 1 - i]] \o pending

\* Kept entries go in front of anything newly enqueued.
Requeued == batch \o pending

\* _flush_once, last critical section.
Requeue ==
    /\ \/ pc = "requeue"
       \/ pc = "posting" /\ batch = <<>>
    /\ pending' = Requeued
    /\ batch' = <<>>
    /\ pc' = "idle"
    /\ Persist(pending')
    /\ exposed' = FALSE
    /\ UNCHANGED <<caller, crashes, order, stored>>

\* The process dies and comes back: _load reads the file, or an OSError
\* leaves the buffer empty.  Reports under way die with their threads.
Crash ==
    /\ crashes < MaxCrashes
    /\ crashes' = crashes + 1
    /\ pending' \in {file, <<>>}
    /\ stale' = FALSE
    /\ batch' = <<>>
    /\ pc' = "idle"
    /\ caller' = [e \in Events |->
                    IF caller[e] = "failed" THEN "done" ELSE caller[e]]
    /\ exposed' = FALSE
    /\ stored' = [e \in Events |->
                    IF stored[e] = "known" THEN "unknown" ELSE stored[e]]
    /\ UNCHANGED <<file, order>>

Flush == TakeBatch \/ (\E reply \in Reply : FlushPost(reply)) \/ Requeue

Next ==
    \/ \E e \in Events, reply \in Reply : Report(e, reply)
    \/ \E e \in Events : Enqueue(e)
    \/ Flush
    \/ Crash

\* The flush thread wakes up at the latest every QUEUE_FLUSH_INTERVAL and
\* every request has a timeout, so the thread keeps going.
Spec == Init /\ [][Next]_vars /\ WF_vars(Flush)

-----------------------------------------------------------------------------
(* Properties.                                                             *)

\* The backlog is in the order in which enqueue took the events, whatever
\* was requeued, evicted or reloaded, and holds no event twice.
Ticket(e) == CHOOSE i \in DOMAIN order : order[i] = e
InOrder ==
    /\ EventsOf(Backlog) \subseteq EventsOf([i \in DOMAIN order |->
                                                [ev |-> order[i]]])
    /\ \A i, j \in DOMAIN Backlog :
          i < j => Ticket(Backlog[i].ev) < Ticket(Backlog[j].ev)

\* Until an enqueue rewrites the file during a flush, or a rewrite fails,
\* the file holds everything the buffer owes: a crash loses nothing.
CrashSafe == ~stale /\ ~exposed => EventsOf(Backlog) \subseteq EventsOf(file)

\* A sender that was told of a delivery does not send the event again: the
\* cloud gets an event twice only after a lost reply or a restart.
NoDuplicate == \A e \in Events : stored[e] # "twice"

\* Every buffered event leaves the buffer in the end, even when the cloud
\* never answers: failed cycles are counted and the counter is bounded.
Drains ==
    \A e \in Events : e \in EventsOf(Backlog) ~> e \notin EventsOf(Backlog)

\* The buffer keeps the promise of AuditQueue, with batch and deque
\* together as its backlog.
Audit == INSTANCE AuditQueue
            WITH accepted <- order, backlog <- EventSeq(Backlog),
                 restarts <- crashes
ImplementsAudit == Audit!ASpec

\* offline_queue.py: "appended to a JSONL file so it survives restarts".
\* A restart that can read a file that could be written keeps the backlog.
SurvivesRestart ==
    [][Crash /\ ~stale /\ pending' = file
       => EventsOf(Backlog) \subseteq EventsOf(pending')]_vars

\* offline_queue.py: "Server definitively rejected this entry (4xx) - drop
\* it".  An entry answered so is not in the buffer any more.
RefusedIsDropped ==
    [][FlushPost("rejected") => Head(batch).ev \notin EventsOf(batch')]_vars
=============================================================================
