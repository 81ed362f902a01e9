------------------------- MODULE OfflineQueueProofs -------------------------
(***************************************************************************)
(* Proofs about OfflineQueue, for any number of events, any capacity, any  *)
(* number of attempts and any number of crashes: its type invariant, that  *)
(* the backlog stays in order, that a file which could be written covers   *)
(* it, that no sender repeats a delivery it was told of, and that the      *)
(* buffer implements AuditQueue.                                           *)
(*                                                                         *)
(* None of these is inductive by itself.  A crash makes the file the       *)
(* backlog, so the file must be in order too.  Order is by ticket, so no   *)
(* event may have two: an event that has one is done with its caller.  And *)
(* the cloud gets nothing twice because whatever is still to be sent - by  *)
(* its caller or from the backlog - was never confirmed, and the backlog   *)
(* holds no event twice.                                                   *)
(***************************************************************************)
EXTENDS OfflineQueue, SequenceTheorems, TLAPS

Ticketed(o, e) == \E k \in DOMAIN o : o[k] = e
TicketIn(o, e) == CHOOSE i \in DOMAIN o : o[i] = e

\* s holds entries with tickets of o, in the order of their tickets.
Ordered(o, s) ==
    /\ \A i \in 1 .. Len(s) : Ticketed(o, s[i].ev)
    /\ \A i, j \in 1 .. Len(s) :
          i < j => TicketIn(o, s[i].ev) < TicketIn(o, s[j].ev)

Once(o) == \A i, j \in DOMAIN o : o[i] = o[j] => i = j

\* An event gets one ticket, and then its caller is done with it.
OneTicket ==
    /\ Once(order)
    /\ \A e \in Events : Ticketed(order, e) => caller[e] = "done"

Unconfirmed == {"no", "unknown"}

\* What is still to be sent was never confirmed.
OwedUnconfirmed ==
    /\ \A e \in Events : caller[e] # "done" => stored[e] \in Unconfirmed
    /\ \A i \in 1 .. Len(Backlog) : stored[Backlog[i].ev] \in Unconfirmed

Placed == Ordered(order, Backlog) /\ Ordered(order, file)

QueueInv ==
    /\ TypeOK
    /\ OneTicket /\ Placed
    /\ CrashSafe
    /\ OwedUnconfirmed /\ NoDuplicate

-----------------------------------------------------------------------------
(* Sequences of entries.                                                   *)

\* The events of t are some of those of s, in the same order.
Part(t, s) ==
    \E f \in [1 .. Len(t) -> 1 .. Len(s)] :
        /\ \A i, j \in 1 .. Len(t) : i < j => f[i] < f[j]
        /\ \A i \in 1 .. Len(t) : t[i].ev = s[f[i]].ev

\* A backlog of which some events are left stays in order, ...
LEMMA PartOrdered ==
  ASSUME NEW s \in Seq(Entry), NEW t \in Seq(Entry), Part(t, s),
         NEW o, Ordered(o, s)
  PROVE  Ordered(o, t)
<1>1. PICK f \in [1 .. Len(t) -> 1 .. Len(s)] :
         /\ \A i, j \in 1 .. Len(t) : i < j => f[i] < f[j]
         /\ \A i \in 1 .. Len(t) : t[i].ev = s[f[i]].ev
  BY DEF Part
<1>2. \A i \in 1 .. Len(t) : f[i] \in 1 .. Len(s)
  BY <1>1
<1> QED
  BY <1>1, <1>2 DEF Ordered

\* ... and holds nothing new.
LEMMA PartEvents ==
  ASSUME NEW s \in Seq(Entry), NEW t \in Seq(Entry), Part(t, s)
  PROVE  /\ \A i \in 1 .. Len(t) : \E j \in 1 .. Len(s) : t[i].ev = s[j].ev
         /\ EventsOf(t) \subseteq EventsOf(s)
<1>1. \A i \in 1 .. Len(t) : \E j \in 1 .. Len(s) : t[i].ev = s[j].ev
  BY DEF Part
<1>2. DOMAIN s = 1 .. Len(s) /\ DOMAIN t = 1 .. Len(t)
  OBVIOUS
<1> QED
  BY <1>1, <1>2 DEF EventsOf

\* Entries of the same events, whatever their tries.
LEMMA PartSame ==
  ASSUME NEW s \in Seq(Entry), NEW t \in Seq(Entry), Len(t) = Len(s),
         \A i \in 1 .. Len(t) : t[i].ev = s[i].ev
  PROVE  Part(t, s)
<1> DEFINE f == [i \in 1 .. Len(t) |-> i]
<1>1. f \in [1 .. Len(t) -> 1 .. Len(s)]
  OBVIOUS
<1>2. \A i, j \in 1 .. Len(t) : i < j => f[i] < f[j]
  OBVIOUS
<1>3. \A i \in 1 .. Len(t) : t[i].ev = s[f[i]].ev
  OBVIOUS
<1> QED
  BY <1>1, <1>2, <1>3 DEF Part

\* The first entry leaves.
LEMMA PartTail ==
  ASSUME NEW s \in Seq(Entry), s # <<>>
  PROVE  Part(Tail(s), s)
<1>1. /\ Len(Tail(s)) = Len(s) - 1
      /\ \A i \in 1 .. Len(Tail(s)) : Tail(s)[i] = s[i + 1]
  BY HeadTailProperties
<1> DEFINE f == [i \in 1 .. Len(Tail(s)) |-> i + 1]
<1>2. f \in [1 .. Len(Tail(s)) -> 1 .. Len(s)]
  BY <1>1
<1>3. \A i, j \in 1 .. Len(Tail(s)) : i < j => f[i] < f[j]
  OBVIOUS
<1>4. \A i \in 1 .. Len(Tail(s)) : Tail(s)[i].ev = s[f[i]].ev
  BY <1>1
<1> QED
  BY <1>2, <1>3, <1>4 DEF Part

\* Two buffers, one behind the other.
LEMMA PartConcat ==
  ASSUME NEW s \in Seq(Entry), NEW t \in Seq(Entry), Part(t, s),
         NEW u \in Seq(Entry), NEW v \in Seq(Entry), Part(v, u)
  PROVE  Part(t \o v, s \o u)
<1>1. PICK f \in [1 .. Len(t) -> 1 .. Len(s)] :
         /\ \A i, j \in 1 .. Len(t) : i < j => f[i] < f[j]
         /\ \A i \in 1 .. Len(t) : t[i].ev = s[f[i]].ev
  BY DEF Part
<1>2. PICK g \in [1 .. Len(v) -> 1 .. Len(u)] :
         /\ \A i, j \in 1 .. Len(v) : i < j => g[i] < g[j]
         /\ \A i \in 1 .. Len(v) : v[i].ev = u[g[i]].ev
  BY DEF Part
<1>3. /\ Len(t \o v) = Len(t) + Len(v) /\ Len(s \o u) = Len(s) + Len(u)
      /\ \A i \in 1 .. Len(t) + Len(v) :
            (t \o v)[i] = IF i <= Len(t) THEN t[i] ELSE v[i - Len(t)]
      /\ \A i \in 1 .. Len(s) + Len(u) :
            (s \o u)[i] = IF i <= Len(s) THEN s[i] ELSE u[i - Len(s)]
  BY ConcatProperties
<1>4. /\ Len(t) \in Nat /\ Len(v) \in Nat /\ Len(s) \in Nat /\ Len(u) \in Nat
      /\ \A i \in 1 .. Len(t) : f[i] \in 1 .. Len(s)
      /\ \A i \in 1 .. Len(v) : g[i] \in 1 .. Len(u)
  <2>1. Len(t) \in Nat /\ Len(v) \in Nat /\ Len(s) \in Nat /\ Len(u) \in Nat
    OBVIOUS
  <2> QED
    BY <2>1
<1> DEFINE h == [i \in 1 .. Len(t \o v) |->
                   IF i <= Len(t) THEN f[i] ELSE Len(s) + g[i - Len(t)]]
<1>5. h \in [1 .. Len(t \o v) -> 1 .. Len(s \o u)]
  BY <1>3, <1>4
<1>6. ASSUME NEW i \in 1 .. Len(t \o v), NEW j \in 1 .. Len(t \o v), i < j
      PROVE  h[i] < h[j]
  <2>1. CASE j <= Len(t)
    BY <1>1, <1>3, <1>4, <1>6, <2>1
  <2>2. CASE i <= Len(t) /\ Len(t) < j
    <3>1. h[i] <= Len(s) /\ h[j] = Len(s) + g[j - Len(t)]
      BY <1>3, <1>4, <2>2
    <3>2. g[j - Len(t)] \in 1 .. Len(u)
      BY <1>3, <1>4, <2>2
    <3>3. h[i] \in Int
      BY <1>3, <1>4, <2>2
    <3> HIDE DEF h
    <3> QED
      BY <1>4, <3>1, <3>2, <3>3
  <2>3. CASE Len(t) < i
    <3>1. h[i] = Len(s) + g[i - Len(t)] /\ h[j] = Len(s) + g[j - Len(t)]
      BY <1>3, <1>4, <1>6, <2>3
    <3>2. i - Len(t) \in 1 .. Len(v) /\ j - Len(t) \in 1 .. Len(v)
      BY <1>3, <1>4, <1>6, <2>3
    <3>3. i - Len(t) < j - Len(t)
      BY <1>3, <1>4, <1>6
    <3>4. g[i - Len(t)] < g[j - Len(t)]
      BY <1>2, <3>2, <3>3
    <3>5. g[i - Len(t)] \in 1 .. Len(u) /\ g[j - Len(t)] \in 1 .. Len(u)
      BY <1>4, <3>2
    <3> HIDE DEF h
    <3> QED
      BY <1>4, <3>1, <3>4, <3>5
  <2> QED
    BY <1>4, <1>6, <2>1, <2>2, <2>3
<1>7. ASSUME NEW i \in 1 .. Len(t \o v)
      PROVE  (t \o v)[i].ev = (s \o u)[h[i]].ev
  <2>1. CASE i <= Len(t)
    BY <1>1, <1>3, <1>4, <2>1
  <2>2. CASE Len(t) < i
    <3>1. i - Len(t) \in 1 .. Len(v)
      BY <1>3, <1>4, <2>2
    <3>2. h[i] = Len(s) + g[i - Len(t)] /\ g[i - Len(t)] \in 1 .. Len(u)
      BY <1>3, <1>4, <2>2, <3>1
    <3> HIDE DEF h
    <3>3. (t \o v)[i] = v[i - Len(t)]
      BY <1>3, <1>4, <2>2
    <3>4. (s \o u)[h[i]] = u[h[i] - Len(s)]
      <4>1. h[i] \in 1 .. Len(s) + Len(u) /\ ~(h[i] <= Len(s))
        BY <1>4, <3>2
      <4> QED
        BY <1>3, <4>1
    <3>5. h[i] - Len(s) = g[i - Len(t)]
      BY <1>4, <3>2
    <3> QED
      BY <1>2, <3>1, <3>3, <3>4, <3>5
  <2>3. i <= Len(t) \/ Len(t) < i
    BY <1>3, <1>4
  <2> HIDE DEF h
  <2> QED
    BY <2>1, <2>2, <2>3
<1> QED
  BY <1>5, <1>6, <1>7 DEF Part

\* The buffer is a part of itself, and so is what is behind the batch.
LEMMA PartOfWhole ==
  ASSUME NEW s \in Seq(Entry), NEW t \in Seq(Entry)
  PROVE  Part(s, s) /\ Part(t, s \o t) /\ s \o t \in Seq(Entry)
<1>1. Part(s, s) /\ Part(t, t)
  BY PartSame
<1>2. <<>> \in Seq(Entry) /\ Len(<<>>) = 0
  BY EmptySeq
<1>3. Part(<<>>, s)
  <2> DEFINE f == [i \in 1 .. 0 |-> i]
  <2>1. f \in [1 .. 0 -> 1 .. Len(s)]
    OBVIOUS
  <2> HIDE DEF f
  <2>2. \A i \in 1 .. 0 : FALSE
    OBVIOUS
  <2> QED
    BY <1>2, <2>1, <2>2 DEF Part
<1>4. Part(<<>> \o t, s \o t)
  BY <1>1, <1>2, <1>3, PartConcat
<1>5. <<>> \o t = t /\ s \o t \in Seq(Entry)
  BY ConcatEmptySeq, ConcatProperties
<1> QED
  BY <1>1, <1>4, <1>5

\* The backlog, entry by entry.
LEMMA BacklogIs ==
  ASSUME TypeOK
  PROVE  /\ Backlog \in Seq(Entry)
         /\ Len(Backlog) = Len(batch) + Len(pending)
         /\ \A i \in 1 .. Len(Backlog) :
               Backlog[i] = IF i <= Len(batch) THEN batch[i]
                            ELSE pending[i - Len(batch)]
         /\ batch = <<>> => Backlog = pending
         /\ pending = <<>> => Backlog = batch
<1>1. batch \in Seq(Entry) /\ pending \in Seq(Entry)
  BY DEF TypeOK
<1>2. /\ batch = <<>> => Backlog = pending
      /\ pending = <<>> => Backlog = batch
  BY <1>1, ConcatEmptySeq DEF Backlog
<1>3. /\ Backlog \in Seq(Entry)
      /\ Len(Backlog) = Len(batch) + Len(pending)
      /\ \A i \in 1 .. Len(batch) + Len(pending) :
            Backlog[i] = IF i <= Len(batch) THEN batch[i]
                         ELSE pending[i - Len(batch)]
  BY <1>1, ConcatProperties DEF Backlog
<1> QED
  BY <1>2, <1>3

-----------------------------------------------------------------------------
(* Tickets.                                                                *)

\* In a sequence without repetition an element has one place.
LEMMA PlaceIs ==
  ASSUME NEW S, NEW s \in Seq(S), NEW k \in DOMAIN s, Once(s)
  PROVE  TicketIn(s, s[k]) = k
  BY DEF Once, TicketIn

\* q goes on from o: e gets the next ticket, the others keep theirs.
Extended(q, o, e) ==
    /\ Once(q)
    /\ \A x : Ticketed(q, x) <=> Ticketed(o, x) \/ x = e
    /\ \A x : Ticketed(o, x) => /\ TicketIn(q, x) = TicketIn(o, x)
                                /\ TicketIn(o, x) \in 1 .. Len(o)
    /\ TicketIn(q, e) = Len(o) + 1

\* A new event gets the next ticket.
LEMMA NextTicket ==
  ASSUME NEW o \in Seq(Events), Once(o), NEW e \in Events, ~Ticketed(o, e),
         NEW q \in Seq(Events), q = Append(o, e)
  PROVE  Extended(q, o, e)
<1>1. DOMAIN o = 1 .. Len(o) /\ Len(o) \in Nat
  OBVIOUS
<1>2. /\ Len(q) = Len(o) + 1
      /\ \A i \in 1 .. Len(o) : q[i] = o[i]
      /\ q[Len(o) + 1] = e
  BY AppendProperties
<1>3. DOMAIN q = 1 .. Len(o) + 1
  BY <1>2
<1>4. \A i \in 1 .. Len(o) : o[i] # e
  BY <1>1 DEF Ticketed
<1>5. Once(q)
  BY <1>1, <1>2, <1>3, <1>4 DEF Once
<1>6. \A x : Ticketed(q, x) <=> Ticketed(o, x) \/ x = e
  BY <1>1, <1>2, <1>3 DEF Ticketed
<1>7. ASSUME NEW x, Ticketed(o, x)
      PROVE  TicketIn(q, x) = TicketIn(o, x) /\ TicketIn(o, x) \in 1 .. Len(o)
  <2>1. PICK k \in DOMAIN o : o[k] = x
    BY <1>7 DEF Ticketed
  <2>2. TicketIn(o, x) = k
    BY <1>1, <2>1, PlaceIs
  <2>3. k \in DOMAIN q /\ q[k] = x
    BY <1>1, <1>2, <1>3, <2>1
  <2>4. TicketIn(q, x) = k
    BY <1>2, <1>5, <2>3, PlaceIs
  <2> QED
    BY <1>1, <2>2, <2>4
<1>8. TicketIn(q, e) = Len(o) + 1
  <2>1. Len(o) + 1 \in DOMAIN q
    BY <1>1, <1>3
  <2>2. TicketIn(q, q[Len(o) + 1]) = Len(o) + 1
    BY <1>5, <2>1, PlaceIs
  <2> QED
    BY <1>2, <2>2
<1> QED
  BY <1>2, <1>5, <1>6, <1>7, <1>8 DEF Extended

\* A buffer in order stays so when a new event gets a ticket, and when the
\* event joins it at the end.
LEMMA OrderedAppend ==
  ASSUME NEW o \in Seq(Events), NEW e \in Events, NEW q, Extended(q, o, e),
         NEW s \in Seq(Entry), Ordered(o, s), NEW x \in Entry, x.ev = e
  PROVE  Ordered(q, s) /\ Ordered(q, Append(s, x))
<1>1. /\ \A y : Ticketed(q, y) <=> Ticketed(o, y) \/ y = e
      /\ \A y : Ticketed(o, y) => /\ TicketIn(q, y) = TicketIn(o, y)
                                  /\ TicketIn(o, y) \in 1 .. Len(o)
      /\ TicketIn(q, e) = Len(o) + 1
  BY DEF Extended
<1>2. /\ Len(Append(s, x)) = Len(s) + 1
      /\ \A i \in 1 .. Len(s) : Append(s, x)[i] = s[i]
      /\ Append(s, x)[Len(s) + 1] = x
      /\ Len(s) \in Nat /\ Len(o) \in Nat
  BY AppendProperties
<1>3. /\ \A i \in 1 .. Len(s) : Ticketed(o, s[i].ev)
      /\ \A i, j \in 1 .. Len(s) :
            i < j => TicketIn(o, s[i].ev) < TicketIn(o, s[j].ev)
  BY DEF Ordered
<1>4. /\ \A i \in 1 .. Len(s) : Ticketed(q, s[i].ev)
      /\ \A i \in 1 .. Len(s) : TicketIn(q, s[i].ev) = TicketIn(o, s[i].ev)
  BY <1>1, <1>3
<1>5. Ordered(q, s)
  BY <1>3, <1>4 DEF Ordered
<1>6. \A i \in 1 .. Len(s) + 1 : Ticketed(q, Append(s, x)[i].ev)
  BY <1>1, <1>2, <1>4
<1>7. ASSUME NEW i \in 1 .. Len(s) + 1, NEW j \in 1 .. Len(s) + 1, i < j
      PROVE  TicketIn(q, Append(s, x)[i].ev) < TicketIn(q, Append(s, x)[j].ev)
  <2>1. i \in 1 .. Len(s)
    BY <1>2, <1>7
  <2>2. CASE j \in 1 .. Len(s)
    BY <1>2, <1>3, <1>4, <1>7, <2>1, <2>2
  <2>3. CASE j = Len(s) + 1
    <3>1. /\ TicketIn(q, s[i].ev) \in 1 .. Len(o)
          /\ TicketIn(q, Append(s, x)[j].ev) = Len(o) + 1
      BY <1>1, <1>2, <1>3, <1>4, <2>1, <2>3
    <3>2. Append(s, x)[i] = s[i]
      BY <1>2, <2>1
    <3> QED
      BY <1>2, <3>1, <3>2
  <2> QED
    BY <1>2, <2>2, <2>3
<1> QED
  BY <1>2, <1>5, <1>6, <1>7 DEF Ordered

-----------------------------------------------------------------------------
(* What the operations do to the buffer.                                   *)

\* The capacity drops the oldest entry of the deque, if any.
Kept == IF Len(pending) >= MaxEntries THEN Tail(pending) ELSE pending

New(e) == [ev |-> e, tries |-> 0]

LEMMA NewEntry == ASSUME NEW e \in Events PROVE New(e) \in Entry /\ New(e).ev = e
  BY QueueAssumption DEF QueueAssumption, New, Entry

\* A full deque is not empty.
LEMMA KeptIsPart ==
  ASSUME TypeOK
  PROVE  /\ Kept \in Seq(Entry) /\ Part(Kept, pending)
         /\ \A e : Appended(e) = Append(Kept, New(e))
         /\ Len(pending) >= MaxEntries => pending # <<>>
<1>1. pending \in Seq(Entry)
  BY DEF TypeOK
<1>2. Len(pending) >= MaxEntries => pending # <<>>
  BY QueueAssumption DEF QueueAssumption
<1>3. CASE Len(pending) >= MaxEntries
  BY <1>1, <1>2, <1>3, PartTail, HeadTailProperties
     DEF Kept, Appended, New
<1>4. CASE ~(Len(pending) >= MaxEntries)
  BY <1>1, <1>4, PartOfWhole DEF Kept, Appended, New
<1> QED
  BY <1>2, <1>3, <1>4

\* The backlog after an enqueue: what is kept of it, and the new entry.
LEMMA BacklogEnqueued ==
  ASSUME TypeOK, NEW e \in Events
  PROVE  /\ Appended(e) \in Seq(Entry)
         /\ batch \o Kept \in Seq(Entry) /\ Part(batch \o Kept, Backlog)
         /\ batch \o Appended(e) = Append(batch \o Kept, New(e))
<1>1. /\ batch \in Seq(Entry) /\ pending \in Seq(Entry)
      /\ Kept \in Seq(Entry) /\ Part(Kept, pending)
      /\ New(e) \in Entry /\ Appended(e) = Append(Kept, New(e))
  BY KeptIsPart, NewEntry DEF TypeOK
<1>2. Part(batch, batch) /\ batch \o Kept \in Seq(Entry)
  BY <1>1, PartOfWhole
<1>3. Part(batch \o Kept, batch \o pending)
  BY <1>1, <1>2, PartConcat
<1>4. batch \o Append(Kept, New(e)) = Append(batch \o Kept, New(e))
  <2>1. <<New(e)>> \in Seq(Entry)
    BY <1>1
  <2>2. /\ Append(Kept, New(e)) = Kept \o <<New(e)>>
        /\ Append(batch \o Kept, New(e)) = (batch \o Kept) \o <<New(e)>>
    BY <1>1, <1>2, AppendIsConcat
  <2> QED
    BY <1>1, <2>1, <2>2, ConcatAssociative
<1>5. Appended(e) \in Seq(Entry)
  BY <1>1, AppendProperties
<1> QED
  BY <1>1, <1>2, <1>3, <1>4, <1>5 DEF Backlog

\* A failed entry stays with one more try, or is given up: the batch keeps
\* its events or loses the first of them.
LEMMA FailedIs ==
  ASSUME TypeOK, batch # <<>>
  PROVE  /\ Failed \in Seq(Entry) /\ Tail(batch) \in Seq(Entry)
         /\ Part(Tail(batch), batch)
         /\ Failed # Tail(batch) =>
               /\ Len(Failed) = Len(batch)
               /\ \A i \in 1 .. Len(batch) : Failed[i].ev = batch[i].ev
<1> DEFINE first == [Head(batch) EXCEPT !.tries = @ + 1]
<1>1. /\ batch \in Seq(Entry) /\ Head(batch) \in Entry
      /\ Tail(batch) \in Seq(Entry) /\ Len(Tail(batch)) = Len(batch) - 1
      /\ \A i \in 1 .. Len(Tail(batch)) : Tail(batch)[i] = batch[i + 1]
  BY HeadTailProperties DEF TypeOK
<1>2. first.ev = Head(batch).ev /\ first.tries = Head(batch).tries + 1
  BY <1>1 DEF Entry
<1>3. CASE first.tries >= MaxTries
  BY <1>1, <1>3, PartTail DEF Failed
<1>4. CASE ~(first.tries >= MaxTries)
  <2>1. first \in Entry
    <3>1. Head(batch).tries \in 0 .. MaxTries - 1 /\ MaxTries \in Nat
      BY <1>1, QueueAssumption DEF QueueAssumption, Entry
    <3>2. first.tries \in 0 .. MaxTries - 1
      BY <1>2, <1>4, <3>1
    <3> QED
      BY <1>1, <1>2, <3>2 DEF Entry
  <2>2. <<first>> \in Seq(Entry) /\ Len(<<first>>) = 1 /\ <<first>>[1] = first
    BY <2>1
  <2> HIDE DEF first
  <2>3. /\ <<first>> \o Tail(batch) \in Seq(Entry)
        /\ Len(<<first>> \o Tail(batch)) = Len(batch)
        /\ \A i \in 1 .. Len(batch) :
              (<<first>> \o Tail(batch))[i] =
                 IF i <= 1 THEN first ELSE Tail(batch)[i - 1]
    BY <1>1, <2>2, ConcatProperties
  <2>4. Head(batch) = batch[1] /\ Len(batch) \in Nat
    BY <1>1
  <2>5. ASSUME NEW i \in 1 .. Len(batch)
        PROVE  (<<first>> \o Tail(batch))[i].ev = batch[i].ev
    <3>1. CASE i = 1
      BY <1>2, <2>3, <2>4, <3>1
    <3>2. CASE i # 1
      <4>1. i - 1 \in 1 .. Len(Tail(batch)) /\ ~(i <= 1)
        BY <1>1, <2>4, <3>2
      <4> QED
        BY <1>1, <2>3, <2>4, <4>1
    <3> QED
      BY <3>1, <3>2
  <2>6. Failed = <<first>> \o Tail(batch)
    BY <1>4 DEF Failed, first
  <2> QED
    BY <1>1, <2>3, <2>5, <2>6, PartTail
<1> QED
  BY <1>3, <1>4

\* What the cloud has of an event it is sent, and of the others.
LEMMA StoreIs ==
  ASSUME TypeOK, NEW e \in Events, NEW reply \in Reply, Store(e, reply)
  PROVE  /\ stored' \in [Events -> Storage]
         /\ \A f \in Events : f # e => stored'[f] = stored[f]
         /\ stored[e] \in Unconfirmed =>
               /\ stored'[e] # "twice"
               /\ reply # "ok" => stored'[e] \in Unconfirmed
<1>1. stored \in [Events -> Storage] /\ stored[e] \in Storage
  BY DEF TypeOK
<1> DEFINE now ==
      CASE reply \notin {"ok", "unheard"} -> stored[e]
        [] reply \in {"ok", "unheard"} /\ stored[e] \in {"known", "twice"}
             -> "twice"
        [] reply = "ok" /\ stored[e] \in {"no", "unknown"} -> "known"
        [] reply = "unheard" /\ stored[e] \in {"no", "unknown"} -> "unknown"
<1>2. stored' = [stored EXCEPT ![e] = now]
  BY DEF Store
<1>3. now \in Storage
  BY <1>1 DEF Storage, Reply
<1>4. stored[e] \in Unconfirmed =>
        now # "twice" /\ (reply # "ok" => now \in Unconfirmed)
  BY DEF Reply, Unconfirmed
<1> HIDE DEF now
<1> QED
  BY <1>1, <1>2, <1>3, <1>4

-----------------------------------------------------------------------------
(* The steps.                                                              *)

\* The entries of the backlog are events whose callers are done with them,
\* each of them once.
LEMMA BacklogEvents ==
  ASSUME QueueInv
  PROVE  /\ \A i \in 1 .. Len(Backlog) :
               /\ Backlog[i].ev \in Events
               /\ Ticketed(order, Backlog[i].ev)
               /\ caller[Backlog[i].ev] = "done"
         /\ \A i, j \in 1 .. Len(Backlog) :
               i < j => Backlog[i].ev # Backlog[j].ev
<1>1. Backlog \in Seq(Entry)
  BY BacklogIs DEF QueueInv
<1>2. \A i \in 1 .. Len(Backlog) : /\ Backlog[i].ev \in Events
                                   /\ Ticketed(order, Backlog[i].ev)
  <2>1. \A i \in 1 .. Len(Backlog) : Backlog[i] \in Entry
    BY <1>1
  <2>2. \A i \in 1 .. Len(Backlog) : Backlog[i].ev \in Events
    BY <2>1 DEF Entry
  <2> QED
    BY <2>2 DEF QueueInv, Placed, Ordered
<1>3. ASSUME NEW i \in 1 .. Len(Backlog), NEW j \in 1 .. Len(Backlog), i < j,
             Backlog[i].ev = Backlog[j].ev
      PROVE  FALSE
  <2>1. TicketIn(order, Backlog[i].ev) < TicketIn(order, Backlog[j].ev)
    BY <1>3 DEF QueueInv, Placed, Ordered
  <2>2. TicketIn(order, Backlog[i].ev) \in Nat
    <3>1. order \in Seq(Events) /\ Once(order)
      BY DEF QueueInv, TypeOK, OneTicket
    <3>2. PICK k \in DOMAIN order : order[k] = Backlog[i].ev
      BY <1>2 DEF Ticketed
    <3>3. TicketIn(order, Backlog[i].ev) = k
      BY <3>1, <3>2, PlaceIs
    <3> QED
      BY <3>1, <3>2, <3>3
  <2> QED
    BY <1>3, <2>1, <2>2
<1> QED
  BY <1>2, <1>3 DEF QueueInv, OneTicket

\* The buffer starts with nothing to deliver and an empty file.
LEMMA QueueInit == Init => QueueInv
<1> SUFFICES ASSUME Init PROVE QueueInv
  OBVIOUS
<1>1. /\ pending = <<>> /\ batch = <<>> /\ file = <<>> /\ order = <<>>
      /\ <<>> \in Seq(Entry) /\ <<>> \in Seq(Events) /\ Len(<<>>) = 0
  BY EmptySeq DEF Init
<1>2. TypeOK
  <2>1. caller \in [Events -> Caller] /\ stored \in [Events -> Storage]
    BY DEF Init, Caller, Storage
  <2>2. crashes \in 0 .. MaxCrashes
    BY QueueAssumption DEF QueueAssumption, Init
  <2>3. /\ pending \in Seq(Entry) /\ batch \in Seq(Entry)
        /\ file \in Seq(Entry) /\ order \in Seq(Events)
    BY <1>1
  <2> QED
    BY <1>1, <2>1, <2>2, <2>3 DEF Init, TypeOK
<1>3. Backlog = <<>> /\ DOMAIN Backlog = {} /\ DOMAIN order = {}
  BY <1>1, <1>2, BacklogIs
<1>4. OneTicket
  BY <1>3 DEF OneTicket, Once, Ticketed
<1>5. Placed
  BY <1>1, <1>3 DEF Placed, Ordered
<1>6. CrashSafe
  BY <1>3 DEF CrashSafe, EventsOf
<1>7. OwedUnconfirmed /\ NoDuplicate
  BY <1>1, <1>3 DEF Init, OwedUnconfirmed, NoDuplicate, Unconfirmed
<1> QED
  BY <1>2, <1>4, <1>5, <1>6, <1>7 DEF QueueInv

\* post_event and post_alert: the first attempt of an event, which has no
\* ticket yet.
LEMMA ReportKeeps ==
  ASSUME QueueInv, NEW e \in Events, NEW reply \in Reply, Report(e, reply)
  PROVE  QueueInv'
<1>1. /\ caller[e] = "idle" /\ Store(e, reply)
      /\ caller' = [caller EXCEPT
                      ![e] = IF reply = "ok" THEN "done" ELSE "failed"]
      /\ UNCHANGED <<pending, batch, pc, file, crashes, order, stale, exposed>>
  BY DEF Report, Request, queue
<1>2. caller \in [Events -> Caller] /\ stored[e] \in Unconfirmed
  BY <1>1 DEF QueueInv, TypeOK, OwedUnconfirmed
<1>3. /\ stored' \in [Events -> Storage]
      /\ \A f \in Events : f # e => stored'[f] = stored[f]
      /\ stored'[e] # "twice"
      /\ reply # "ok" => stored'[e] \in Unconfirmed
  BY <1>1, <1>2, StoreIs DEF QueueInv
<1>4. /\ caller' \in [Events -> Caller]
      /\ \A f \in Events : f # e => caller'[f] = caller[f]
      /\ caller'[e] = IF reply = "ok" THEN "done" ELSE "failed"
  BY <1>1, <1>2 DEF Caller
<1>5. Backlog' = Backlog /\ ~Ticketed(order, e)
  BY <1>1 DEF Backlog, QueueInv, OneTicket
<1>6. TypeOK'
  BY <1>1, <1>3, <1>4 DEF QueueInv, TypeOK
<1>7. OneTicket'
  BY <1>1, <1>4, <1>5 DEF QueueInv, OneTicket
<1>8. Placed' /\ CrashSafe'
  BY <1>1, <1>5 DEF QueueInv, Placed, CrashSafe
<1>9. OwedUnconfirmed'
  <2>1. \A i \in 1 .. Len(Backlog) : Backlog[i].ev \in Events \ {e}
    BY <1>5, BacklogEvents
  <2> QED
    BY <1>3, <1>4, <1>5, <2>1 DEF QueueInv, OwedUnconfirmed
<1>10. NoDuplicate'
  BY <1>3 DEF QueueInv, NoDuplicate
<1> QED
  BY <1>6, <1>7, <1>8, <1>9, <1>10 DEF QueueInv

\* enqueue: the event gets its ticket and goes to the end.
LEMMA EnqueueKeeps ==
  ASSUME QueueInv, NEW e \in Events, Enqueue(e)
  PROVE  QueueInv'
<1>1. /\ caller[e] = "failed" /\ caller' = [caller EXCEPT ![e] = "done"]
      /\ pending' = Appended(e) /\ order' = Append(order, e)
      /\ exposed' = (pc # "idle")
      /\ UNCHANGED <<batch, pc, crashes, stored>>
  BY DEF Enqueue
<1>2. \/ file' = pending' /\ stale' = FALSE
      \/ file' = file /\ stale' = TRUE
  BY DEF Enqueue, Persist
<1>3. /\ Appended(e) \in Seq(Entry) /\ Kept \in Seq(Entry)
      /\ Part(Kept, pending) /\ Appended(e) = Append(Kept, New(e))
      /\ New(e) \in Entry /\ New(e).ev = e
      /\ batch \o Kept \in Seq(Entry) /\ Part(batch \o Kept, Backlog)
      /\ batch \o Appended(e) = Append(batch \o Kept, New(e))
  BY KeptIsPart, BacklogEnqueued, NewEntry DEF QueueInv
<1>4. /\ caller' \in [Events -> Caller] /\ caller'[e] = "done"
      /\ \A f \in Events : f # e => caller'[f] = caller[f]
  BY <1>1 DEF QueueInv, TypeOK, Caller
<1>5. order' \in Seq(Events) /\ order \in Seq(Events)
  BY <1>1, AppendProperties DEF QueueInv, TypeOK
<1>6. ~Ticketed(order, e)
  BY <1>1 DEF QueueInv, OneTicket
<1>7. Extended(order', order, e)
  BY <1>1, <1>5, <1>6, NextTicket DEF QueueInv, OneTicket
<1>8. /\ Backlog' = Append(batch \o Kept, New(e))
      /\ batch \in Seq(Entry) /\ pending \in Seq(Entry)
      /\ Backlog \in Seq(Entry)
  BY <1>1, <1>3, BacklogIs DEF Backlog, QueueInv, TypeOK
<1>9. TypeOK'
  <2>1. file' \in Seq(Entry) /\ stale' \in BOOLEAN /\ exposed' \in BOOLEAN
    BY <1>1, <1>2, <1>3 DEF QueueInv, TypeOK
  <2> QED
    BY <1>1, <1>3, <1>4, <1>5, <2>1 DEF QueueInv, TypeOK
<1>10. OneTicket'
  BY <1>4, <1>7 DEF QueueInv, OneTicket, Extended
<1>11. Placed'
  <2>1. Ordered(order, Backlog) /\ Ordered(order, file) /\ file \in Seq(Entry)
    BY DEF QueueInv, Placed, TypeOK
  <2>2. Ordered(order, batch \o Kept)
    BY <1>3, <1>8, <2>1, PartOrdered
  <2>3. Ordered(order', Backlog')
    BY <1>3, <1>5, <1>7, <1>8, <2>2, OrderedAppend
  <2>4. Ordered(order, pending)
    BY <1>8, <2>1, PartOfWhole, PartOrdered DEF Backlog
  <2>5. Ordered(order, Kept)
    BY <1>3, <1>8, <2>4, PartOrdered
  <2>6. Ordered(order', pending')
    BY <1>1, <1>3, <1>5, <1>7, <2>5, OrderedAppend
  <2>7. Ordered(order', file)
    BY <1>3, <1>5, <1>7, <2>1, OrderedAppend
  <2> QED
    BY <1>2, <2>3, <2>6, <2>7 DEF Placed
<1>12. CrashSafe'
  <2>1. ASSUME ~stale', ~exposed' PROVE file' = Backlog'
    <3>1. batch' = <<>> /\ file' = pending'
      BY <1>1, <1>2, <2>1 DEF QueueInv, TypeOK
    <3> QED
      BY <1>9, <3>1, ConcatEmptySeq DEF Backlog, TypeOK
  <2> QED
    BY <2>1 DEF CrashSafe
<1>13. OwedUnconfirmed'
  <2>1. \A i \in 1 .. Len(batch \o Kept) :
           stored[(batch \o Kept)[i].ev] \in Unconfirmed
    <3>1. \A i \in 1 .. Len(batch \o Kept) : \E j \in 1 .. Len(Backlog) :
             (batch \o Kept)[i].ev = Backlog[j].ev
      BY <1>3, <1>8, PartEvents
    <3>2. \A j \in 1 .. Len(Backlog) : stored[Backlog[j].ev] \in Unconfirmed
      BY DEF QueueInv, OwedUnconfirmed
    <3> QED
      BY <3>1, <3>2
  <2>2. stored[e] \in Unconfirmed
    BY <1>1 DEF QueueInv, OwedUnconfirmed
  <2>3. \A i \in 1 .. Len(Backlog') : stored[Backlog'[i].ev] \in Unconfirmed
    <3>1. /\ Len(Backlog') = Len(batch \o Kept) + 1
          /\ \A i \in 1 .. Len(batch \o Kept) : Backlog'[i] = (batch \o Kept)[i]
          /\ Backlog'[Len(batch \o Kept) + 1] = New(e)
      BY <1>3, <1>8, AppendProperties
    <3>2. \A i \in 1 .. Len(Backlog') :
             i \in 1 .. Len(batch \o Kept) \/ i = Len(batch \o Kept) + 1
      BY <1>3, <3>1
    <3> QED
      BY <1>3, <2>1, <2>2, <3>1, <3>2
  <2> QED
    BY <1>1, <1>4, <2>3 DEF QueueInv, OwedUnconfirmed
<1>14. NoDuplicate'
  BY <1>1 DEF QueueInv, NoDuplicate
<1> QED
  BY <1>9, <1>10, <1>11, <1>12, <1>13, <1>14 DEF QueueInv

\* Taking the batch and putting back what is left of it move entries within
\* the backlog.
LEMMA MovesKeep ==
  ASSUME QueueInv, TakeBatch \/ Requeue
  PROVE  QueueInv' /\ Backlog' = Backlog
<1>1. TypeOK /\ batch \in Seq(Entry) /\ pending \in Seq(Entry)
  BY DEF QueueInv, TypeOK
<1>2. <<>> \in Seq(Entry) /\ Backlog \in Seq(Entry)
  BY <1>1, EmptySeq, BacklogIs
<1>3. CASE TakeBatch
  <2>1. /\ batch = <<>> /\ batch' = pending /\ pending' = <<>>
        /\ pc' = "posting"
        /\ UNCHANGED <<caller, file, crashes, order, stored, stale, exposed>>
    BY <1>1, <1>3 DEF TakeBatch, FileOnTake, history, TypeOK
  <2>2. Backlog' = Backlog
    BY <1>1, <2>1, ConcatEmptySeq DEF Backlog
  <2>3. TypeOK'
    BY <1>1, <1>2, <2>1 DEF TypeOK
  <2>4. OneTicket' /\ Placed' /\ CrashSafe' /\ OwedUnconfirmed' /\ NoDuplicate'
    BY <2>1, <2>2 DEF QueueInv, OneTicket, Placed, CrashSafe,
                      OwedUnconfirmed, NoDuplicate
  <2> QED
    BY <2>2, <2>3, <2>4 DEF QueueInv
<1>4. CASE Requeue
  <2>1. /\ pending' = Backlog /\ batch' = <<>> /\ pc' = "idle"
        /\ exposed' = FALSE /\ UNCHANGED <<caller, crashes, order, stored>>
        /\ \/ file' = Backlog /\ stale' = FALSE
           \/ file' = file /\ stale' = TRUE
    BY <1>4 DEF Requeue, Requeued, Persist, Backlog
  <2>2. Backlog' = Backlog
    <3>1. Backlog' = batch' \o pending'
      BY DEF Backlog
    <3> QED
      BY <1>2, <2>1, <3>1, ConcatEmptySeq
  <2>3. TypeOK'
    BY <1>1, <1>2, <2>1 DEF TypeOK
  <2>4. Placed' /\ CrashSafe'
    BY <2>1, <2>2 DEF QueueInv, Placed, CrashSafe
  <2>5. OneTicket' /\ OwedUnconfirmed' /\ NoDuplicate'
    BY <2>1, <2>2 DEF QueueInv, OneTicket, OwedUnconfirmed, NoDuplicate
  <2> QED
    BY <2>2, <2>3, <2>4, <2>5 DEF QueueInv
<1> QED
  BY <1>3, <1>4

\* What a round of the loop leaves: the tail of the batch, or its entries as
\* they were but for their tries.
LEMMA PostLeaves ==
  ASSUME QueueInv, NEW reply \in Reply, FlushPost(reply)
  PROVE  /\ batch' \in Seq(Entry) /\ Backlog' \in Seq(Entry)
         /\ Part(batch', batch) /\ Part(Backlog', Backlog)
         /\ \/ batch' = Tail(batch)
            \/ /\ reply # "ok" /\ Len(batch') = Len(batch)
               /\ \A i \in 1 .. Len(batch) : batch'[i].ev = batch[i].ev
<1>1. /\ TypeOK /\ batch \in Seq(Entry) /\ pending \in Seq(Entry)
      /\ batch # <<>> /\ pending' = pending
      /\ batch' = IF reply = "ok" THEN Tail(batch) ELSE Failed
  BY DEF QueueInv, TypeOK, FlushPost, Answered, Request
<1>2. /\ Failed \in Seq(Entry) /\ Tail(batch) \in Seq(Entry)
      /\ Part(Tail(batch), batch)
      /\ Failed # Tail(batch) =>
            /\ Len(Failed) = Len(batch)
            /\ \A i \in 1 .. Len(batch) : Failed[i].ev = batch[i].ev
  BY <1>1, FailedIs
<1>3. Failed # Tail(batch) => Part(Failed, batch)
  BY <1>1, <1>2, PartSame
<1>4. batch' \in Seq(Entry) /\ Part(batch', batch)
  BY <1>1, <1>2, <1>3
<1>5. Part(pending, pending)
  BY <1>1, PartSame
<1>6. /\ Part(batch' \o pending, batch \o pending)
      /\ batch' \o pending \in Seq(Entry)
  BY <1>1, <1>4, <1>5, PartConcat, PartOfWhole
<1>7. Part(Backlog', Backlog) /\ Backlog' \in Seq(Entry)
  BY <1>1, <1>6 DEF Backlog
<1> QED
  BY <1>1, <1>2, <1>4, <1>7

\* One round of the flush loop: what is delivered has left the backlog, which
\* held it once.
LEMMA PostKeeps ==
  ASSUME QueueInv, NEW reply \in Reply, FlushPost(reply)
  PROVE  QueueInv'
<1> DEFINE e == Head(batch).ev
<1>1. /\ Store(e, reply) /\ batch # <<>> /\ pc = "posting"
      /\ pc' = IF batch' = Tail(batch) THEN "posting" ELSE "requeue"
      /\ UNCHANGED <<caller, pending, file, crashes, order, stale, exposed>>
  BY DEF FlushPost
<1>2. /\ batch' \in Seq(Entry) /\ Backlog' \in Seq(Entry)
      /\ Part(Backlog', Backlog)
      /\ \/ batch' = Tail(batch)
         \/ reply # "ok"
  BY PostLeaves
<1>3. /\ TypeOK /\ batch \in Seq(Entry) /\ pending \in Seq(Entry)
      /\ Backlog \in Seq(Entry)
      /\ Len(Backlog) = Len(batch) + Len(pending)
      /\ Len(batch) \in Nat \ {0} /\ Len(pending) \in Nat
      /\ \A i \in 1 .. Len(Backlog) :
            Backlog[i] = IF i <= Len(batch) THEN batch[i]
                         ELSE pending[i - Len(batch)]
  BY <1>1, BacklogIs DEF QueueInv, TypeOK
<1>4. 1 \in 1 .. Len(Backlog) /\ e = Backlog[1].ev
  <2>1. 1 \in 1 .. Len(Backlog) /\ 1 <= Len(batch)
    BY <1>3
  <2>2. Backlog[1] = batch[1]
    BY <1>3, <2>1
  <2>3. Head(batch) = batch[1]
    BY <1>1, <1>3
  <2> QED
    BY <2>1, <2>2, <2>3
<1>5. e \in Events /\ stored[e] \in Unconfirmed /\ caller[e] = "done"
  BY <1>4, BacklogEvents DEF QueueInv, OwedUnconfirmed
<1> HIDE DEF e
<1>6. /\ stored' \in [Events -> Storage]
      /\ \A f \in Events : f # e => stored'[f] = stored[f]
      /\ stored'[e] # "twice"
      /\ reply # "ok" => stored'[e] \in Unconfirmed
  BY <1>1, <1>3, <1>5, StoreIs
<1>7. TypeOK'
  BY <1>1, <1>2, <1>6 DEF QueueInv, TypeOK
<1>8. OneTicket' /\ NoDuplicate'
  BY <1>1, <1>5, <1>6 DEF QueueInv, OneTicket, NoDuplicate
<1>9. Placed'
  BY <1>1, <1>2, <1>3, PartOrdered DEF QueueInv, Placed
<1>10. CrashSafe'
  <2>1. EventsOf(Backlog') \subseteq EventsOf(Backlog)
    BY <1>2, <1>3, PartEvents
  <2> QED
    BY <1>1, <2>1 DEF QueueInv, CrashSafe
<1>11. OwedUnconfirmed'
  <2>1. \A f \in Events : caller'[f] # "done" => stored'[f] \in Unconfirmed
    BY <1>1, <1>5, <1>6 DEF QueueInv, OwedUnconfirmed
  <2>2. \A i \in 1 .. Len(Backlog) : /\ Backlog[i].ev \in Events
                                     /\ stored[Backlog[i].ev] \in Unconfirmed
    BY BacklogEvents DEF QueueInv, OwedUnconfirmed
  <2>3. CASE reply # "ok"
    <3>1. \A i \in 1 .. Len(Backlog) : stored'[Backlog[i].ev] \in Unconfirmed
      BY <1>6, <2>2, <2>3
    <3>2. \A i \in 1 .. Len(Backlog') : \E j \in 1 .. Len(Backlog) :
             Backlog'[i].ev = Backlog[j].ev
      BY <1>2, <1>3, PartEvents
    <3> QED
      BY <2>1, <3>1, <3>2 DEF OwedUnconfirmed
  <2>4. CASE reply = "ok"
    <3>1. batch' = Tail(batch)
      BY <1>2, <2>4
    <3>2. /\ Len(batch') = Len(batch) - 1
          /\ \A i \in 1 .. Len(batch') : batch'[i] = batch[i + 1]
      BY <1>1, <1>3, <3>1, HeadTailProperties
    <3>3. /\ Len(Backlog') = Len(batch') + Len(pending)
          /\ \A i \in 1 .. Len(batch') + Len(pending) :
                Backlog'[i] = IF i <= Len(batch') THEN batch'[i]
                              ELSE pending[i - Len(batch')]
      BY <1>1, <1>2, <1>3, ConcatProperties DEF Backlog
    <3>4. \A i \in 1 .. Len(Backlog') :
             i + 1 \in 1 .. Len(Backlog) /\ Backlog'[i] = Backlog[i + 1]
      BY <1>3, <3>2, <3>3
    <3>5. \A i \in 1 .. Len(Backlog') : Backlog'[i].ev # e
      <4>1. \A i, j \in 1 .. Len(Backlog) :
               i < j => Backlog[i].ev # Backlog[j].ev
        BY BacklogEvents
      <4>2. \A i \in 1 .. Len(Backlog') : 1 < i + 1
        BY <1>3, <3>2, <3>3
      <4> QED
        BY <1>4, <3>4, <4>1, <4>2
    <3> QED
      BY <1>6, <2>1, <2>2, <3>4, <3>5 DEF OwedUnconfirmed
  <2> QED
    BY <2>3, <2>4
<1> QED
  BY <1>7, <1>8, <1>9, <1>10, <1>11 DEF QueueInv

\* A crash: the file, or nothing, becomes the backlog, and no sender knows any
\* more what it was told.
LEMMA CrashKeeps == ASSUME QueueInv, Crash PROVE QueueInv'
<1>1. /\ crashes < MaxCrashes /\ crashes' = crashes + 1
      /\ pending' \in {file, <<>>} /\ stale' = FALSE
      /\ batch' = <<>> /\ pc' = "idle" /\ exposed' = FALSE
      /\ caller' = [e \in Events |->
                      IF caller[e] = "failed" THEN "done" ELSE caller[e]]
      /\ stored' = [e \in Events |->
                      IF stored[e] = "known" THEN "unknown" ELSE stored[e]]
      /\ UNCHANGED <<file, order>>
  BY DEF Crash
<1>2. /\ caller \in [Events -> Caller] /\ stored \in [Events -> Storage]
      /\ file \in Seq(Entry) /\ <<>> \in Seq(Entry) /\ crashes \in Nat
  BY QueueAssumption, EmptySeq DEF QueueAssumption, QueueInv, TypeOK
<1>3. TypeOK'
  <2>1. crashes' \in 0 .. MaxCrashes
    BY <1>1, <1>2, QueueAssumption DEF QueueAssumption
  <2>2. caller' \in [Events -> Caller] /\ stored' \in [Events -> Storage]
    BY <1>1, <1>2 DEF Caller, Storage
  <2> QED
    BY <1>1, <1>2, <2>1, <2>2 DEF QueueInv, TypeOK
<1>4. Backlog' = pending'
  BY <1>1, <1>2, ConcatEmptySeq DEF Backlog
<1>5. OneTicket'
  BY <1>1 DEF QueueInv, OneTicket
<1>6. Placed'
  <2>1. Ordered(order, <<>>)
    BY EmptySeq DEF Ordered
  <2> QED
    BY <1>1, <1>4, <2>1 DEF QueueInv, Placed
<1>7. CrashSafe'
  <2>1. EventsOf(<<>>) = {}
    BY DEF EventsOf
  <2> QED
    BY <1>1, <1>4, <2>1 DEF CrashSafe
<1>8. NoDuplicate' /\ \A e \in Events : stored'[e] \in Unconfirmed
  BY <1>1, <1>2 DEF QueueInv, NoDuplicate, Storage, Unconfirmed
<1>9. OwedUnconfirmed'
  <2>1. \A i \in 1 .. Len(Backlog') : Backlog'[i].ev \in Events
    <3>1. \A i \in 1 .. Len(Backlog') : Backlog'[i] \in Entry
      BY <1>1, <1>2, <1>4
    <3> QED
      BY <3>1 DEF Entry
  <2> QED
    BY <1>8, <2>1 DEF OwedUnconfirmed
<1> QED
  BY <1>3, <1>5, <1>6, <1>7, <1>8, <1>9 DEF QueueInv

\* Every step of the callers, the flush thread and the process keeps the
\* invariant.
LEMMA QueueNext == QueueInv /\ [Next]_vars => QueueInv'
<1> SUFFICES ASSUME QueueInv, [Next]_vars PROVE QueueInv'
  OBVIOUS
<1>1. CASE \E e \in Events, reply \in Reply : Report(e, reply)
  BY <1>1, ReportKeeps
<1>2. CASE \E e \in Events : Enqueue(e)
  BY <1>2, EnqueueKeeps
<1>3. CASE Flush
  BY <1>3, MovesKeep, PostKeeps DEF Flush
<1>4. CASE Crash
  BY <1>4, CrashKeeps
<1>5. CASE UNCHANGED vars
  <2> USE <1>5 DEF vars, history
  <2>1. Backlog' = Backlog
    BY DEF Backlog
  <2>2. TypeOK'
    BY DEF QueueInv, TypeOK
  <2> QED
    BY <2>1, <2>2 DEF QueueInv, OneTicket, Placed, CrashSafe,
                      OwedUnconfirmed, NoDuplicate
<1> QED
  BY <1>1, <1>2, <1>3, <1>4, <1>5 DEF Next

-----------------------------------------------------------------------------
(* The refinement.                                                         *)

\* A buffer, as AuditQueue sees it.
LEMMA EventSeqIs ==
  ASSUME NEW s \in Seq(Entry)
  PROVE  /\ EventSeq(s) \in Seq(Events) /\ Len(EventSeq(s)) = Len(s)
         /\ DOMAIN EventSeq(s) = 1 .. Len(s)
         /\ \A i \in 1 .. Len(s) : EventSeq(s)[i] = s[i].ev
<1>1. DOMAIN s = 1 .. Len(s) /\ Len(s) \in Nat
  OBVIOUS
<1>2. \A i \in 1 .. Len(s) : s[i] \in Entry
  OBVIOUS
<1>3. \A i \in 1 .. Len(s) : s[i].ev \in Events
  BY <1>2 DEF Entry
<1>4. EventSeq(s) = [i \in 1 .. Len(s) |-> s[i].ev]
  BY <1>1 DEF EventSeq
<1> QED
  BY <1>1, <1>3, <1>4, IsASeq

\* The tries of an entry do not show in it.
LEMMA SameEvents ==
  ASSUME NEW s \in Seq(Entry), NEW t \in Seq(Entry), Len(t) = Len(s),
         \A i \in 1 .. Len(s) : t[i].ev = s[i].ev
  PROVE  EventSeq(t) = EventSeq(s)
  BY EventSeqIs, SeqEqual

\* A new entry comes last in it.
LEMMA EventSeqAppend ==
  ASSUME NEW s \in Seq(Entry), NEW e \in Events
  PROVE  EventSeq(Append(s, New(e))) = Append(EventSeq(s), e)
<1> DEFINE a == Append(s, New(e))
           b == Append(EventSeq(s), e)
<1>1. /\ a \in Seq(Entry) /\ Len(a) = Len(s) + 1 /\ a[Len(s) + 1] = New(e)
      /\ \A i \in 1 .. Len(s) : a[i] = s[i]
  BY NewEntry, AppendProperties
<1>2. /\ EventSeq(s) \in Seq(Events) /\ Len(EventSeq(s)) = Len(s)
      /\ \A i \in 1 .. Len(s) : EventSeq(s)[i] = s[i].ev
  BY EventSeqIs
<1>3. /\ b \in Seq(Events) /\ Len(b) = Len(s) + 1 /\ b[Len(s) + 1] = e
      /\ \A i \in 1 .. Len(s) : b[i] = EventSeq(s)[i]
  BY <1>2, AppendProperties
<1> HIDE DEF a, b
<1>4. /\ EventSeq(a) \in Seq(Events) /\ Len(EventSeq(a)) = Len(s) + 1
      /\ \A i \in 1 .. Len(s) + 1 : EventSeq(a)[i] = a[i].ev
  BY <1>1, EventSeqIs
<1>5. New(e).ev = e /\ Len(s) \in Nat
  BY NewEntry
<1>6. \A i \in 1 .. Len(s) + 1 : i \in 1 .. Len(s) \/ i = Len(s) + 1
  BY <1>5
<1>7. \A i \in 1 .. Len(s) + 1 : EventSeq(a)[i] = b[i]
  BY <1>1, <1>2, <1>3, <1>4, <1>5, <1>6
<1>8. EventSeq(a) = b
  BY <1>3, <1>4, <1>7, SeqEqual
<1> QED
  BY <1>8 DEF a, b

\* The entry that an overflow drops is the one behind the batch.
LEMMA EventSeqDropped ==
  ASSUME NEW s \in Seq(Entry), NEW u \in Seq(Entry), u # <<>>
  PROVE  EventSeq(s \o Tail(u)) =
           Audit!Without(EventSeq(s \o u), Len(s) + 1)
<1> DEFINE a == EventSeq(s \o Tail(u))
           b == EventSeq(s \o u)
           n == Len(s)
           m == Len(u)
           p == SubSeq(b, 1, n)
           q == SubSeq(b, n + 2, n + m)
<1>1. /\ Tail(u) \in Seq(Entry) /\ Len(Tail(u)) = m - 1
      /\ \A i \in 1 .. m - 1 : Tail(u)[i] = u[i + 1]
      /\ n \in Nat /\ m \in Nat \ {0}
  BY HeadTailProperties
<1>2. /\ s \o Tail(u) \in Seq(Entry) /\ Len(s \o Tail(u)) = n + (m - 1)
      /\ \A i \in 1 .. n + (m - 1) :
            (s \o Tail(u))[i] = IF i <= n THEN s[i] ELSE Tail(u)[i - n]
  BY <1>1, ConcatProperties
<1>3. /\ s \o u \in Seq(Entry) /\ Len(s \o u) = n + m
      /\ \A i \in 1 .. n + m :
            (s \o u)[i] = IF i <= n THEN s[i] ELSE u[i - n]
  BY ConcatProperties
<1>4. /\ a \in Seq(Events) /\ Len(a) = n + (m - 1)
      /\ \A i \in 1 .. n + (m - 1) : a[i] = (s \o Tail(u))[i].ev
  BY <1>2, EventSeqIs
<1>5. /\ b \in Seq(Events) /\ Len(b) = n + m
      /\ \A i \in 1 .. n + m : b[i] = (s \o u)[i].ev
  BY <1>3, EventSeqIs
<1> HIDE DEF a, b, n, m
<1>6. /\ p \in Seq(Events) /\ Len(p) = n
      /\ \A i \in 1 .. n : p[i] = b[i]
  <2>1. \A i \in 1 .. n : b[i] \in Events
    BY <1>1, <1>5
  <2>2. /\ p \in Seq(Events) /\ Len(p) = IF 1 <= n THEN n - 1 + 1 ELSE 0
        /\ \A i \in 1 .. n - 1 + 1 : p[i] = b[1 + i - 1]
    BY <1>1, <2>1, SubSeqProperties
  <2> QED
    BY <1>1, <2>2
<1>7. /\ q \in Seq(Events) /\ Len(q) = m - 1
      /\ \A i \in 1 .. m - 1 : q[i] = b[n + 1 + i]
  <2>1. \A i \in n + 2 .. n + m : b[i] \in Events
    BY <1>1, <1>5
  <2>2. /\ q \in Seq(Events)
        /\ Len(q) = IF n + 2 <= n + m THEN (n + m) - (n + 2) + 1 ELSE 0
        /\ \A i \in 1 .. (n + m) - (n + 2) + 1 : q[i] = b[(n + 2) + i - 1]
    BY <1>1, <2>1, SubSeqProperties
  <2> HIDE DEF q
  <2>3. /\ (n + m) - (n + 2) + 1 = m - 1
        /\ \A i \in 1 .. m - 1 : (n + 2) + i - 1 = n + 1 + i
    BY <1>1
  <2>4. Len(q) = m - 1
    BY <1>1, <2>2
  <2> QED
    BY <2>2, <2>3, <2>4
<1> HIDE DEF p, q
<1>8. /\ p \o q \in Seq(Events) /\ Len(p \o q) = n + (m - 1)
      /\ \A i \in 1 .. n + (m - 1) :
            (p \o q)[i] = IF i <= n THEN p[i] ELSE q[i - n]
  <2>1. /\ p \o q \in Seq(Events) /\ Len(p \o q) = Len(p) + Len(q)
        /\ \A i \in 1 .. Len(p) + Len(q) :
              (p \o q)[i] = IF i <= Len(p) THEN p[i] ELSE q[i - Len(p)]
    BY <1>6, <1>7, ConcatProperties
  <2>2. Len(p) = n /\ Len(q) = m - 1
    BY <1>6, <1>7
  <2> QED
    BY <2>1, <2>2
<1>9. ASSUME NEW i \in 1 .. n + (m - 1)
      PROVE  a[i] = (p \o q)[i]
  <2>1. CASE i <= n
    <3>1. i \in 1 .. n /\ i \in 1 .. n + m
      BY <1>1, <2>1
    <3>2. a[i] = s[i].ev
      BY <1>2, <1>4, <2>1
    <3>3. b[i] = s[i].ev
      BY <1>3, <1>5, <2>1, <3>1
    <3> QED
      BY <1>6, <1>8, <2>1, <3>1, <3>2, <3>3
  <2>2. CASE ~(i <= n)
    <3>1. i - n \in 1 .. m - 1 /\ i + 1 \in 1 .. n + m /\ ~(i + 1 <= n)
      BY <1>1, <2>2
    <3>2. a[i] = u[(i - n) + 1].ev
      BY <1>1, <1>2, <1>4, <2>2, <3>1
    <3>3. (p \o q)[i] = b[n + 1 + (i - n)]
      BY <1>7, <1>8, <2>2, <3>1
    <3>4. n + 1 + (i - n) = i + 1 /\ (i + 1) - n = (i - n) + 1
      BY <1>1, <3>1
    <3> QED
      BY <1>3, <1>5, <3>1, <3>2, <3>3, <3>4
  <2> QED
    BY <2>1, <2>2
<1>10. a = p \o q
  BY <1>4, <1>8, <1>9, SeqEqual
<1>11. Audit!Without(b, n + 1) = p \o q
  <2>1. (n + 1) - 1 = n /\ (n + 1) + 1 = n + 2
    BY <1>1
  <2> QED
    BY <1>5, <2>1 DEF Audit!Without, p, q
<1> QED
  BY <1>10, <1>11 DEF a, b, n

\* A buffer whose entries are in the order of their tickets is what AuditQueue
\* lets a restart bring back.
LEMMA OrderedIsAccepted ==
  ASSUME TypeOK, NEW s \in Seq(Entry), Ordered(order, s)
  PROVE  Audit!InAcceptedOrder(EventSeq(s))
<1>1. /\ DOMAIN EventSeq(s) = 1 .. Len(s)
      /\ \A i \in 1 .. Len(s) : EventSeq(s)[i] = s[i].ev
  BY EventSeqIs
<1>2. \A e : Audit!Position(e) = TicketIn(order, e)
  BY DEF Audit!Position, TicketIn
<1>3. \A e : Ticketed(order, e) => e \in Audit!Members(order)
  BY DEF Audit!Members, Ticketed
<1>4. \A i \in 1 .. Len(s) : EventSeq(s)[i] \in Audit!Members(order)
  BY <1>1, <1>3 DEF Ordered
<1>5. Audit!Members(EventSeq(s)) \subseteq Audit!Members(order)
  BY <1>1, <1>4 DEF Audit!Members
<1>6. \A i, j \in 1 .. Len(s) :
         i < j => Audit!Position(EventSeq(s)[i])
                    < Audit!Position(EventSeq(s)[j])
  BY <1>1, <1>2 DEF Ordered
<1> QED
  BY <1>1, <1>5, <1>6 DEF Audit!InAcceptedOrder

\* A buffer without entries is the empty backlog.
LEMMA EmptyStart == Init => Audit!AInit
<1> SUFFICES ASSUME Init PROVE Audit!AInit
  OBVIOUS
<1>1. <<>> \in Seq(Entry) /\ Len(<<>>) = 0
  BY EmptySeq
<1>2. EventSeq(<<>>) \in Seq(Events) /\ Len(EventSeq(<<>>)) = 0
  BY <1>1, EventSeqIs
<1>3. EventSeq(<<>>) = <<>>
  BY <1>2, EmptySeq
<1>4. Backlog = <<>>
  BY <1>1, ConcatEmptySeq DEF Init, Backlog
<1> QED
  BY <1>3, <1>4 DEF Init, Audit!AInit

\* enqueue accepts an event, and gives up at most one for it.
LEMMA EnqueueAccepts ==
  ASSUME QueueInv, NEW e \in Events, Enqueue(e)
  PROVE  Audit!Accept(e)
<1>1. /\ caller[e] = "failed" /\ order' = Append(order, e)
      /\ batch' = batch /\ pending' = Appended(e) /\ crashes' = crashes
  BY DEF Enqueue
<1>2. e \notin Audit!Members(order)
  BY <1>1 DEF QueueInv, OneTicket, Ticketed, Audit!Members
<1>3. /\ batch \in Seq(Entry) /\ pending \in Seq(Entry)
      /\ batch \o Kept \in Seq(Entry)
      /\ Backlog' = Append(batch \o Kept, New(e))
      /\ Backlog = batch \o pending
      /\ Len(pending) >= MaxEntries => pending # <<>>
  BY <1>1, BacklogEnqueued, KeptIsPart DEF Backlog, QueueInv, TypeOK
<1>4. EventSeq(Backlog') = Append(EventSeq(batch \o Kept), e)
  BY <1>3, EventSeqAppend
<1>5. EventSeq(Backlog)' = EventSeq(Backlog')
  BY DEF EventSeq
<1>6. CASE Len(pending) >= MaxEntries
  <2>1. EventSeq(batch \o Kept)
          = Audit!Without(EventSeq(Backlog), Len(batch) + 1)
    BY <1>3, <1>6, EventSeqDropped DEF Kept
  <2>2. Len(batch) + 1 \in DOMAIN EventSeq(Backlog)
    <3>1. Backlog \in Seq(Entry) /\ Len(Backlog) = Len(batch) + Len(pending)
      BY BacklogIs DEF QueueInv
    <3>2. Len(pending) \in Nat \ {0} /\ Len(batch) \in Nat
      BY <1>3, <1>6
    <3>3. DOMAIN EventSeq(Backlog) = 1 .. Len(Backlog)
      BY <3>1, EventSeqIs
    <3> QED
      BY <3>1, <3>2, <3>3
  <2> QED
    BY <1>1, <1>2, <1>4, <1>5, <2>1, <2>2 DEF Audit!Accept
<1>7. CASE ~(Len(pending) >= MaxEntries)
  BY <1>1, <1>2, <1>3, <1>4, <1>5, <1>7 DEF Kept, Audit!Accept
<1> QED
  BY <1>6, <1>7

\* A round of the flush loop settles the oldest event or leaves all as it is.
LEMMA PostSettles ==
  ASSUME QueueInv, NEW reply \in Reply, FlushPost(reply)
  PROVE  Audit!Settle \/ UNCHANGED <<order, EventSeq(Backlog), crashes>>
<1>1. /\ batch # <<>> /\ UNCHANGED <<pending, order, crashes>>
      /\ TypeOK /\ batch \in Seq(Entry) /\ pending \in Seq(Entry)
  BY DEF FlushPost, QueueInv, TypeOK
<1>2. /\ batch' \in Seq(Entry) /\ Backlog' \in Seq(Entry)
      /\ \/ batch' = Tail(batch)
         \/ /\ Len(batch') = Len(batch)
            /\ \A i \in 1 .. Len(batch) : batch'[i].ev = batch[i].ev
  BY PostLeaves
<1>3. /\ Backlog \in Seq(Entry)
      /\ Len(Backlog) = Len(batch) + Len(pending)
      /\ Len(batch) \in Nat \ {0} /\ Len(pending) \in Nat
      /\ \A i \in 1 .. Len(Backlog) :
            Backlog[i] = IF i <= Len(batch) THEN batch[i]
                         ELSE pending[i - Len(batch)]
  BY <1>1, BacklogIs
<1>4. /\ Len(Backlog') = Len(batch') + Len(pending)
      /\ \A i \in 1 .. Len(batch') + Len(pending) :
            Backlog'[i] = IF i <= Len(batch') THEN batch'[i]
                          ELSE pending[i - Len(batch')]
  BY <1>1, <1>2, ConcatProperties DEF Backlog
<1>5. EventSeq(Backlog)' = EventSeq(Backlog')
  BY DEF EventSeq
<1>6. /\ EventSeq(Backlog) \in Seq(Events)
      /\ Len(EventSeq(Backlog)) = Len(Backlog)
      /\ \A i \in 1 .. Len(Backlog) : EventSeq(Backlog)[i] = Backlog[i].ev
  BY <1>3, EventSeqIs
<1>7. CASE batch' = Tail(batch)
  <2>1. /\ Len(batch') = Len(batch) - 1
        /\ \A i \in 1 .. Len(batch') : batch'[i] = batch[i + 1]
    BY <1>1, <1>7, HeadTailProperties
  <2>2. /\ Len(Backlog') = Len(Backlog) - 1
        /\ \A i \in 1 .. Len(Backlog') : Backlog'[i] = Backlog[i + 1]
    BY <1>3, <1>4, <2>1
  <2>3. EventSeq(Backlog) # <<>>
    BY <1>3, <1>6
  <2>4. /\ Tail(EventSeq(Backlog)) \in Seq(Events)
        /\ Len(Tail(EventSeq(Backlog))) = Len(Backlog) - 1
        /\ \A i \in 1 .. Len(Backlog) - 1 :
              Tail(EventSeq(Backlog))[i] = EventSeq(Backlog)[i + 1]
    BY <1>6, <2>3, HeadTailProperties
  <2>5. /\ EventSeq(Backlog') \in Seq(Events)
        /\ Len(EventSeq(Backlog')) = Len(Backlog) - 1
        /\ \A i \in 1 .. Len(Backlog) - 1 :
              EventSeq(Backlog')[i] = Backlog[i + 1].ev
    BY <1>2, <2>2, EventSeqIs
  <2>6. \A i \in 1 .. Len(Backlog) - 1 : i + 1 \in 1 .. Len(Backlog)
    BY <1>3
  <2>7. EventSeq(Backlog') = Tail(EventSeq(Backlog))
    BY <1>6, <2>4, <2>5, <2>6, SeqEqual
  <2> QED
    BY <1>1, <1>5, <2>3, <2>7 DEF Audit!Settle
<1>8. CASE /\ Len(batch') = Len(batch)
           /\ \A i \in 1 .. Len(batch) : batch'[i].ev = batch[i].ev
  <2>1. Len(Backlog') = Len(Backlog)
    BY <1>3, <1>4, <1>8
  <2>2. \A i \in 1 .. Len(Backlog) : Backlog'[i].ev = Backlog[i].ev
    BY <1>3, <1>4, <1>8
  <2>3. EventSeq(Backlog') = EventSeq(Backlog)
    BY <1>2, <1>3, <2>1, <2>2, SameEvents
  <2> QED
    BY <1>1, <1>5, <2>3
<1> QED
  BY <1>2, <1>7, <1>8

\* A crash is a restart: it brings back accepted events in order.
LEMMA CrashRestarts == ASSUME QueueInv, Crash PROVE Audit!Restart
<1>1. /\ crashes' = crashes + 1 /\ order' = order
      /\ batch' = <<>> /\ pending' \in {file, <<>>}
      /\ file \in Seq(Entry) /\ <<>> \in Seq(Entry) /\ TypeOK
  BY EmptySeq DEF Crash, QueueInv, TypeOK
<1>2. Backlog' = pending' /\ pending' \in Seq(Entry)
  BY <1>1, ConcatEmptySeq DEF Backlog
<1>3. Ordered(order, pending')
  <2>1. Ordered(order, <<>>)
    BY EmptySeq DEF Ordered
  <2> QED
    BY <1>1, <2>1 DEF QueueInv, Placed
<1>4. Audit!InAcceptedOrder(EventSeq(Backlog'))
  BY <1>1, <1>2, <1>3, OrderedIsAccepted
<1>5. EventSeq(Backlog)' = EventSeq(Backlog')
  BY DEF EventSeq
<1> QED
  BY <1>1, <1>4, <1>5 DEF Audit!Restart

\* Every step of the buffer is one of AuditQueue's, or none.
LEMMA QueueRefines == QueueInv /\ [Next]_vars => [Audit!ANext]_(Audit!avars)
<1> SUFFICES ASSUME QueueInv, [Next]_vars PROVE [Audit!ANext]_(Audit!avars)
  OBVIOUS
<1>1. Backlog' = Backlog => EventSeq(Backlog)' = EventSeq(Backlog)
  BY DEF EventSeq
<1>2. CASE \E e \in Events, reply \in Reply : Report(e, reply)
  BY <1>1, <1>2 DEF Report, queue, Backlog, Audit!avars
<1>3. CASE \E e \in Events : Enqueue(e)
  BY <1>3, EnqueueAccepts DEF Audit!ANext
<1>4. CASE TakeBatch \/ Requeue
  <2>1. UNCHANGED <<order, crashes>>
    BY <1>4 DEF TakeBatch, Requeue, history
  <2> QED
    BY <1>1, <1>4, <2>1, MovesKeep DEF Audit!avars
<1>5. CASE \E reply \in Reply : FlushPost(reply)
  BY <1>5, PostSettles DEF Audit!ANext, Audit!avars
<1>6. CASE Crash
  BY <1>6, CrashRestarts DEF Audit!ANext
<1>7. CASE UNCHANGED vars
  BY <1>1, <1>7 DEF vars, history, Backlog, Audit!avars
<1> QED
  BY <1>2, <1>3, <1>4, <1>5, <1>6, <1>7 DEF Next, Flush

-----------------------------------------------------------------------------
\* The inductive invariant holds in every behaviour.
THEOREM QueueInvariant == Spec => []QueueInv
  BY QueueInit, QueueNext, PTL DEF Spec

\* The deque, the batch and the file hold entries whose failed cycles are
\* below the limit, and a flush thread that sleeps holds no batch.
THEOREM QueueTypeCorrect == Spec => []TypeOK
<1>1. QueueInv => TypeOK
  BY DEF QueueInv
<1> QED
  BY <1>1, QueueInvariant, PTL

\* However often entries are taken, put back, dropped and reloaded, the
\* backlog is in the order of acceptance and holds no event twice.
THEOREM BacklogInOrder == Spec => []InOrder
<1>1. QueueInv => InOrder
  <2> SUFFICES ASSUME QueueInv PROVE InOrder
    OBVIOUS
  <2>1. Backlog \in Seq(Entry)
    BY BacklogIs DEF QueueInv
  <2>2. DOMAIN Backlog = 1 .. Len(Backlog) /\ Ordered(order, Backlog)
    BY <2>1 DEF QueueInv, Placed
  <2>3. \A e : Ticket(e) = TicketIn(order, e)
    BY DEF Ticket, TicketIn
  <2>4. EventsOf([i \in DOMAIN order |-> [ev |-> order[i]]])
          = {order[k] : k \in DOMAIN order}
    BY DEF EventsOf
  <2>5. EventsOf(Backlog) \subseteq {order[k] : k \in DOMAIN order}
    BY <2>2 DEF EventsOf, Ordered, Ticketed
  <2> QED
    BY <2>2, <2>3, <2>4, <2>5 DEF InOrder, Ordered
<1> QED
  BY <1>1, QueueInvariant, PTL

\* As long as no rewrite failed and none fell into a flush, the file covers
\* the backlog.
THEOREM FileCoversBacklog == Spec => []CrashSafe
<1>1. QueueInv => CrashSafe
  BY DEF QueueInv
<1> QED
  BY <1>1, QueueInvariant, PTL

\* No event that a sender knows to be stored is sent again.
THEOREM NeverSentAgain == Spec => []NoDuplicate
<1>1. QueueInv => NoDuplicate
  BY DEF QueueInv
<1> QED
  BY <1>1, QueueInvariant, PTL

\* The deque, the batch and the file together implement the audit queue.
THEOREM BufferImplementsAudit == Spec => ImplementsAudit
  BY QueueInvariant, EmptyStart, QueueRefines, PTL
     DEF Spec, ImplementsAudit, Audit!ASpec
=============================================================================
