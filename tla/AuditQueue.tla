----------------------------- MODULE AuditQueue -----------------------------
(***************************************************************************)
(* What the offline event buffer promises its callers, whatever the cloud  *)
(* does: events wait in the order in which they were accepted, the oldest  *)
(* waiting one is the next to leave, a full buffer may give up one event   *)
(* for the new one, and a restart brings back accepted events only, still  *)
(* in order.  How the buffer keeps them - a deque, a batch held by the     *)
(* flush thread and a file - is OfflineQueue's matter.                     *)
(***************************************************************************)
EXTENDS Naturals, Sequences

CONSTANT Events

VARIABLES
    accepted, \* every event the buffer took, in order
    backlog,  \* those still to be delivered
    restarts  \* restarts so far

avars == <<accepted, backlog, restarts>>

Members(s) == {s[i] : i \in DOMAIN s}

\* s without its i-th element
Without(s, i) == SubSeq(s, 1, i - 1) \o SubSeq(s, i + 1, Len(s))

Position(e) == CHOOSE i \in DOMAIN accepted : accepted[i] = e

\* s holds accepted events, in the order of their acceptance.
InAcceptedOrder(s) ==
    /\ Members(s) \subseteq Members(accepted)
    /\ \A i, j \in DOMAIN s : i < j => Position(s[i]) < Position(s[j])

AInit == accepted = <<>> /\ backlog = <<>> /\ restarts = 0

Accept(e) ==
    /\ e \notin Members(accepted)
    /\ accepted' = Append(accepted, e)
    /\ \/ backlog' = Append(backlog, e)
       \/ \E i \in DOMAIN backlog : backlog' = Append(Without(backlog, i), e)
    /\ UNCHANGED restarts

\* The oldest event leaves: delivered, or given up.
Settle ==
    /\ backlog # <<>>
    /\ backlog' = Tail(backlog)
    /\ UNCHANGED <<accepted, restarts>>

\* A restart may lose events and bring others back.
Restart ==
    /\ restarts' = restarts + 1
    /\ InAcceptedOrder(backlog')
    /\ UNCHANGED accepted

ANext == (\E e \in Events : Accept(e)) \/ Settle \/ Restart

ASpec == AInit /\ [][ANext]_avars
=============================================================================
