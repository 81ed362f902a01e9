--------------------------- MODULE SchedulePolicy ---------------------------
(***************************************************************************)
(* The evaluator of a room's schedule bundle, core/schedule_policy.py:     *)
(* which state the door is in at an instant, and whether it opens for a    *)
(* member.  The bundle is a record with a field for every key; its lists   *)
(* are sets, since the code only asks whether one of their rows applies.   *)
(*                                                                         *)
(* Days are numbered from a Monday, and a day has DayLength instants.      *)
(* Absent stands for a key that is missing, null or empty.  The text of a  *)
(* time is the number of its instant; _t makes a time of those within the  *)
(* day and None of all else, of "24:00:00" above all, which is the number  *)
(* DayLength here.  Dates are well-formed.                                 *)
(*                                                                         *)
(* The bundle stands still and the clock runs: how a bundle is fetched,    *)
(* replaced and cached while the door is deciding is ScheduleSync.         *)
(***************************************************************************)
EXTENDS Integers

CONSTANTS
    Member,      \* member ids
    DayLength,   \* instants of a day
    Bundles,     \* the bundles that are examined
    FirstDay,    \* bounds of the model: the calendar
    LastDay

Absent == -1
TimeText == -1 .. DayLength
DayText == {Absent} \cup Nat
Window == [date: DayText, start: TimeText, end: TimeText]
Row == [weekday: 0 .. 6, allowed: BOOLEAN, start: TimeText, end: TimeText]
Break == [start_date: DayText, end_date: DayText]
Exception == [member_id: Member, date: DayText, start: TimeText, end: TimeText]

Bundle == [lockdown: BOOLEAN, require_request: BOOLEAN,
           edge_run_start: TimeText, edge_run_end: TimeText,
           access_overrides: SUBSET Window,
           weekly_schedule: SUBSET Row,
           schedule_start: DayText, schedule_end: DayText,
           school_breaks: SUBSET Break,
           scheduled_lockdowns: SUBSET Window,
           holidays: SUBSET Nat,
           exceptions: SUBSET Exception]

Time == 0 .. DayLength - 1
Instant == [day: Nat, time: Time]

ASSUME ScheduleAssumption ==
    /\ DayLength \in Nat \ {0}
    /\ FirstDay \in Nat /\ LastDay \in Nat /\ FirstDay <= LastDay
    /\ Bundles \subseteq Bundle

VARIABLES
    bundle,  \* SchedulePolicy._bundle
    now      \* what now() returns

policyVars == <<bundle, now>>

PolicyTypeOK ==
    /\ bundle \in Bundle
    /\ now \in Instant

-----------------------------------------------------------------------------
\* _t returns a time, not None.
IsTime(text) == text \in Time

\* _time_in_range: both ends belong to the range, and a row that runs over
\* midnight never applies.
InRange(r, time) ==
    /\ IsTime(r.start) /\ IsTime(r.end)
    /\ r.start <= time /\ time <= r.end

\* _override_active and _window_active.
WindowActive(w, n) == w.date = n.day /\ InRange(w, n.time)

\* datetime.weekday(): Monday is 0, Sunday is 6.
Weekday(n) == n.day % 7

RowActive(row, n) ==
    row.allowed /\ row.weekday = Weekday(n) /\ InRange(row, n.time)

\* _within_validity: the ends that are given bound the days.
WithinValidity(b, n) ==
    /\ b.schedule_start # Absent => b.schedule_start <= n.day
    /\ b.schedule_end # Absent => n.day <= b.schedule_end

\* _inside_school_break: a break without one of its ends is none.
InSchoolBreak(b, n) ==
    \E br \in b.school_breaks :
        /\ br.start_date # Absent /\ br.end_date # Absent
        /\ br.start_date <= n.day /\ n.day <= br.end_date

Overridden(b, n) == \E w \in b.access_overrides : WindowActive(w, n)
LockedDown(b, n) == \E w \in b.scheduled_lockdowns : WindowActive(w, n)
IsHoliday(b, n) == n.day \in b.holidays
RowOpen(b, n) == \E row \in b.weekly_schedule : RowActive(row, n)

\* Fault: the end belongs to the window.
InRunWindowClosed(b, n) ==
    LET s == b.edge_run_start
        e == b.edge_run_end
    IN  \/ ~IsTime(s) \/ ~IsTime(e) \/ s = e
        \/ s < e /\ s <= n.time /\ n.time <= e
        \/ e < s /\ (s <= n.time \/ n.time <= e)

\* in_run_window: the end does not belong to the window, which may run over
\* midnight and is unlimited when an end is missing or both are the same.
InRunWindow(b, n) ==
    LET s == b.edge_run_start
        e == b.edge_run_end
    IN  \/ ~IsTime(s) \/ ~IsTime(e) \/ s = e
        \/ s < e /\ s <= n.time /\ n.time < e
        \/ e < s /\ (s <= n.time \/ n.time < e)

\* Fault: the weekly row is looked at before the holiday.
ScheduledStateRowFirst(b, n) ==
    IF InSchoolBreak(b, n) THEN "RESTRICTED"
    ELSE IF LockedDown(b, n) THEN "SCHEDULED_LOCKDOWN"
    ELSE IF RowOpen(b, n) THEN "WEEKDAY"
    ELSE IF IsHoliday(b, n) THEN "HOLIDAY"
    ELSE "RESTRICTED"

\* state(), the part for a room with a weekly schedule.
ScheduledState(b, n) ==
    IF InSchoolBreak(b, n) THEN "RESTRICTED"
    ELSE IF LockedDown(b, n) THEN "SCHEDULED_LOCKDOWN"
    ELSE IF IsHoliday(b, n) THEN "HOLIDAY"
    ELSE IF RowOpen(b, n) THEN "WEEKDAY"
    ELSE "RESTRICTED"

\* state(), the part for any other room.
DefaultState(b, n) ==
    IF b.require_request THEN "RESTRICTED"
    ELSE IF LockedDown(b, n) THEN "SCHEDULED_LOCKDOWN"
    ELSE IF IsHoliday(b, n) THEN "HOLIDAY"
    ELSE IF Weekday(n) = 6 THEN "WEEKEND"
    ELSE "WEEKDAY"

\* Fault: in a school break the default rules decide.
StateBreakFallsThrough(b, n) ==
    IF b.lockdown THEN "LOCKDOWN"
    ELSE IF Overridden(b, n) THEN "OPEN"
    ELSE IF b.weekly_schedule # {} /\ WithinValidity(b, n)
            /\ ~InSchoolBreak(b, n)
         THEN ScheduledState(b, n)
    ELSE DefaultState(b, n)

\* state(): the priority of the rules.
State(b, n) ==
    IF b.lockdown THEN "LOCKDOWN"
    ELSE IF Overridden(b, n) THEN "OPEN"
    ELSE IF b.weekly_schedule # {} /\ WithinValidity(b, n)
         THEN ScheduledState(b, n)
    ELSE DefaultState(b, n)

\* The approved exceptions at the end of is_granted.
Excepted(b, m, n) ==
    \E e \in b.exceptions :
        e.member_id = m /\ e.date = n.day /\ InRange(e, n.time)

\* is_granted(), evaluated on one bundle.
IsGranted(b, m, n) ==
    /\ InRunWindow(b, n)
    /\ State(b, n) # "LOCKDOWN"
    /\ State(b, n) \in {"WEEKDAY", "OPEN"} \/ Excepted(b, m, n)

\* deny_reason().
DenyReason(b, n) ==
    IF ~InRunWindow(b, n) THEN "COOLDOWN" ELSE State(b, n)

-----------------------------------------------------------------------------
PolicyInit ==
    /\ bundle \in Bundles
    /\ now = [day |-> FirstDay, time |-> 0]

\* Fault: the clock does not turn over at midnight.
TickWithoutMidnight ==
    /\ now' = [now EXCEPT !.time = @ + 1]
    /\ now'.time <= DayLength
    /\ UNCHANGED bundle

\* Time passes for now().
Tick ==
    /\ IF now.time + 1 < DayLength
       THEN now' = [now EXCEPT !.time = @ + 1]
       ELSE now' = [day |-> now.day + 1, time |-> 0]
    /\ now'.day <= LastDay
    /\ UNCHANGED bundle

PolicyNext == Tick

PolicySpec == PolicyInit /\ [][PolicyNext]_policyVars

-----------------------------------------------------------------------------
(***************************************************************************)
(* The decision as SCHEDULED_ACCESS_EDGE_TASK.md 4.2 prescribes it, with   *)
(* the holiday first and the school break last in a scheduled room.        *)
(***************************************************************************)
PrescribedScheduled(b, n) ==
    IF IsHoliday(b, n) THEN "HOLIDAY"
    ELSE IF LockedDown(b, n) THEN "SCHEDULED_LOCKDOWN"
    ELSE IF InSchoolBreak(b, n) THEN "RESTRICTED"
    ELSE IF RowOpen(b, n) THEN "WEEKDAY"
    ELSE "RESTRICTED"

PrescribedState(b, n) ==
    IF b.lockdown THEN "LOCKDOWN"
    ELSE IF Overridden(b, n) THEN "OPEN"
    ELSE IF b.weekly_schedule # {} /\ WithinValidity(b, n)
         THEN PrescribedScheduled(b, n)
    ELSE DefaultState(b, n)

Prescribed(b, m, n) ==
    /\ InRunWindow(b, n)
    /\ \/ PrescribedState(b, n) \in {"WEEKDAY", "OPEN"}
       \/ PrescribedState(b, n) # "LOCKDOWN" /\ Excepted(b, m, n)

\* The code asks for the school break before the scheduled lockdown and for
\* that before the holiday, the document the other way round.  The label on
\* the screen and in a denied event may differ, but the door decides alike:
\* whatever coincides, the same members are let in at the same instants.
OrderHarmless ==
    \A m \in Member : IsGranted(bundle, m, now) <=> Prescribed(bundle, m, now)

\* b tightened: a lockdown, a request gate, a holiday, a break or a lockdown
\* window more, or an override or an exception less.
Tightened(b, c) ==
    /\ c.edge_run_start = b.edge_run_start /\ c.edge_run_end = b.edge_run_end
    /\ c.weekly_schedule = b.weekly_schedule
    /\ c.schedule_start = b.schedule_start /\ c.schedule_end = b.schedule_end
    /\ b.lockdown => c.lockdown
    /\ b.require_request => c.require_request
    /\ b.holidays \subseteq c.holidays
    /\ b.school_breaks \subseteq c.school_breaks
    /\ b.scheduled_lockdowns \subseteq c.scheduled_lockdowns
    /\ c.access_overrides \subseteq b.access_overrides
    /\ c.exceptions \subseteq b.exceptions

OneStepTighter(b, days, windows, breaks) ==
    {[b EXCEPT !.lockdown = TRUE], [b EXCEPT !.require_request = TRUE]}
    \cup {[b EXCEPT !.holidays = @ \cup {d}] : d \in days}
    \cup {[b EXCEPT !.school_breaks = @ \cup {br}] : br \in breaks}
    \cup {[b EXCEPT !.scheduled_lockdowns = @ \cup {w}] : w \in windows}
    \cup {[b EXCEPT !.access_overrides = @ \ {w}] : w \in b.access_overrides}
    \cup {[b EXCEPT !.exceptions = @ \ {e}] : e \in b.exceptions}

\* No rule that restricts may open the door because another rule hides
\* behind it: a bundle with one more restriction, or one less permission,
\* lets nobody in whom the bundle itself keeps out.
TightenOnlyCloses ==
    \A c \in OneStepTighter(bundle,
                            {now.day},
                            {[date |-> now.day, start |-> s, end |-> now.time] :
                                s \in {0, now.time}},
                            {[start_date |-> now.day, end_date |-> now.day]}) :
        \A m \in Member : IsGranted(c, m, now) => IsGranted(bundle, m, now)

\* Run windows cut a day into two: of the machines whose hours are [s, e) and
\* [e, s) exactly one runs at any instant, over midnight too, so that nobody
\* is let in by neither of them, or by both, at a changeover.
RunWindowsPartition ==
    \A s, e \in Time :
        s # e =>
            InRunWindow([bundle EXCEPT !.edge_run_start = s,
                                       !.edge_run_end = e], now)
            <=> ~InRunWindow([bundle EXCEPT !.edge_run_start = e,
                                            !.edge_run_end = s], now)

=============================================================================
