-------------------------- MODULE MCSchedulePolicy --------------------------
(* SchedulePolicy for TLC: a Saturday, a Sunday and a Monday of four       *)
(* instants each, and every combination of rules that meet on the Monday,  *)
(* with rows that are unreadable or run over midnight among them.          *)
EXTENDS SchedulePolicy, TLC

MCFirstDay == 5
MCLastDay == 7

Monday == 7
Morning == [date |-> Monday, start |-> 1, end |-> 2]
Overnight == [date |-> Monday, start |-> 3, end |-> 1]
Forever == [date |-> Monday, start |-> 0, end |-> DayLength]
Lesson == [weekday |-> 0, allowed |-> TRUE, start |-> 1, end |-> 2]
NoLesson == [Lesson EXCEPT !.allowed = FALSE]

MCBundles ==
    {[lockdown |-> hard, require_request |-> gate,
      edge_run_start |-> run[1], edge_run_end |-> run[2],
      access_overrides |-> over, weekly_schedule |-> rows,
      schedule_start |-> valid[1], schedule_end |-> valid[2],
      school_breaks |-> breaks, scheduled_lockdowns |-> windows,
      holidays |-> days, exceptions |-> allowed] :
        hard \in BOOLEAN,
        gate \in BOOLEAN,
        run \in {<<Absent, Absent>>, <<3, 2>>, <<1, 3>>, <<2, DayLength>>},
        over \in {{}, {Morning, Overnight}, {Forever}},
        rows \in {{}, {Lesson}, {NoLesson}},
        valid \in {<<Absent, Absent>>, <<6, Absent>>, <<Absent, 6>>},
        breaks \in {{}, {[start_date |-> Monday, end_date |-> Monday]},
                    {[start_date |-> Absent, end_date |-> Monday]}},
        windows \in {{}, {[Morning EXCEPT !.start = 2]}, {Overnight}},
        days \in {{}, {Monday}},
        allowed \in {{}, {[Morning EXCEPT !.end = 1] @@ [member_id |-> m] :
                             m \in {CHOOSE m \in Member : TRUE}}}}
=============================================================================
