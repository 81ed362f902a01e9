--------------------------- MODULE MCScheduleSync ---------------------------
(* ScheduleSync for TLC: a Monday morning, and three schedules of the room *)
(* for it: closed for a holiday at first, then open as usual, or locked    *)
(* down with an exception that was approved before.                        *)
EXTENDS ScheduleSync

MCMember == {"member"}
MCMoment == [day |-> 7, time |-> 1]

Usual ==
    [lockdown |-> FALSE, require_request |-> FALSE,
     edge_run_start |-> -1, edge_run_end |-> -1,
     access_overrides |-> {}, weekly_schedule |-> {},
     schedule_start |-> -1, schedule_end |-> -1,
     school_breaks |-> {}, scheduled_lockdowns |-> {},
     holidays |-> {}, exceptions |-> {}]

Approved == [member_id |-> "member", date |-> 7, start |-> 0, end |-> 1]

MCFirst == [Usual EXCEPT !.holidays = {7}]

MCBundles ==
    {Usual, MCFirst,
     [Usual EXCEPT !.lockdown = TRUE, !.exceptions = {Approved}]}
=============================================================================
