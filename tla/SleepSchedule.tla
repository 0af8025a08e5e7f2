--------------------------- MODULE SleepSchedule ---------------------------
(* The computations of the sleep scheduler (src/flamenco/sleep_scheduler.go *)
(* and time_of_day.go) on times of day.  A moment is a day and a time of    *)
(* day; a time of day of 24:00, here Hours, is the first of the next day.   *)
EXTENDS Integers

CONSTANTS
    None,
    Hours,      \* times of day in a day
    Week        \* days in a week

ASSUME SleepScheduleAssumption ==
    /\ Hours \in Nat \ {0}
    /\ Week \in Nat \ {0}
    /\ None \notin 0 .. Hours

TimesOfDay == 0 .. Hours

Moments == [day : Nat, tod : 0 .. Hours - 1]

Days == 0 .. Week - 1

Weekday(moment) == moment.day % Week

Before(m, n) == m.day < n.day \/ (m.day = n.day /\ m.tod < n.tod)

\* What the schedule wants at a moment: None when it is off, or when the day is
\* none of its days.
ScheduledStatus(schedule, moment) ==
    IF ~schedule.active \/ (schedule.days # {} /\ Weekday(moment) \notin schedule.days) THEN None
    ELSE IF \/ schedule.start # None /\ moment.tod < schedule.start
            \/ schedule.end # None /\ moment.tod >= schedule.end
         THEN "awake"
         ELSE "asleep"

NextDay(moment) == [day |-> moment.day + 1, tod |-> 0]

\* Mutant: 24:00 is taken for a time of the same day.
CalcNextUnnormalised(tod, moment) ==
    [day |-> IF tod <= moment.tod THEN moment.day + 1 ELSE moment.day, tod |-> tod]

\* calcNext, some time into the minute: the next moment with this time of day.
CalcNext(tod, moment) ==
    IF tod = Hours THEN NextDay(moment)
    ELSE [day |-> IF tod <= moment.tod THEN moment.day + 1 ELSE moment.day, tod |-> tod]

Earliest(m, n) == IF Before(n, m) THEN n ELSE m

\* Mutant: the end of the sleeping time is not checked.
NextCheckAtStart(schedule, moment) ==
    IF schedule.start = None THEN CalcNext(Hours, moment)
    ELSE Earliest(CalcNext(schedule.start, moment), CalcNext(Hours, moment))

NextCheck(schedule, moment) ==
    IF schedule.start = None /\ schedule.end = None THEN CalcNext(Hours, moment)
    ELSE IF schedule.start = None THEN CalcNext(schedule.end, moment)
    ELSE IF schedule.end = None THEN CalcNext(Hours, moment)
    ELSE Earliest(Earliest(CalcNext(schedule.start, moment), CalcNext(schedule.end, moment)),
                  CalcNext(Hours, moment))

============================================================================
