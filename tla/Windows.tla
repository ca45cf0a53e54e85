------------------------------ MODULE Windows ------------------------------
(* The lazily reset window counters of internal/store/state.go (lines       *)
(* 677-719) and model.WindowCounter / model.UserCounters.                   *)
(*                                                                          *)
(* Time is a natural number of ticks of the process's local clock.  An hour *)
(* has HourLen ticks and a day HoursPerDay hours.                           *)
EXTENDS Integers

CONSTANTS HourLen, HoursPerDay

ASSUME ClockAssumption == /\ HourLen \in Nat \ {0}
                          /\ HoursPerDay \in Nat \ {0}

Time == Nat

\* The zero time.Time, earlier than every reading of the clock.
ZeroTime == -1

\* WindowStart and Value of model.WindowCounter; a map entry that is absent
\* reads as the zero struct.
WindowCounter == [start : Time \cup {ZeroTime}, value : Int]
UserCounter   == [hour : WindowCounter, day : WindowCounter]

ZeroCounter == [start |-> ZeroTime, value |-> 0]
ZeroUser    == [hour |-> ZeroCounter, day |-> ZeroCounter]

\* The start of the clock hour, and of the calendar day, that contains t.
hourStart(t) == t - (t % HourLen)
dayStart(t)  == t - (t % (HourLen * HoursPerDay))

\* A counter of another window (earlier OR later) is replaced by an empty
\* counter of the window that begins at start.
ensureWindow(c, start) ==
    IF c.start # start \/ c.start = ZeroTime
    THEN [start |-> start, value |-> 0]
    ELSE c

\* The read-only form, used by routing: nothing is stored.
windowValue(c, now) ==
    IF c.start # ZeroTime /\ c.start # hourStart(now) THEN 0 ELSE c.value

max64(a, b) == IF a > b THEN a ELSE b

\* A counter to which a reservation of d is added as it is ...
Added(c, d) == [c EXCEPT !.value = @ + d]

\* Fault: nothing is clamped.
AdjustedUnclamped(c, d) == [c EXCEPT !.value = c.value + d]

\* ... and one that a refund or a settlement changes by d, clamped at zero.
Adjusted(c, d) == [c EXCEPT !.value = max64(0, c.value + d)]
=============================================================================
