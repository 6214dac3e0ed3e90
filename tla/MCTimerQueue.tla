---------------------------- MODULE MCTimerQueue ----------------------------
(* TimerQueue on a small instance: s1 and s2 fire once, after no delay and *)
(* after two ticks, r1 repeats with every tick.  The delay of two ticks    *)
(* reaches past MaxInt when the clock is at MaxTime.                       *)
EXTENDS TimerQueue

CONSTANTS s1, s2, r1

MCDelay == [t \in Timers |-> IF t = s1 THEN 0 ELSE IF t = s2 THEN 2 ELSE 1]
MCInterval == [t \in Timers |-> IF t = r1 THEN 1 ELSE 0]
=============================================================================
