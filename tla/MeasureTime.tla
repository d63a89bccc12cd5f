---------------------------- MODULE MeasureTime ----------------------------
(* Sml::MeasureTime (include/measure_time.hpp): a stopwatch on the steady  *)
(* clock. A timer is a record of m_flag, whether it runs, and of age, the   *)
(* time since m_time; ages stop at MaxAge, longer than any interval asked.  *)
EXTENDS Integers

CONSTANT MaxAge

Timer == [m_flag : BOOLEAN, age : 0..MaxAge]

\* MeasureTime(), which starts the timer.
Started == [m_flag |-> TRUE, age |-> 0]

\* Mutant: start sets the flag and leaves the time of the last start.
start_FlagOnly(t) == [t EXCEPT !.m_flag = TRUE]

start(t) == Started

\* What isExpire(interval) returns: later than the interval, not at it.
Expired(t, interval) == t.m_flag /\ interval < t.age

\* Mutant: a timer that has not expired is stopped as well.
isExpire_Stops(t, interval, repeate) == [t EXCEPT !.m_flag = repeate]

\* What isExpire(interval, repeate) leaves of the timer: it begins again,
\* or it is off and reports nothing more until start.
isExpire(t, interval, repeate) ==
    IF ~Expired(t, interval) THEN t
    ELSE IF repeate THEN start(t)
    ELSE [t EXCEPT !.m_flag = FALSE]

\* A unit of time passes.
Older(t) == [t EXCEPT !.age = IF @ < MaxAge THEN @ + 1 ELSE @]
=============================================================================
