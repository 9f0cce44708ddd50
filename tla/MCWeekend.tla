----------------------------- MODULE MCWeekend -----------------------------
\* Instances of WeekendEffects for TLC.  A unit of the clock is half an hour.
EXTENDS WeekendEffects

CONSTANTS p1, p2

WindowsOne == {[starts |-> 1, ends |-> 2]}

\* Two windows an event can be moved between, overlapping when two events have
\* one each.
WindowsTwo == {[starts |-> 1, ends |-> 2], [starts |-> 1, ends |-> 3]}
=============================================================================
