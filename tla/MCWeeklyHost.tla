---------------------------- MODULE MCWeeklyHost -------------------------------
EXTENDS WeeklyHost

MCDeadlines == [g \in Gameweek |-> IF g = 1 THEN 6 ELSE 16]
===============================================================================
