---------------------------- MODULE MCSeasonLedger -----------------------------
EXTENDS SeasonLedger, TLC

MCSymmetry == Permutations(Writer)

\* Each chip may be played once before the third gameweek and once from it on.
MCWindows == {2..2, 3..Gameweeks}
MCPlays == {<<"none", 2>>, <<"wildcard", 1>>, <<"freehit", 1>>}
===============================================================================
