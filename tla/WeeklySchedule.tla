---------------------------- MODULE WeeklySchedule -----------------------------
(***************************************************************************)
(* The deadline gate's decision (platform/weekly_schedule.py, decide): from *)
(* the deadlines a tick knows, the clock and the runs already started, the  *)
(* one run this tick starts, or none.                                       *)
(*                                                                          *)
(* Instants are natural numbers.  A day starts at now - time, where time is *)
(* the time of day, and that instant is the day's name.  A marker names the *)
(* run it stands for: the final run of a gameweek, the morning run of a day *)
(* or the settled view of a gameweek.                                       *)
(***************************************************************************)
EXTENDS Integers, FiniteSets

CONSTANTS
    Gameweeks,  \* how many gameweeks the season has left
    Lead,       \* --final-lead-hours: the final run starts this long before the deadline
    RunTime,    \* --run-hours: what a run is given, its release in the same tick included
    Window,     \* --lead-window-days: a deadline further away is across a fixture gap
    Day,        \* the length of a day
    MorningAt,  \* --morning-utc
    TickEvery   \* the timer's period

(***************************************************************************)
(* decide itself refuses only Lead < RunTime and Window <= 0.  The last two *)
(* conjuncts are what the deployment has beyond that (lead 8 h, run 7 h,    *)
(* window 9 days, a tick every 15 minutes), and the schedule needs them: the*)
(* final run's start has to meet a tick, and a settled view, which is not   *)
(* held back for a final run, has to end before one.                        *)
(***************************************************************************)
ASSUME WeeklyScheduleAssumption ==
    /\ Gameweeks \in Nat \ {0}
    /\ Lead \in Nat /\ RunTime \in Nat \ {0} /\ Window \in Nat
    /\ Day \in Nat \ {0} /\ MorningAt \in 0..(Day - 1)
    /\ TickEvery \in Nat \ {0}
    /\ Lead >= RunTime + TickEvery
    /\ Window >= Day + Lead + RunTime

Gameweek == 1..Gameweeks

Marker == {"final", "settled", "morning"} \X Int

Final(g) == <<"final", g>>
SettledView(g) == <<"settled", g>>
Morning(day) == <<"morning", day>>

\* A season's deadlines come in order, and far enough apart for one final run to end
\* before the next starts.
Spaced(d) == \A g, h \in Gameweek : g < h => d[g] + Lead <= d[h]

Ahead(d, now) == {g \in Gameweek : d[g] > now}

\* The gameweek a tick looks at; none after the last deadline.
Nearest(d, now) == {g \in Ahead(d, now) : \A h \in Ahead(d, now) : g <= h}

FinalStart(d, g) == d[g] - Lead
MorningFrom(now, time) == now - time + MorningAt

\* Judged at the morning time, so that every tick of a day agrees.
InGap(d, g, now, time) == d[g] - MorningFrom(now, time) > Window

\* Mutant: a morning run starts as long as the final run has not.
MorningFitsAnyhow(d, g, now) == FinalStart(d, g) > now

\* A morning run ends before the final run starts.
MorningFits(d, g, now) == FinalStart(d, g) - now >= RunTime

-------------------------------------------------------------------------------
\* The marker a tick would write for gameweek g, were it not written yet.

FinalRun(d, g, now) ==
    {m \in {Final(g)} : now >= FinalStart(d, g) /\ d[g] - now >= RunTime}

SettledRun(d, settled, g, now, time) ==
    {m \in {SettledView(g - 1)} :
        /\ now < FinalStart(d, g)
        /\ now >= MorningFrom(now, time)
        /\ InGap(d, g, now, time)
        /\ g - 1 \in settled}

MorningRun(d, g, now, time) ==
    {m \in {Morning(now - time)} :
        /\ now < FinalStart(d, g)
        /\ now >= MorningFrom(now, time)
        /\ ~InGap(d, g, now, time)
        /\ MorningFits(d, g, now)}

RunsFor(d, settled, g, now, time) ==
    FinalRun(d, g, now) \cup SettledRun(d, settled, g, now, time) \cup MorningRun(d, g, now, time)

\* The run a tick starts: at most one.
Chosen(d, settled, now, time, markers) ==
    (UNION {RunsFor(d, settled, g, now, time) : g \in Nearest(d, now)}) \ markers

IsLate(d, g, now) == now >= FinalStart(d, g) /\ d[g] - now < RunTime

\* Mutant: the time left is looked at before the marker.
MissedFinalsUnmarked(d, now, markers) == {g \in Nearest(d, now) : IsLate(d, g, now)}

\* The gameweek whose final run a tick reports as missed.
MissedFinals(d, now, markers) ==
    {g \in Nearest(d, now) : IsLate(d, g, now) /\ Final(g) \notin markers}
===============================================================================
