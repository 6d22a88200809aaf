------------------------------ MODULE WeeklyHost -------------------------------
(***************************************************************************)
(* The host that runs the week: the timer that starts the deadline gate     *)
(* (platform/weekly_schedule.py, main and start_run), the weekly run a tick *)
(* starts, and the release of a completed run (platform/weekly_release.py,  *)
(* release_run) by that tick or by a person who stops the timer first       *)
(* (deploy/weekly-schedule/README.md, "Release a run").                     *)
(*                                                                          *)
(* The unit is oneshot: the timer starts no second tick while one runs, and *)
(* a tick lasts as long as the run and the release it started.  The host may*)
(* go down at any step; what is on disk, and what GitHub holds, stays.      *)
(*                                                                          *)
(* A run's stages are WeeklyJournal's; here a run completes, or stops at the *)
(* checkout, the club news or a stage.  Tags, logs' wording, measurements and*)
(* the slot issue's comments are left out.                                  *)
(***************************************************************************)
EXTENDS WeeklySchedule

CONSTANTS
    Deadlines,  \* the deadlines the game publishes at first
    MaxAge,     \* BOOTSTRAP_MAX_AGE
    Releases,   \* whether the gate runs with --release
    Horizon,    \* bound: the last instant
    MaxFaults,  \* bound: failures, refusals, overruns, crashes and unread documents
    MaxMoves,   \* bound: deadlines the game moves
    Targets,    \* bound: the instants it moves them to
    MaxHand,    \* bound: releases by hand
    Visits,     \* bound: the instants at which a person starts one
    NoRun, NoCopy

ASSUME WeeklyHostAssumption ==
    /\ Deadlines \in [Gameweek -> Nat]
    /\ Spaced(Deadlines)
    /\ \A g \in Gameweek : Deadlines[g] >= Lead
    /\ Targets \subseteq Nat /\ Visits \subseteq Nat
    /\ MaxAge \in Nat /\ Releases \in BOOLEAN
    /\ Horizon \in Nat /\ MaxFaults \in Nat /\ MaxMoves \in Nat /\ MaxHand \in Nat

\* A run is known by its marker and its start (run_id).
Run == [marker : Marker, at : Nat]

ASSUME NullAssumption ==
    /\ NoRun \notin Run
    /\ NoCopy \notin [deadline : [Gameweek -> Nat], settled : SUBSET Gameweek, at : Nat]

Releaser == {"gate", "person"}

VARIABLES
    now, time, sinceTick,  \* the clock, the time of day, how long ago the timer elapsed
    due,       \* the timer has elapsed and the tick it starts has not decided yet
    lost,      \* the timer elapsed while the host or the timer was off (Persistent=true)
    up,        \* the host is up
    timer,     \* the timer is on
    deadline,  \* the deadlines the game publishes
    settled,   \* the gameweeks it says are finished and checked
    copy,      \* bootstrap.json: the document held, and since when
    markers,   \* data/runtime/weekly-schedule/started
    alarms,    \* the gameweeks whose missed final run was reported
    unit,      \* the run of the tick under way
    completed, \* the runs whose journal says completed
    log,       \* the runs with a release log
    release,   \* what each releaser is doing
    queued, merged, closed,  \* runs by the state of their site pull request; open otherwise
    started,   \* history: every run started
    effects,   \* history: what releases did to the public, by release
    faulty,    \* history: instants at which the host could not start a run on time
    moved,     \* history: gameweeks whose deadline the game moved
    hand, moves, faults  \* how much of MaxHand, MaxMoves and MaxFaults has happened

clock == <<now, time, sinceTick>>
host == <<due, lost, up, timer>>
game == <<deadline, settled, moved, moves>>
gate == <<copy, markers, alarms, started>>
public == <<queued, merged, closed, effects>>
vars == <<clock, host, game, gate, unit, completed, log, release, public, faulty, hand, faults>>

-------------------------------------------------------------------------------
IdleRelease == [pc |-> "idle", run |-> NoRun, attempt |-> 0]

IsOpen(r) == r \notin queued \cup merged \cup closed
Fault == faults < MaxFaults /\ faults' = faults + 1

Init ==
    /\ now = 0 /\ time = 0 /\ sinceTick \in 0..(TickEvery - 1)
    /\ due = FALSE /\ lost = FALSE /\ up = TRUE /\ timer = TRUE
    /\ deadline = Deadlines /\ settled = {} /\ moved = {} /\ moves = 0
    /\ copy = NoCopy /\ markers = {} /\ alarms = {} /\ started = {}
    /\ unit = NoRun /\ completed = {} /\ log = {}
    /\ release = [x \in Releaser |-> IdleRelease]
    /\ queued = {} /\ merged = {} /\ closed = {} /\ effects = {}
    /\ faulty = {} /\ hand = 0 /\ faults = 0

-------------------------------------------------------------------------------
\* The clock, the timer and the host

Elapses == sinceTick + 1 = TickEvery
Overruns(t) == unit # NoRun /\ t > unit.at + RunTime

\* Mutant: the timer starts a tick although one is running.
StartsTickAlways == Elapses /\ up /\ timer

\* A tick is due unless one is running: an active unit is not started again.
StartsTick == Elapses /\ up /\ timer /\ unit = NoRun

\* Time passes; a run that outlasts its RunTime is a fault, counted once.
Advance ==
    /\ ~due
    /\ now < Horizon
    /\ now' = now + 1
    /\ time' = IF time + 1 = Day THEN 0 ELSE time + 1
    /\ sinceTick' = IF Elapses THEN 0 ELSE sinceTick + 1
    /\ due' = StartsTick
    /\ lost' = (lost \/ (Elapses /\ ~(up /\ timer)))
    /\ faulty' = IF ~up \/ ~timer \/ Overruns(now + 1) THEN faulty \cup {now + 1} ELSE faulty
    /\ IF Overruns(now + 1) /\ ~Overruns(now) THEN Fault ELSE UNCHANGED faults
    /\ UNCHANGED <<up, timer, game, gate, unit, completed, log, release, public, hand>>

\* The host goes down, and every process with it.
Crash ==
    /\ up /\ Fault
    /\ up' = FALSE /\ due' = FALSE
    /\ unit' = NoRun
    /\ release' = [x \in Releaser |-> IdleRelease]
    /\ faulty' = faulty \cup {now}
    /\ UNCHANGED <<clock, lost, timer, game, gate, completed, log, public, hand>>

\* The timer comes back with the host, and a tick it lost runs once.
Boot ==
    /\ ~up
    /\ up' = TRUE /\ timer' = TRUE
    /\ due' = lost /\ lost' = FALSE
    /\ UNCHANGED <<clock, game, gate, unit, completed, log, release, public, faulty, hand, faults>>

-------------------------------------------------------------------------------
\* The game

Settle(g) ==
    /\ deadline[g] <= now
    /\ g \notin settled
    /\ settled' = settled \cup {g}
    /\ UNCHANGED <<clock, host, deadline, moved, moves, gate, unit, completed, log, release,
                   public, faulty, hand, faults>>

\* A deadline that is still ahead moves to another instant ahead.
MoveDeadline(g, d) ==
    /\ moves < MaxMoves
    /\ deadline[g] > now /\ d > now /\ d # deadline[g]
    /\ Spaced([deadline EXCEPT ![g] = d])
    /\ deadline' = [deadline EXCEPT ![g] = d]
    /\ moved' = moved \cup {g}
    /\ moves' = moves + 1
    /\ UNCHANGED <<clock, host, settled, gate, unit, completed, log, release, public, faulty,
                   hand, faults>>

-------------------------------------------------------------------------------
\* A tick

Published == [deadline |-> deadline, settled |-> settled, at |-> now]
IsFresh == copy # NoCopy /\ now - copy.at < MaxAge

\* The document a tick decides on: the copy while it is fresh, else the one published,
\* else, when the read fails, the copy that is held.
Bootstrap(k) ==
    /\ copy' = k
    /\ \/ IsFresh /\ k = copy /\ UNCHANGED faults
       \/ ~IsFresh /\ k = Published /\ UNCHANGED faults
       \/ ~IsFresh /\ copy # NoCopy /\ k = copy /\ Fault

\* Mutant: the marker is left to the end of the run.
MarkLater(m) == m \notin markers /\ markers' = markers

Mark(m) == markers' = markers \cup {m}

\* The marker is written before anything else.
TickStarts ==
    /\ due
    /\ \E k \in {copy, Published} :
        /\ Bootstrap(k)
        /\ \E m \in Chosen(k.deadline, k.settled, now, time, markers) :
            /\ Mark(m)
            /\ unit' = [marker |-> m, at |-> now]
    /\ started' = started \cup {unit'}
    /\ due' = FALSE
    /\ UNCHANGED <<clock, lost, up, timer, game, alarms, completed, log, release, public,
                   faulty, hand>>

\* Nothing to start: a run missed is reported, and no deadline ahead is a refusal.
TickStartsNothing ==
    /\ due
    /\ \E k \in {copy, Published} :
        /\ Bootstrap(k)
        /\ Chosen(k.deadline, k.settled, now, time, markers) = {}
        /\ alarms' = alarms \cup MissedFinals(k.deadline, now, markers)
    /\ due' = FALSE
    /\ UNCHANGED <<clock, lost, up, timer, game, markers, started, unit, completed, log, release,
                   public, faulty, hand>>

\* No document is held and none can be read, the season or the state is unreadable, or
\* the tick dies before its marker.
TickFails ==
    /\ due /\ Fault
    /\ due' = FALSE
    /\ faulty' = faulty \cup {now}
    /\ UNCHANGED <<clock, lost, up, timer, game, gate, unit, completed, log, release, public, hand>>

-------------------------------------------------------------------------------
\* The weekly run of the tick under way

InWeekly == unit # NoRun /\ release["gate"].pc = "idle"

\* The checkout or the club news is refused, a stage fails, or the tick is killed.
WeeklyStops ==
    /\ InWeekly /\ Fault
    /\ unit' = NoRun
    /\ UNCHANGED <<clock, host, game, gate, completed, log, release, public, faulty, hand>>

\* The weekly command exits 0; with --release the tick goes on to release its run.
WeeklyCompletes ==
    /\ InWeekly
    /\ completed' = completed \cup {unit}
    /\ IF Releases
       THEN /\ release' = [release EXCEPT !["gate"] =
                              [pc |-> "called", run |-> unit, attempt |-> 0]]
            /\ unit' = unit
       ELSE unit' = NoRun /\ release' = release
    /\ UNCHANGED <<clock, host, game, gate, log, public, faulty, hand, faults>>

-------------------------------------------------------------------------------
\* A release, by releaser x: the gate's tick or a person

RunOf(x) == release[x].run
At(x, pc) == release[x].pc = pc
Goes(x, pc) == release' = [release EXCEPT ![x].pc = pc]

\* The chain ends, and with it the tick when it is the gate's.
Ends(x) ==
    /\ release' = [release EXCEPT ![x] = IdleRelease]
    /\ unit' = IF x = "gate" THEN NoRun ELSE unit

Effect(x, what) ==
    effects' = effects \cup {[what |-> what, run |-> RunOf(x), attempt |-> release[x].attempt]}

\* Mutant: the log is not asked whether the run was released before.
ReleasedBeforeNever(r) == r \in log /\ r \notin completed
ReleasedBefore(r) == r \in log

\* A run that has a log is refused, and the refusal adds a line to it.
TestLog(x) ==
    /\ At(x, "called")
    /\ IF ReleasedBefore(RunOf(x)) THEN Ends(x) ELSE Goes(x, "tested") /\ unit' = unit
    /\ UNCHANGED <<clock, host, game, gate, completed, log, public, faulty, hand, faults>>

\* The inputs and the tag are read, and the first line makes the log.
SayRun(x) ==
    /\ At(x, "tested")
    /\ RunOf(x) \in completed
    /\ log' = log \cup {RunOf(x)}
    /\ Goes(x, "said")
    /\ UNCHANGED <<clock, host, game, gate, unit, completed, public, faulty, hand, faults>>

\* The inputs or the tags cannot be read: the refusal is the log's first line.
RefuseInputs(x) ==
    /\ At(x, "tested") /\ Fault
    /\ log' = log \cup {RunOf(x)}
    /\ Ends(x)
    /\ UNCHANGED <<clock, host, game, gate, completed, public, faulty, hand>>

\* The league tree, a required check or the pull request's id refuses the release.
RefuseTree(x) ==
    /\ At(x, "said") /\ Fault
    /\ Ends(x)
    /\ UNCHANGED <<clock, host, game, gate, completed, log, public, faulty, hand>>

\* GitHub takes the pull request into its queue; the answer may be lost.
Enqueue(x) ==
    /\ At(x, "said")
    /\ IsOpen(RunOf(x))
    /\ queued' = queued \cup {RunOf(x)}
    /\ Effect(x, "enqueue")
    /\ \/ Goes(x, "enqueued") /\ UNCHANGED <<unit, faults>>
       \/ Ends(x) /\ Fault
    /\ UNCHANGED <<clock, host, game, gate, completed, log, merged, closed, faulty, hand>>

\* It is refused: it is no longer open, or the call fails.
EnqueueFails(x) ==
    /\ At(x, "said")
    /\ IF IsOpen(RunOf(x)) THEN Fault ELSE UNCHANGED faults
    /\ Ends(x)
    /\ UNCHANGED <<clock, host, game, gate, completed, log, public, faulty, hand>>

\* Mutant: whatever GitHub answers ends the wait.
SeeMergedAnyhow(x) ==
    /\ At(x, "enqueued")
    /\ Goes(x, "merged")
    /\ UNCHANGED <<clock, host, game, gate, unit, completed, log, public, faulty, hand, faults>>

SeeMerged(x) ==
    /\ At(x, "enqueued")
    /\ RunOf(x) \in merged
    /\ Goes(x, "merged")
    /\ UNCHANGED <<clock, host, game, gate, unit, completed, log, public, faulty, hand, faults>>

\* The pull request was closed, or has not merged within the minutes a release waits.
StopWaiting(x) ==
    /\ At(x, "enqueued")
    /\ IF RunOf(x) \in closed THEN UNCHANGED faults ELSE Fault
    /\ Ends(x)
    /\ UNCHANGED <<clock, host, game, gate, completed, log, public, faulty, hand>>

\* ship.sh releases the run, or stops before or after the release is public.
Ship(x) ==
    /\ At(x, "merged")
    /\ \/ Effect(x, "ship") /\ Goes(x, "live") /\ UNCHANGED <<unit, faults>>
       \/ Effect(x, "ship") /\ Ends(x) /\ Fault
       \/ UNCHANGED effects /\ Ends(x) /\ Fault
    /\ UNCHANGED <<clock, host, game, gate, completed, log, queued, merged, closed, faulty, hand>>

\* The backend follows and the bundle is sealed, or one of them stops: either way it ends.
MoveBackend(x) ==
    /\ At(x, "live")
    /\ Ends(x)
    /\ UNCHANGED <<clock, host, game, gate, completed, log, public, faulty, hand, faults>>

-------------------------------------------------------------------------------
\* GitHub

Merge(r) ==
    /\ r \in queued
    /\ queued' = queued \ {r} /\ merged' = merged \cup {r}
    /\ UNCHANGED <<clock, host, game, gate, unit, completed, log, release, closed, effects, faulty,
                   hand, faults>>

\* The queue drops the pull request, which is open again.
Kick(r) ==
    /\ r \in queued
    /\ queued' = queued \ {r}
    /\ UNCHANGED <<clock, host, game, gate, unit, completed, log, release, merged, closed, effects,
                   faulty, hand, faults>>

Close(r) ==
    /\ r \in queued /\ Fault
    /\ queued' = queued \ {r} /\ closed' = closed \cup {r}
    /\ UNCHANGED <<clock, host, game, gate, unit, completed, log, release, merged, effects, faulty,
                   hand>>

-------------------------------------------------------------------------------
\* A release by hand

NoTick == up /\ unit = NoRun

\* A run has been previewed and accepted; no tick is running.
LookAtUnit(r) ==
    /\ hand < MaxHand /\ now \in Visits
    /\ timer
    /\ At("person", "idle")
    /\ NoTick
    /\ r \in completed
    /\ hand' = hand + 1
    /\ release' = [release EXCEPT !["person"] =
                      [pc |-> "looked", run |-> r, attempt |-> hand + 1]]
    /\ UNCHANGED <<clock, host, game, gate, unit, completed, log, public, faulty, faults>>

\* The timer stops; a tick it started since the look goes on.
StopTimer ==
    /\ At("person", "looked")
    /\ timer' = FALSE
    /\ faulty' = faulty \cup {now}
    /\ Goes("person", "called")
    /\ UNCHANGED <<clock, due, lost, up, game, gate, unit, completed, log, public, hand, faults>>

\* The release was interrupted: only its own process dies.
Interrupt ==
    /\ release["person"].pc \notin {"idle", "looked"} /\ Fault
    /\ Ends("person")
    /\ UNCHANGED <<clock, host, game, gate, completed, log, public, faulty, hand>>

\* A tick lost meanwhile runs once, unless one is still running.
StartTimer ==
    /\ up /\ ~timer
    /\ At("person", "idle")
    /\ timer' = TRUE
    /\ due' = (due \/ (lost /\ unit = NoRun))
    /\ lost' = FALSE
    /\ UNCHANGED <<clock, up, game, gate, unit, completed, log, release, public, faulty, hand,
                   faults>>

-------------------------------------------------------------------------------
Releasing(x) ==
    \/ TestLog(x) \/ SayRun(x) \/ RefuseInputs(x) \/ RefuseTree(x)
    \/ Enqueue(x) \/ EnqueueFails(x) \/ SeeMerged(x) \/ StopWaiting(x)
    \/ Ship(x) \/ MoveBackend(x)

Next ==
    \/ Advance \/ Crash \/ Boot
    \/ \E g \in Gameweek : Settle(g)
    \/ \E g \in Gameweek, d \in Targets : MoveDeadline(g, d)
    \/ TickStarts \/ TickStartsNothing \/ TickFails
    \/ WeeklyStops \/ WeeklyCompletes
    \/ \E x \in Releaser : Releasing(x)
    \/ \E r \in queued : Merge(r) \/ Kick(r) \/ Close(r)
    \/ \E r \in completed : LookAtUnit(r)
    \/ StopTimer \/ Interrupt \/ StartTimer

Spec == Init /\ [][Next]_vars

-------------------------------------------------------------------------------
TypeOK ==
    /\ now \in Nat /\ time \in 0..(Day - 1) /\ sinceTick \in 0..(TickEvery - 1)
    /\ due \in BOOLEAN /\ lost \in BOOLEAN /\ up \in BOOLEAN /\ timer \in BOOLEAN
    /\ deadline \in [Gameweek -> Nat] /\ settled \subseteq Gameweek /\ moved \subseteq Gameweek
    /\ copy \in [deadline : [Gameweek -> Nat], settled : SUBSET Gameweek, at : Nat] \cup {NoCopy}
    /\ markers \subseteq Marker /\ alarms \subseteq Gameweek
    /\ unit \in Run \cup {NoRun}
    /\ completed \subseteq Run /\ log \subseteq Run
    /\ release \in [Releaser ->
            [pc : {"idle", "looked", "called", "tested", "said", "enqueued", "merged", "live"},
             run : Run \cup {NoRun}, attempt : Nat]]
    /\ queued \subseteq Run /\ merged \subseteq Run /\ closed \subseteq Run
    /\ started \subseteq Run
    /\ effects \subseteq [what : {"enqueue", "ship"}, run : Run, attempt : Nat]
    /\ faulty \subseteq Nat
    /\ hand \in Nat /\ moves \in Nat /\ faults \in Nat
    /\ due => up /\ unit = NoRun

\* A gameweek whose deadline has passed without its final run, although the game did not
\* move it, had the host off, the timer stopped, a tick refused or another run too late
\* within one period of the timer from the final run's start: no morning run, no settled
\* view, no fixture gap and no stale copy of the deadlines keeps a final run from starting.
MissedIsExplained ==
    \A g \in Gameweek \ moved :
        deadline[g] <= now /\ Final(g) \notin markers
        => \E t \in faulty : FinalStart(deadline, g) <= t /\ t <= FinalStart(deadline, g) + TickEvery

\* However often the host goes down or the game moves a deadline, a marker stands for one
\* run: one final run a gameweek, one morning run a day, one settled view a gap.
OncePerMarker == \A r, s \in started : r.marker = s.marker => r = s

\* No final run that started is reported missed, before or after.
MissedAlarmIsTrue == \A g \in alarms \ moved : Final(g) \notin markers

\* One release, the gate's or one by hand, does all that is ever done to the public with a
\* run: no second one enqueues or ships it, wherever the first stopped.
ReleasedOnce == \A e, f \in effects : e.run = f.run => e.attempt = f.attempt

\* The host keeps what is promised of its runs: no crash, lost answer, second release or tick
\* makes it start a marker's run again, offer or ship one again, or ship one that the site has
\* not merged.
Did(what) == {e.run : e \in {e \in effects : e.what = what}}
Runs == INSTANCE WeeklyRuns WITH offered <- Did("enqueue"), shipped <- Did("ship")
Refines == Runs!Spec
===============================================================================
