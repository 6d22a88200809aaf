--------------------------- MODULE WeeklyHost_proofs ---------------------------
(***************************************************************************)
(* Theorems of WeeklyHost, for every season, every deployment that satisfies*)
(* the assumptions, and any number of faults, moved deadlines and releases  *)
(* by hand.                                                                 *)
(*                                                                          *)
(* The final run starts because three things are kept up together: what a   *)
(* tick knows of a deadline the game has not moved is right; a run under way *)
(* is given an end that comes before the final run's start; and, once that  *)
(* start has come with the host in order, the timer has not elapsed since   *)
(* without a tick that is about to start it.                                *)
(*                                                                          *)
(* The host implements WeeklyRuns because what has been done with a run     *)
(* agrees with how far the one release that works on it has come (ShipInv). *)
(***************************************************************************)
EXTENDS WeeklyHost, TLAPS

-------------------------------------------------------------------------------
HostDown == ~up => unit = NoRun /\ release = [x \in Releaser |-> IdleRelease]

\* What a tick may decide on agrees with the game on every deadline it has not moved.
Agrees(d) == Spaced(d) /\ \A g \in Gameweek \ moved : d[g] = deadline[g]
KnownInv == Agrees(deadline) /\ (copy # NoCopy => Agrees(copy.deadline))

StartsInv ==
    /\ \A r \in started : r.marker \in markers
    /\ OncePerMarker
    /\ completed \subseteq started
    /\ unit # NoRun => unit \in started /\ unit.at <= now

AlarmInv ==
    \A g \in alarms \ moved : Final(g) \notin markers /\ deadline[g] - now < RunTime

\* A gameweek the final run of which is still to start.
Waiting(g) == g \in Gameweek \ moved /\ Final(g) \notin markers

RunFits ==
    \A g \in Gameweek : Waiting(g) /\ unit # NoRun
        => \/ unit.at + RunTime <= FinalStart(deadline, g)
           \/ deadline[g] <= unit.at

\* The host was in order from the final run's start for one period of the timer.
InOrder(g) ==
    \A t \in faulty : ~(FinalStart(deadline, g) <= t /\ t <= FinalStart(deadline, g) + TickEvery)

TickComes(g) ==
    \/ now - sinceTick <= FinalStart(deadline, g)
    \/ due /\ sinceTick = 0 /\ now <= FinalStart(deadline, g) + TickEvery

OnTime ==
    \A g \in Gameweek : Waiting(g) /\ InOrder(g) /\ now >= FinalStart(deadline, g)
        => deadline[g] > now /\ TickComes(g)

\* The releasers never work on one run, and a run that has been said to be released has
\* been touched by that release alone.
GateInv ==
    /\ release["gate"].pc # "idle" <=> (unit # NoRun /\ unit \in completed)
    /\ release["gate"].pc # "idle" => release["gate"].run = unit

PersonInv ==
    release["person"].pc # "idle" =>
        /\ release["person"].run \in completed
        /\ release["person"].run # unit

Past(x) == release[x].pc \in {"said", "enqueued", "merged", "live"}

EffectsInv ==
    /\ \A e \in effects : e.run \in log
    /\ ReleasedOnce
    /\ \A x \in Releaser : release[x].pc = "tested" => RunOf(x) \notin log
    /\ \A x \in Releaser : Past(x) =>
        /\ RunOf(x) \in log
        /\ \A e \in effects : e.run = RunOf(x) => e.attempt = release[x].attempt

ReleaseInv == GateInv /\ PersonInv /\ EffectsInv

IInv == /\ TypeOK /\ HostDown /\ KnownInv /\ StartsInv /\ AlarmInv /\ RunFits /\ OnTime /\ ReleaseInv

-------------------------------------------------------------------------------
\* Steps of the run under way and of releases, which leave the gate, its clock and the
\* game alone, and the other steps.

RunSteps ==
    \/ WeeklyStops \/ WeeklyCompletes
    \/ \E x \in Releaser : Releasing(x)
    \/ \E r \in queued : Merge(r) \/ Kick(r) \/ Close(r)
    \/ \E r \in completed : LookAtUnit(r)
    \/ Interrupt

HostSteps ==
    \/ Advance \/ Crash \/ Boot
    \/ \E g \in Gameweek : Settle(g)
    \/ \E g \in Gameweek, d \in Targets : MoveDeadline(g, d)
    \/ TickStarts \/ TickStartsNothing \/ TickFails
    \/ StopTimer \/ StartTimer

LEMMA NextIsSplit == Next => RunSteps \/ HostSteps
BY DEF Next, RunSteps, HostSteps

ReleasePc == {"idle", "looked", "called", "tested", "said", "enqueued", "merged", "live"}
ReleaseRecord == [pc : ReleasePc, run : Run \cup {NoRun}, attempt : Nat]

\* A release's step ends it or takes it to another step, and ends the tick if it is the
\* gate's.
Moves(x) == Ends(x) \/ (\E pc \in ReleasePc \ {"idle"} : Goes(x, pc) /\ unit' = unit)

LEMMA ReleasingMoves ==
    ASSUME NEW x \in Releaser, Releasing(x)
    PROVE  /\ Moves(x)
           /\ UNCHANGED <<clock, host, game, gate, completed, faulty, hand>>
           /\ faults' = faults \/ faults' = faults + 1
<1>1. CASE TestLog(x)
  BY <1>1 DEF TestLog, Moves, ReleasePc
<1>2. CASE SayRun(x)
  BY <1>2 DEF SayRun, Moves, ReleasePc
<1>3. CASE RefuseInputs(x)
  BY <1>3 DEF RefuseInputs, Moves, Fault
<1>4. CASE RefuseTree(x)
  BY <1>4 DEF RefuseTree, Moves, Fault
<1>5. CASE Enqueue(x)
  BY <1>5 DEF Enqueue, Moves, Fault, ReleasePc
<1>6. CASE EnqueueFails(x)
  BY <1>6 DEF EnqueueFails, Moves, Fault
<1>7. CASE SeeMerged(x)
  BY <1>7 DEF SeeMerged, Moves, ReleasePc
<1>8. CASE StopWaiting(x)
  BY <1>8 DEF StopWaiting, Moves, Fault
<1>9. CASE Ship(x)
  BY <1>9 DEF Ship, Moves, Fault, ReleasePc
<1>10. CASE MoveBackend(x)
  BY <1>10 DEF MoveBackend, Moves
<1> QED
  BY <1>1, <1>2, <1>3, <1>4, <1>5, <1>6, <1>7, <1>8, <1>9, <1>10 DEF Releasing

LEMMA RunStepsAreQuiet ==
    ASSUME RunSteps
    PROVE  /\ UNCHANGED <<now, time, sinceTick, due, lost, up, timer>>
           /\ UNCHANGED <<deadline, settled, moved, moves, copy, markers, alarms, started, faulty>>
           /\ unit' = unit \/ unit' = NoRun
<1> USE DEF clock, host, game, gate
<1>1. CASE WeeklyStops
  BY <1>1 DEF WeeklyStops
<1>2. CASE WeeklyCompletes
  BY <1>2 DEF WeeklyCompletes
<1>3. CASE \E x \in Releaser : Releasing(x)
  BY <1>3, ReleasingMoves DEF Moves, Ends
<1>4. CASE \E r \in queued : Merge(r) \/ Kick(r) \/ Close(r)
  BY <1>4 DEF Merge, Kick, Close
<1>5. CASE \E r \in completed : LookAtUnit(r)
  BY <1>5 DEF LookAtUnit
<1>6. CASE Interrupt
  BY <1>6 DEF Interrupt, Ends
<1> QED
  BY <1>1, <1>2, <1>3, <1>4, <1>5, <1>6 DEF RunSteps

-------------------------------------------------------------------------------
\* Types

LEMMA GoesIsTyped ==
    ASSUME release \in [Releaser -> ReleaseRecord], NEW x \in Releaser, NEW pc \in ReleasePc,
           Goes(x, pc)
    PROVE  release' \in [Releaser -> ReleaseRecord]
BY DEF Goes, ReleaseRecord

LEMMA IdleIsTyped ==
    /\ IdleRelease \in ReleaseRecord
    /\ [x \in Releaser |-> IdleRelease] \in [Releaser -> ReleaseRecord]
BY DEF IdleRelease, ReleaseRecord, ReleasePc

LEMMA EndsIsTyped ==
    ASSUME release \in [Releaser -> ReleaseRecord], NEW x \in Releaser, Ends(x)
    PROVE  release' \in [Releaser -> ReleaseRecord]
<1>1. release' = [release EXCEPT ![x] = IdleRelease]
  BY DEF Ends
<1> QED
  BY <1>1, IdleIsTyped

LEMMA StartsIsTyped ==
    ASSUME release \in [Releaser -> ReleaseRecord], NEW x \in Releaser, NEW r \in Run,
           NEW pc \in ReleasePc, NEW n \in Nat,
           release' = [release EXCEPT ![x] = [pc |-> pc, run |-> r, attempt |-> n]]
    PROVE  release' \in [Releaser -> ReleaseRecord]
<1>1. [pc |-> pc, run |-> r, attempt |-> n] \in ReleaseRecord
  BY DEF ReleaseRecord
<1> QED
  BY <1>1

\* A run a release works on past its log is a run, not a null.
LEMMA RunOfIsRun ==
    ASSUME TypeOK, ReleaseInv, NEW x \in Releaser, release[x].pc # "idle"
    PROVE  RunOf(x) \in Run /\ RunOf(x) \in completed
<1>1. CASE x = "gate"
  BY <1>1 DEF ReleaseInv, GateInv, RunOf, TypeOK
<1>2. CASE x = "person"
  BY <1>2 DEF ReleaseInv, PersonInv, RunOf, TypeOK
<1> QED
  BY <1>1, <1>2 DEF Releaser

Effects == [what : {"enqueue", "ship"}, run : Run, attempt : Nat]

LEMMA EffectIsTyped ==
    ASSUME TypeOK, ReleaseInv, NEW x \in Releaser, release[x].pc # "idle",
           NEW what \in {"enqueue", "ship"}, Effect(x, what)
    PROVE  effects' \subseteq Effects
<1>1. release[x].attempt \in Nat
  BY DEF TypeOK, ReleaseRecord
<1>2. [what |-> what, run |-> RunOf(x), attempt |-> release[x].attempt] \in Effects
  BY <1>1, RunOfIsRun DEF Effects
<1>3. effects \subseteq Effects
  BY DEF TypeOK, Effects
<1> QED
  BY <1>2, <1>3 DEF Effect

\* What a release's step does to the sets of runs.
LEMMA ReleasingTypes ==
    ASSUME TypeOK, ReleaseInv, NEW x \in Releaser, Releasing(x)
    PROVE  /\ log' \subseteq Run
           /\ queued' \subseteq Run /\ merged' \subseteq Run /\ closed' \subseteq Run
           /\ effects' \subseteq Effects
<1> USE RunOfIsRun DEF At
<1>0. /\ log \subseteq Run /\ queued \subseteq Run /\ merged \subseteq Run /\ closed \subseteq Run
      /\ effects \subseteq Effects
  BY DEF TypeOK, Effects
<1>1. CASE TestLog(x)
  BY <1>0, <1>1 DEF TestLog, public
<1>2. CASE SayRun(x)
  BY <1>0, <1>2 DEF SayRun, public
<1>3. CASE RefuseInputs(x)
  BY <1>0, <1>3 DEF RefuseInputs, public
<1>4. CASE RefuseTree(x)
  BY <1>0, <1>4 DEF RefuseTree, public
<1>5. CASE Enqueue(x)
  <2>1. release[x].pc # "idle" /\ Effect(x, "enqueue")
    BY <1>5 DEF Enqueue
  <2> QED
    BY <1>0, <1>5, <2>1, EffectIsTyped DEF Enqueue
<1>6. CASE EnqueueFails(x)
  BY <1>0, <1>6 DEF EnqueueFails, public
<1>7. CASE SeeMerged(x)
  BY <1>0, <1>7 DEF SeeMerged, public
<1>8. CASE StopWaiting(x)
  BY <1>0, <1>8 DEF StopWaiting, public
<1>9. CASE Ship(x)
  <2>1. release[x].pc # "idle" /\ (Effect(x, "ship") \/ effects' = effects)
    BY <1>9 DEF Ship
  <2> QED
    BY <1>0, <1>9, <2>1, EffectIsTyped DEF Ship
<1>10. CASE MoveBackend(x)
  BY <1>0, <1>10 DEF MoveBackend, public
<1> QED
  BY <1>1, <1>2, <1>3, <1>4, <1>5, <1>6, <1>7, <1>8, <1>9, <1>10 DEF Releasing

\* The part of the type invariant that runs and releases change.
RunTypes ==
    /\ unit \in Run \cup {NoRun}
    /\ completed \subseteq Run /\ log \subseteq Run
    /\ release \in [Releaser -> ReleaseRecord]
    /\ queued \subseteq Run /\ merged \subseteq Run /\ closed \subseteq Run
    /\ effects \subseteq Effects
    /\ hand \in Nat /\ faults \in Nat

LEMMA RunStepTypes ==
    ASSUME TypeOK, ReleaseInv, RunSteps
    PROVE  RunTypes'
<1>0. RunTypes
  BY DEF TypeOK, RunTypes, ReleaseRecord, ReleasePc, Effects
<1>1. unit' \in Run \cup {NoRun}
  BY <1>0, RunStepsAreQuiet DEF RunTypes
<1>2. CASE WeeklyStops
  BY <1>0, <1>1, <1>2 DEF WeeklyStops, Fault, RunTypes, public
<1>3. CASE WeeklyCompletes
  <2>1. unit \in Run
    BY <1>0, <1>3 DEF WeeklyCompletes, InWeekly, RunTypes
  <2>2. release' \in [Releaser -> ReleaseRecord]
    BY <1>0, <1>3, <2>1, StartsIsTyped DEF WeeklyCompletes, RunTypes, Releaser, ReleasePc
  <2> QED
    BY <1>0, <1>1, <1>3, <2>1, <2>2 DEF WeeklyCompletes, RunTypes, public
<1>4. CASE \E x \in Releaser : Releasing(x)
  <2>1. PICK x \in Releaser : Releasing(x)
    BY <1>4
  <2>2. release' \in [Releaser -> ReleaseRecord]
    BY <1>0, <2>1, ReleasingMoves, GoesIsTyped, EndsIsTyped DEF Moves, RunTypes
  <2> QED
    BY <1>0, <1>1, <2>1, <2>2, ReleasingMoves, ReleasingTypes DEF RunTypes
<1>5. CASE \E r \in queued : Merge(r) \/ Kick(r) \/ Close(r)
  BY <1>0, <1>1, <1>5 DEF Merge, Kick, Close, Fault, RunTypes
<1>6. CASE \E r \in completed : LookAtUnit(r)
  <2>1. PICK r \in completed : LookAtUnit(r)
    BY <1>6
  <2>2. r \in Run /\ hand + 1 \in Nat
    BY <1>0, <2>1 DEF RunTypes
  <2>3. release' \in [Releaser -> ReleaseRecord]
    BY <1>0, <2>1, <2>2, StartsIsTyped DEF LookAtUnit, RunTypes, Releaser, ReleasePc
  <2> QED
    BY <1>0, <1>1, <2>1, <2>2, <2>3 DEF LookAtUnit, RunTypes, public
<1>7. CASE Interrupt
  <2>1. release' \in [Releaser -> ReleaseRecord]
    BY <1>0, <1>7, EndsIsTyped DEF Interrupt, RunTypes, Releaser
  <2> QED
    BY <1>0, <1>1, <1>7, <2>1 DEF Interrupt, Fault, RunTypes, public
<1> QED
  BY <1>2, <1>3, <1>4, <1>5, <1>6, <1>7 DEF RunSteps

\* What a tick decides on is a document of the game, and agrees with it.
LEMMA DocumentIsKnown ==
    ASSUME TypeOK, KnownInv, NEW k, Bootstrap(k)
    PROVE  /\ k \in [deadline : [Gameweek -> Nat], settled : SUBSET Gameweek, at : Nat]
           /\ Agrees(k.deadline)
           /\ copy' = k
           /\ faults' = faults \/ faults' = faults + 1
<1>1. copy' = k /\ (faults' = faults \/ faults' = faults + 1)
  BY DEF Bootstrap, Fault
<1>2. k = Published \/ (k = copy /\ copy # NoCopy)
  BY DEF Bootstrap, IsFresh
<1>3. CASE k = Published
  BY <1>1, <1>3 DEF Published, TypeOK, KnownInv
<1>4. CASE k = copy /\ copy # NoCopy
  BY <1>1, <1>4 DEF TypeOK, KnownInv
<1> QED
  BY <1>2, <1>3, <1>4

\* Of two gameweeks, the later has the later deadline; its final run starts no earlier.
LEMMA SpacedIsOrdered ==
    ASSUME NEW d \in [Gameweek -> Nat], Spaced(d),
           NEW g \in Gameweek, NEW h \in Gameweek, g <= h
    PROVE  /\ d[g] <= d[h]
           /\ g # h => d[g] <= FinalStart(d, h)
<1>1. Lead \in Nat /\ Gameweek \subseteq Nat
  BY WeeklyScheduleAssumption DEF Gameweek
<1>2. CASE g = h
  BY <1>1, <1>2
<1>3. CASE g # h
  <2>1. g < h
    BY <1>1, <1>3
  <2>2. d[g] + Lead <= d[h]
    BY <2>1 DEF Spaced
  <2> QED
    BY <1>1, <2>2 DEF FinalStart
<1> QED
  BY <1>2, <1>3

\* What a tick may start, with what the decision says of it.
LEMMA ChosenIsFor ==
    ASSUME NEW d, NEW s, NEW M, NEW m \in Chosen(d, s, now, time, M)
    PROVE  /\ m \notin M
           /\ \E h \in Nearest(d, now) : m \in RunsFor(d, s, h, now, time)
<1>1. m \in UNION {RunsFor(d, s, h, now, time) : h \in Nearest(d, now)} /\ m \notin M
  BY DEF Chosen
<1>2. PICK S \in {RunsFor(d, s, h, now, time) : h \in Nearest(d, now)} : m \in S
  BY <1>1
<1> QED
  BY <1>1, <1>2

LEMMA RunsAreMarkers ==
    ASSUME TypeOK, NEW d, NEW s \in SUBSET Gameweek, NEW h \in Gameweek,
           NEW m \in RunsFor(d, s, h, now, time)
    PROVE  m \in Marker
<1>1. Gameweek \subseteq Nat /\ now \in Nat /\ time \in 0..(Day - 1) /\ MorningAt \in 0..(Day - 1) /\ Day \in Nat
  BY WeeklyScheduleAssumption DEF Gameweek, TypeOK
<1>2. CASE m \in FinalRun(d, h, now)
  BY <1>1, <1>2 DEF FinalRun, Final, Marker
<1>3. CASE m \in SettledRun(d, s, h, now, time)
  <2>1. m = SettledView(h - 1) /\ h - 1 \in Gameweek
    BY <1>3 DEF SettledRun
  <2> QED
    BY <1>1, <2>1 DEF SettledView, Marker
<1>4. CASE m \in MorningRun(d, h, now, time)
  <2>1. m = Morning(now - time)
    BY <1>4 DEF MorningRun
  <2> QED
    BY <1>1, <2>1 DEF Morning, Marker
<1> QED
  BY <1>2, <1>3, <1>4 DEF RunsFor

\* A tick's run is new, and is given an end before the final run of every gameweek whose
\* deadline the tick knows to be ahead starts, unless it is that final run.
LEMMA ChosenFits ==
    ASSUME TypeOK, NEW d \in [Gameweek -> Nat], Spaced(d), NEW s \in SUBSET Gameweek,
           NEW m \in Chosen(d, s, now, time, markers),
           NEW g \in Gameweek, d[g] > now, m # Final(g)
    PROVE  now + RunTime <= FinalStart(d, g)
<1>1. PICK h \in Nearest(d, now) : m \in RunsFor(d, s, h, now, time)
  BY ChosenIsFor
<1>2. h \in Gameweek /\ h <= g
  BY <1>1 DEF Nearest, Ahead
<1>3. /\ now \in Nat /\ time \in Nat /\ time <= Day - 1 /\ Day \in Nat /\ MorningAt \in Nat
      /\ Lead \in Nat /\ RunTime \in Nat /\ Window \in Nat /\ Window >= Day + Lead + RunTime
      /\ d[g] \in Nat /\ d[h] \in Nat
  BY <1>2, WeeklyScheduleAssumption DEF TypeOK
<1>4. d[h] <= d[g] /\ (h # g => d[h] <= FinalStart(d, g))
  BY <1>2, SpacedIsOrdered
<1>5. CASE m \in FinalRun(d, h, now)
  <2>1. h # g /\ d[h] - now >= RunTime
    BY <1>5 DEF FinalRun
  <2> QED
    BY <1>3, <1>4, <2>1 DEF FinalStart
<1>6. CASE m \in SettledRun(d, s, h, now, time)
  <2>1. d[h] - (now - time + MorningAt) > Window
    BY <1>6 DEF SettledRun, InGap, MorningFrom
  <2> QED
    BY <1>3, <1>4, <2>1 DEF FinalStart
<1>7. CASE m \in MorningRun(d, h, now, time)
  <2>1. d[h] - Lead - now >= RunTime
    BY <1>7 DEF MorningRun, MorningFits, FinalStart
  <2> QED
    BY <1>3, <1>4, <2>1 DEF FinalStart
<1> QED
  BY <1>1, <1>5, <1>6, <1>7 DEF RunsFor

\* Once the final run of a gameweek is due to start and has time left, a tick that knows
\* its deadline starts it, whatever else there is to do.
LEMMA FinalRunIsChosen ==
    ASSUME TypeOK, NEW d \in [Gameweek -> Nat], Spaced(d), NEW s \in SUBSET Gameweek,
           NEW g \in Gameweek, d[g] > now, now >= FinalStart(d, g), d[g] - now >= RunTime,
           Final(g) \notin markers
    PROVE  Chosen(d, s, now, time, markers) = {Final(g)}
<1>1. now \in Nat /\ d[g] \in Nat /\ Lead \in Nat
  BY WeeklyScheduleAssumption DEF TypeOK
<1>2. ASSUME NEW h \in Nearest(d, now) PROVE h = g
  <2>1. h \in Gameweek /\ h <= g /\ d[h] > now /\ d[h] \in Nat
    BY DEF Nearest, Ahead
  <2>2. h # g => d[h] <= FinalStart(d, g)
    BY <2>1, SpacedIsOrdered
  <2> QED
    BY <1>1, <2>1, <2>2 DEF FinalStart
<1>3. ASSUME NEW h \in Ahead(d, now) PROVE g <= h
  <2>1. h \in Gameweek /\ d[h] > now /\ d[h] \in Nat
    BY DEF Ahead
  <2>2. h \in Int /\ g \in Int
    BY <2>1, WeeklyScheduleAssumption DEF Gameweek
  <2>3. h < g => d[h] <= FinalStart(d, g)
    BY <2>1, <2>2, SpacedIsOrdered
  <2> QED
    BY <1>1, <2>1, <2>2, <2>3 DEF FinalStart
<1>4. Nearest(d, now) = {g}
  BY <1>2, <1>3 DEF Nearest, Ahead
<1>5. RunsFor(d, s, g, now, time) = {Final(g)}
  <2>1. FinalRun(d, g, now) = {Final(g)}
    BY DEF FinalRun
  <2>2. SettledRun(d, s, g, now, time) = {} /\ MorningRun(d, g, now, time) = {}
    BY <1>1 DEF SettledRun, MorningRun, FinalStart
  <2> QED
    BY <2>1, <2>2 DEF RunsFor
<1>6. UNION {RunsFor(d, s, h, now, time) : h \in {g}} = {Final(g)}
  BY <1>5
<1>7. Chosen(d, s, now, time, markers) = {Final(g)} \ markers
  BY <1>4, <1>6 DEF Chosen
<1> QED
  BY <1>7

\* The part of the type invariant that only the host's steps and the game's change.
HostTypes ==
    /\ now \in Nat /\ time \in 0..(Day - 1) /\ sinceTick \in 0..(TickEvery - 1)
    /\ due \in BOOLEAN /\ lost \in BOOLEAN /\ up \in BOOLEAN /\ timer \in BOOLEAN
    /\ deadline \in [Gameweek -> Nat] /\ settled \subseteq Gameweek /\ moved \subseteq Gameweek
    /\ copy \in [deadline : [Gameweek -> Nat], settled : SUBSET Gameweek, at : Nat] \cup {NoCopy}
    /\ markers \subseteq Marker /\ alarms \subseteq Gameweek
    /\ started \subseteq Run
    /\ faulty \subseteq Nat /\ moves \in Nat
    /\ due => up /\ unit = NoRun

LEMMA TypeOKIsSplit == TypeOK <=> HostTypes /\ RunTypes
BY DEF TypeOK, HostTypes, RunTypes, ReleaseRecord, ReleasePc, Effects

LEMMA RunTypesUnchanged ==
    ASSUME RunTypes, UNCHANGED <<unit, completed, log, release, public, hand>>,
           faults' = faults \/ faults' = faults + 1
    PROVE  RunTypes'
BY DEF RunTypes, public

\* The run a tick starts, as a record of its own.
LEMMA TickStartsRun ==
    ASSUME TypeOK, KnownInv, TickStarts
    PROVE  \E k, m : /\ Bootstrap(k)
                     /\ m \in Chosen(k.deadline, k.settled, now, time, markers)
                     /\ m \in Marker /\ m \notin markers
                     /\ unit' = [marker |-> m, at |-> now] /\ unit' \in Run
                     /\ markers' = markers \cup {m}
                     /\ started' = started \cup {unit'}
<1>1. PICK k : /\ Bootstrap(k)
               /\ \E m \in Chosen(k.deadline, k.settled, now, time, markers) :
                    Mark(m) /\ unit' = [marker |-> m, at |-> now]
  BY DEF TickStarts
<1>2. PICK m \in Chosen(k.deadline, k.settled, now, time, markers) :
        Mark(m) /\ unit' = [marker |-> m, at |-> now]
  BY <1>1
<1>3. m \notin markers /\ \E h \in Nearest(k.deadline, now) : m \in RunsFor(k.deadline, k.settled, h, now, time)
  BY <1>2, ChosenIsFor
<1>4. k.settled \in SUBSET Gameweek
  BY <1>1, DocumentIsKnown
<1>5. m \in Marker
  BY <1>3, <1>4, RunsAreMarkers DEF Nearest, Ahead
<1>6. unit' \in Run
  BY <1>2, <1>5 DEF Run, TypeOK
<1>7. started' = started \cup {unit'} /\ markers' = markers \cup {m}
  BY <1>2 DEF TickStarts, Mark
<1> QED
  BY <1>1, <1>2, <1>3, <1>5, <1>6, <1>7

LEMMA HostStepTypes ==
    ASSUME TypeOK, HostDown, KnownInv, HostSteps
    PROVE  TypeOK'
<1>0. HostTypes /\ RunTypes
  BY TypeOKIsSplit
<1> USE DEF clock, host, game, gate
<1>1. CASE Advance
  <2>1. now' \in Nat /\ time' \in 0..(Day - 1) /\ sinceTick' \in 0..(TickEvery - 1)
    BY <1>0, <1>1, WeeklyScheduleAssumption DEF Advance, HostTypes, Elapses
  <2>2. RunTypes'
    BY <1>0, <1>1, RunTypesUnchanged DEF Advance, Fault
  <2>3. faulty' \subseteq Nat /\ due' \in BOOLEAN /\ lost' \in BOOLEAN /\ (due' => up' /\ unit' = NoRun)
    BY <1>0, <1>1, <2>1 DEF Advance, HostTypes, StartsTick, Elapses
  <2>4. HostTypes'
    BY <1>0, <1>1, <2>1, <2>3 DEF Advance, HostTypes
  <2> QED
    BY <2>2, <2>4, TypeOKIsSplit, PTL
<1>2. CASE Crash
  <2>1. RunTypes'
    BY <1>0, <1>2, IdleIsTyped DEF Crash, Fault, RunTypes, public
  <2>2. HostTypes'
    BY <1>0, <1>2 DEF Crash, HostTypes
  <2> QED
    BY <2>1, <2>2, TypeOKIsSplit, PTL
<1>3. CASE Boot
  <2>1. RunTypes'
    BY <1>0, <1>3, RunTypesUnchanged DEF Boot
  <2>2. HostTypes'
    BY <1>0, <1>3 DEF Boot, HostTypes, HostDown
  <2> QED
    BY <2>1, <2>2, TypeOKIsSplit, PTL
<1>4. CASE \E g \in Gameweek : Settle(g)
  <2>1. RunTypes'
    BY <1>0, <1>4, RunTypesUnchanged DEF Settle
  <2>2. HostTypes'
    BY <1>0, <1>4 DEF Settle, HostTypes
  <2> QED
    BY <2>1, <2>2, TypeOKIsSplit, PTL
<1>5. CASE \E g \in Gameweek, d \in Targets : MoveDeadline(g, d)
  <2>1. RunTypes'
    BY <1>0, <1>5, RunTypesUnchanged DEF MoveDeadline
  <2>2. HostTypes'
    BY <1>0, <1>5, WeeklyHostAssumption DEF MoveDeadline, HostTypes
  <2> QED
    BY <2>1, <2>2, TypeOKIsSplit, PTL
<1>6. CASE TickStarts
  <2>1. PICK k, m : /\ Bootstrap(k) /\ m \in Marker
                    /\ unit' \in Run /\ markers' = markers \cup {m} /\ started' = started \cup {unit'}
    BY <1>6, TickStartsRun
  <2>2. /\ copy' \in [deadline : [Gameweek -> Nat], settled : SUBSET Gameweek, at : Nat] \cup {NoCopy}
        /\ faults' = faults \/ faults' = faults + 1
    BY <2>1, DocumentIsKnown
  <2>3. RunTypes'
    BY <1>0, <1>6, <2>1, <2>2 DEF TickStarts, RunTypes, public
  <2>4. HostTypes'
    BY <1>0, <1>6, <2>1, <2>2 DEF TickStarts, HostTypes
  <2> QED
    BY <2>3, <2>4, TypeOKIsSplit, PTL
<1>7. CASE TickStartsNothing
  <2>1. PICK k : Bootstrap(k) /\ alarms' = alarms \cup MissedFinals(k.deadline, now, markers)
    BY <1>7 DEF TickStartsNothing
  <2>2. /\ copy' \in [deadline : [Gameweek -> Nat], settled : SUBSET Gameweek, at : Nat] \cup {NoCopy}
        /\ faults' = faults \/ faults' = faults + 1
    BY <2>1, DocumentIsKnown
  <2>3. alarms' \subseteq Gameweek
    BY <1>0, <2>1 DEF HostTypes, MissedFinals, Nearest, Ahead
  <2>4. RunTypes'
    BY <1>0, <1>7, <2>2, RunTypesUnchanged DEF TickStartsNothing
  <2>5. HostTypes'
    BY <1>0, <1>7, <2>2, <2>3 DEF TickStartsNothing, HostTypes
  <2> QED
    BY <2>4, <2>5, TypeOKIsSplit, PTL
<1>8. CASE TickFails
  <2>1. RunTypes'
    BY <1>0, <1>8, RunTypesUnchanged DEF TickFails, Fault
  <2>2. HostTypes'
    BY <1>0, <1>8 DEF TickFails, HostTypes
  <2> QED
    BY <2>1, <2>2, TypeOKIsSplit, PTL
<1>9. CASE StopTimer
  <2>1. release' \in [Releaser -> ReleaseRecord]
    BY <1>0, <1>9, GoesIsTyped DEF StopTimer, RunTypes, Releaser, ReleasePc
  <2>2. RunTypes'
    BY <1>0, <1>9, <2>1 DEF StopTimer, RunTypes, public
  <2>3. HostTypes'
    BY <1>0, <1>9 DEF StopTimer, HostTypes
  <2> QED
    BY <2>2, <2>3, TypeOKIsSplit, PTL
<1>10. CASE StartTimer
  <2>1. RunTypes'
    BY <1>0, <1>10, RunTypesUnchanged DEF StartTimer
  <2>2. HostTypes'
    BY <1>0, <1>10 DEF StartTimer, HostTypes
  <2> QED
    BY <2>1, <2>2, TypeOKIsSplit, PTL
<1> QED
  BY <1>1, <1>2, <1>3, <1>4, <1>5, <1>6, <1>7, <1>8, <1>9, <1>10 DEF HostSteps

LEMMA TypeStep ==
    ASSUME TypeOK, HostDown, KnownInv, ReleaseInv, Next
    PROVE  TypeOK'
<1>1. CASE RunSteps
  <2>1. RunTypes'
    BY <1>1, RunStepTypes
  <2>2. HostTypes
    BY TypeOKIsSplit
  <2>3. /\ now' = now /\ time' = time /\ sinceTick' = sinceTick /\ due' = due /\ lost' = lost
        /\ up' = up /\ timer' = timer /\ deadline' = deadline /\ settled' = settled
        /\ moved' = moved /\ moves' = moves /\ copy' = copy /\ markers' = markers
        /\ alarms' = alarms /\ started' = started /\ faulty' = faulty
        /\ (unit' = unit \/ unit' = NoRun)
    BY <1>1, RunStepsAreQuiet
  <2>4. due' => up' /\ unit' = NoRun
    BY <2>2, <2>3 DEF HostTypes
  <2>5. HostTypes'
    BY <2>2, <2>3, <2>4 DEF HostTypes
  <2> QED
    BY <2>1, <2>5, TypeOKIsSplit, PTL
<1>2. CASE HostSteps
  BY <1>2, HostStepTypes
<1> QED
  BY <1>1, <1>2, NextIsSplit

-------------------------------------------------------------------------------
\* What a tick knows, what has started and what was reported missed

LEMMA HostDownStep ==
    ASSUME TypeOK, HostDown, Next
    PROVE  HostDown'
<1>1. CASE RunSteps
  <2>1. up' = up
    BY <1>1, RunStepsAreQuiet
  <2>2. CASE up
    BY <2>1, <2>2 DEF HostDown
  <2>3. CASE ~up
    <3>1. unit = NoRun /\ \A x \in Releaser : release[x].pc = "idle"
      BY <2>3 DEF HostDown, IdleRelease
    <3>2. ASSUME NEW x \in Releaser PROVE ~Releasing(x)
      BY <3>1 DEF Releasing, TestLog, SayRun, RefuseInputs, RefuseTree, Enqueue, EnqueueFails,
                  SeeMerged, StopWaiting, Ship, MoveBackend, At
    <3>3. ~WeeklyStops /\ ~WeeklyCompletes /\ ~Interrupt
      BY <3>1 DEF WeeklyStops, WeeklyCompletes, InWeekly, Interrupt, Releaser
    <3>4. ~\E r \in completed : LookAtUnit(r)
      BY <2>3 DEF LookAtUnit, NoTick
    <3>5. unit' = unit /\ release' = release
      BY <1>1, <3>2, <3>3, <3>4 DEF RunSteps, Merge, Kick, Close
    <3> QED
      BY <2>1, <3>5 DEF HostDown
  <2> QED
    BY <2>2, <2>3
<1>2. CASE HostSteps
  <2> USE DEF host, HostDown, clock
  <2>1. CASE Advance
    BY <2>1 DEF Advance
  <2>2. CASE Crash
    BY <2>2 DEF Crash
  <2>3. CASE Boot
    BY <2>3 DEF Boot
  <2>4. CASE \E g \in Gameweek : Settle(g)
    BY <2>4 DEF Settle
  <2>5. CASE \E g \in Gameweek, d \in Targets : MoveDeadline(g, d)
    BY <2>5 DEF MoveDeadline
  <2>6. CASE TickStarts
    BY <2>6 DEF TickStarts, TypeOK
  <2>7. CASE TickStartsNothing
    BY <2>7 DEF TickStartsNothing, TypeOK
  <2>8. CASE TickFails
    BY <2>8 DEF TickFails, TypeOK
  <2>9. CASE StopTimer
    BY <2>9 DEF StopTimer, At, IdleRelease, Releaser
  <2>10. CASE StartTimer
    BY <2>10 DEF StartTimer
  <2> QED
    BY <1>2, <2>1, <2>2, <2>3, <2>4, <2>5, <2>6, <2>7, <2>8, <2>9, <2>10 DEF HostSteps
<1> QED
  BY <1>1, <1>2, NextIsSplit

LEMMA KnownStep ==
    ASSUME TypeOK, KnownInv, Next
    PROVE  KnownInv'
<1>1. CASE UNCHANGED <<deadline, moved, copy>>
  BY <1>1 DEF KnownInv, Agrees
<1>2. CASE \E g \in Gameweek, d \in Targets : MoveDeadline(g, d)
  <2>1. PICK g \in Gameweek, d \in Targets : MoveDeadline(g, d)
    BY <1>2
  <2>2. /\ deadline' = [deadline EXCEPT ![g] = d] /\ Spaced(deadline')
        /\ moved' = moved \cup {g} /\ copy' = copy
    BY <2>1 DEF MoveDeadline, gate
  <2>3. \A h \in Gameweek \ moved' : deadline'[h] = deadline[h]
    BY <2>2 DEF TypeOK
  <2> QED
    BY <2>2, <2>3 DEF KnownInv, Agrees
<1>3. CASE \E k : Bootstrap(k) /\ UNCHANGED <<deadline, moved>>
  <2>1. PICK k : Bootstrap(k) /\ UNCHANGED <<deadline, moved>>
    BY <1>3
  <2>2. Agrees(k.deadline) /\ copy' = k
    BY <2>1, DocumentIsKnown
  <2> QED
    BY <2>1, <2>2 DEF KnownInv, Agrees
<1>4. CASE RunSteps
  BY <1>1, <1>4, RunStepsAreQuiet
<1>5. CASE HostSteps
  BY <1>1, <1>2, <1>3, <1>5 DEF HostSteps, Advance, Crash, Boot, Settle, TickStarts,
     TickStartsNothing, TickFails, StopTimer, StartTimer, game, gate
<1> QED
  BY <1>4, <1>5, NextIsSplit

\* Only a tick that starts a run writes a marker or begins a run.
LEMMA MarkersStayUnlessATickStarts ==
    ASSUME Next, ~TickStarts
    PROVE  /\ markers' = markers /\ started' = started
           /\ unit' = unit \/ unit' = NoRun
<1>1. CASE RunSteps
  BY <1>1, RunStepsAreQuiet
<1>2. CASE HostSteps
  BY <1>2 DEF HostSteps, Advance, Crash, Boot, Settle, MoveDeadline,
     TickStartsNothing, TickFails, StopTimer, StartTimer, gate
<1> QED
  BY <1>1, <1>2, NextIsSplit

LEMMA ClockGoesOn ==
    ASSUME TypeOK, Next
    PROVE  now' = now \/ (Advance /\ now' = now + 1)
<1>1. CASE RunSteps
  BY <1>1, RunStepsAreQuiet
<1>2. CASE HostSteps
  BY <1>2 DEF HostSteps, Advance, Crash, Boot, Settle, MoveDeadline, TickStarts,
     TickStartsNothing, TickFails, StopTimer, StartTimer, clock
<1> QED
  BY <1>1, <1>2, NextIsSplit

LEMMA CompletedGrowsByUnit ==
    ASSUME Next
    PROVE  completed' = completed \/ (completed' = completed \cup {unit} /\ unit # NoRun)
<1>1. CASE RunSteps
  <2>1. CASE \E x \in Releaser : Releasing(x)
    BY <2>1, ReleasingMoves
  <2> QED
    BY <1>1, <2>1 DEF RunSteps, WeeklyStops, WeeklyCompletes, InWeekly, Merge, Kick, Close,
       LookAtUnit, Interrupt
<1>2. CASE HostSteps
  BY <1>2 DEF HostSteps, Advance, Crash, Boot, Settle, MoveDeadline, TickStarts,
     TickStartsNothing, TickFails, StopTimer, StartTimer
<1> QED
  BY <1>1, <1>2, NextIsSplit

LEMMA StartsStep ==
    ASSUME TypeOK, KnownInv, StartsInv, Next
    PROVE  StartsInv'
<1>1. CASE TickStarts
  <2>1. PICK k, m : /\ m \in Marker /\ m \notin markers
                    /\ unit' = [marker |-> m, at |-> now] /\ unit' \in Run
                    /\ markers' = markers \cup {m}
                    /\ started' = started \cup {unit'}
    BY <1>1, TickStartsRun
  <2>2. now' = now /\ completed' = completed
    BY <1>1 DEF TickStarts, clock
  <2>3. unit'.marker = m /\ unit'.at = now /\ now \in Nat
    BY <2>1 DEF TypeOK
  <2>4. \A r \in started : r.marker # m
    BY <2>1 DEF StartsInv
  <2>5. OncePerMarker'
    BY <2>1, <2>3, <2>4 DEF StartsInv, OncePerMarker
  <2> QED
    BY <2>1, <2>2, <2>3, <2>5 DEF StartsInv
<1>2. CASE ~TickStarts
  <2>1. /\ markers' = markers /\ started' = started
        /\ unit' = unit \/ unit' = NoRun
    BY <1>2, MarkersStayUnlessATickStarts
  <2>2. completed' \subseteq started'
    BY <2>1, CompletedGrowsByUnit DEF StartsInv
  <2>3. unit' # NoRun => unit' \in started' /\ unit'.at <= now'
    <3>1. CASE unit' # NoRun
      <4>1. unit' = unit /\ unit \in Run /\ unit \in started /\ unit.at <= now
        BY <2>1, <3>1 DEF StartsInv, TypeOK
      <4>2. unit.at \in Nat /\ now \in Nat /\ (now' = now \/ now' = now + 1)
        BY <4>1, ClockGoesOn DEF Run, TypeOK
      <4>3. unit.at <= now'
        BY <4>1, <4>2
      <4> QED
        BY <2>1, <4>1, <4>3
    <3> QED
      BY <3>1
  <2> QED
    BY <2>1, <2>2, <2>3 DEF StartsInv, OncePerMarker
<1> QED
  BY <1>1, <1>2

-------------------------------------------------------------------------------
\* Deadlines, the run under way and the final run

\* A deadline the game has not moved stays what it was.
LEMMA DeadlineStays ==
    ASSUME TypeOK, Next
    PROVE  /\ moved \subseteq moved'
           /\ \A g \in Gameweek \ moved' : deadline'[g] = deadline[g]
<1>1. CASE \E g \in Gameweek, d \in Targets : MoveDeadline(g, d)
  BY <1>1 DEF MoveDeadline, TypeOK
<1>2. CASE UNCHANGED <<deadline, moved>>
  BY <1>2
<1>3. CASE RunSteps
  BY <1>2, <1>3, RunStepsAreQuiet
<1>4. CASE HostSteps
  BY <1>1, <1>2, <1>4 DEF HostSteps, Advance, Crash, Boot, Settle, TickStarts,
     TickStartsNothing, TickFails, StopTimer, StartTimer, game
<1> QED
  BY <1>3, <1>4, NextIsSplit

LEMMA FaultsAreKept ==
    ASSUME Next
    PROVE  faulty \subseteq faulty' /\ markers \subseteq markers'
<1>1. CASE RunSteps
  BY <1>1, RunStepsAreQuiet
<1>2. CASE HostSteps
  BY <1>2 DEF HostSteps, Advance, Crash, Boot, Settle, MoveDeadline, TickStarts, Mark,
     TickStartsNothing, TickFails, StopTimer, StartTimer, gate
<1> QED
  BY <1>1, <1>2, NextIsSplit

LEMMA FinalsDiffer ==
    ASSUME NEW g \in Gameweek, NEW h \in Gameweek, Final(g) = Final(h)
    PROVE  g = h
BY DEF Final

\* What a tick knows of a gameweek whose deadline the game has not moved.
LEMMA TickKnows ==
    ASSUME TypeOK, KnownInv, NEW k, Bootstrap(k), NEW g \in Gameweek \ moved
    PROVE  /\ k.deadline \in [Gameweek -> Nat] /\ Spaced(k.deadline)
           /\ k.settled \in SUBSET Gameweek
           /\ k.deadline[g] = deadline[g]
           /\ FinalStart(k.deadline, g) = FinalStart(deadline, g)
<1>1. k \in [deadline : [Gameweek -> Nat], settled : SUBSET Gameweek, at : Nat] /\ Agrees(k.deadline)
  BY DocumentIsKnown
<1> QED
  BY <1>1 DEF Agrees, FinalStart

LEMMA RunFitsStep ==
    ASSUME TypeOK, KnownInv, StartsInv, RunFits, Next
    PROVE  RunFits'
<1> SUFFICES ASSUME NEW g \in Gameweek, Waiting(g)', unit' # NoRun
             PROVE  \/ unit'.at + RunTime <= FinalStart(deadline, g)'
                    \/ deadline'[g] <= unit'.at
  BY DEF RunFits
<1>1. /\ Waiting(g) /\ deadline'[g] = deadline[g]
      /\ FinalStart(deadline, g)' = FinalStart(deadline, g)
  BY DeadlineStays, FaultsAreKept DEF Waiting, FinalStart
<1>2. CASE TickStarts
  <2>1. PICK k, m : /\ Bootstrap(k)
                    /\ m \in Chosen(k.deadline, k.settled, now, time, markers)
                    /\ unit' = [marker |-> m, at |-> now]
                    /\ markers' = markers \cup {m}
    BY <1>2, TickStartsRun
  <2>2. m # Final(g) /\ unit'.at = now
    BY <2>1 DEF Waiting
  <2>3. /\ k.deadline \in [Gameweek -> Nat] /\ Spaced(k.deadline) /\ k.settled \in SUBSET Gameweek
        /\ k.deadline[g] = deadline[g] /\ FinalStart(k.deadline, g) = FinalStart(deadline, g)
    BY <1>1, <2>1, TickKnows DEF Waiting
  <2>4. CASE deadline[g] > now
    <3>1. now + RunTime <= FinalStart(k.deadline, g)
      BY <2>1, <2>2, <2>3, <2>4, ChosenFits
    <3> QED
      BY <1>1, <2>2, <2>3, <3>1
  <2>5. CASE ~(deadline[g] > now)
    BY <1>1, <2>2, <2>5 DEF TypeOK
  <2> QED
    BY <2>4, <2>5
<1>3. CASE ~TickStarts
  <2>1. unit' = unit
    BY <1>3, MarkersStayUnlessATickStarts
  <2> QED
    BY <1>1, <2>1 DEF RunFits
<1> QED
  BY <1>2, <1>3

LEMMA AlarmStep ==
    ASSUME TypeOK, KnownInv, AlarmInv, Next
    PROVE  AlarmInv'
<1> SUFFICES ASSUME NEW g \in alarms' \ moved'
             PROVE  Final(g) \notin markers' /\ deadline'[g] - now' < RunTime
  BY DEF AlarmInv
<1>1. /\ RunTime \in Nat /\ now \in Nat /\ (now' = now \/ now' = now + 1)
      /\ alarms \subseteq Gameweek
  BY ClockGoesOn, WeeklyScheduleAssumption DEF TypeOK
<1>2. CASE TickStarts
  <2>1. PICK k, m : /\ Bootstrap(k)
                    /\ m \in Chosen(k.deadline, k.settled, now, time, markers)
                    /\ markers' = markers \cup {m}
    BY <1>2, TickStartsRun
  <2>2. alarms' = alarms /\ now' = now
    BY <1>2 DEF TickStarts, clock
  <2>3. g \in Gameweek \ moved /\ deadline'[g] = deadline[g] /\ deadline[g] \in Nat
    BY <1>1, <2>2, DeadlineStays DEF TypeOK
  <2>4. Final(g) \notin markers /\ deadline[g] - now < RunTime
    BY <2>2, <2>3 DEF AlarmInv
  <2>5. /\ k.deadline \in [Gameweek -> Nat] /\ Spaced(k.deadline) /\ k.settled \in SUBSET Gameweek
        /\ k.deadline[g] = deadline[g]
    BY <2>1, <2>3, TickKnows
  <2>6. m # Final(g)
    <3>1. PICK h \in Nearest(k.deadline, now) : m \in RunsFor(k.deadline, k.settled, h, now, time)
      BY <2>1, ChosenIsFor
    <3>2. h \in Gameweek
      BY <3>1 DEF Nearest, Ahead
    <3>3. CASE m \in FinalRun(k.deadline, h, now)
      <4>1. m = Final(h) /\ k.deadline[h] - now >= RunTime
        BY <3>3 DEF FinalRun
      <4>2. k.deadline[h] \in Nat
        BY <2>5, <3>2
      <4>3. h # g
        BY <1>1, <2>3, <2>4, <2>5, <4>1, <4>2
      <4> QED
        BY <2>3, <3>2, <4>1, <4>3, FinalsDiffer
    <3>4. CASE m \in SettledRun(k.deadline, k.settled, h, now, time)
      BY <3>4 DEF SettledRun, SettledView, Final
    <3>5. CASE m \in MorningRun(k.deadline, h, now, time)
      BY <3>5 DEF MorningRun, Morning, Final
    <3> QED
      BY <3>1, <3>3, <3>4, <3>5 DEF RunsFor
  <2> QED
    BY <2>1, <2>2, <2>3, <2>4, <2>6
<1>3. CASE TickStartsNothing
  <2>1. PICK k : Bootstrap(k) /\ alarms' = alarms \cup MissedFinals(k.deadline, now, markers)
    BY <1>3 DEF TickStartsNothing
  <2>2. markers' = markers /\ now' = now /\ deadline' = deadline /\ moved' = moved
    BY <1>3 DEF TickStartsNothing, clock, game
  <2>3. CASE g \in alarms
    BY <2>2, <2>3 DEF AlarmInv
  <2>4. CASE g \in MissedFinals(k.deadline, now, markers)
    <3>1. g \in Gameweek /\ Final(g) \notin markers /\ k.deadline[g] - now < RunTime
      BY <2>4 DEF MissedFinals, Nearest, Ahead, IsLate
    <3>2. k.deadline[g] = deadline[g]
      BY <2>1, <2>2, <3>1, TickKnows
    <3> QED
      BY <2>2, <3>1, <3>2
  <2> QED
    BY <2>1, <2>3, <2>4
<1>4. CASE ~TickStarts /\ ~TickStartsNothing
  <2>1. markers' = markers
    BY <1>4, MarkersStayUnlessATickStarts
  <2>2. alarms' = alarms
    <3>1. CASE RunSteps
      BY <3>1, RunStepsAreQuiet
    <3>2. CASE HostSteps
      BY <1>4, <3>2 DEF HostSteps, Advance, Crash, Boot, Settle, MoveDeadline, TickFails,
         StopTimer, StartTimer, gate
    <3> QED
      BY <3>1, <3>2, NextIsSplit
  <2>3. g \in Gameweek /\ g \in alarms \ moved /\ deadline'[g] = deadline[g] /\ deadline[g] \in Nat
    BY <1>1, <2>2, DeadlineStays DEF TypeOK
  <2>4. Final(g) \notin markers /\ deadline[g] - now < RunTime
    BY <2>3 DEF AlarmInv
  <2> QED
    BY <1>1, <2>1, <2>3, <2>4
<1> QED
  BY <1>2, <1>3, <1>4

\* In order and past the final run's start, the instant is within a period of the timer.
LEMMA WithinAPeriod ==
    ASSUME TypeOK, NEW g \in Gameweek, TickComes(g)
    PROVE  now <= FinalStart(deadline, g) + TickEvery
<1>1. now \in Nat /\ sinceTick \in Nat /\ sinceTick <= TickEvery - 1 /\ TickEvery \in Nat
  BY WeeklyScheduleAssumption DEF TypeOK
<1>2. FinalStart(deadline, g) \in Int
  BY WeeklyScheduleAssumption DEF TypeOK, FinalStart
<1> QED
  BY <1>1, <1>2 DEF TickComes

LEMMA OnTimeAdvance ==
    ASSUME TypeOK, StartsInv, RunFits, OnTime, Advance,
           NEW g \in Gameweek, Waiting(g), InOrder(g)', now' >= FinalStart(deadline, g)
    PROVE  deadline[g] > now' /\ TickComes(g)'
<1> DEFINE F == FinalStart(deadline, g)
<1>1. /\ now' = now + 1 /\ deadline' = deadline /\ ~due
      /\ sinceTick' = IF sinceTick + 1 = TickEvery THEN 0 ELSE sinceTick + 1
      /\ due' = (sinceTick + 1 = TickEvery /\ up /\ timer /\ unit = NoRun)
      /\ faulty' = IF ~up \/ ~timer \/ Overruns(now + 1) THEN faulty \cup {now + 1} ELSE faulty
  BY DEF Advance, StartsTick, Elapses, game
<1>2. /\ now \in Nat /\ sinceTick \in Nat /\ sinceTick <= TickEvery - 1 /\ TickEvery \in Nat \ {0}
      /\ Lead \in Nat /\ RunTime \in Nat \ {0} /\ Lead >= RunTime + TickEvery
      /\ deadline[g] \in Nat /\ F = deadline[g] - Lead /\ F \in Int
  BY WeeklyScheduleAssumption DEF TypeOK, FinalStart
<1>3. FinalStart(deadline, g)' = F
  BY <1>1 DEF FinalStart
<1>4. InOrder(g)
  BY <1>1, <1>3 DEF InOrder
<1> HIDE DEF F
<1>5. CASE now + 1 = F
  <2>1. now' - sinceTick' <= F
    BY <1>1, <1>2, <1>5
  <2> QED
    BY <1>1, <1>2, <1>3, <1>5, <2>1 DEF TickComes
<1>6. CASE now >= F
  <2>1. deadline[g] > now /\ TickComes(g)
    BY <1>4, <1>6 DEF OnTime, F
  <2>2. now - sinceTick <= F
    BY <1>1, <2>1 DEF TickComes, F
  <2>3. now + 1 <= F + TickEvery
    BY <1>2, <2>2
  <2>4. now + 1 \notin faulty'
    BY <1>2, <1>3, <1>6, <2>3 DEF InOrder
  <2>5. up /\ timer /\ ~Overruns(now + 1)
    BY <1>1, <2>4
  <2>6. unit = NoRun
    <3>1. SUFFICES ASSUME unit # NoRun PROVE FALSE
      OBVIOUS
    <3>2. unit.at \in Nat /\ unit.at <= now
      BY <3>1 DEF StartsInv, TypeOK, Run
    <3>3. now + 1 <= unit.at + RunTime
      BY <1>2, <2>5, <3>1, <3>2 DEF Overruns
    <3>4. unit.at + RunTime <= F \/ deadline[g] <= unit.at
      BY <3>1 DEF RunFits, F
    <3> QED
      BY <1>2, <1>6, <2>1, <3>2, <3>3, <3>4
  <2>7. CASE sinceTick + 1 = TickEvery
    <3>1. due' /\ sinceTick' = 0 /\ now' <= F + TickEvery
      BY <1>1, <2>3, <2>5, <2>6, <2>7
    <3> QED
      BY <1>1, <1>2, <1>3, <2>3, <3>1 DEF TickComes
  <2>8. CASE sinceTick + 1 # TickEvery
    <3>1. now' - sinceTick' <= F
      BY <1>1, <1>2, <2>2, <2>8
    <3> QED
      BY <1>1, <1>2, <1>3, <2>3, <3>1 DEF TickComes
  <2> QED
    BY <2>7, <2>8
<1> QED
  BY <1>1, <1>2, <1>5, <1>6 DEF F

\* A tick at which the final run is due starts it.
LEMMA ATickStartsIt ==
    ASSUME TypeOK, KnownInv, OnTime, NEW k, Bootstrap(k),
           NEW g \in Gameweek, Waiting(g), InOrder(g), now >= FinalStart(deadline, g)
    PROVE  Chosen(k.deadline, k.settled, now, time, markers) = {Final(g)}
<1>1. deadline[g] > now /\ TickComes(g)
  BY DEF OnTime
<1>2. now <= FinalStart(deadline, g) + TickEvery
  BY <1>1, WithinAPeriod
<1>3. deadline[g] - now >= RunTime
  BY <1>2, WeeklyScheduleAssumption DEF FinalStart, TypeOK
<1>4. /\ k.deadline \in [Gameweek -> Nat] /\ Spaced(k.deadline) /\ k.settled \in SUBSET Gameweek
      /\ k.deadline[g] = deadline[g] /\ FinalStart(k.deadline, g) = FinalStart(deadline, g)
  BY TickKnows DEF Waiting
<1> QED
  BY <1>1, <1>3, <1>4, FinalRunIsChosen DEF Waiting

LEMMA OnTimeStep ==
    ASSUME TypeOK, KnownInv, StartsInv, RunFits, OnTime, Next
    PROVE  OnTime'
<1> SUFFICES ASSUME NEW g \in Gameweek, Waiting(g)', InOrder(g)', now' >= FinalStart(deadline, g)'
             PROVE  deadline'[g] > now' /\ TickComes(g)'
  BY DEF OnTime
<1>1. /\ Waiting(g) /\ deadline'[g] = deadline[g]
      /\ FinalStart(deadline, g)' = FinalStart(deadline, g)
      /\ now' >= FinalStart(deadline, g)
  BY DeadlineStays, FaultsAreKept DEF Waiting, FinalStart
<1>2. InOrder(g)
  BY <1>1, FaultsAreKept DEF InOrder
<1>3. CASE Advance
  BY <1>1, <1>3, OnTimeAdvance
<1>4. CASE ~Advance
  <2>1. now' = now
    BY <1>4, ClockGoesOn
  <2>2. deadline[g] > now /\ TickComes(g)
    BY <1>1, <1>2, <2>1 DEF OnTime
  <2>3. now <= FinalStart(deadline, g) + TickEvery
    BY <2>2, WithinAPeriod
  <2>4. now \notin faulty'
    BY <1>1, <2>1, <2>3 DEF InOrder
  <2>5. CASE sinceTick' = sinceTick /\ (due => due')
    <3>1. TickComes(g)'
      BY <1>1, <2>1, <2>2, <2>5 DEF TickComes
    <3> QED
      BY <1>1, <2>1, <2>2, <3>1
  <2>6. CASE RunSteps
    BY <2>5, <2>6, RunStepsAreQuiet
  <2>7. CASE HostSteps
    <3>1. ~Crash /\ ~TickFails /\ ~StopTimer
      BY <2>4 DEF Crash, TickFails, StopTimer
    <3>2. ~TickStarts
      <4>1. SUFFICES ASSUME TickStarts PROVE FALSE
        OBVIOUS
      <4>2. PICK k, m : /\ Bootstrap(k)
                        /\ m \in Chosen(k.deadline, k.settled, now, time, markers)
                        /\ markers' = markers \cup {m}
        BY <4>1, TickStartsRun
      <4>3. m = Final(g)
        BY <1>1, <1>2, <2>1, <4>2, ATickStartsIt
      <4> QED
        BY <4>2, <4>3 DEF Waiting
    <3>3. ~TickStartsNothing
      <4>1. SUFFICES ASSUME TickStartsNothing PROVE FALSE
        OBVIOUS
      <4>2. PICK k : Bootstrap(k) /\ Chosen(k.deadline, k.settled, now, time, markers) = {}
        BY <4>1 DEF TickStartsNothing
      <4> QED
        BY <1>1, <1>2, <2>1, <4>2, ATickStartsIt
    <3>4. sinceTick' = sinceTick /\ (due => due')
      BY <1>4, <2>7, <3>1, <3>2, <3>3 DEF HostSteps, Boot, Settle, MoveDeadline, StartTimer,
         clock, host, TypeOK
    <3> QED
      BY <2>5, <3>4
  <2> QED
    BY <2>6, <2>7, NextIsSplit
<1> QED
  BY <1>3, <1>4

-------------------------------------------------------------------------------
\* Releases

\* The other releaser keeps its place; a release that goes on keeps its run and attempt.
LEMMA MovesKeeps ==
    ASSUME TypeOK, NEW x \in Releaser, Moves(x)
    PROVE  /\ \A y \in Releaser : y # x => release'[y] = release[y]
           /\ \/ /\ release'[x].pc = "idle" /\ unit' = (IF x = "gate" THEN NoRun ELSE unit)
              \/ /\ release'[x].pc # "idle" /\ unit' = unit
                 /\ release'[x].run = release[x].run /\ release'[x].attempt = release[x].attempt
<1>1. CASE Ends(x)
  BY <1>1 DEF Ends, IdleRelease, TypeOK
<1>2. CASE \E pc \in ReleasePc \ {"idle"} : Goes(x, pc) /\ unit' = unit
  BY <1>2 DEF Goes, TypeOK
<1> QED
  BY <1>1, <1>2 DEF Moves

LEMMA ReleasingIsBusy ==
    ASSUME NEW x \in Releaser, Releasing(x)
    PROVE  release[x].pc # "idle"
BY DEF Releasing, TestLog, SayRun, RefuseInputs, RefuseTree, Enqueue, EnqueueFails,
   SeeMerged, StopWaiting, Ship, MoveBackend, At

\* Only the gate's release works on the run under way.
Apart == GateInv /\ PersonInv

LEMMA ApartStep ==
    ASSUME TypeOK, HostDown, KnownInv, StartsInv, Apart, Next
    PROVE  Apart'
<1>0. completed \subseteq Run /\ NoRun \notin Run /\ "gate" \in Releaser /\ "person" \in Releaser
  BY NullAssumption DEF TypeOK, Releaser
<1>1. CASE \E x \in Releaser : Releasing(x)
  <2>1. PICK x \in Releaser : Releasing(x)
    BY <1>1
  <2>2. Moves(x) /\ completed' = completed /\ release[x].pc # "idle"
    BY <2>1, ReleasingMoves, ReleasingIsBusy
  <2>3. CASE x = "gate"
    <3>1. release'["person"] = release["person"]
      BY <1>0, <2>2, <2>3, MovesKeeps
    <3>2. \/ release'["gate"].pc = "idle" /\ unit' = NoRun
          \/ /\ release'["gate"].pc # "idle" /\ unit' = unit
             /\ release'["gate"].run = release["gate"].run
      BY <1>0, <2>2, <2>3, MovesKeeps
    <3>3. release["person"].pc # "idle" => release["person"].run # NoRun
      BY <1>0 DEF Apart, PersonInv
    <3>4. GateInv'
      BY <1>0, <2>2, <2>3, <3>2 DEF Apart, GateInv
    <3>5. PersonInv'
      BY <1>0, <2>2, <3>1, <3>2, <3>3 DEF Apart, PersonInv
    <3> QED
      BY <3>4, <3>5 DEF Apart
  <2>4. CASE x = "person"
    <3>1. release'["gate"] = release["gate"] /\ unit' = unit
      BY <1>0, <2>2, <2>4, MovesKeeps
    <3>2. \/ release'["person"].pc = "idle"
          \/ release'["person"].run = release["person"].run
      BY <1>0, <2>2, <2>4, MovesKeeps
    <3> QED
      BY <2>2, <2>4, <3>1, <3>2 DEF Apart, GateInv, PersonInv
  <2> QED
    BY <2>3, <2>4 DEF Releaser
<1>2. CASE WeeklyStops
  BY <1>0, <1>2 DEF WeeklyStops, InWeekly, Apart, GateInv, PersonInv
<1>3. CASE WeeklyCompletes
  <2>1. unit # NoRun /\ release["gate"].pc = "idle" /\ completed' = completed \cup {unit}
    BY <1>3 DEF WeeklyCompletes, InWeekly
  <2>2. CASE Releases
    <3>1. unit' = unit /\ release' = [release EXCEPT !["gate"] =
                                         [pc |-> "called", run |-> unit, attempt |-> 0]]
      BY <1>3, <2>2 DEF WeeklyCompletes
    <3>2. release'["person"] = release["person"] /\ release'["gate"].pc = "called"
          /\ release'["gate"].run = unit
      BY <1>0, <3>1 DEF TypeOK
    <3> QED
      BY <2>1, <3>1, <3>2 DEF Apart, GateInv, PersonInv
  <2>3. CASE ~Releases
    <3>1. unit' = NoRun /\ release' = release
      BY <1>3, <2>3 DEF WeeklyCompletes
    <3> QED
      BY <1>0, <2>1, <3>1 DEF Apart, GateInv, PersonInv
  <2> QED
    BY <2>2, <2>3
<1>4. CASE \E r \in queued : Merge(r) \/ Kick(r) \/ Close(r)
  BY <1>4 DEF Merge, Kick, Close, Apart, GateInv, PersonInv
<1>5. CASE \E r \in completed : LookAtUnit(r)
  <2>1. PICK r \in completed : LookAtUnit(r)
    BY <1>5
  <2>2. /\ release' = [release EXCEPT !["person"] =
                          [pc |-> "looked", run |-> r, attempt |-> hand + 1]]
        /\ unit = NoRun /\ unit' = unit /\ completed' = completed
    BY <2>1 DEF LookAtUnit, NoTick
  <2>3. release'["gate"] = release["gate"] /\ release'["person"].run = r
    BY <1>0, <2>2 DEF TypeOK
  <2> QED
    BY <1>0, <2>1, <2>2, <2>3 DEF Apart, GateInv, PersonInv
<1>6. CASE Interrupt
  <2>1. Moves("person") /\ completed' = completed
    BY <1>6 DEF Interrupt, Moves
  <2>2. release'["gate"] = release["gate"]
    BY <1>0, <2>1, MovesKeeps
  <2>3. unit' = unit /\ release'["person"].pc = "idle"
    BY <1>0, <1>6 DEF Interrupt, Ends, IdleRelease, TypeOK
  <2> QED
    BY <2>1, <2>2, <2>3 DEF Apart, GateInv, PersonInv
<1>7. CASE TickStarts
  <2>1. PICK m : m \notin markers /\ unit' = [marker |-> m, at |-> now] /\ unit' \in Run
    BY <1>7, TickStartsRun
  <2>2. unit = NoRun /\ completed' = completed /\ release' = release
    BY <1>7 DEF TickStarts, TypeOK
  <2>3. unit' \notin completed /\ unit' # NoRun
    BY <1>0, <2>1 DEF StartsInv
  <2> QED
    BY <2>2, <2>3 DEF Apart, GateInv, PersonInv
<1>8. CASE Crash
  BY <1>0, <1>8 DEF Crash, IdleRelease, Apart, GateInv, PersonInv
<1>9. CASE StopTimer
  <2>1. /\ release["person"].pc = "looked" /\ unit' = unit /\ completed' = completed
        /\ release' = [release EXCEPT !["person"].pc = "called"]
    BY <1>9 DEF StopTimer, At, Goes
  <2>2. release'["gate"] = release["gate"] /\ release'["person"].run = release["person"].run
    BY <1>0, <2>1 DEF TypeOK
  <2> QED
    BY <2>1, <2>2 DEF Apart, GateInv, PersonInv
<1>10. CASE UNCHANGED <<unit, release, completed>>
  BY <1>10 DEF Apart, GateInv, PersonInv
<1>11. CASE RunSteps
  BY <1>1, <1>2, <1>3, <1>4, <1>5, <1>6, <1>11 DEF RunSteps
<1>12. CASE HostSteps
  BY <1>7, <1>8, <1>9, <1>10, <1>12 DEF HostSteps, Advance, Boot, Settle, MoveDeadline,
     TickStartsNothing, TickFails, StartTimer
<1> QED
  BY <1>11, <1>12, NextIsSplit

\* The two releasers work on different runs.
LEMMA RunsDiffer ==
    ASSUME Apart, NEW x \in Releaser, NEW y \in Releaser, x # y,
           release[x].pc # "idle", release[y].pc # "idle"
    PROVE  RunOf(x) # RunOf(y)
BY DEF Apart, GateInv, PersonInv, Releaser, RunOf

\* A step that writes neither the log nor to the public, and takes no release past a test.
LEMMA EffectsStay ==
    ASSUME EffectsInv, effects' = effects, log' = log,
           \A x \in Releaser : \/ release'[x] = release[x]
                               \/ release'[x].pc \in {"idle", "looked", "called"}
    PROVE  EffectsInv'
<1>1. /\ \A e \in effects' : e.run \in log'
      /\ ReleasedOnce'
  BY DEF EffectsInv, ReleasedOnce
<1>2. \A x \in Releaser : release'[x].pc = "tested" => RunOf(x)' \notin log'
  BY DEF EffectsInv, RunOf
<1>3. ASSUME NEW x \in Releaser, Past(x)'
      PROVE  /\ RunOf(x)' \in log'
             /\ \A e \in effects' : e.run = RunOf(x)' => e.attempt = release'[x].attempt
  <2>1. release'[x] = release[x]
    BY <1>3 DEF Past
  <2>2. Past(x) /\ RunOf(x)' = RunOf(x)
    BY <1>3, <2>1 DEF Past, RunOf
  <2> QED
    BY <2>1, <2>2 DEF EffectsInv
<1> QED
  BY <1>1, <1>2, <1>3 DEF EffectsInv

\* A release that is over, or goes on past its log without writing to it or to the public.
LEMMA EffectsStayPast ==
    ASSUME TypeOK, EffectsInv, NEW x \in Releaser, effects' = effects, log' = log, Moves(x),
           release'[x].pc \in {"idle", "looked", "called"} \/ (Past(x) /\ Past(x)')
    PROVE  EffectsInv'
<1>1. \A y \in Releaser : y # x => release'[y] = release[y]
  BY MovesKeeps
<1>2. CASE release'[x].pc \in {"idle", "looked", "called"}
  BY <1>1, <1>2, EffectsStay
<1>3. CASE Past(x) /\ Past(x)'
  <2>1. release'[x].run = release[x].run /\ release'[x].attempt = release[x].attempt
    BY <1>3, MovesKeeps DEF Past
  <2>2. /\ \A e \in effects' : e.run \in log'
        /\ ReleasedOnce'
    BY DEF EffectsInv, ReleasedOnce
  <2>3. ASSUME NEW y \in Releaser
        PROVE  /\ release'[y].pc = "tested" => RunOf(y)' \notin log'
               /\ Past(y)' =>
                    /\ RunOf(y)' \in log'
                    /\ \A e \in effects' : e.run = RunOf(y)' => e.attempt = release'[y].attempt
    <3>1. CASE y = x
      BY <1>3, <2>1, <3>1 DEF EffectsInv, RunOf, Past
    <3>2. CASE y # x
      BY <1>1, <3>2 DEF EffectsInv, RunOf, Past
    <3> QED
      BY <3>1, <3>2
  <2> QED
    BY <2>2, <2>3 DEF EffectsInv
<1> QED
  BY <1>2, <1>3

\* The first line of the log: no effect has the run, and the other release works elsewhere.
LEMMA EffectsOfSaying ==
    ASSUME TypeOK, Apart, EffectsInv, NEW x \in Releaser, effects' = effects, At(x, "tested"),
           log' = log \cup {RunOf(x)}, Moves(x),
           release'[x].pc = "idle" \/ release'[x].pc = "said"
    PROVE  EffectsInv'
<1>1. \A y \in Releaser : y # x => release'[y] = release[y]
  BY MovesKeeps
<1>2. RunOf(x) \notin log /\ release[x].pc # "idle"
  BY DEF EffectsInv, At
<1>3. \A e \in effects : e.run # RunOf(x)
  BY <1>2 DEF EffectsInv
<1>4. /\ \A e \in effects' : e.run \in log'
      /\ ReleasedOnce'
  BY DEF EffectsInv, ReleasedOnce
<1>5. ASSUME NEW y \in Releaser
      PROVE  /\ release'[y].pc = "tested" => RunOf(y)' \notin log'
             /\ Past(y)' =>
                  /\ RunOf(y)' \in log'
                  /\ \A e \in effects' : e.run = RunOf(y)' => e.attempt = release'[y].attempt
  <2>1. CASE y = x
    <3>1. release'[x].pc = "said" => RunOf(x)' = RunOf(x)
      BY MovesKeeps DEF RunOf
    <3> QED
      BY <1>3, <2>1, <3>1 DEF Past
  <2>2. CASE y # x
    <3>1. release'[y] = release[y] /\ RunOf(y)' = RunOf(y)
      BY <1>1, <2>2 DEF RunOf
    <3>2. release[y].pc # "idle" => RunOf(y) # RunOf(x)
      BY <1>2, <2>2, RunsDiffer
    <3> QED
      BY <3>1, <3>2 DEF EffectsInv, Past
  <2> QED
    BY <2>1, <2>2
<1> QED
  BY <1>4, <1>5 DEF EffectsInv

\* An effect is of a run on which no other release had one.
LEMMA EffectsOfAnEffect ==
    ASSUME TypeOK, Apart, EffectsInv, NEW x \in Releaser, Past(x), log' = log, Moves(x),
           NEW what \in {"enqueue", "ship"}, Effect(x, what),
           release'[x].pc = "idle" \/ Past(x)'
    PROVE  EffectsInv'
<1> DEFINE f == [what |-> what, run |-> RunOf(x), attempt |-> release[x].attempt]
<1>1. effects' = effects \cup {f} /\ f.run = RunOf(x) /\ f.attempt = release[x].attempt
  BY DEF Effect
<1> HIDE DEF f
<1>2. RunOf(x) \in log /\ (\A e \in effects : e.run = f.run => e.attempt = f.attempt)
  BY <1>1 DEF EffectsInv
<1>3. \A e \in effects' : e.run \in log'
  BY <1>1, <1>2 DEF EffectsInv
<1>4. ReleasedOnce'
  BY <1>1, <1>2 DEF EffectsInv, ReleasedOnce
<1>5. ASSUME NEW y \in Releaser
      PROVE  /\ release'[y].pc = "tested" => RunOf(y)' \notin log'
             /\ Past(y)' =>
                  /\ RunOf(y)' \in log'
                  /\ \A e \in effects' : e.run = RunOf(y)' => e.attempt = release'[y].attempt
  <2>1. CASE y = x
    <3>1. Past(x)' => release'[x].run = release[x].run /\ release'[x].attempt = release[x].attempt
      BY MovesKeeps DEF Past
    <3> QED
      BY <1>1, <1>2, <2>1, <3>1 DEF Past, RunOf
  <2>2. CASE y # x
    <3>1. release'[y] = release[y] /\ RunOf(y)' = RunOf(y)
      BY <2>2, MovesKeeps DEF RunOf
    <3>2. release[y].pc # "idle" => RunOf(y) # RunOf(x)
      BY <2>2, RunsDiffer DEF Past
    <3> QED
      BY <1>1, <3>1, <3>2 DEF EffectsInv, Past
  <2> QED
    BY <2>1, <2>2
<1> QED
  BY <1>3, <1>4, <1>5 DEF EffectsInv

LEMMA GoesTo ==
    ASSUME TypeOK, NEW x \in Releaser, NEW pc, Goes(x, pc)
    PROVE  release'[x].pc = pc
BY DEF Goes, TypeOK

LEMMA EndsIdle ==
    ASSUME TypeOK, NEW x \in Releaser, Ends(x)
    PROVE  release'[x].pc = "idle"
BY DEF Ends, IdleRelease, TypeOK

LEMMA EffectsOfReleasing ==
    ASSUME TypeOK, Apart, EffectsInv, NEW x \in Releaser, Releasing(x)
    PROVE  EffectsInv'
<1>0. Moves(x)
  BY ReleasingMoves
<1>1. CASE TestLog(x)
  <2>1. effects' = effects /\ log' = log
    BY <1>1 DEF TestLog, public
  <2>2. CASE RunOf(x) \in log
    <3>1. release'[x].pc = "idle"
      BY <1>1, <2>2, EndsIdle DEF TestLog, ReleasedBefore
    <3> QED
      BY <1>0, <2>1, <3>1, EffectsStayPast
  <2>3. CASE RunOf(x) \notin log
    <3>1. release'[x].pc = "tested"
      BY <1>1, <2>3, GoesTo DEF TestLog, ReleasedBefore
    <3>2. RunOf(x)' = RunOf(x) /\ \A y \in Releaser : y # x => release'[y] = release[y]
      BY <1>0, <3>1, MovesKeeps DEF RunOf
    <3>3. ReleasedOnce' /\ \A e \in effects' : e.run \in log'
      BY <2>1 DEF EffectsInv, ReleasedOnce
    <3>4. ASSUME NEW y \in Releaser
          PROVE  /\ release'[y].pc = "tested" => RunOf(y)' \notin log'
                 /\ Past(y)' =>
                      /\ RunOf(y)' \in log'
                      /\ \A e \in effects' : e.run = RunOf(y)' => e.attempt = release'[y].attempt
      <4>1. CASE y = x
        BY <2>1, <2>3, <3>1, <3>2, <4>1 DEF Past
      <4>2. CASE y # x
        BY <2>1, <3>2, <4>2 DEF EffectsInv, RunOf, Past
      <4> QED
        BY <4>1, <4>2
    <3> QED
      BY <3>3, <3>4 DEF EffectsInv
  <2> QED
    BY <2>2, <2>3
<1>2. CASE SayRun(x)
  <2>1. effects' = effects /\ log' = log \cup {RunOf(x)} /\ At(x, "tested") /\ release'[x].pc = "said"
    BY <1>2, GoesTo DEF SayRun, public
  <2> QED
    BY <1>0, <2>1, EffectsOfSaying
<1>3. CASE RefuseInputs(x)
  <2>1. effects' = effects /\ log' = log \cup {RunOf(x)} /\ At(x, "tested") /\ release'[x].pc = "idle"
    BY <1>3, EndsIdle DEF RefuseInputs, public
  <2> QED
    BY <1>0, <2>1, EffectsOfSaying
<1>4. CASE RefuseTree(x) \/ EnqueueFails(x) \/ StopWaiting(x) \/ MoveBackend(x)
  <2>1. effects' = effects /\ log' = log /\ Ends(x)
    BY <1>4 DEF RefuseTree, EnqueueFails, StopWaiting, MoveBackend, public
  <2> QED
    BY <1>0, <2>1, EndsIdle, EffectsStayPast
<1>5. CASE Enqueue(x)
  <2>1. Past(x) /\ log' = log /\ Effect(x, "enqueue")
    BY <1>5 DEF Enqueue, At, Past
  <2>2. release'[x].pc = "idle" \/ release'[x].pc = "enqueued"
    BY <1>5, GoesTo, EndsIdle DEF Enqueue
  <2>3. release'[x].pc = "idle" \/ Past(x)'
    BY <2>2 DEF Past
  <2> QED
    BY <1>0, <2>1, <2>3, EffectsOfAnEffect
<1>6. CASE SeeMerged(x)
  <2>1. Past(x) /\ log' = log /\ effects' = effects /\ release'[x].pc = "merged"
    BY <1>6, GoesTo DEF SeeMerged, At, Past, public
  <2>2. Past(x)'
    BY <2>1 DEF Past
  <2> QED
    BY <1>0, <2>1, <2>2, EffectsStayPast
<1>7. CASE Ship(x)
  <2>1. Past(x) /\ log' = log
    BY <1>7 DEF Ship, At, Past
  <2>2. \/ Effect(x, "ship") /\ (release'[x].pc = "idle" \/ release'[x].pc = "live")
        \/ effects' = effects /\ release'[x].pc = "idle"
    BY <1>7, GoesTo, EndsIdle DEF Ship
  <2>3. CASE Effect(x, "ship") /\ (release'[x].pc = "idle" \/ release'[x].pc = "live")
    <3>1. release'[x].pc = "idle" \/ Past(x)'
      BY <2>3 DEF Past
    <3> QED
      BY <1>0, <2>1, <2>3, <3>1, EffectsOfAnEffect
  <2>4. CASE effects' = effects /\ release'[x].pc = "idle"
    BY <1>0, <2>1, <2>4, EffectsStayPast
  <2> QED
    BY <2>2, <2>3, <2>4
<1> QED
  BY <1>1, <1>2, <1>3, <1>4, <1>5, <1>6, <1>7 DEF Releasing

LEMMA ReleaseStep ==
    ASSUME TypeOK, HostDown, KnownInv, StartsInv, ReleaseInv, Next
    PROVE  ReleaseInv'
<1>0. Apart /\ EffectsInv
  BY DEF ReleaseInv, Apart
<1>1. Apart'
  BY <1>0, ApartStep
<1>2. EffectsInv'
  <2> DEFINE Quiet == /\ effects' = effects /\ log' = log
                      /\ \A x \in Releaser : \/ release'[x] = release[x]
                                             \/ release'[x].pc \in {"idle", "looked", "called"}
  <2>1. CASE Quiet
    BY <1>0, <2>1, EffectsStay
  <2>2. CASE RunSteps
    <3>1. CASE \E x \in Releaser : Releasing(x)
      BY <1>0, <3>1, EffectsOfReleasing
    <3>2. CASE WeeklyStops
      BY <2>1, <3>2 DEF WeeklyStops, public
    <3>3. CASE WeeklyCompletes
      <4>1. \A x \in Releaser : release'[x] = release[x] \/ release'[x].pc = "called"
        BY <3>3 DEF WeeklyCompletes, TypeOK
      <4> QED
        BY <2>1, <3>3, <4>1 DEF WeeklyCompletes, public
    <3>4. CASE \E r \in queued : Merge(r) \/ Kick(r) \/ Close(r)
      BY <2>1, <3>4 DEF Merge, Kick, Close
    <3>5. CASE \E r \in completed : LookAtUnit(r)
      <4>1. \A x \in Releaser : release'[x] = release[x] \/ release'[x].pc = "looked"
        BY <3>5 DEF LookAtUnit, TypeOK
      <4> QED
        BY <2>1, <3>5, <4>1 DEF LookAtUnit, public
    <3>6. CASE Interrupt
      <4>1. \A x \in Releaser : release'[x] = release[x] \/ release'[x].pc = "idle"
        BY <3>6 DEF Interrupt, Ends, IdleRelease, TypeOK
      <4> QED
        BY <2>1, <3>6, <4>1 DEF Interrupt, public
    <3> QED
      BY <2>2, <3>1, <3>2, <3>3, <3>4, <3>5, <3>6 DEF RunSteps
  <2>3. CASE HostSteps
    <3>1. CASE Crash
      <4>1. \A x \in Releaser : release'[x].pc = "idle"
        BY <3>1 DEF Crash, IdleRelease
      <4> QED
        BY <2>1, <3>1, <4>1 DEF Crash, public
    <3>2. CASE StopTimer
      <4>1. \A x \in Releaser : release'[x] = release[x] \/ release'[x].pc = "called"
        BY <3>2 DEF StopTimer, Goes, TypeOK
      <4> QED
        BY <2>1, <3>2, <4>1 DEF StopTimer, public
    <3>3. CASE UNCHANGED <<effects, log, release>>
      BY <2>1, <3>3
    <3> QED
      BY <2>3, <3>1, <3>2, <3>3 DEF HostSteps, Advance, Boot, Settle, MoveDeadline, TickStarts,
         TickStartsNothing, TickFails, StartTimer, public
  <2> QED
    BY <2>2, <2>3, NextIsSplit
<1> QED
  BY <1>1, <1>2 DEF ReleaseInv, Apart

-------------------------------------------------------------------------------
\* The invariant

LEMMA InitIInv == Init => IInv
<1> SUFFICES ASSUME Init PROVE IInv
  OBVIOUS
<1> USE DEF Init
<1>1. TypeOK
  <2>1. now \in Nat /\ time \in 0..(Day - 1) /\ sinceTick \in 0..(TickEvery - 1)
    BY WeeklyScheduleAssumption
  <2>2. deadline \in [Gameweek -> Nat] /\ moves \in Nat
    BY WeeklyHostAssumption
  <2>3. due = FALSE /\ lost = FALSE /\ up = TRUE /\ timer = TRUE /\ copy = NoCopy
    OBVIOUS
  <2>4. settled = {} /\ moved = {} /\ markers = {} /\ alarms = {} /\ started = {} /\ faulty = {}
    OBVIOUS
  <2>5. HostTypes
    BY <2>1, <2>2, <2>3, <2>4 DEF HostTypes
  <2>6. RunTypes
    BY IdleIsTyped DEF RunTypes
  <2> QED
    BY <2>5, <2>6, TypeOKIsSplit
<1>2. HostDown /\ KnownInv /\ StartsInv /\ AlarmInv /\ RunFits
  BY WeeklyHostAssumption DEF HostDown, KnownInv, Agrees, StartsInv, OncePerMarker, AlarmInv, RunFits
<1>3. OnTime
  <2> SUFFICES ASSUME NEW g \in Gameweek, now >= FinalStart(deadline, g)
               PROVE  deadline[g] > now /\ TickComes(g)
    BY DEF OnTime
  <2>1. /\ deadline[g] \in Nat /\ deadline[g] >= Lead /\ Lead \in Nat /\ Lead > 0
        /\ sinceTick \in Nat
    BY WeeklyScheduleAssumption, WeeklyHostAssumption
  <2> QED
    BY <2>1 DEF TickComes, FinalStart
<1>4. ReleaseInv
  BY DEF ReleaseInv, GateInv, PersonInv, EffectsInv, ReleasedOnce, IdleRelease, Past, Releaser
<1> QED
  BY <1>1, <1>2, <1>3, <1>4 DEF IInv

LEMMA NextIInv == IInv /\ [Next]_vars => IInv'
<1> SUFFICES ASSUME IInv, [Next]_vars PROVE IInv'
  OBVIOUS
<1>1. CASE Next
  BY <1>1, TypeStep, HostDownStep, KnownStep, StartsStep, AlarmStep, RunFitsStep, OnTimeStep,
     ReleaseStep DEF IInv
<1>2. CASE UNCHANGED vars
  <2> USE <1>2 DEF vars, clock, host, game, gate, public
  <2>1. TypeOK'
    BY DEF IInv, TypeOK
  <2>2. HostDown' /\ KnownInv' /\ StartsInv' /\ AlarmInv'
    BY DEF IInv, HostDown, KnownInv, Agrees, StartsInv, OncePerMarker, AlarmInv
  <2>3. RunFits' /\ OnTime'
    BY DEF IInv, RunFits, OnTime, Waiting, InOrder, TickComes, FinalStart
  <2>4. ReleaseInv'
    BY DEF IInv, ReleaseInv, GateInv, PersonInv, EffectsInv, ReleasedOnce, Past, RunOf
  <2> QED
    BY <2>1, <2>2, <2>3, <2>4 DEF IInv
<1> QED
  BY <1>1, <1>2

\* The invariant holds throughout, in every season and whatever goes wrong.
THEOREM HostInvariant == Spec => []IInv
BY InitIInv, NextIInv, PTL DEF Spec

\* Types: in particular a tick is due only while the host is up and no run is under way.
THEOREM TypeCorrect == Spec => []TypeOK
<1>1. IInv => TypeOK
  BY DEF IInv
<1> QED
  BY <1>1, HostInvariant, PTL

\* A final run that did not start before its deadline has, within a period of the timer
\* from its start, the host off, the timer stopped, a tick refused or a run outlasting its
\* time: no choice decide makes in between, and no copy of the deadlines, can cost it.
THEOREM FinalRunIsExplained == Spec => []MissedIsExplained
<1>1. IInv => MissedIsExplained
  <2> SUFFICES ASSUME IInv, NEW g \in Gameweek \ moved, deadline[g] <= now, Final(g) \notin markers
               PROVE  ~InOrder(g)
    BY DEF MissedIsExplained, InOrder
  <2>1. Waiting(g)
    BY DEF Waiting
  <2>2. now \in Nat /\ deadline[g] \in Nat /\ Lead \in Nat
    BY WeeklyScheduleAssumption DEF IInv, TypeOK
  <2>3. now >= FinalStart(deadline, g) /\ ~(deadline[g] > now)
    BY <2>2 DEF FinalStart
  <2> QED
    BY <2>1, <2>3 DEF IInv, OnTime
<1> QED
  BY <1>1, HostInvariant, PTL

\* However the host fails and the game moves its deadlines, no marker stands for two runs.
THEOREM OneRunPerMarker == Spec => []OncePerMarker
<1>1. IInv => OncePerMarker
  BY DEF IInv, StartsInv
<1> QED
  BY <1>1, HostInvariant, PTL

\* A missed final run that was reported never starts, and had not started.
THEOREM AlarmsAreTrue == Spec => []MissedAlarmIsTrue
<1>1. IInv => MissedAlarmIsTrue
  BY DEF IInv, AlarmInv, MissedAlarmIsTrue
<1> QED
  BY <1>1, HostInvariant, PTL

\* A run is enqueued and shipped by one release alone, whether the gate's or a person's and
\* wherever an earlier one stopped.
THEOREM OneRelease == Spec => []ReleasedOnce
<1>1. IInv => ReleasedOnce
  BY DEF IInv, ReleaseInv, EffectsInv
<1> QED
  BY <1>1, HostInvariant, PTL

-------------------------------------------------------------------------------
\* What is promised of a run

\* How far a release has come shows in what was done with its run: nothing before it is
\* enqueued, one enqueueing until it ships, and a merge before that.
InPlace(x) ==
    /\ release[x].pc = "said" => RunOf(x) \notin Did("enqueue")
    /\ release[x].pc \in {"enqueued", "merged"} => RunOf(x) \in Did("enqueue")
    /\ release[x].pc \in {"said", "enqueued", "merged"} => RunOf(x) \notin Did("ship")
    /\ release[x].pc = "merged" => RunOf(x) \in merged

ShipInv ==
    /\ Did("ship") \subseteq Did("enqueue") \cap merged
    /\ Did("enqueue") \subseteq completed
    /\ \A x \in Releaser : InPlace(x)

\* An effect adds its run to what was done of its kind, and to nothing else.
LEMMA EffectIsDone ==
    ASSUME NEW x \in Releaser, NEW what, Effect(x, what)
    PROVE  /\ Did(what)' = Did(what) \cup {RunOf(x)}
           /\ \A other : other # what => Did(other)' = Did(other)
<1> DEFINE f == [what |-> what, run |-> RunOf(x), attempt |-> release[x].attempt]
<1>1. effects' = effects \cup {f} /\ f.what = what /\ f.run = RunOf(x)
  BY DEF Effect
<1> HIDE DEF f
<1> QED
  BY <1>1 DEF Did

LEMMA NothingIsDone ==
    ASSUME effects' = effects, NEW what
    PROVE  Did(what)' = Did(what)
BY DEF Did

\* A step of a release leaves the runs apart from its own as they are.
LEMMA OthersInPlace ==
    ASSUME TypeOK, Apart, ShipInv, NEW x \in Releaser, Releasing(x), NEW y \in Releaser, y # x
    PROVE  InPlace(y)'
<1>1. release[x].pc # "idle" /\ release'[y] = release[y] /\ RunOf(y)' = RunOf(y)
  BY ReleasingIsBusy, ReleasingMoves, MovesKeeps DEF RunOf
<1>2. release[y].pc # "idle" => RunOf(y) # RunOf(x)
  BY <1>1, RunsDiffer
<1>3. InPlace(y)
  BY DEF ShipInv
<1>4. merged' = merged
  BY DEF Releasing, TestLog, SayRun, RefuseInputs, RefuseTree, Enqueue, EnqueueFails,
     SeeMerged, StopWaiting, Ship, MoveBackend, public
<1>5. CASE effects' = effects
  BY <1>1, <1>3, <1>4, <1>5, NothingIsDone DEF InPlace
<1>6. CASE Enqueue(x)
  <2>1. Did("enqueue")' = Did("enqueue") \cup {RunOf(x)} /\ Did("ship")' = Did("ship")
    BY <1>6, EffectIsDone DEF Enqueue
  <2> QED
    BY <1>1, <1>2, <1>3, <1>4, <2>1 DEF InPlace
<1>7. CASE Effect(x, "ship")
  <2>1. Did("ship")' = Did("ship") \cup {RunOf(x)} /\ Did("enqueue")' = Did("enqueue")
    BY <1>7, EffectIsDone
  <2> QED
    BY <1>1, <1>2, <1>3, <1>4, <2>1 DEF InPlace
<1> QED
  BY <1>5, <1>6, <1>7 DEF Releasing, TestLog, SayRun, RefuseInputs, RefuseTree, EnqueueFails,
     SeeMerged, StopWaiting, Ship, MoveBackend, public

\* A step that does nothing to the public and takes no release past its log.
LEMMA ShipStays ==
    ASSUME ShipInv, effects' = effects, merged \subseteq merged', completed \subseteq completed',
           \A x \in Releaser : \/ release'[x] = release[x]
                               \/ release'[x].pc \notin {"said", "enqueued", "merged"}
    PROVE  ShipInv'
<1>1. Did("enqueue")' = Did("enqueue") /\ Did("ship")' = Did("ship")
  BY NothingIsDone
<1>2. ASSUME NEW x \in Releaser PROVE InPlace(x)'
  <2>1. CASE release'[x] = release[x]
    BY <1>1, <2>1 DEF ShipInv, InPlace, RunOf
  <2>2. CASE release'[x].pc \notin {"said", "enqueued", "merged"}
    BY <2>2 DEF InPlace
  <2> QED
    BY <2>1, <2>2
<1> QED
  BY <1>1, <1>2 DEF ShipInv

LEMMA ShipOfReleasing ==
    ASSUME TypeOK, ReleaseInv, ShipInv, NEW x \in Releaser, Releasing(x)
    PROVE  ShipInv'
<1>0. /\ Apart /\ EffectsInv /\ Moves(x) /\ completed' = completed
      /\ \A y \in Releaser : y # x => InPlace(y)'
      /\ \A y \in Releaser : y # x => release'[y] = release[y]
  BY ReleasingMoves, OthersInPlace, MovesKeeps DEF ReleaseInv, Apart
<1>1. CASE \/ RefuseInputs(x) \/ RefuseTree(x) \/ EnqueueFails(x) \/ StopWaiting(x)
           \/ MoveBackend(x) \/ TestLog(x)
  <2>1. effects' = effects /\ merged' = merged
    BY <1>1 DEF RefuseInputs, RefuseTree, EnqueueFails, StopWaiting, MoveBackend, TestLog, public
  <2>2. release'[x].pc \in {"idle", "tested"}
    BY <1>1, EndsIdle, GoesTo DEF RefuseInputs, RefuseTree, EnqueueFails, StopWaiting,
       MoveBackend, TestLog
  <2> QED
    BY <1>0, <2>1, <2>2, ShipStays
<1>2. CASE SayRun(x)
  <2>1. /\ effects' = effects /\ merged' = merged /\ release[x].pc = "tested"
        /\ release'[x].pc = "said" /\ RunOf(x)' = RunOf(x)
    BY <1>0, <1>2, GoesTo, MovesKeeps DEF SayRun, public, At, RunOf
  <2>2. RunOf(x) \notin log
    BY <1>0, <2>1 DEF EffectsInv
  <2>3. RunOf(x) \notin Did("enqueue") /\ RunOf(x) \notin Did("ship")
    BY <1>0, <2>2 DEF EffectsInv, Did
  <2>4. Did("enqueue")' = Did("enqueue") /\ Did("ship")' = Did("ship")
    BY <2>1, NothingIsDone
  <2>5. InPlace(x)'
    BY <2>1, <2>3, <2>4 DEF InPlace
  <2> QED
    BY <1>0, <2>1, <2>4, <2>5 DEF ShipInv
<1>3. CASE Enqueue(x)
  <2>1. /\ merged' = merged /\ release[x].pc = "said"
        /\ release'[x].pc = "idle" \/ (release'[x].pc = "enqueued" /\ RunOf(x)' = RunOf(x))
    BY <1>0, <1>3, GoesTo, EndsIdle, MovesKeeps DEF Enqueue, At, RunOf
  <2>2. Did("enqueue")' = Did("enqueue") \cup {RunOf(x)} /\ Did("ship")' = Did("ship")
    BY <1>3, EffectIsDone DEF Enqueue
  <2>3. RunOf(x) \in completed /\ InPlace(x)
    BY <2>1, RunOfIsRun DEF ShipInv
  <2>4. InPlace(x)'
    BY <2>1, <2>2, <2>3 DEF InPlace
  <2> QED
    BY <1>0, <2>1, <2>2, <2>3, <2>4 DEF ShipInv
<1>4. CASE SeeMerged(x)
  <2>1. /\ effects' = effects /\ merged' = merged /\ release[x].pc = "enqueued"
        /\ release'[x].pc = "merged" /\ RunOf(x)' = RunOf(x) /\ RunOf(x) \in merged
    BY <1>0, <1>4, GoesTo, MovesKeeps DEF SeeMerged, public, At, RunOf
  <2>2. Did("enqueue")' = Did("enqueue") /\ Did("ship")' = Did("ship") /\ InPlace(x)
    BY <2>1, NothingIsDone DEF ShipInv
  <2>3. InPlace(x)'
    BY <2>1, <2>2 DEF InPlace
  <2> QED
    BY <1>0, <2>1, <2>2, <2>3 DEF ShipInv
<1>5. CASE Ship(x)
  <2>1. /\ merged' = merged /\ release[x].pc = "merged" /\ release'[x].pc \in {"idle", "live"}
        /\ Effect(x, "ship") \/ effects' = effects
    BY <1>5, GoesTo, EndsIdle DEF Ship, At
  <2>2. InPlace(x) /\ InPlace(x)'
    BY <2>1 DEF ShipInv, InPlace
  <2>3. CASE Effect(x, "ship")
    <3>1. Did("ship")' = Did("ship") \cup {RunOf(x)} /\ Did("enqueue")' = Did("enqueue")
      BY <2>3, EffectIsDone
    <3> QED
      BY <1>0, <2>1, <2>2, <3>1 DEF ShipInv, InPlace
  <2>4. CASE effects' = effects
    BY <1>0, <2>1, <2>4, ShipStays
  <2> QED
    BY <2>1, <2>3, <2>4
<1> QED
  BY <1>1, <1>2, <1>3, <1>4, <1>5 DEF Releasing

LEMMA ShipStep ==
    ASSUME TypeOK, ReleaseInv, ShipInv, Next
    PROVE  ShipInv'
<1>0. completed \subseteq completed'
  BY CompletedGrowsByUnit
<1>1. CASE \E x \in Releaser : Releasing(x)
  BY <1>1, ShipOfReleasing
<1>2. CASE UNCHANGED <<release, merged, effects>>
  BY <1>0, <1>2, ShipStays
<1>3. CASE WeeklyCompletes
  <2>1. \A x \in Releaser : release'[x] = release[x] \/ release'[x].pc = "called"
    BY <1>3 DEF WeeklyCompletes, TypeOK
  <2> QED
    BY <1>0, <1>3, <2>1, ShipStays DEF WeeklyCompletes, public
<1>4. CASE \E r \in queued : Merge(r) \/ Kick(r) \/ Close(r)
  BY <1>0, <1>4, ShipStays DEF Merge, Kick, Close
<1>5. CASE \E r \in completed : LookAtUnit(r)
  <2>1. \A x \in Releaser : release'[x] = release[x] \/ release'[x].pc = "looked"
    BY <1>5 DEF LookAtUnit, TypeOK
  <2> QED
    BY <1>0, <1>5, <2>1, ShipStays DEF LookAtUnit, public
<1>6. CASE Interrupt
  <2>1. \A x \in Releaser : release'[x] = release[x] \/ release'[x].pc = "idle"
    BY <1>6 DEF Interrupt, Ends, IdleRelease, TypeOK
  <2> QED
    BY <1>0, <1>6, <2>1, ShipStays DEF Interrupt, public
<1>7. CASE Crash
  <2>1. \A x \in Releaser : release'[x].pc = "idle"
    BY <1>7 DEF Crash, IdleRelease
  <2> QED
    BY <1>0, <1>7, <2>1, ShipStays DEF Crash, public
<1>8. CASE StopTimer
  <2>1. \A x \in Releaser : release'[x] = release[x] \/ release'[x].pc = "called"
    BY <1>8 DEF StopTimer, Goes, TypeOK
  <2> QED
    BY <1>0, <1>8, <2>1, ShipStays DEF StopTimer, public
<1>9. CASE RunSteps
  BY <1>1, <1>2, <1>3, <1>4, <1>5, <1>6, <1>9 DEF RunSteps, WeeklyStops, public
<1>10. CASE HostSteps
  BY <1>2, <1>7, <1>8, <1>10 DEF HostSteps, Advance, Boot, Settle, MoveDeadline, TickStarts,
     TickStartsNothing, TickFails, StartTimer, public
<1> QED
  BY <1>9, <1>10, NextIsSplit

LEMMA InitShipInv == Init => ShipInv
BY DEF Init, ShipInv, InPlace, Did, IdleRelease, Releaser

\* What was done with a run agrees with how far each release has come.
THEOREM ReleasesAreInPlace == Spec => []ShipInv
<1>1. IInv /\ ShipInv /\ [Next]_vars => ShipInv'
  <2>1. ASSUME IInv, ShipInv, Next PROVE ShipInv'
    BY <2>1, ShipStep DEF IInv
  <2>2. ASSUME ShipInv, UNCHANGED vars PROVE ShipInv'
    BY <2>2 DEF vars, public, ShipInv, InPlace, Did, RunOf
  <2> QED
    BY <2>1, <2>2
<1> QED
  BY <1>1, InitShipInv, HostInvariant, PTL DEF Spec

-------------------------------------------------------------------------------
\* The host implements the abstract runs

LEMMA InitRuns == Init => Runs!Init
BY DEF Init, Runs!Init, Did

\* A step of the week's runs is one of WeeklyRuns', or none.
RunsStep == Runs!Next \/ UNCHANGED Runs!vars

LEMMA NoRunsStep ==
    ASSUME UNCHANGED <<started, completed, queued, merged, closed, effects>>
    PROVE  RunsStep
BY NothingIsDone DEF RunsStep, Runs!vars

LEMMA TickImplements ==
    ASSUME TypeOK, KnownInv, StartsInv, TickStarts
    PROVE  RunsStep
<1>1. PICK m : /\ m \in Marker /\ m \notin markers
               /\ unit' = [marker |-> m, at |-> now]
               /\ started' = started \cup {unit'}
  BY TickStartsRun
<1>2. unit' \in started' /\ \A s \in started : s.marker # unit'.marker
  BY <1>1 DEF StartsInv
<1>3. UNCHANGED <<completed, queued, merged, closed, effects>>
  BY DEF TickStarts, public
<1>4. Runs!Start
  BY <1>1, <1>2, <1>3, NothingIsDone DEF Runs!Start
<1> QED
  BY <1>4 DEF RunsStep, Runs!Next

LEMMA WeeklyImplements ==
    ASSUME StartsInv, WeeklyCompletes
    PROVE  RunsStep
<1>1. unit \in started /\ completed' = completed \cup {unit}
  BY DEF WeeklyCompletes, InWeekly, StartsInv
<1>2. UNCHANGED <<started, queued, merged, closed, effects>>
  BY DEF WeeklyCompletes, gate, public
<1>3. Runs!Complete(unit)
  BY <1>1, <1>2, NothingIsDone DEF Runs!Complete
<1> QED
  BY <1>1, <1>3 DEF RunsStep, Runs!Next

LEMMA SiteImplements ==
    ASSUME NEW r \in queued, Merge(r) \/ Kick(r) \/ Close(r)
    PROVE  RunsStep
<1>1. UNCHANGED <<started, completed, effects>>
  BY DEF Merge, Kick, Close, gate
<1>2. Runs!Resolve(r)
  BY <1>1, NothingIsDone DEF Runs!Resolve, Merge, Kick, Close
<1> QED
  BY <1>2 DEF RunsStep, Runs!Next

LEMMA ReleasingImplements ==
    ASSUME TypeOK, ReleaseInv, ShipInv, NEW x \in Releaser, Releasing(x)
    PROVE  RunsStep
<1>0. started' = started /\ completed' = completed
  BY ReleasingMoves DEF gate
<1>1. CASE Enqueue(x)
  <2>1. /\ release[x].pc = "said" /\ IsOpen(RunOf(x))
        /\ queued' = queued \cup {RunOf(x)} /\ merged' = merged /\ closed' = closed
    BY <1>1 DEF Enqueue, At
  <2>2. Did("enqueue")' = Did("enqueue") \cup {RunOf(x)} /\ Did("ship")' = Did("ship")
    BY <1>1, EffectIsDone DEF Enqueue
  <2>3. RunOf(x) \in completed /\ RunOf(x) \notin Did("enqueue")
    BY <2>1, RunOfIsRun DEF ShipInv, InPlace
  <2>4. Runs!Offer(RunOf(x))
    BY <1>0, <2>1, <2>2, <2>3 DEF Runs!Offer, Runs!IsOpen, IsOpen
  <2> QED
    BY <2>3, <2>4 DEF RunsStep, Runs!Next
<1>2. CASE Ship(x) /\ Effect(x, "ship")
  <2>1. release[x].pc = "merged" /\ UNCHANGED <<queued, merged, closed>>
    BY <1>2 DEF Ship, At
  <2>2. Did("ship")' = Did("ship") \cup {RunOf(x)} /\ Did("enqueue")' = Did("enqueue")
    BY <1>2, EffectIsDone
  <2>3. RunOf(x) \in merged /\ RunOf(x) \in Did("enqueue") /\ RunOf(x) \notin Did("ship")
    BY <2>1 DEF ShipInv, InPlace
  <2>4. Runs!Ship(RunOf(x))
    BY <1>0, <2>1, <2>2, <2>3 DEF Runs!Ship
  <2> QED
    BY <2>3, <2>4 DEF RunsStep, Runs!Next
<1>3. CASE UNCHANGED <<queued, merged, closed, effects>>
  BY <1>0, <1>3, NoRunsStep
<1> QED
  BY <1>1, <1>2, <1>3 DEF Releasing, TestLog, SayRun, RefuseInputs, RefuseTree, EnqueueFails,
     SeeMerged, StopWaiting, Ship, MoveBackend, public

LEMMA NextImplements == IInv /\ ShipInv /\ [Next]_vars => RunsStep
<1> SUFFICES ASSUME IInv, ShipInv, [Next]_vars PROVE RunsStep
  OBVIOUS
<1>0. TypeOK /\ KnownInv /\ StartsInv /\ ReleaseInv
  BY DEF IInv
<1>1. CASE UNCHANGED <<started, completed, queued, merged, closed, effects>>
  BY <1>1, NoRunsStep
<1>2. CASE UNCHANGED vars
  BY <1>1, <1>2 DEF vars, gate, public
<1>3. CASE RunSteps
  <2>1. CASE WeeklyStops \/ Interrupt \/ \E r \in completed : LookAtUnit(r)
    BY <1>1, <2>1 DEF WeeklyStops, Interrupt, LookAtUnit, gate, public
  <2> QED
    BY <1>0, <1>3, <2>1, WeeklyImplements, SiteImplements, ReleasingImplements DEF RunSteps
<1>4. CASE HostSteps
  BY <1>0, <1>1, <1>4, TickImplements DEF HostSteps, Advance, Crash, Boot, Settle, MoveDeadline,
     TickStartsNothing, TickFails, StopTimer, StartTimer, gate, public
<1> QED
  BY <1>2, <1>3, <1>4, NextIsSplit

\* No crash, lost answer, second release or tick makes the host start a marker's run again,
\* offer a run to the site twice, or make one public that the site has not merged.
THEOREM Refinement == Spec => Refines
<1>1. IInv /\ ShipInv /\ [Next]_vars => [Runs!Next]_Runs!vars
  BY NextImplements DEF RunsStep
<1> QED
  BY <1>1, InitRuns, HostInvariant, ReleasesAreInPlace, PTL DEF Spec, Refines, Runs!Spec

\* The public sees one run of a marker at most, and it was completed, offered and merged.
THEOREM OneRunIsShipped == Spec => []Runs!ShippedOnce
<1>1. IInv /\ ShipInv => Runs!ShippedOnce
  BY DEF IInv, StartsInv, OncePerMarker, ShipInv, Runs!ShippedOnce
<1> QED
  BY <1>1, HostInvariant, ReleasesAreInPlace, PTL

===============================================================================
