------------------------------ MODULE SeasonLedger ------------------------------
(***************************************************************************)
(* The season ledger (live/ledger.py) and the commands that write it: the   *)
(* tick (application/season.py, live/tick.py), which settles and decides    *)
(* what is due, and decide, roll and settle by hand (application/commands.  *)
(* py).  A gameweek's entry is a directory that lands by one rename; its    *)
(* outcome is added later and the manifest rewritten over it, under a lock  *)
(* file that is broken by name once it is old.                              *)
(*                                                                          *)
(* A writer is a process: commands run beside each other, a writer may die  *)
(* at any step and leave its lock, and a lock may grow old under a writer   *)
(* that lives.  A staging directory is invisible until it lands, so staging *)
(* is a step of its writer only.  Squads, banks and purchase prices travel  *)
(* together and are named by the gameweek that changed them last.  The      *)
(* summary, which is rendered from the ledger, is left out.  What all this  *)
(* promises of the season is stated in SeasonRecord (Refines).              *)
(***************************************************************************)
EXTENDS SeasonRules, FiniteSets, FiniteSetsExt

CONSTANTS
    Writer,
    Plays,         \* bound: the chips and transfer counts a decision may come out with
    MaxChecked,    \* bound: gameweeks the game finishes and checks
    MaxRuns,       \* bound: commands started
    MaxFaults,     \* bound: writers that die, fail or let a lock grow old
    Overruns,      \* whether a writer that lives may let its lock grow old
    NoEntry, NoOutcome, NoLock, NoWriter, NoCapture

\* base is the squad a decision started from, free what it leaves for the next deadline.
Entry == [kind : {"decision", "roll"}, chip : Chip, count : Nat, squad : Gameweek,
          base : Gameweek, free : 1..Cap]

ASSUME SeasonLedgerAssumption ==
    /\ Plays \subseteq Chip \X Nat
    /\ MaxChecked \in Nat /\ MaxRuns \in Nat /\ MaxFaults \in Nat /\ Overruns \in BOOLEAN
    /\ NoEntry \notin Entry
    /\ NoOutcome \notin Writer /\ NoWriter \notin Writer
    /\ NoLock \notin [owner : Writer \cup {NoWriter}, stale : BOOLEAN]
    /\ NoCapture \notin [passed : 0..Gameweeks, checked : 0..Gameweeks]

VARIABLES
    entry,     \* gwNN/decision.json, by gameweek
    outcome,   \* gwNN/outcome.json, named by the writer that settled it
    sealed,    \* the outcome the manifest holds a digest of
    lock,      \* .gwNN.lock
    writer,    \* what each writer is doing
    passed,    \* how many deadlines have passed
    window,    \* the next deadline's capture window is open
    checked,   \* how many gameweeks the game has finished and checked
    latest,    \* the latest capture
    captured,  \* the gameweeks a capture from inside their window is held of
    held,      \* history: the squad the game holds after each gameweek
    bank,      \* history: what the banking model leaves of each gameweek
    aged,      \* history: the gameweeks a lock of which grew old
    cut,       \* history: the gameweeks a writer died or failed at with its outcome unsealed
    runs, faults  \* how much of MaxRuns and MaxFaults has happened

ledger == <<entry, outcome, sealed>>
game == <<passed, window, checked>>
captures == <<latest, captured>>
history == <<held, bank>>
vars == <<ledger, lock, writer, game, captures, history, aged, cut, runs, faults>>

-------------------------------------------------------------------------------
Idle == [pc |-> "idle", op |-> "none", g |-> 0, chip |-> "none", value |-> NoEntry,
         digest |-> NoOutcome, settles |-> {}, decides |-> {}, passed |-> 0, window |-> FALSE]

At(w, pc) == writer[w].pc = pc
Op(w) == writer[w].op
Target(w) == writer[w].g
Goes(w, pc) == writer' = [writer EXCEPT ![w].pc = pc]

Init ==
    /\ entry = [g \in Gameweek |-> NoEntry]
    /\ outcome = [g \in Gameweek |-> NoOutcome] /\ sealed = [g \in Gameweek |-> NoOutcome]
    /\ lock = [g \in Gameweek |-> NoLock]
    /\ writer = [w \in Writer |-> Idle]
    /\ passed = 0 /\ window = FALSE /\ checked = 0
    /\ latest = NoCapture /\ captured = {}
    /\ held = [g \in Gameweek |-> 1] /\ bank = [g \in Gameweek |-> 0]
    /\ aged = {} /\ cut = {}
    /\ runs = 0 /\ faults = 0

\* A file the manifest lists must match its digest.
IsReadable(g) == sealed[g] \in {NoOutcome, outcome[g]}
LedgerIsReadable == \A g \in Gameweek : IsReadable(g)

Decided == {g \in Gameweek : entry[g] # NoEntry /\ entry[g].kind = "decision"}
Unsettled == {g \in Decided : outcome[g] = NoOutcome}
IsFreeHit(g) == entry[g].chip = "freehit"

-------------------------------------------------------------------------------
\* The game and its deadlines

OpenWindow ==
    /\ ~window /\ passed < Gameweeks
    /\ window' = TRUE
    /\ UNCHANGED <<ledger, lock, writer, passed, checked, captures, history, aged, cut, runs,
                   faults>>

PassDeadline ==
    /\ window
    /\ passed' = passed + 1 /\ window' = FALSE
    /\ UNCHANGED <<ledger, lock, writer, checked, captures, history, aged, cut, runs, faults>>

\* The next gameweek is finished, and its bonus checked.
CheckWeek ==
    /\ checked < passed /\ checked < MaxChecked
    /\ checked' = checked + 1
    /\ UNCHANGED <<ledger, lock, writer, passed, window, captures, history, aged, cut, runs,
                   faults>>

-------------------------------------------------------------------------------
\* A command and what it calls next

Starts == runs < MaxRuns /\ runs' = runs + 1
Fault == faults < MaxFaults /\ faults' = faults + 1

Called(r, op, g, chip) == [r EXCEPT !.pc = "called", !.op = op, !.g = g, !.chip = chip,
                                    !.value = NoEntry, !.digest = NoOutcome]

\* A tick settles before it decides; it never plays a chip.
NextCall(r) ==
    IF r.settles # {}
    THEN [Called(r, "settle", Min(r.settles), "none") EXCEPT !.settles = @ \ {Min(r.settles)}]
    ELSE IF r.decides # {}
    THEN [Called(r, "decide", Min(r.decides), "none") EXCEPT !.decides = {}]
    ELSE Idle

\* An error ends the command, with whatever it had left to do.
Refuses(w) == writer' = [writer EXCEPT ![w] = Idle]

-------------------------------------------------------------------------------
\* A tick: what it sees is planned on once, and once more after a capture, both times
\* with the instant at which it started

Upcoming(r) == {g \in Gameweek : g = r.passed + 1}

\* Mutant: a gameweek is due as soon as it is decided, whether or not the game has checked it.
DueSettlesEarly == IF latest = NoCapture THEN {} ELSE Unsettled

\* A roll is no decision, and does not count here.
DueSettles == IF latest = NoCapture THEN {} ELSE {g \in Unsettled : g <= latest.checked}
DueDecide(r) == {g \in Upcoming(r) \ Decided : r.window /\ g \in captured}

WantsWindowCapture(r) == \E g \in Upcoming(r) \ Decided : r.window /\ g \notin captured
\* A decided gameweek has no outcome, and the latest capture is old enough to look again.
MayWantOutcomeCapture(r) == \E g \in Unsettled : g <= r.passed /\ g \notin DueSettles

\* From the second gameweek on, a decision waits for its projection handoff.
Planned(r) ==
    {NextCall([Idle EXCEPT !.settles = DueSettles, !.decides = d]) :
        d \in {DueDecide(r)} \cup {x \in {{}} : 1 \notin DueDecide(r)}}

StartTick(w) ==
    /\ At(w, "idle") /\ Starts
    /\ LedgerIsReadable
    /\ LET r == [Idle EXCEPT !.passed = passed, !.window = window] IN
       \/ /\ latest = NoCapture \/ WantsWindowCapture(r) \/ MayWantOutcomeCapture(r)
          /\ writer' = [writer EXCEPT ![w] = [r EXCEPT !.pc = "capturing"]]
       \/ /\ latest # NoCapture /\ ~WantsWindowCapture(r)
          /\ writer' \in {[writer EXCEPT ![w] = p] : p \in Planned(r)}
    /\ UNCHANGED <<ledger, lock, game, captures, history, aged, cut, faults>>

Capture(w) ==
    /\ At(w, "capturing")
    /\ latest' = [passed |-> passed, checked |-> checked]
    /\ captured' = IF window THEN captured \cup {passed + 1} ELSE captured
    /\ Goes(w, "replanning")
    /\ UNCHANGED <<ledger, lock, game, history, aged, cut, runs, faults>>

Replan(w) ==
    /\ At(w, "replanning")
    /\ IF LedgerIsReadable
       THEN writer' \in {[writer EXCEPT ![w] = p] : p \in Planned(writer[w])}
       ELSE Refuses(w)
    /\ UNCHANGED <<ledger, lock, game, captures, history, aged, cut, runs, faults>>

-------------------------------------------------------------------------------
\* What an operation computes before it asks for the lock

Opening == [kind |-> "decision", chip |-> "none", count |-> 0, squad |-> 1, base |-> 1,
            free |-> FreeAfterOpening]

\* Mutant: the free hit's own squad is held on.
BasisLastWeek(g) == g - 1

\* After a free hit, or several, the squad held is that of the last gameweek without one.
Basis(g) == CHOOSE h \in 1..(g - 1) : ~IsFreeHit(h) /\ \A i \in (h + 1)..(g - 1) : IsFreeHit(i)
HeldSquad(g) == entry[Basis(g)].squad

ChipsUsed(g, chip) == {h \in 1..(g - 1) : entry[h] # NoEntry /\ entry[h].chip = chip}

DecisionFrom(g, chip, count) ==
    [kind |-> "decision", chip |-> chip, count |-> count,
     squad |-> IF count > 0 THEN g ELSE HeldSquad(g),
     base |-> HeldSquad(g),
     free |-> FreeAfter(entry[g - 1].free, count, chip)]

\* A later gameweek is decided from the entry of the week before.
MayDecide(g, chip) ==
    /\ entry[g - 1] # NoEntry
    /\ chip = "none" \/ IsOffered(g, ChipsUsed(g, chip))

Decisions(g, chip) ==
    IF g = 1 THEN {d \in {Opening} : chip = "none"}
    ELSE {DecisionFrom(g, chip, play[2]) :
            play \in {p \in Plays : p[1] = chip /\ MayDecide(g, chip)}}

\* The squad stands still; a free hit's squad cannot be carried.
Rolls(g) ==
    {[kind |-> "roll", chip |-> "none", count |-> 0, squad |-> entry[g - 1].squad,
      base |-> entry[g - 1].squad, free |-> FreeAfterRoll(entry[g - 1].free)] :
        h \in {h \in {g - 1} : h >= 1 /\ entry[h] # NoEntry /\ ~IsFreeHit(h)}}

\* The opening gameweek reads no entry, a roll the one before, a decision the whole ledger.
ReadsLedger(r) ==
    IF r.op = "roll" THEN IsReadable(r.g - 1) ELSE r.g = 1 \/ LedgerIsReadable

\* An entry that is there already is refused here as it is under the lock.
EntryCalls(r) ==
    LET values == IF r.op = "decide" THEN Decisions(r.g, r.chip) ELSE Rolls(r.g) IN
    {[r EXCEPT !.pc = "ready", !.chip = "none", !.value = v] :
        v \in {v \in values : ReadsLedger(r) /\ entry[r.g] = NoEntry}}

\* An outcome the manifest does not list was left by a writer that died: the call completes
\* it instead of settling.
OutcomeCalls(r) ==
    {[r EXCEPT !.pc = "ready", !.op = op] :
        op \in {op \in {"settle"} : r.g \in Unsettled /\ IsReadable(r.g)}
               \cup {op \in {"complete"} : /\ r.g \in Decided \ Unsettled
                                          /\ sealed[r.g] = NoOutcome}}

\* What a call may come to before it asks for the lock; none when it is refused.
Prepared(r) == IF r.op = "settle" THEN OutcomeCalls(r) ELSE EntryCalls(r)

Prepare(w) ==
    /\ At(w, "called")
    /\ IF Prepared(writer[w]) # {}
       THEN \E r \in Prepared(writer[w]) : writer' = [writer EXCEPT ![w] = r]
       ELSE Refuses(w)
    /\ UNCHANGED <<ledger, lock, game, captures, history, aged, cut, runs, faults>>

\* A command by hand; one that is refused changes nothing.
ByHand(w, op, g, chip) ==
    /\ At(w, "idle") /\ Starts
    /\ \E r \in Prepared(Called(Idle, op, g, chip)) : writer' = [writer EXCEPT ![w] = r]
    /\ UNCHANGED <<ledger, lock, game, captures, history, aged, cut, faults>>

-------------------------------------------------------------------------------
\* The lock file

Locked(w) == lock[Target(w)] # NoLock

\* Mutant: the lock file is made without O_EXCL.
OpenShared(w) ==
    /\ At(w, "ready")
    /\ lock' = [lock EXCEPT ![Target(w)] = [owner |-> w, stale |-> FALSE]]
    /\ Goes(w, "inside")
    /\ UNCHANGED <<ledger, game, captures, history, aged, cut, runs, faults>>

Open(w) ==
    /\ \/ At(w, "ready") /\ Locked(w) /\ Goes(w, "found") /\ UNCHANGED lock
       \/ At(w, "again") /\ Locked(w) /\ Refuses(w) /\ UNCHANGED lock
       \/ /\ At(w, "ready") \/ At(w, "again")
          /\ ~Locked(w)
          /\ lock' = [lock EXCEPT ![Target(w)] = [owner |-> w, stale |-> FALSE]]
          /\ Goes(w, "inside")
    /\ UNCHANGED <<ledger, game, captures, history, aged, cut, runs, faults>>

\* The file's age is read; a file that is gone by then is an error as well.
ReadAge(w) ==
    /\ At(w, "found")
    /\ IF Locked(w) /\ lock[Target(w)].stale THEN Goes(w, "breaking") ELSE Refuses(w)
    /\ UNCHANGED <<ledger, lock, game, captures, history, aged, cut, runs, faults>>

\* Whatever file has the name by now is removed.
Break(w) ==
    /\ At(w, "breaking")
    /\ lock' = [lock EXCEPT ![Target(w)] = NoLock]
    /\ Goes(w, "again")
    /\ UNCHANGED <<ledger, game, captures, history, aged, cut, runs, faults>>

\* The finally clause removes whatever file has the name.  A settle then renders the summary
\* from the whole ledger, before what is left of its tick.
Unlock(w) ==
    /\ At(w, "unlocking")
    /\ lock' = [lock EXCEPT ![Target(w)] = NoLock]
    /\ IF LedgerIsReadable \/ Op(w) = "decide"
       THEN writer' = [writer EXCEPT ![w] = NextCall(writer[w])]
       ELSE Refuses(w)
    /\ UNCHANGED <<ledger, game, captures, history, aged, cut, runs, faults>>

\* STALE_LOCK_SECONDS have passed since the file was made.
Age(g) ==
    /\ lock[g] # NoLock /\ ~lock[g].stale
    /\ lock' = [lock EXCEPT ![g].stale = TRUE]
    /\ aged' = aged \cup {g}
    /\ IF lock[g].owner = NoWriter THEN UNCHANGED faults ELSE Overruns /\ Fault
    /\ UNCHANGED <<ledger, writer, game, captures, history, cut, runs>>

-------------------------------------------------------------------------------
\* Under the lock

\* What is left of a tick is dropped, and the lock is let go.
Abandons(w) ==
    writer' = [writer EXCEPT ![w].pc = "unlocking", ![w].settles = {}, ![w].decides = {}]

IsThere(w) ==
    IF Op(w) = "settle" THEN outcome[Target(w)] # NoOutcome ELSE entry[Target(w)] # NoEntry

Recheck(w) ==
    /\ At(w, "inside")
    /\ IF Op(w) = "complete" THEN Goes(w, "landed")
       ELSE IF IsThere(w) THEN Abandons(w) ELSE Goes(w, "staged")
    /\ UNCHANGED <<ledger, lock, game, captures, history, aged, cut, runs, faults>>

\* What the game holds after gameweek g, and what the banking model leaves of it.
HeldAfter(g, v) == IF v.chip = "freehit" THEN held[g - 1] ELSE v.squad
BankedAfter(g, v) ==
    BankAfter(IF g = 1 THEN 0 ELSE bank[g - 1], v.count, g = 1 \/ v.chip \in TransferChip)

CanLand(g) == entry[g] = NoEntry

\* The entry lands by one rename, which an existing entry refuses.
LandEntry(w) ==
    /\ At(w, "staged") /\ Op(w) \in {"decide", "roll"}
    /\ LET g == Target(w)
           v == writer[w].value
       IN IF CanLand(g)
          THEN /\ entry' = [entry EXCEPT ![g] = v]
               /\ held' = [held EXCEPT ![g] = HeldAfter(g, v)]
               /\ bank' = [bank EXCEPT ![g] = BankedAfter(g, v)]
               /\ Goes(w, "unlocking")
          ELSE Abandons(w) /\ UNCHANGED <<entry, history>>
    /\ UNCHANGED <<outcome, sealed, lock, game, captures, aged, cut, runs, faults>>

\* Mutant: the manifest is not rewritten.
LandOutcomeOnly(w) ==
    /\ At(w, "staged") /\ Op(w) = "settle"
    /\ outcome' = [outcome EXCEPT ![Target(w)] = w]
    /\ Goes(w, "unlocking")
    /\ UNCHANGED <<entry, sealed, lock, game, captures, history, aged, cut, runs, faults>>

\* The outcome lands by a rename that replaces.
LandOutcome(w) ==
    /\ At(w, "staged") /\ Op(w) = "settle"
    /\ outcome' = [outcome EXCEPT ![Target(w)] = w]
    /\ Goes(w, "landed")
    /\ UNCHANGED <<entry, sealed, lock, game, captures, history, aged, cut, runs, faults>>

Digest(w) ==
    /\ At(w, "landed")
    /\ writer' = [writer EXCEPT ![w].pc = "digested", ![w].digest = outcome[Target(w)]]
    /\ UNCHANGED <<ledger, lock, game, captures, history, aged, cut, runs, faults>>

Seal(w) ==
    /\ At(w, "digested")
    /\ sealed' = [sealed EXCEPT ![Target(w)] = writer[w].digest]
    /\ Goes(w, "unlocking")
    /\ UNCHANGED <<entry, outcome, lock, game, captures, history, aged, cut, runs, faults>>

-------------------------------------------------------------------------------
\* Faults

IsInside(w) == writer[w].pc \in {"inside", "staged", "landed", "digested"}
CutNow(w) == {g \in {Target(w)} : writer[w].pc \in {"landed", "digested"}}

\* A step is refused by the operating system, the solver or the verifier.
Fails(w) ==
    /\ Fault
    /\ cut' = cut \cup CutNow(w)
    /\ \/ IsInside(w) /\ Abandons(w)
       \/ ~IsInside(w) /\ writer[w].pc \notin {"idle", "unlocking"} /\ Refuses(w)
    /\ UNCHANGED <<ledger, lock, game, captures, history, aged, runs>>

\* A writer dies and its lock file stays; elsewhere a death is a failure.
Dies(w) ==
    /\ IsInside(w) \/ At(w, "unlocking")
    /\ Fault
    /\ Refuses(w)
    /\ cut' = cut \cup CutNow(w)
    /\ lock' = [g \in Gameweek |->
                    IF lock[g] # NoLock /\ lock[g].owner = w
                    THEN [lock[g] EXCEPT !.owner = NoWriter] ELSE lock[g]]
    /\ UNCHANGED <<ledger, game, captures, history, aged, runs>>

-------------------------------------------------------------------------------
Step(w) ==
    \/ StartTick(w) \/ Capture(w) \/ Replan(w)
    \/ Prepare(w) \/ Open(w) \/ ReadAge(w) \/ Break(w) \/ Recheck(w)
    \/ LandEntry(w) \/ LandOutcome(w) \/ Digest(w) \/ Seal(w) \/ Unlock(w)
    \/ Fails(w) \/ Dies(w)

\* A command by hand reads a capture.  A roll needs one from after the deadline it
\* states, and an outcome one in which the gameweek is checked.
HandStep(w, g) ==
    /\ latest # NoCapture
    /\ \/ \E chip \in Chip : ByHand(w, "decide", g, chip)
       \/ latest.passed >= g /\ ByHand(w, "roll", g, "none")
       \/ latest.checked >= g /\ ByHand(w, "settle", g, "none")

Next ==
    \/ OpenWindow \/ PassDeadline \/ CheckWeek
    \/ \E w \in Writer : Step(w)
    \/ \E w \in Writer, g \in Gameweek : HandStep(w, g)
    \/ \E g \in Gameweek : Age(g)

Spec == Init /\ [][Next]_vars

-------------------------------------------------------------------------------
TypeOK ==
    /\ entry \in [Gameweek -> Entry \cup {NoEntry}]
    /\ outcome \in [Gameweek -> Writer \cup {NoOutcome}]
    /\ sealed \in [Gameweek -> Writer \cup {NoOutcome}]
    /\ lock \in [Gameweek -> [owner : Writer \cup {NoWriter}, stale : BOOLEAN] \cup {NoLock}]
    /\ writer \in [Writer ->
            [pc : {"idle", "capturing", "replanning", "called", "ready", "found", "breaking",
                   "again", "inside", "staged", "landed", "digested", "unlocking"},
             op : {"none", "decide", "roll", "settle", "complete"},
             g : 0..Gameweeks, chip : Chip, value : Entry \cup {NoEntry},
             digest : Writer \cup {NoOutcome},
             settles : SUBSET Gameweek, decides : SUBSET Gameweek,
             passed : 0..Gameweeks, window : BOOLEAN]]
    /\ passed \in 0..Gameweeks /\ window \in BOOLEAN /\ checked \in 0..Gameweeks
    /\ window => passed < Gameweeks
    /\ checked <= passed
    /\ latest \in [passed : 0..Gameweeks, checked : 0..Gameweeks] \cup {NoCapture}
    /\ captured \subseteq Gameweek
    /\ held \in [Gameweek -> Gameweek] /\ bank \in [Gameweek -> 0..Cap]
    /\ aged \subseteq Gameweek /\ cut \subseteq Gameweek
    /\ runs \in Nat /\ faults \in Nat

\* Every recorded entry stands on the entry of the week before: the ledger has no gap,
\* although commands for different gameweeks run beside each other.
ChainHasNoGap == \A g \in Gameweek \ {1} : entry[g] # NoEntry => entry[g - 1] # NoEntry

\* A decision or a roll starts from the squad the game holds at that deadline, through rolls
\* and through free hits, whose squads last one gameweek.
StartsFromHeldSquad ==
    \A g \in Gameweek \ {1} : entry[g] # NoEntry => entry[g].base = held[g - 1]

\* The free transfers an entry hands on, which the planner or a roll computed, are the ones
\* the banking model derives from the same weeks.
FreeTransfersAgree ==
    \A g \in Gameweek : entry[g] # NoEntry => entry[g].free = Banked(bank[g])

\* A recorded entry is never changed, not even by writers that both believe they hold a
\* gameweek's lock.
DecisionIsKept == [][\A g \in Gameweek : entry[g] # NoEntry => entry'[g] = entry[g]]_vars

\* An outcome is recorded exactly once, as long as no lock of its gameweek has grown old.
OutcomeIsKept ==
    [][\A g \in Gameweek \ aged : outcome[g] # NoOutcome => outcome'[g] = outcome[g]]_vars

\* The ledger keeps the promises of the season's record, whatever its writers do: weeks are
\* recorded in order and for good, from what the game left, chips once in a window, rolls of
\* past deadlines, outcomes of checked weeks.
Counts == {play[2] : play \in Plays}
Record == INSTANCE SeasonRecord WITH Settler <- Writer, broken <- aged
Refines == Record!Spec

\* The same without the condition: what the module's documentation says.
OutcomeIsKeptAlways ==
    [][\A g \in Gameweek : outcome[g] # NoOutcome => outcome'[g] = outcome[g]]_vars

\* No entry becomes unreadable, which would stop every later command of the season, unless a
\* lock of its gameweek has grown old: a death leaves a manifest that fits the files.
EntriesAreReadable == \A g \in Gameweek \ aged : IsReadable(g)

\* An outcome the manifest does not list has its writer still at it, or was left by one that
\* died or failed between the two files.
UnsealedIsExplained ==
    \A g \in Gameweek \ cut :
        outcome[g] # NoOutcome /\ sealed[g] = NoOutcome
        => \E w \in Writer : Target(w) = g /\ writer[w].pc \in {"landed", "digested"}
===============================================================================
