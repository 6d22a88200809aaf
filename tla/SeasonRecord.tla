------------------------------ MODULE SeasonRecord ------------------------------
(***************************************************************************)
(* What a season's record promises (live/ledger.py), whoever writes it and  *)
(* however the writers interleave.  The weeks are recorded one after        *)
(* another and never changed; each decision starts from the squad and the   *)
(* free transfers that the game has left of the weeks before it, and plays a *)
(* chip once in a window; a roll is recorded of a week whose deadline has    *)
(* passed; and a decided week is settled after the game has checked it,     *)
(* once, unless a lock of it was broken.  SeasonLedger implements this with  *)
(* directories, manifests and lock files (Refines).                         *)
(***************************************************************************)
EXTENDS SeasonRules

CONSTANTS
    Settler,   \* who may settle a week
    Counts,    \* the transfer counts a decision may come out with
    NoEntry, NoOutcome

VARIABLES
    entry,     \* the decision or the roll recorded of each gameweek
    outcome,   \* who settled it
    held,      \* the squad the game holds after it, named by the gameweek that changed it last
    bank,      \* what the banking model leaves of it
    broken,    \* the gameweeks a lock of which was broken
    passed,    \* how many deadlines have passed
    checked    \* how many gameweeks the game has finished and checked

vars == <<entry, outcome, held, bank, broken, passed, checked>>

Init ==
    /\ entry = [g \in Gameweek |-> NoEntry] /\ outcome = [g \in Gameweek |-> NoOutcome]
    /\ held = [g \in Gameweek |-> 1] /\ bank = [g \in Gameweek |-> 0]
    /\ broken = {} /\ passed = 0 /\ checked = 0

IsRecorded(g) == entry[g] # NoEntry
IsDecided(g) == IsRecorded(g) /\ entry[g].kind = "decision"

\* The weeks are recorded one after another.
IsNext(g) == g > 1 /\ ~IsRecorded(g) /\ IsRecorded(g - 1)

\* The earlier weeks in which a chip was played.
Used(g, chip) == {h \in 1..(g - 1) : IsRecorded(h) /\ entry[h].chip = chip}

-------------------------------------------------------------------------------
\* A week's record

\* The week leaves left in the bank; a free hit's squad lasts only for it.
Record(g, kind, chip, count, base, left) ==
    LET squad == IF count > 0 THEN g ELSE base IN
    /\ entry' = [entry EXCEPT ![g] = [kind |-> kind, chip |-> chip, count |-> count,
                                      squad |-> squad, base |-> base, free |-> Banked(left)]]
    /\ held' = [held EXCEPT ![g] = IF chip = "freehit" THEN base ELSE squad]
    /\ bank' = [bank EXCEPT ![g] = left]
    /\ UNCHANGED <<outcome, broken, passed, checked>>

\* The opening squad is bought without transfers.
OpenSeason == ~IsRecorded(1) /\ Record(1, "decision", "none", 0, 1, 0)

Decide(g) ==
    /\ IsNext(g)
    /\ \E chip \in Chip, count \in Counts :
        /\ chip = "none" \/ IsOffered(g, Used(g, chip))
        /\ Record(g, "decision", chip, count, held[g - 1],
                  BankAfter(bank[g - 1], count, chip \in TransferChip))

\* The squad a free hit bought is not there to be rolled.
Roll(g) ==
    /\ IsNext(g) /\ entry[g - 1].chip # "freehit"
    /\ g <= passed
    /\ Record(g, "roll", "none", 0, held[g - 1], BankAfter(bank[g - 1], 0, FALSE))

-------------------------------------------------------------------------------
\* A week's outcome

Settle(g) ==
    /\ IsDecided(g) /\ g <= checked
    /\ outcome[g] = NoOutcome \/ g \in broken
    /\ \E s \in Settler : outcome' = [outcome EXCEPT ![g] = s]
    /\ UNCHANGED <<entry, held, bank, broken, passed, checked>>

BreakLock(g) ==
    /\ broken' = broken \cup {g}
    /\ UNCHANGED <<entry, outcome, held, bank, passed, checked>>

-------------------------------------------------------------------------------
\* The game

PassDeadline ==
    /\ passed < Gameweeks
    /\ passed' = passed + 1
    /\ UNCHANGED <<entry, outcome, held, bank, broken, checked>>

CheckWeek ==
    /\ checked < passed
    /\ checked' = checked + 1
    /\ UNCHANGED <<entry, outcome, held, bank, broken, passed>>

Next ==
    \/ OpenSeason \/ PassDeadline \/ CheckWeek
    \/ \E g \in Gameweek : Decide(g) \/ Roll(g) \/ Settle(g) \/ BreakLock(g)

Spec == Init /\ [][Next]_vars

-------------------------------------------------------------------------------
\* A chip is played once in each of its windows, as long as no two windows overlap there.
ChipOncePerWindow ==
    \A win \in Windows :
        (\A other \in Windows \ {win} : other \cap win = {})
        => \A g, h \in win : IsRecorded(g) /\ IsRecorded(h) /\ entry[g].chip = entry[h].chip
                                /\ entry[g].chip # "none" => g = h

\* Only a week that was decided and that the game has checked has an outcome.
SettledIsChecked ==
    \A g \in Gameweek : outcome[g] # NoOutcome => IsDecided(g) /\ g <= checked

\* A roll is never recorded before its deadline.
RollsArePast ==
    \A g \in Gameweek : IsRecorded(g) /\ entry[g].kind = "roll" => g <= passed
===============================================================================
