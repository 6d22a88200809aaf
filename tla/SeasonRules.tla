------------------------------ MODULE SeasonRules -------------------------------
(***************************************************************************)
(* The rules of a season that more than one part of the code computes: the  *)
(* free transfers carried from one gameweek to the next, as the planner     *)
(* (planning/optimizer.py) and a roll (live/ledger.py) record them and as   *)
(* the banking model (live/banking.py) derives them from a history, and the *)
(* chips (live/rules.py).  The bench boost and the triple captain change    *)
(* neither a squad nor a free transfer and count as no chip.                *)
(***************************************************************************)
EXTENDS Integers

CONSTANTS
    Gameweeks,  \* how many gameweeks the season has
    Cap,        \* max_free_transfers
    Windows     \* the windows of gameweeks in which each chip may be played once

ASSUME SeasonRulesAssumption ==
    /\ Gameweeks \in Nat \ {0} /\ Cap \in Nat \ {0}
    /\ Windows \subseteq SUBSET (1..Gameweeks)

Gameweek == 1..Gameweeks

TransferChip == {"wildcard", "freehit"}
Chip == TransferChip \cup {"none"}

Least(a, b) == IF a < b THEN a ELSE b

-------------------------------------------------------------------------------
\* Mutant: a chip week earns its free transfer like any other.
FreeAfterEarning(before, count, chip) ==
    Least(Cap, (IF chip \in TransferChip THEN before
                ELSE IF before > count THEN before - count ELSE 0) + 1)

\* What a decision carries: a chip week consumes nothing and earns nothing.
FreeAfter(before, count, chip) ==
    IF chip \in TransferChip THEN Least(Cap, before)
    ELSE Least(Cap, (IF before > count THEN before - count ELSE 0) + 1)

\* Mutant: a roll ignores the cap.
FreeAfterRollUncapped(before) == before + 1

FreeAfterRoll(before) == Least(Cap, before + 1)

FreeAfterOpening == 1

-------------------------------------------------------------------------------
\* The banking model of a week: the week's own free transfer is added first, unless the
\* week is unlimited, and its transfers consume what is there.
BankAfter(bank, count, unlimited) ==
    IF unlimited THEN Least(Cap, bank)
    ELSE LET available == Least(Cap, bank + 1)
         IN available - Least(count, available)

\* The free transfers held at the deadline after that week.
Banked(bank) == Least(Cap, bank + 1)

-------------------------------------------------------------------------------
\* A chip that was played in the gameweeks used is offered once in each of its windows.
IsOffered(g, used) == \E window \in Windows : g \in window /\ used \cap window = {}
===============================================================================
