-------------------------- MODULE SeasonRecord_proofs ---------------------------
(***************************************************************************)
(* What follows from the promises of the season's record alone: SeasonLedger *)
(* implements them, so each theorem here is one of the ledger as well.  All  *)
(* of them rest on the weeks being recorded in order, so that every earlier  *)
(* play of a chip is on record when the next one is decided.                *)
(***************************************************************************)
EXTENDS SeasonRecord, TLAPS

EntryRec == [kind : {"decision", "roll"}, chip : Chip, count : Nat, squad : Gameweek,
             base : Gameweek, free : 1..Cap]

\* An entry is told from none.
EntriesAreEntries == Counts \subseteq Nat /\ NoEntry \notin EntryRec

TypeOK ==
    /\ entry \in [Gameweek -> EntryRec \cup {NoEntry}]
    /\ outcome \in [Gameweek -> Settler \cup {NoOutcome}]
    /\ held \in [Gameweek -> Gameweek] /\ bank \in [Gameweek -> 0..Cap]
    /\ broken \subseteq Gameweek
    /\ passed \in 0..Gameweeks /\ checked \in 0..Gameweeks

NoGap == \A g, h \in Gameweek : h < g /\ IsRecorded(g) => IsRecorded(h)

IInv ==
    /\ TypeOK /\ NoGap /\ checked <= passed
    /\ ChipOncePerWindow /\ SettledIsChecked /\ RollsArePast

LEMMA Bounds == /\ Gameweek \subseteq Nat /\ 1 \in Gameweek /\ Cap \in Nat /\ Cap >= 1
                /\ \A g \in Gameweek : g > 1 => g - 1 \in Gameweek
  BY SeasonRulesAssumption DEF Gameweek

LEMMA BankIsBounded ==
    ASSUME NEW b \in 0..Cap, NEW count \in Nat, NEW free \in BOOLEAN
    PROVE  BankAfter(b, count, free) \in 0..Cap /\ Banked(b) \in 1..Cap
  BY Bounds DEF BankAfter, Banked, Least

\* A week that is recorded next comes after every recorded week.
LEMMA RecordedBefore ==
    ASSUME IInv, NEW g \in Gameweek, ~IsRecorded(g), NEW h \in Gameweek, IsRecorded(h)
    PROVE  h < g
  BY Bounds DEF IInv, NoGap

\* One more week is recorded, and nothing that was recorded is touched.
LEMMA RecordKeeps ==
    ASSUME EntriesAreEntries, IInv, NEW g \in Gameweek, ~IsRecorded(g),
           g # 1 => IsRecorded(g - 1),
           NEW kind \in {"decision", "roll"}, NEW chip \in Chip, NEW count \in Nat,
           NEW base \in Gameweek, NEW left \in 0..Cap,
           chip = "none" \/ IsOffered(g, Used(g, chip)), kind = "roll" => g <= passed,
           Record(g, kind, chip, count, base, left)
    PROVE  IInv'
<1> DEFINE squad == IF count > 0 THEN g ELSE base
           e == [kind |-> kind, chip |-> chip, count |-> count, squad |-> squad, base |-> base,
                 free |-> Banked(left)]
<1>1. e \in EntryRec /\ e.kind = kind /\ e.chip = chip
  BY BankIsBounded DEF EntryRec
<1>2. /\ entry' = [entry EXCEPT ![g] = e]
      /\ held' = [held EXCEPT ![g] = IF chip = "freehit" THEN base ELSE squad]
      /\ bank' = [bank EXCEPT ![g] = left]
      /\ UNCHANGED <<outcome, broken, passed, checked>>
  BY DEF Record
<1> HIDE DEF e
<1>3. e # NoEntry
  BY <1>1 DEF EntriesAreEntries
<1>4. entry'[g] = e /\ \A h \in Gameweek \ {g} : entry'[h] = entry[h]
  BY <1>2 DEF IInv, TypeOK
<1>5. TypeOK' /\ (checked <= passed)'
  BY <1>1, <1>2 DEF IInv, TypeOK
<1>6. \A h \in Gameweek : IsRecorded(h) => h < g
  BY RecordedBefore
<1>7. \A h \in Gameweek : h < g => IsRecorded(h)
  <2> SUFFICES ASSUME NEW h \in Gameweek, h < g
               PROVE  IsRecorded(h)
    OBVIOUS
  <2>1. g # 1 /\ g - 1 \in Gameweek /\ (h = g - 1 \/ h < g - 1)
    BY Bounds, SeasonRulesAssumption DEF Gameweek
  <2> QED
    BY <2>1 DEF IInv, NoGap
<1>8. NoGap'
  BY <1>3, <1>4, <1>6, <1>7, Bounds DEF IInv, NoGap, IsRecorded
<1>9. ChipOncePerWindow'
  <2> SUFFICES ASSUME NEW win \in Windows, \A other \in Windows \ {win} : other \cap win = {},
                      NEW a \in win, NEW b \in win, IsRecorded(a)', IsRecorded(b)',
                      entry'[a].chip = entry'[b].chip, entry'[a].chip # "none"
               PROVE  a = b
    BY DEF ChipOncePerWindow
  <2>1. a \in Gameweek /\ b \in Gameweek
    BY SeasonRulesAssumption DEF Gameweek
  <2>2. ASSUME NEW h \in win, h \in Gameweek, h # g, g \in win, IsRecorded(h), entry[h].chip = chip,
               chip # "none"
        PROVE  FALSE
    <3>1. PICK offered \in Windows : g \in offered /\ Used(g, chip) \cap offered = {}
      BY <2>2 DEF IsOffered
    <3>2. offered = win
      BY <2>2, <3>1
    <3>3. h \in Used(g, chip)
      BY <1>6, <2>2, Bounds DEF Used, Gameweek
    <3> QED
      BY <2>2, <3>1, <3>2, <3>3
  <2>3. CASE a # g /\ b # g
    BY <1>4, <2>1, <2>3 DEF IInv, ChipOncePerWindow, IsRecorded
  <2>4. CASE a = g \/ b = g
    BY <1>1, <1>4, <2>1, <2>2, <2>4 DEF IsRecorded
  <2> QED
    BY <2>3, <2>4
<1>10. SettledIsChecked'
  BY <1>2, <1>4 DEF IInv, SettledIsChecked, IsDecided, IsRecorded
<1>11. RollsArePast'
  BY <1>1, <1>2, <1>4 DEF IInv, RollsArePast, IsRecorded
<1> QED
  BY <1>5, <1>8, <1>9, <1>10, <1>11 DEF IInv

LEMMA NextKeeps == EntriesAreEntries /\ IInv /\ [Next]_vars => IInv'
<1> SUFFICES ASSUME EntriesAreEntries, IInv, [Next]_vars
             PROVE  IInv'
  OBVIOUS
<1>1. CASE OpenSeason
  <2>1. 0 \in 0..Cap /\ "none" \in Chip
    BY Bounds DEF Chip
  <2> QED
    BY <1>1, <2>1, Bounds, RecordKeeps DEF OpenSeason
<1>2. ASSUME NEW g \in Gameweek, Decide(g)
      PROVE  IInv'
  <2>1. PICK chip \in Chip, count \in Counts :
            /\ chip = "none" \/ IsOffered(g, Used(g, chip))
            /\ Record(g, "decision", chip, count, held[g - 1],
                      BankAfter(bank[g - 1], count, chip \in TransferChip))
    BY <1>2 DEF Decide
  <2>2. ~IsRecorded(g) /\ IsRecorded(g - 1) /\ g - 1 \in Gameweek
    BY <1>2, Bounds DEF Decide, IsNext
  <2>3. held[g - 1] \in Gameweek /\ bank[g - 1] \in 0..Cap /\ count \in Nat
    BY <2>2 DEF IInv, TypeOK, EntriesAreEntries
  <2>4. BankAfter(bank[g - 1], count, chip \in TransferChip) \in 0..Cap
    <3> DEFINE free == chip \in TransferChip
    <3>1. free \in BOOLEAN
      OBVIOUS
    <3> HIDE DEF free
    <3>2. BankAfter(bank[g - 1], count, free) \in 0..Cap
      BY <2>3, <3>1, BankIsBounded
    <3> QED
      BY <3>2 DEF free
  <2> QED
    BY <2>1, <2>2, <2>3, <2>4, RecordKeeps
<1>3. ASSUME NEW g \in Gameweek, Roll(g)
      PROVE  IInv'
  <2>1. /\ ~IsRecorded(g) /\ IsRecorded(g - 1) /\ g - 1 \in Gameweek /\ g <= passed
        /\ Record(g, "roll", "none", 0, held[g - 1], BankAfter(bank[g - 1], 0, FALSE))
    BY <1>3, Bounds DEF Roll, IsNext
  <2>2. held[g - 1] \in Gameweek /\ bank[g - 1] \in 0..Cap /\ 0 \in Nat /\ "none" \in Chip
    BY <2>1 DEF IInv, TypeOK, Chip
  <2>3. BankAfter(bank[g - 1], 0, FALSE) \in 0..Cap
    BY <2>2, BankIsBounded
  <2> QED
    BY <2>1, <2>2, <2>3, RecordKeeps
<1>4. ASSUME NEW g \in Gameweek, Settle(g)
      PROVE  IInv'
  <2>1. PICK s \in Settler : outcome' = [outcome EXCEPT ![g] = s]
    BY <1>4 DEF Settle
  <2>2. IsDecided(g) /\ g <= checked /\ UNCHANGED <<entry, held, bank, broken, passed, checked>>
    BY <1>4 DEF Settle
  <2>3. TypeOK' /\ NoGap' /\ (checked <= passed)' /\ RollsArePast' /\ ChipOncePerWindow'
    BY <2>1, <2>2 DEF IInv, TypeOK, NoGap, RollsArePast, ChipOncePerWindow, IsRecorded
  <2>4. SettledIsChecked'
    BY <2>1, <2>2 DEF IInv, TypeOK, SettledIsChecked, IsDecided, IsRecorded
  <2> QED
    BY <2>3, <2>4 DEF IInv
<1>5. ASSUME NEW g \in Gameweek, BreakLock(g)
      PROVE  IInv'
  BY <1>5 DEF BreakLock, IInv, TypeOK, NoGap, RollsArePast, ChipOncePerWindow, SettledIsChecked,
              IsDecided, IsRecorded
<1>6. CASE PassDeadline \/ CheckWeek
  <2>1. /\ passed \in Nat /\ checked \in Nat /\ Gameweeks \in Nat /\ checked <= passed
        /\ passed <= passed' /\ checked <= checked' /\ checked' <= passed'
        /\ passed' \in 0..Gameweeks /\ checked' \in 0..Gameweeks
    BY <1>6, SeasonRulesAssumption DEF IInv, TypeOK, PassDeadline, CheckWeek
  <2>2. UNCHANGED <<entry, outcome, held, bank, broken>>
    BY <1>6 DEF PassDeadline, CheckWeek
  <2>3. TypeOK' /\ NoGap' /\ ChipOncePerWindow'
    BY <2>1, <2>2 DEF IInv, TypeOK, NoGap, ChipOncePerWindow, IsRecorded
  <2>4. SettledIsChecked'
    BY <2>1, <2>2, Bounds DEF IInv, SettledIsChecked, IsDecided, IsRecorded
  <2>5. RollsArePast'
    BY <2>1, <2>2, Bounds DEF IInv, RollsArePast, IsRecorded
  <2> QED
    BY <2>1, <2>3, <2>4, <2>5 DEF IInv
<1>7. CASE UNCHANGED vars
  BY <1>7 DEF vars, IInv, TypeOK, NoGap, RollsArePast, ChipOncePerWindow, SettledIsChecked,
              IsDecided, IsRecorded
<1> QED
  BY <1>1, <1>2, <1>3, <1>4, <1>5, <1>6, <1>7 DEF Next

LEMMA InitHolds == Init => IInv
<1> SUFFICES ASSUME Init
             PROVE  IInv
  OBVIOUS
<1>1. TypeOK
  BY Bounds, SeasonRulesAssumption DEF Init, TypeOK
<1>2. \A g \in Gameweek : ~IsRecorded(g) /\ outcome[g] = NoOutcome
  BY DEF Init, IsRecorded
<1>3. ChipOncePerWindow
  BY <1>2, SeasonRulesAssumption DEF ChipOncePerWindow, Gameweek
<1> QED
  BY <1>1, <1>2, <1>3 DEF Init, IInv, NoGap, SettledIsChecked, RollsArePast

\* The weeks are recorded in order, and what was decided, settled or rolled was allowed.
THEOREM IInvHolds == ASSUME EntriesAreEntries PROVE Spec => []IInv
  BY InitHolds, NextKeeps, PTL DEF Spec

\* No chip is played twice in a window that stands apart from the others.
THEOREM ChipsOnce == ASSUME EntriesAreEntries PROVE Spec => []ChipOncePerWindow
<1>1. IInv => ChipOncePerWindow
  BY DEF IInv
<1> QED
  BY <1>1, IInvHolds, PTL

\* An outcome stands only for a decided week the game has checked.
THEOREM SettledAreChecked == ASSUME EntriesAreEntries PROVE Spec => []SettledIsChecked
<1>1. IInv => SettledIsChecked
  BY DEF IInv
<1> QED
  BY <1>1, IInvHolds, PTL

\* A roll stands only for a week whose deadline has passed.
THEOREM RollsPast == ASSUME EntriesAreEntries PROVE Spec => []RollsArePast
<1>1. IInv => RollsArePast
  BY DEF IInv
<1> QED
  BY <1>1, IInvHolds, PTL
===============================================================================
