-------------------------- MODULE SeasonLedger_proofs --------------------------
(***************************************************************************)
(* Theorems of SeasonLedger, for every season, every set of chip windows,   *)
(* any number of writers, commands and faults, and whether or not a lock    *)
(* may grow old under a writer that lives.                                  *)
(*                                                                          *)
(* Two arguments that meet in the writers.  An entry is computed long before *)
(* it lands, but from entries that can no longer change (ValueFits), so the *)
(* chain of entries and what the game holds grow together (ChainInv).  And  *)
(* as long as no lock of a gameweek has grown old, whoever is inside owns   *)
(* its lock (LockFits), so that an outcome and its digest have one writer   *)
(* (SealFits).  A third, on top of them: what a writer found due or allowed *)
(* is so when it writes (DueInv), and every write is a step of SeasonRecord *)
(* (Refinement), whose consequences hold of the ledger (Promises).          *)
(***************************************************************************)
EXTENDS SeasonLedger, TLAPS, WellFoundedInduction

-------------------------------------------------------------------------------
WriterRec ==
    [pc : {"idle", "capturing", "replanning", "called", "ready", "found", "breaking",
           "again", "inside", "staged", "landed", "digested", "unlocking"},
     op : {"none", "decide", "roll", "settle", "complete"},
     g : 0..Gameweeks, chip : Chip, value : Entry \cup {NoEntry},
     digest : Writer \cup {NoOutcome},
     settles : SUBSET Gameweek, decides : SUBSET Gameweek,
     passed : 0..Gameweeks, window : BOOLEAN]

LedgerOK ==
    /\ entry \in [Gameweek -> Entry \cup {NoEntry}]
    /\ outcome \in [Gameweek -> Writer \cup {NoOutcome}]
    /\ sealed \in [Gameweek -> Writer \cup {NoOutcome}]
LockOK == lock \in [Gameweek -> [owner : Writer \cup {NoWriter}, stale : BOOLEAN] \cup {NoLock}]
WriterOK == writer \in [Writer -> WriterRec]
GameOK ==
    /\ passed \in 0..Gameweeks /\ window \in BOOLEAN /\ checked \in 0..Gameweeks
    /\ window => passed < Gameweeks
    /\ checked <= passed
    /\ latest \in [passed : 0..Gameweeks, checked : 0..Gameweeks] \cup {NoCapture}
    /\ captured \subseteq Gameweek
HistoryOK == held \in [Gameweek -> Gameweek] /\ bank \in [Gameweek -> 0..Cap]
MarksOK == aged \subseteq Gameweek /\ cut \subseteq Gameweek /\ runs \in Nat /\ faults \in Nat

\* A command that has a gameweek to write, one that may still land its entry, and one that
\* is under the lock.
Busy(r) == r.pc \notin {"idle", "capturing", "replanning"}
Landing(r) == r.pc \in {"ready", "found", "breaking", "again", "inside", "staged"}
Holding(r) == r.pc \in {"inside", "staged", "landed", "digested", "unlocking"}

OpFits(r) ==
    /\ Busy(r) => r.g \in Gameweek /\ r.op # "none"
    /\ r.pc = "called" => r.op \in {"decide", "settle"}
    /\ r.pc = "staged" => r.op # "complete"

\* The gameweek whose squad is held after g.
IsBasis(g, h) == h \in 1..g /\ ~IsFreeHit(h) /\ \A i \in (h + 1)..g : IsFreeHit(i)

ChainInv ==
    /\ \A g, h \in Gameweek : h < g /\ entry[g] # NoEntry => entry[h] # NoEntry
    /\ entry[1] # NoEntry => entry[1].chip = "none"
    /\ \A g \in Gameweek : entry[g] # NoEntry
            => \E h \in Gameweek : IsBasis(g, h) /\ held[g] = entry[h].squad
    /\ StartsFromHeldSquad
    /\ FreeTransfersAgree

\* What a writer is about to land fits the entries and the game before its gameweek.
Fits(g, v) ==
    /\ v \in Entry
    /\ g = 1 => v = Opening
    /\ g # 1 => entry[g - 1] # NoEntry /\ v.base = held[g - 1]
    /\ v.free = Banked(BankedAfter(g, v))

ValueFits(r) == Landing(r) /\ r.op \in {"decide", "roll"} => Fits(r.g, r.value)

LockFits(w, r) ==
    r.g \in Gameweek \ aged =>
        /\ r.pc \notin {"breaking", "again"}
        /\ Holding(r) => lock[r.g] # NoLock /\ lock[r.g].owner = w

\* What an outcome's writer relies on, between the outcome and its digest.
OutcomeFits(r) ==
    /\ r.pc \in {"landed", "digested"} \/ (Busy(r) /\ r.op = "complete")
            => outcome[r.g] # NoOutcome
    /\ r.pc = "digested" => r.digest # NoOutcome

\* The outcome of a gameweek no lock of which grew old has one writer.
SealFits(r) ==
    r.g \notin aged =>
        /\ r.pc = "staged" /\ r.op = "settle" => outcome[r.g] = NoOutcome
        /\ r.pc = "digested" => r.digest = outcome[r.g]

WriterInv ==
    \A w \in Writer : /\ OpFits(writer[w]) /\ ValueFits(writer[w]) /\ LockFits(w, writer[w])
                      /\ OutcomeFits(writer[w]) /\ SealFits(writer[w])

LocksAreYoung == \A g \in Gameweek \ aged : lock[g] # NoLock => ~lock[g].stale

IInv ==
    /\ TypeOK /\ ChainInv /\ WriterInv /\ LocksAreYoung
    /\ EntriesAreReadable /\ UnsealedIsExplained

\* The part of it that a writer can disturb.
Core ==
    /\ LedgerOK /\ LockOK /\ WriterOK /\ HistoryOK
    /\ ChainInv /\ WriterInv /\ LocksAreYoung
    /\ EntriesAreReadable /\ UnsealedIsExplained

-------------------------------------------------------------------------------
\* Types

LEMMA TypeParts == TypeOK <=> LedgerOK /\ LockOK /\ WriterOK /\ GameOK /\ HistoryOK /\ MarksOK
  BY DEF TypeOK, LedgerOK, LockOK, WriterOK, GameOK, HistoryOK, MarksOK, WriterRec

LEMMA InvParts == IInv <=> Core /\ GameOK /\ MarksOK
  BY TypeParts DEF IInv, Core

LEMMA FirstGameweek == 1 \in Gameweek /\ Gameweek \subseteq Nat
  BY SeasonRulesAssumption DEF Gameweek

LEMMA LeastNatural ==
    ASSUME NEW S, S \subseteq Nat, S # {}
    PROVE  Min(S) \in S
<1>1. OpToRel(<, Nat) = {ss \in Nat \X Nat : ss[1] < ss[2]}
  BY Zenon DEF OpToRel
<1>2. IsWellFoundedOn({ss \in Nat \X Nat : ss[1] < ss[2]}, Nat)
  BY <1>1, NatLessThanWellFounded, Zenon
<1>3. \E x \in S : \A y \in S : ~(<<y, x>> \in {ss \in Nat \X Nat : ss[1] < ss[2]})
  BY <1>2, WFMin, Zenon
<1>4. \E x \in S : \A y \in S : x <= y
  <2>1. PICK x \in S : \A y \in S : ~(<<y, x>> \in {ss \in Nat \X Nat : ss[1] < ss[2]})
    BY <1>3
  <2>2. ASSUME NEW y \in S PROVE ~(y < x)
    <3>1. <<y, x>> \in Nat \X Nat
      OBVIOUS
    <3>2. ~(<<y, x>>[1] < <<y, x>>[2])
      BY <2>1, <3>1
    <3> QED
      BY <3>2
  <2> QED
    BY <2>2
<1> QED
  BY <1>4 DEF Min

LEMMA LeastIsThere ==
    ASSUME NEW S, S \subseteq Gameweek, S # {}
    PROVE  Min(S) \in S
  BY FirstGameweek, LeastNatural, Zenon

LEMMA IdleIsRec == Idle \in WriterRec /\ ~Busy(Idle)
  BY SeasonRulesAssumption DEF Idle, WriterRec, Busy, Chip

\* The two accounts of the free transfers agree week by week.
LEMMA AccountsAgree ==
    ASSUME NEW b \in 0..Cap, NEW count \in Nat, NEW chip \in Chip
    PROVE  /\ BankAfter(b, count, chip \in TransferChip) \in 0..Cap
           /\ Banked(b) \in 1..Cap
           /\ FreeAfter(Banked(b), count, chip) = Banked(BankAfter(b, count, chip \in TransferChip))
           /\ BankAfter(b, 0, FALSE) \in 0..Cap
           /\ FreeAfterRoll(Banked(b)) = Banked(BankAfter(b, 0, FALSE))
<1> USE SeasonRulesAssumption
<1>1. CASE chip \in TransferChip
  BY <1>1 DEF BankAfter, Banked, FreeAfter, FreeAfterRoll, Least
<1>2. CASE chip \notin TransferChip
  BY <1>2 DEF BankAfter, Banked, FreeAfter, FreeAfterRoll, Least
<1> QED
  BY <1>1, <1>2

LEMMA OpeningFits == Opening \in Entry /\ BankedAfter(1, Opening) = 0
                     /\ Opening.free = Banked(BankedAfter(1, Opening))
  BY SeasonRulesAssumption
     DEF Opening, Entry, BankedAfter, BankAfter, Banked, FreeAfterOpening, Least, Chip, Gameweek

-------------------------------------------------------------------------------
\* What is computed fits

LEMMA WeekBefore ==
    ASSUME NEW g \in Gameweek, g # 1
    PROVE  g - 1 \in Gameweek /\ g \in Nat /\ g > 1
  BY SeasonRulesAssumption DEF Gameweek

\* The walk back over free hits ends at the one gameweek whose squad is held.
LEMMA HeldIsFound ==
    ASSUME LedgerOK, HistoryOK, ChainInv, NEW g \in Gameweek, g # 1, entry[g - 1] # NoEntry
    PROVE  /\ HeldSquad(g) = held[g - 1]
           /\ ~IsFreeHit(g - 1) => entry[g - 1].squad = held[g - 1]
<1>1. g - 1 \in Gameweek /\ g \in Nat /\ g > 1
  BY WeekBefore
<1>2. PICK h \in Gameweek : IsBasis(g - 1, h) /\ held[g - 1] = entry[h].squad
  BY <1>1 DEF ChainInv
<1> DEFINE B == Basis(g)
<1>3. h \in 1..(g - 1) /\ ~IsFreeHit(h) /\ \A i \in (h + 1)..(g - 1) : IsFreeHit(i)
  BY <1>2 DEF IsBasis
<1>4. B \in 1..(g - 1) /\ ~IsFreeHit(B) /\ \A i \in (B + 1)..(g - 1) : IsFreeHit(i)
  BY <1>3, Zenon DEF Basis
<1> HIDE DEF B
<1>5. ~(h > B)
  BY <1>1, <1>3, <1>4
<1>6. ~(B > h)
  BY <1>1, <1>3, <1>4
<1>7. B = h
  BY <1>1, <1>3, <1>4, <1>5, <1>6
<1>8. ~IsFreeHit(g - 1) => h = g - 1
  BY <1>1, <1>3
<1> QED
  BY <1>2, <1>7, <1>8, Zenon DEF HeldSquad, B

LEMMA DecisionFits ==
    ASSUME LedgerOK, HistoryOK, ChainInv, NEW g \in Gameweek, g # 1, entry[g - 1] # NoEntry,
           NEW chip \in Chip, NEW count \in Nat
    PROVE  Fits(g, DecisionFrom(g, chip, count))
<1> DEFINE v == DecisionFrom(g, chip, count)
           e == entry[g - 1]
<1>1. g - 1 \in Gameweek
  BY WeekBefore
<1>2. HeldSquad(g) = held[g - 1] /\ held[g - 1] \in Gameweek /\ bank[g - 1] \in 0..Cap
  BY <1>1, HeldIsFound DEF HistoryOK
<1>3. e.free = Banked(bank[g - 1])
  BY <1>1 DEF ChainInv, FreeTransfersAgree
<1>4. /\ v.kind = "decision" /\ v.chip = chip /\ v.count = count /\ v.base = held[g - 1]
      /\ v.squad = (IF count > 0 THEN g ELSE held[g - 1])
      /\ v.free = FreeAfter(Banked(bank[g - 1]), count, chip)
      /\ v = [kind |-> v.kind, chip |-> v.chip, count |-> v.count, squad |-> v.squad,
              base |-> v.base, free |-> v.free]
  BY <1>2, <1>3 DEF DecisionFrom
<1> HIDE DEF v
<1>5. /\ BankAfter(bank[g - 1], count, chip \in TransferChip) \in 0..Cap
      /\ v.free = Banked(BankAfter(bank[g - 1], count, chip \in TransferChip))
  BY <1>2, <1>4, AccountsAgree
<1>6. v.free = Banked(BankedAfter(g, v))
  BY <1>4, <1>5 DEF BankedAfter
<1>7. v.free \in 1..Cap
  <2> DEFINE b == BankAfter(bank[g - 1], count, chip \in TransferChip)
  <2>1. b \in 0..Cap /\ v.free = Banked(b)
    BY <1>5
  <2> HIDE DEF b
  <2>2. "none" \in Chip /\ 0 \in Nat
    BY DEF Chip
  <2> QED
    BY <2>1, <2>2, AccountsAgree
<1>8. v \in Entry
  BY <1>2, <1>4, <1>7 DEF Entry
<1> QED
  BY <1>4, <1>6, <1>8 DEF Fits, v

LEMMA DecisionsFit ==
    ASSUME LedgerOK, HistoryOK, ChainInv, NEW g \in Gameweek, NEW chip \in Chip,
           NEW v \in Decisions(g, chip)
    PROVE  Fits(g, v)
<1>1. CASE g = 1
  BY <1>1, OpeningFits DEF Decisions, Fits
<1>2. CASE g # 1
  <2>1. PICK play \in Plays : MayDecide(g, chip) /\ v = DecisionFrom(g, chip, play[2])
    BY <1>2 DEF Decisions
  <2>2. play[2] \in Nat /\ entry[g - 1] # NoEntry
    BY <2>1, SeasonLedgerAssumption DEF MayDecide
  <2> QED
    BY <1>2, <2>1, <2>2, DecisionFits
<1> QED
  BY <1>1, <1>2

LEMMA RollsFit ==
    ASSUME LedgerOK, HistoryOK, ChainInv, NEW g \in Gameweek, NEW v \in Rolls(g)
    PROVE  Fits(g, v) /\ g # 1
<1>1. /\ g - 1 >= 1 /\ entry[g - 1] # NoEntry /\ ~IsFreeHit(g - 1)
      /\ v = [kind |-> "roll", chip |-> "none", count |-> 0, squad |-> entry[g - 1].squad,
              base |-> entry[g - 1].squad, free |-> FreeAfterRoll(entry[g - 1].free)]
  BY DEF Rolls
<1>2. g # 1
  BY <1>1
<1>3. g - 1 \in Gameweek
  BY <1>2, WeekBefore
<1>4. entry[g - 1].squad = held[g - 1] /\ held[g - 1] \in Gameweek /\ bank[g - 1] \in 0..Cap
  BY <1>1, <1>2, <1>3, HeldIsFound DEF HistoryOK
<1>5. entry[g - 1].free = Banked(bank[g - 1])
  BY <1>1, <1>3 DEF ChainInv, FreeTransfersAgree
<1>6. "none" \in Chip /\ "none" \notin TransferChip /\ 0 \in Nat
  BY DEF Chip, TransferChip
<1> DEFINE b == BankAfter(bank[g - 1], 0, FALSE)
<1>7. b \in 0..Cap /\ FreeAfterRoll(Banked(bank[g - 1])) = Banked(b)
  BY <1>4, <1>6, AccountsAgree
<1>8. BankedAfter(g, v) = b
  BY <1>1, <1>2, <1>6 DEF BankedAfter
<1> HIDE DEF b
<1>9. Banked(b) \in 1..Cap
  BY <1>6, <1>7, AccountsAgree
<1>10. v.free = Banked(b) /\ v.base = held[g - 1]
  BY <1>1, <1>4, <1>5, <1>7
<1>11. v \in Entry
  BY <1>1, <1>4, <1>5, <1>6, <1>7, <1>9 DEF Entry
<1> QED
  BY <1>1, <1>2, <1>8, <1>10, <1>11 DEF Fits

-------------------------------------------------------------------------------
\* What a call may become

\* Nothing is held and nothing computed yet.
Fresh(r) == r.pc \in {"idle", "capturing", "replanning", "called"} /\ OpFits(r)

LEMMA FreshFits ==
    ASSUME NEW w \in Writer, NEW r \in WriterRec, Fresh(r)
    PROVE  OpFits(r) /\ ValueFits(r) /\ LockFits(w, r) /\ OutcomeFits(r) /\ SealFits(r)
  BY DEF Fresh, OpFits, ValueFits, LockFits, OutcomeFits, SealFits, Busy, Landing, Holding

LEMMA IdleIsFresh == Idle \in WriterRec /\ Fresh(Idle)
  BY IdleIsRec DEF Fresh, OpFits, Idle, Busy

LEMMA CalledIsRec ==
    ASSUME NEW r \in WriterRec, NEW op \in {"decide", "roll", "settle"}, NEW g \in Gameweek,
           NEW chip \in Chip
    PROVE  LET q == Called(r, op, g, chip)
           IN q \in WriterRec /\ q.pc = "called" /\ q.op = op /\ q.g = g
<1>1. g \in 0..Gameweeks
  BY SeasonRulesAssumption DEF Gameweek
<1> DEFINE a == [r EXCEPT !.pc = "called", !.op = op, !.g = g]
           q == [a EXCEPT !.chip = chip, !.value = NoEntry, !.digest = NoOutcome]
<1>2. Called(r, op, g, chip) = q
  BY DEF Called, WriterRec
<1>3. a \in WriterRec /\ a.pc = "called" /\ a.op = op /\ a.g = g
  BY <1>1 DEF WriterRec
<1> HIDE DEF a
<1>4. q \in WriterRec /\ q.pc = "called" /\ q.op = op /\ q.g = g
  BY <1>3 DEF WriterRec
<1> QED
  BY <1>2, <1>4

LEMMA NextCallIsFresh ==
    ASSUME NEW r \in WriterRec
    PROVE  NextCall(r) \in WriterRec /\ Fresh(NextCall(r))
<1> DEFINE s == r.settles
           d == r.decides
<1>0. s \subseteq Gameweek /\ d \subseteq Gameweek /\ "none" \in Chip
  BY DEF WriterRec, Chip
<1>1. CASE s # {}
  <2>1. Min(s) \in Gameweek
    BY <1>0, <1>1, LeastIsThere, Zenon
  <2> DEFINE q == Called(r, "settle", Min(s), "none")
  <2>2. q \in WriterRec /\ q.pc = "called" /\ q.op = "settle" /\ q.g = Min(s)
    BY <1>0, <2>1, CalledIsRec
  <2>3. NextCall(r) = [q EXCEPT !.settles = @ \ {Min(s)}]
    BY <1>1 DEF NextCall
  <2> HIDE DEF q
  <2>4. /\ NextCall(r) \in WriterRec /\ NextCall(r).pc = "called"
        /\ NextCall(r).op = "settle" /\ NextCall(r).g = Min(s)
    BY <2>2, <2>3 DEF WriterRec
  <2> QED
    BY <2>1, <2>4 DEF Fresh, OpFits
<1>2. CASE s = {} /\ d # {}
  <2>1. Min(d) \in Gameweek
    BY <1>0, <1>2, LeastIsThere, Zenon
  <2> DEFINE q == Called(r, "decide", Min(d), "none")
  <2>2. q \in WriterRec /\ q.pc = "called" /\ q.op = "decide" /\ q.g = Min(d)
    BY <1>0, <2>1, CalledIsRec
  <2>3. NextCall(r) = [q EXCEPT !.decides = {}]
    BY <1>2 DEF NextCall
  <2> HIDE DEF q
  <2>4. /\ NextCall(r) \in WriterRec /\ NextCall(r).pc = "called"
        /\ NextCall(r).op = "decide" /\ NextCall(r).g = Min(d)
    BY <2>2, <2>3 DEF WriterRec
  <2> QED
    BY <2>1, <2>4 DEF Fresh, OpFits
<1>3. CASE s = {} /\ d = {}
  BY <1>3, IdleIsFresh DEF NextCall
<1> QED
  BY <1>1, <1>2, <1>3

LEMMA PlannedIsFresh ==
    ASSUME NEW r \in WriterRec, NEW p \in Planned(r)
    PROVE  p \in WriterRec /\ Fresh(p)
<1>1. DueSettles \subseteq Gameweek /\ DueDecide(r) \subseteq Gameweek
  BY DEF DueSettles, DueDecide, Unsettled, Decided, Upcoming
<1>2. PICK d \in SUBSET Gameweek :
        p = NextCall([Idle EXCEPT !.settles = DueSettles, !.decides = d])
  BY <1>1 DEF Planned
<1>3. [Idle EXCEPT !.settles = DueSettles, !.decides = d] \in WriterRec
  BY <1>1, IdleIsRec DEF WriterRec
<1> QED
  BY <1>2, <1>3, NextCallIsFresh

\* A call that asks for the lock is ready to write what it has computed or found.
IsReady(q) ==
    /\ q \in WriterRec /\ q.pc = "ready" /\ q.g \in Gameweek
    /\ q.op \in {"decide", "roll", "settle", "complete"}
    /\ q.op \in {"decide", "roll"} => Fits(q.g, q.value)
    /\ q.op = "complete" => outcome[q.g] # NoOutcome

LEMMA PreparedIsReady ==
    ASSUME LedgerOK, HistoryOK, ChainInv, NEW r \in WriterRec, r.g \in Gameweek,
           r.op \in {"decide", "roll", "settle"}, NEW q \in Prepared(r)
    PROVE  IsReady(q)
<1>1. CASE r.op = "settle"
  <2>1. PICK op \in {"settle", "complete"} :
            /\ q = [r EXCEPT !.pc = "ready", !.op = op]
            /\ op = "complete" => r.g \notin Unsettled /\ r.g \in Decided
    BY <1>1 DEF Prepared, OutcomeCalls
  <2>2. q \in WriterRec /\ q.pc = "ready" /\ q.op = op /\ q.g = r.g
    BY <2>1 DEF WriterRec
  <2>3. op = "complete" => outcome[r.g] # NoOutcome
    BY <2>1 DEF Unsettled
  <2> QED
    BY <2>1, <2>2, <2>3 DEF IsReady
<1>2. CASE r.op # "settle"
  <2>1. PICK v \in IF r.op = "decide" THEN Decisions(r.g, r.chip) ELSE Rolls(r.g) :
            q = [r EXCEPT !.pc = "ready", !.chip = "none", !.value = v]
    BY <1>2 DEF Prepared, EntryCalls
  <2>2. r.chip \in Chip /\ "none" \in Chip
    BY DEF WriterRec, Chip
  <2>3. Fits(r.g, v)
    BY <2>1, <2>2, DecisionsFit, RollsFit
  <2>4. q \in WriterRec /\ q.pc = "ready" /\ q.op = r.op /\ q.g = r.g /\ q.value = v
    BY <2>1, <2>2, <2>3 DEF WriterRec, Fits
  <2> QED
    BY <1>2, <2>3, <2>4 DEF IsReady
<1> QED
  BY <1>1, <1>2

LEMMA ReadyFits ==
    ASSUME NEW w \in Writer, NEW r, IsReady(r)
    PROVE  OpFits(r) /\ ValueFits(r) /\ LockFits(w, r) /\ OutcomeFits(r) /\ SealFits(r)
  BY DEF IsReady, OpFits, ValueFits, LockFits, OutcomeFits, SealFits, Busy, Landing, Holding

-------------------------------------------------------------------------------
\* Steps that only move a writer

LEMMA WriterMoved ==
    ASSUME WriterOK, NEW w \in Writer, NEW r \in WriterRec, writer' = [writer EXCEPT ![w] = r]
    PROVE  WriterOK' /\ writer'[w] = r /\ \A v \in Writer \ {w} : writer'[v] = writer[v]
  BY DEF WriterOK, WriterRec

LEMMA ChainStands ==
    ASSUME ChainInv, UNCHANGED <<entry, history>>
    PROVE  ChainInv'
  BY DEF ChainInv, history, IsBasis, IsFreeHit, StartsFromHeldSquad, FreeTransfersAgree

\* Nothing is recorded, and every writer still has what it relies on.
LEMMA NothingRecorded ==
    ASSUME IInv, UNCHANGED <<ledger, history>>, aged \subseteq aged', cut \subseteq cut',
           WriterOK', LockOK', LocksAreYoung',
           \A v \in Writer :
                /\ OpFits(writer'[v]) /\ ValueFits(writer'[v])
                /\ OutcomeFits(writer'[v]) /\ SealFits(writer'[v])
                /\ LockFits(v, writer[v])'
                /\ writer[v].pc \in {"landed", "digested"}
                     => \/ Target(v) \in cut'
                        \/ writer'[v].pc \in {"landed", "digested"} /\ writer'[v].g = Target(v)
    PROVE  Core'
<1>0. LedgerOK /\ HistoryOK
  BY TypeParts DEF IInv
<1>1. entry' = entry /\ outcome' = outcome /\ sealed' = sealed /\ held' = held /\ bank' = bank
  BY DEF ledger, history
<1>2. LedgerOK' /\ HistoryOK'
  BY <1>0, <1>1 DEF LedgerOK, HistoryOK
<1>3. ChainInv'
  BY <1>1, ChainStands DEF IInv, history
<1>4. WriterInv'
  <2> SUFFICES ASSUME NEW v \in Writer
               PROVE  (/\ OpFits(writer[v]) /\ ValueFits(writer[v]) /\ LockFits(v, writer[v])
                       /\ OutcomeFits(writer[v]) /\ SealFits(writer[v]))'
    BY DEF WriterInv
  <2>1. PICK x : /\ x = writer'[v] /\ OpFits(x) /\ ValueFits(x)
                 /\ OutcomeFits(x) /\ SealFits(x)
    OBVIOUS
  <2>2. OpFits(writer[v])'
    BY <2>1 DEF OpFits, Busy
  <2>3. ValueFits(writer[v])'
    BY <1>1, <2>1 DEF ValueFits, Landing, Fits, BankedAfter
  <2>4. OutcomeFits(writer[v])' /\ SealFits(writer[v])'
    BY <1>1, <2>1 DEF OutcomeFits, SealFits, Busy
  <2> QED
    BY <2>2, <2>3, <2>4
<1>5. EntriesAreReadable'
  BY <1>1 DEF IInv, EntriesAreReadable, IsReadable
<1>6. UnsealedIsExplained'
  <2> SUFFICES ASSUME NEW g \in Gameweek, g \notin cut', outcome[g] # NoOutcome,
                      sealed[g] = NoOutcome
               PROVE  \E v \in Writer : writer'[v].g = g /\ writer'[v].pc \in {"landed", "digested"}
    BY <1>1 DEF UnsealedIsExplained, Target
  <2>1. PICK v \in Writer : Target(v) = g /\ writer[v].pc \in {"landed", "digested"}
    BY DEF IInv, UnsealedIsExplained
  <2> QED
    BY <2>1
<1> QED
  BY <1>2, <1>3, <1>4, <1>5, <1>6 DEF Core

\* The writer w goes on to r and nothing else changes, but for the marks of what failed.
Move(w, r) ==
    /\ writer' = [writer EXCEPT ![w] = r]
    /\ UNCHANGED <<ledger, lock, history, aged>>
    /\ cut \subseteq cut'
    /\ writer[w].pc \in {"landed", "digested"}
         => Target(w) \in cut' \/ (r.pc \in {"landed", "digested"} /\ r.g = Target(w))

LEMMA MoveKeeps ==
    ASSUME IInv, NEW w \in Writer, NEW r \in WriterRec, Move(w, r),
           OpFits(r), ValueFits(r), LockFits(w, r), OutcomeFits(r), SealFits(r)
    PROVE  Core'
<1>0. LockOK /\ WriterOK
  BY TypeParts DEF IInv
<1>1. lock' = lock /\ aged' = aged /\ UNCHANGED <<ledger, history>> /\ cut \subseteq cut'
  BY DEF Move
<1>2. WriterOK' /\ writer'[w] = r /\ \A v \in Writer \ {w} : writer'[v] = writer[v]
  BY <1>0, WriterMoved DEF Move
<1>3. LockOK' /\ LocksAreYoung'
  BY <1>0, <1>1 DEF LockOK, IInv, LocksAreYoung
<1>4. ASSUME NEW v \in Writer
      PROVE  /\ OpFits(writer'[v]) /\ ValueFits(writer'[v])
             /\ OutcomeFits(writer'[v]) /\ SealFits(writer'[v])
             /\ LockFits(v, writer[v])'
             /\ writer[v].pc \in {"landed", "digested"}
                  => \/ Target(v) \in cut'
                     \/ writer'[v].pc \in {"landed", "digested"} /\ writer'[v].g = Target(v)
  <2>1. PICK x : /\ x = writer'[v] /\ OpFits(x) /\ ValueFits(x) /\ LockFits(v, x)
                 /\ OutcomeFits(x) /\ SealFits(x)
    BY <1>2 DEF IInv, WriterInv
  <2>2. LockFits(v, writer[v])'
    BY <1>1, <2>1 DEF LockFits, Holding
  <2>3. writer[v].pc \in {"landed", "digested"}
          => \/ Target(v) \in cut'
             \/ writer'[v].pc \in {"landed", "digested"} /\ writer'[v].g = Target(v)
    BY <1>2 DEF Move, Target
  <2> QED
    BY <2>1, <2>2, <2>3
<1> QED
  BY <1>1, <1>2, <1>3, <1>4, NothingRecorded

LEMMA RecGoes ==
    ASSUME NEW r \in WriterRec,
           NEW pc \in {"found", "breaking", "again", "inside", "staged", "landed", "digested",
                       "unlocking", "capturing", "replanning"}
    PROVE  LET q == [r EXCEPT !.pc = pc]
           IN /\ q \in WriterRec /\ q.pc = pc
              /\ q.op = r.op /\ q.g = r.g /\ q.value = r.value /\ q.digest = r.digest
  BY DEF WriterRec

LEMMA RecAbandons ==
    ASSUME NEW r \in WriterRec
    PROVE  LET q == [r EXCEPT !.pc = "unlocking", !.settles = {}, !.decides = {}]
           IN q \in WriterRec /\ q.pc = "unlocking" /\ q.op = r.op /\ q.g = r.g
  BY DEF WriterRec

LEMMA WriterFacts ==
    ASSUME IInv, NEW w \in Writer
    PROVE  /\ writer[w] \in WriterRec
           /\ OpFits(writer[w]) /\ ValueFits(writer[w]) /\ LockFits(w, writer[w])
           /\ OutcomeFits(writer[w]) /\ SealFits(writer[w])
  BY TypeParts DEF IInv, WriterOK, WriterInv

\* A writer that stops, or has not asked for a lock, leaves nothing behind.
LEMMA FreshMoveKeeps ==
    ASSUME IInv, NEW w \in Writer, NEW r \in WriterRec, Fresh(r),
           writer' = [writer EXCEPT ![w] = r], UNCHANGED <<ledger, lock, history, aged>>,
           cut \subseteq cut', writer[w].pc \in {"landed", "digested"} => Target(w) \in cut'
    PROVE  Core'
<1>1. OpFits(r) /\ ValueFits(r) /\ LockFits(w, r) /\ OutcomeFits(r) /\ SealFits(r)
  BY FreshFits
<1>2. Move(w, r)
  BY Zenon DEF Move
<1> QED
  BY <1>1, <1>2, MoveKeeps

LEMMA StartTickKeeps ==
    ASSUME IInv, NEW w \in Writer, StartTick(w)
    PROVE  Core'
<1> DEFINE r == [Idle EXCEPT !.passed = passed, !.window = window]
<1>1. r \in WriterRec /\ r.pc = "idle"
  BY TypeParts, IdleIsRec DEF IInv, GameOK, WriterRec, Idle
<1>2. /\ writer[w].pc = "idle" /\ cut' = cut
      /\ UNCHANGED <<ledger, lock, history, aged>>
      /\ \/ writer' = [writer EXCEPT ![w] = [r EXCEPT !.pc = "capturing"]]
         \/ \E p \in Planned(r) : writer' = [writer EXCEPT ![w] = p]
  BY Zenon DEF StartTick, At
<1> HIDE DEF r
<1>3. [r EXCEPT !.pc = "capturing"] \in WriterRec /\ Fresh([r EXCEPT !.pc = "capturing"])
  BY <1>1, RecGoes DEF Fresh, OpFits, Busy
<1>4. ASSUME NEW p \in WriterRec, Fresh(p), writer' = [writer EXCEPT ![w] = p]
      PROVE  Core'
  BY <1>2, <1>4, FreshMoveKeeps
<1> QED
  BY <1>1, <1>2, <1>3, <1>4, PlannedIsFresh, Zenon

LEMMA CaptureKeeps ==
    ASSUME IInv, NEW w \in Writer, Capture(w)
    PROVE  Core'
<1> DEFINE r == [writer[w] EXCEPT !.pc = "replanning"]
<1>1. r \in WriterRec /\ Fresh(r)
  BY WriterFacts, RecGoes DEF Fresh, OpFits, Busy
<1>2. writer' = [writer EXCEPT ![w] = r]
  BY TypeParts DEF IInv, WriterOK, Capture, Goes
<1> QED
  BY <1>1, <1>2, FreshMoveKeeps DEF Capture, At

LEMMA ReplanKeeps ==
    ASSUME IInv, NEW w \in Writer, Replan(w)
    PROVE  Core'
<1>1. PICK r \in WriterRec : Fresh(r) /\ writer' = [writer EXCEPT ![w] = r]
  BY WriterFacts, IdleIsFresh, PlannedIsFresh DEF Replan, Refuses
<1> QED
  BY <1>1, FreshMoveKeeps DEF Replan, At

LEMMA ReadyMoveKeeps ==
    ASSUME IInv, NEW w \in Writer, NEW r, IsReady(r),
           writer' = [writer EXCEPT ![w] = r], UNCHANGED <<ledger, lock, history, aged>>,
           cut' = cut, writer[w].pc \in {"idle", "called"}
    PROVE  Core'
<1>1. r \in WriterRec
  BY DEF IsReady
<1> QED
  BY <1>1, ReadyFits, MoveKeeps DEF Move

LEMMA PrepareKeeps ==
    ASSUME IInv, NEW w \in Writer, Prepare(w)
    PROVE  Core'
<1>1. CASE \E r \in Prepared(writer[w]) : writer' = [writer EXCEPT ![w] = r]
  <2>1. PICK r \in Prepared(writer[w]) : writer' = [writer EXCEPT ![w] = r]
    BY <1>1
  <2>2. writer[w].g \in Gameweek /\ writer[w].op \in {"decide", "roll", "settle"}
    BY WriterFacts DEF Prepare, At, OpFits, Busy
  <2>3. IsReady(r)
    BY <2>2, WriterFacts, TypeParts, PreparedIsReady DEF IInv
  <2> QED
    BY <2>1, <2>3, ReadyMoveKeeps DEF Prepare, At
<1>2. CASE Refuses(w)
  BY <1>2, IdleIsFresh, FreshMoveKeeps DEF Prepare, At, Refuses
<1> QED
  BY <1>1, <1>2 DEF Prepare

LEMMA ByHandKeeps ==
    ASSUME IInv, NEW w \in Writer, NEW g \in Gameweek, NEW chip \in Chip,
           NEW op \in {"decide", "roll", "settle"}, ByHand(w, op, g, chip)
    PROVE  Core'
<1> DEFINE c == Called(Idle, op, g, chip)
<1>1. c \in WriterRec /\ c.g = g /\ c.op = op
  BY IdleIsRec, CalledIsRec
<1>2. PICK r \in Prepared(c) : writer' = [writer EXCEPT ![w] = r]
  BY DEF ByHand
<1> HIDE DEF c
<1>3. IsReady(r)
  BY <1>1, <1>2, TypeParts, PreparedIsReady DEF IInv
<1> QED
  BY <1>2, <1>3, ReadyMoveKeeps DEF ByHand, At

LEMMA GoesKeeps ==
    ASSUME IInv, NEW w \in Writer,
           NEW pc \in {"found", "breaking", "again", "inside", "staged", "landed"},
           Goes(w, pc), UNCHANGED <<ledger, lock, history, aged, cut>>,
           LET r == [writer[w] EXCEPT !.pc = pc]
           IN OpFits(r) /\ ValueFits(r) /\ LockFits(w, r) /\ OutcomeFits(r) /\ SealFits(r),
           writer[w].pc \notin {"landed", "digested"}
    PROVE  Core'
<1> DEFINE r == [writer[w] EXCEPT !.pc = pc]
<1>1. r \in WriterRec
  BY WriterFacts, RecGoes
<1>2. Move(w, r)
  BY TypeParts DEF IInv, WriterOK, Move, Goes
<1> QED
  BY <1>1, <1>2, MoveKeeps

LEMMA ReadAgeKeeps ==
    ASSUME IInv, NEW w \in Writer, ReadAge(w)
    PROVE  Core'
<1>1. CASE Locked(w) /\ lock[Target(w)].stale /\ Goes(w, "breaking")
  <2> DEFINE r == [writer[w] EXCEPT !.pc = "breaking"]
  <2>1. /\ r \in WriterRec /\ r.pc = "breaking"
        /\ r.op = writer[w].op /\ r.g = writer[w].g /\ r.value = writer[w].value
    BY WriterFacts, RecGoes
  <2>2. writer[w].pc = "found" /\ r.g \in Gameweek /\ r.op # "none"
    BY <2>1, WriterFacts DEF ReadAge, At, OpFits, Busy
  <2>3. r.g \in aged
    BY <1>1, <2>1, <2>2 DEF IInv, LocksAreYoung, Locked, Target
  <2> HIDE DEF r
  <2>4. OpFits(r) /\ LockFits(w, r) /\ SealFits(r)
    BY <2>1, <2>2, <2>3 DEF OpFits, LockFits, SealFits
  <2>5. ValueFits(r) /\ OutcomeFits(r)
    BY <2>1, <2>2, WriterFacts DEF ValueFits, OutcomeFits, Landing, Busy
  <2> QED
    BY <1>1, <2>2, <2>4, <2>5, GoesKeeps DEF r, ReadAge
<1>2. CASE Refuses(w)
  BY <1>2, IdleIsFresh, FreshMoveKeeps DEF ReadAge, At, Refuses
<1> QED
  BY <1>1, <1>2 DEF ReadAge

LEMMA RecheckKeeps ==
    ASSUME IInv, NEW w \in Writer, Recheck(w)
    PROVE  Core'
<1>1. writer[w].pc = "inside" /\ Target(w) \in Gameweek /\ Op(w) # "none"
  BY WriterFacts DEF Recheck, At, OpFits, Busy, Target, Op
<1>2. CASE Op(w) = "complete" /\ Goes(w, "landed")
  <2> DEFINE r == [writer[w] EXCEPT !.pc = "landed"]
  <2>1. r.pc = "landed" /\ r.op = "complete" /\ r.g = Target(w)
    BY <1>2, WriterFacts, RecGoes DEF Op, Target
  <2>2. outcome[r.g] # NoOutcome
    BY <1>1, <1>2, <2>1, WriterFacts DEF OutcomeFits, Busy, Op, Target
  <2> HIDE DEF r
  <2>3. OpFits(r) /\ ValueFits(r) /\ OutcomeFits(r) /\ SealFits(r)
    BY <1>1, <2>1, <2>2 DEF OpFits, ValueFits, OutcomeFits, SealFits, Landing
  <2>4. LockFits(w, r)
    BY <1>1, <2>1, WriterFacts DEF LockFits, Holding, Target
  <2> QED
    BY <1>1, <1>2, <2>3, <2>4, GoesKeeps DEF r, Recheck
<1>3. CASE Op(w) # "complete" /\ ~IsThere(w) /\ Goes(w, "staged")
  <2> DEFINE r == [writer[w] EXCEPT !.pc = "staged"]
  <2>1. r.pc = "staged" /\ r.op = Op(w) /\ r.g = Target(w) /\ r.value = writer[w].value
    BY <1>3, WriterFacts, RecGoes DEF Op, Target
  <2> HIDE DEF r
  <2>2. OpFits(r) /\ OutcomeFits(r)
    BY <1>1, <1>3, <2>1 DEF OpFits, OutcomeFits
  <2>3. ValueFits(r)
    BY <1>1, <2>1, WriterFacts DEF ValueFits, Landing, Op, Target
  <2>4. LockFits(w, r)
    BY <1>1, <2>1, WriterFacts DEF LockFits, Holding, Target
  <2>5. SealFits(r)
    BY <1>3, <2>1 DEF SealFits, IsThere
  <2> QED
    BY <1>1, <1>3, <2>2, <2>3, <2>4, <2>5, GoesKeeps DEF r, Recheck
<1>4. CASE Abandons(w)
  <2> DEFINE r == [writer[w] EXCEPT !.pc = "unlocking", !.settles = {}, !.decides = {}]
  <2>1. r \in WriterRec /\ r.pc = "unlocking" /\ r.op = Op(w) /\ r.g = Target(w)
    BY WriterFacts, RecAbandons DEF Op, Target
  <2>2. Move(w, r)
    BY <1>1, <1>4, TypeParts DEF IInv, WriterOK, Move, Abandons, Recheck
  <2> HIDE DEF r
  <2>3. OpFits(r) /\ ValueFits(r) /\ SealFits(r)
    BY <1>1, <2>1 DEF OpFits, ValueFits, SealFits, Landing
  <2>4. LockFits(w, r) /\ OutcomeFits(r)
    BY <1>1, <2>1, WriterFacts DEF LockFits, OutcomeFits, Holding, Busy, Op, Target
  <2> QED
    BY <2>1, <2>2, <2>3, <2>4, MoveKeeps
<1> QED
  BY <1>2, <1>3, <1>4 DEF Recheck

LEMMA DigestKeeps ==
    ASSUME IInv, NEW w \in Writer, Digest(w)
    PROVE  Core'
<1> DEFINE a == [writer[w] EXCEPT !.pc = "digested"]
           r == [a EXCEPT !.digest = outcome[Target(w)]]
<1>1. /\ writer[w].pc = "landed" /\ Target(w) \in Gameweek /\ Op(w) # "none"
      /\ outcome[Target(w)] # NoOutcome
  <2>1. writer[w].pc = "landed"
    BY DEF Digest, At
  <2>2. Target(w) \in Gameweek /\ Op(w) # "none"
    BY <2>1, WriterFacts DEF OpFits, Busy, Target, Op
  <2>3. outcome[Target(w)] # NoOutcome
    BY <2>1, WriterFacts DEF OutcomeFits, Target
  <2> QED
    BY <2>1, <2>2, <2>3
<1>2. a \in WriterRec /\ a.pc = "digested" /\ a.op = Op(w) /\ a.g = Target(w)
  BY WriterFacts, RecGoes DEF Op, Target
<1>3. writer' = [writer EXCEPT ![w] = r]
  BY TypeParts DEF IInv, WriterOK, Digest
<1>4. outcome[Target(w)] \in Writer \cup {NoOutcome}
  BY <1>1, TypeParts DEF IInv, LedgerOK
<1> HIDE DEF a
<1>5. /\ r \in WriterRec /\ r.pc = "digested" /\ r.op = Op(w) /\ r.g = Target(w)
      /\ r.digest = outcome[Target(w)]
  BY <1>2, <1>4 DEF WriterRec
<1> HIDE DEF r
<1>6. Move(w, r)
  BY <1>3, <1>5 DEF Move, Digest
<1>7. OpFits(r) /\ ValueFits(r) /\ SealFits(r) /\ OutcomeFits(r)
  BY <1>1, <1>5 DEF OpFits, ValueFits, SealFits, OutcomeFits, Landing
<1>8. LockFits(w, r)
  BY <1>1, <1>5, WriterFacts DEF LockFits, Holding, Target
<1> QED
  BY <1>5, <1>6, <1>7, <1>8, MoveKeeps

LEMMA FailsKeeps ==
    ASSUME IInv, NEW w \in Writer, Fails(w)
    PROVE  Core'
<1>1. cut \subseteq cut' /\ (writer[w].pc \in {"landed", "digested"} => Target(w) \in cut')
  BY DEF Fails, CutNow
<1>2. CASE IsInside(w) /\ Abandons(w)
  <2> DEFINE r == [writer[w] EXCEPT !.pc = "unlocking", !.settles = {}, !.decides = {}]
  <2>1. r \in WriterRec /\ r.pc = "unlocking" /\ r.op = Op(w) /\ r.g = Target(w)
    BY WriterFacts, RecAbandons DEF Op, Target
  <2>2. Move(w, r)
    <3>1. writer' = [writer EXCEPT ![w] = r]
      BY <1>2, TypeParts DEF IInv, WriterOK, Abandons
    <3>2. UNCHANGED <<ledger, lock, history, aged>>
      BY DEF Fails
    <3> QED
      BY <1>1, <3>1, <3>2, Zenon DEF Move
  <2> HIDE DEF r
  <2>3. Target(w) \in Gameweek /\ Op(w) # "none"
    BY <1>2, WriterFacts DEF IsInside, OpFits, Busy, Op, Target
  <2>4. OpFits(r) /\ ValueFits(r) /\ SealFits(r)
    BY <2>1, <2>3 DEF OpFits, ValueFits, SealFits, Landing
  <2>5. LockFits(w, r) /\ OutcomeFits(r)
    BY <1>2, <2>1, WriterFacts
       DEF IsInside, LockFits, OutcomeFits, Holding, Busy, Op, Target
  <2> QED
    BY <2>1, <2>2, <2>4, <2>5, MoveKeeps
<1>3. CASE Refuses(w)
  BY <1>1, <1>3, IdleIsFresh, FreshMoveKeeps DEF Fails, Refuses
<1> QED
  BY <1>2, <1>3 DEF Fails

-------------------------------------------------------------------------------
\* Steps that touch a lock

LockType == [owner : Writer \cup {NoWriter}, stale : BOOLEAN]

\* The writer w goes on to r; a lock that another writer holds is left alone.
LEMMA LockStepKeeps ==
    ASSUME IInv, NEW w \in Writer, NEW r \in WriterRec, writer' = [writer EXCEPT ![w] = r],
           UNCHANGED <<ledger, history, aged>>, cut \subseteq cut',
           writer[w].pc \in {"landed", "digested"} => Target(w) \in cut',
           OpFits(r), ValueFits(r), OutcomeFits(r), SealFits(r),
           LockOK', LocksAreYoung', LockFits(w, writer[w])',
           \A v \in Writer \ {w} : Target(v) \in Gameweek \ aged /\ Holding(writer[v])
                => lock'[Target(v)] = lock[Target(v)]
    PROVE  Core'
<1>1. WriterOK' /\ writer'[w] = r /\ \A v \in Writer \ {w} : writer'[v] = writer[v]
  BY TypeParts, WriterMoved DEF IInv
<1>2. ASSUME NEW v \in Writer
      PROVE  /\ OpFits(writer'[v]) /\ ValueFits(writer'[v])
             /\ OutcomeFits(writer'[v]) /\ SealFits(writer'[v])
             /\ LockFits(v, writer[v])'
             /\ writer[v].pc \in {"landed", "digested"}
                  => \/ Target(v) \in cut'
                     \/ writer'[v].pc \in {"landed", "digested"} /\ writer'[v].g = Target(v)
  <2>1. CASE v = w
    BY <1>1, <2>1
  <2>2. CASE v # w
    <3>1. writer'[v] = writer[v]
      BY <1>1, <2>2
    <3>2. LockFits(v, writer[v])'
      BY <2>2, <3>1 DEF IInv, WriterInv, LockFits, Holding, Target
    <3>3. OpFits(writer'[v]) /\ ValueFits(writer'[v]) /\ OutcomeFits(writer'[v])
          /\ SealFits(writer'[v])
      BY <3>1 DEF IInv, WriterInv
    <3>4. writer[v].pc \in {"landed", "digested"}
            => writer'[v].pc \in {"landed", "digested"} /\ writer'[v].g = Target(v)
      BY <3>1 DEF Target
    <3> QED
      BY <3>2, <3>3, <3>4
  <2> QED
    BY <2>1, <2>2
<1>3. UNCHANGED <<ledger, history>> /\ aged \subseteq aged'
  OBVIOUS
<1> QED
  BY <1>1, <1>2, <1>3, NothingRecorded

LEMMA OpenKeeps ==
    ASSUME IInv, NEW w \in Writer, Open(w)
    PROVE  Core'
<1>1. UNCHANGED <<ledger, history, aged, cut>>
  BY DEF Open
<1>2. CASE At(w, "ready") /\ Locked(w) /\ Goes(w, "found") /\ UNCHANGED lock
  <2> DEFINE r == [writer[w] EXCEPT !.pc = "found"]
  <2>1. /\ r.pc = "found" /\ r.op = writer[w].op /\ r.g = writer[w].g
        /\ r.value = writer[w].value
    BY WriterFacts, RecGoes
  <2> HIDE DEF r
  <2>2. OpFits(r) /\ ValueFits(r) /\ LockFits(w, r) /\ SealFits(r)
    BY <1>2, <2>1, WriterFacts
       DEF At, OpFits, ValueFits, LockFits, SealFits, Busy, Landing, Holding
  <2>3. OutcomeFits(r)
    BY <1>2, <2>1, WriterFacts DEF At, OutcomeFits, Busy
  <2> QED
    BY <1>1, <1>2, <2>2, <2>3, GoesKeeps DEF r, At
<1>3. CASE At(w, "again") /\ Refuses(w) /\ UNCHANGED lock
  BY <1>1, <1>3, IdleIsFresh, FreshMoveKeeps DEF At, Refuses
<1>4. CASE /\ At(w, "ready") \/ At(w, "again")
           /\ ~Locked(w)
           /\ lock' = [lock EXCEPT ![Target(w)] = [owner |-> w, stale |-> FALSE]]
           /\ Goes(w, "inside")
  <2> DEFINE r == [writer[w] EXCEPT !.pc = "inside"]
             new == [owner |-> w, stale |-> FALSE]
  <2>1. /\ r \in WriterRec /\ r.pc = "inside" /\ r.op = writer[w].op /\ r.g = writer[w].g
        /\ r.value = writer[w].value
    BY WriterFacts, RecGoes
  <2>2. writer' = [writer EXCEPT ![w] = r] /\ writer'[w] = r
    BY <1>4, TypeParts DEF IInv, WriterOK, Goes
  <2>3. Target(w) \in Gameweek /\ writer[w].pc \in {"ready", "again"}
    BY <1>4, WriterFacts DEF At, OpFits, Busy, Target
  <2>4. new \in LockType /\ new # NoLock /\ new.owner = w /\ ~new.stale
    <3>1. new \in LockType
      BY DEF LockType
    <3>2. NoLock \notin LockType
      BY SeasonLedgerAssumption, Zenon DEF LockType
    <3> QED
      BY <3>1, <3>2, Zenon
  <2> HIDE DEF r, new
  <2>5. OpFits(r) /\ ValueFits(r) /\ SealFits(r)
    BY <2>1, <2>3, WriterFacts DEF OpFits, ValueFits, SealFits, Busy, Landing, Target
  <2>6. OutcomeFits(r)
    BY <2>1, <2>3, WriterFacts DEF OutcomeFits, Busy
  <2>7. lock' = [lock EXCEPT ![Target(w)] = new] /\ lock \in [Gameweek -> LockType \cup {NoLock}]
    BY <1>4, TypeParts DEF IInv, LockOK, LockType, new
  <2>8. lock'[Target(w)] = new /\ \A g \in Gameweek \ {Target(w)} : lock'[g] = lock[g]
    BY <2>3, <2>7
  <2>9. LockOK'
    BY <2>3, <2>4, <2>7 DEF LockOK, LockType
  <2>10. LocksAreYoung'
    BY <1>1, <2>4, <2>8 DEF IInv, LocksAreYoung
  <2>11. LockFits(w, writer[w])'
    BY <2>1, <2>2, <2>4, <2>8 DEF LockFits, Target
  <2>12. ASSUME NEW v \in Writer \ {w}, Target(v) \in Gameweek \ aged, Holding(writer[v])
         PROVE  lock'[Target(v)] = lock[Target(v)]
    <3>1. lock[Target(v)] # NoLock
      BY <2>12 DEF IInv, WriterInv, LockFits, Target
    <3> QED
      BY <1>4, <2>8, <2>12, <3>1 DEF Locked
  <2> QED
    BY <1>1, <2>1, <2>2, <2>3, <2>5, <2>6, <2>9, <2>10, <2>11, <2>12, LockStepKeeps
<1> QED
  BY <1>2, <1>3, <1>4 DEF Open

\* The lock file of w's gameweek is gone.
LEMMA LockRemoved ==
    ASSUME IInv, NEW g \in Gameweek, lock' = [lock EXCEPT ![g] = NoLock], aged' = aged
    PROVE  /\ LockOK' /\ LocksAreYoung'
           /\ \A h \in Gameweek \ {g} : lock'[h] = lock[h]
<1>1. lock \in [Gameweek -> LockType \cup {NoLock}]
  BY TypeParts DEF IInv, LockOK, LockType
<1>2. lock'[g] = NoLock /\ \A h \in Gameweek \ {g} : lock'[h] = lock[h]
  BY <1>1
<1>3. LockOK'
  BY <1>1 DEF LockOK, LockType
<1>4. LocksAreYoung'
  BY <1>2 DEF IInv, LocksAreYoung
<1> QED
  BY <1>2, <1>3, <1>4

LEMMA BreakKeeps ==
    ASSUME IInv, NEW w \in Writer, Break(w)
    PROVE  Core'
<1> DEFINE r == [writer[w] EXCEPT !.pc = "again"]
<1>1. /\ r \in WriterRec /\ r.pc = "again" /\ r.op = writer[w].op /\ r.g = writer[w].g
      /\ r.value = writer[w].value
  BY WriterFacts, RecGoes
<1>2. writer' = [writer EXCEPT ![w] = r] /\ writer'[w] = r
  BY TypeParts DEF IInv, WriterOK, Break, Goes
<1>3. Target(w) \in Gameweek /\ writer[w].pc = "breaking" /\ Target(w) \in aged
  BY WriterFacts DEF Break, At, OpFits, LockFits, Busy, Target
<1> HIDE DEF r
<1>4. OpFits(r) /\ ValueFits(r) /\ SealFits(r)
  BY <1>1, <1>3, WriterFacts DEF OpFits, ValueFits, SealFits, Busy, Landing, Target
<1>5. OutcomeFits(r)
  BY <1>1, <1>3, WriterFacts DEF OutcomeFits, Busy
<1>6. UNCHANGED <<ledger, history, aged, cut>>
  BY DEF Break
<1>7. LockOK' /\ LocksAreYoung' /\ \A h \in Gameweek \ {Target(w)} : lock'[h] = lock[h]
  BY <1>3, LockRemoved DEF Break
<1>8. LockFits(w, writer[w])'
  BY <1>1, <1>2, <1>3, <1>6 DEF LockFits, Target
<1>9. \A v \in Writer \ {w} : Target(v) \in Gameweek \ aged => lock'[Target(v)] = lock[Target(v)]
  BY <1>3, <1>7
<1> QED
  BY <1>1, <1>2, <1>3, <1>4, <1>5, <1>6, <1>7, <1>8, <1>9, LockStepKeeps

\* Two writers never hold one gameweek that no lock has grown old for.
LEMMA OneHolder ==
    ASSUME IInv, NEW w \in Writer, Holding(writer[w]), NEW v \in Writer \ {w},
           Target(v) \in Gameweek \ aged, Holding(writer[v])
    PROVE  Target(v) # Target(w)
  BY DEF IInv, WriterInv, LockFits, Target

LEMMA UnlockKeeps ==
    ASSUME IInv, NEW w \in Writer, Unlock(w)
    PROVE  Core'
<1>1. PICK r \in WriterRec : Fresh(r) /\ writer' = [writer EXCEPT ![w] = r]
  BY WriterFacts, IdleIsFresh, NextCallIsFresh DEF Unlock, Refuses
<1>2. Target(w) \in Gameweek /\ writer[w].pc = "unlocking"
  BY WriterFacts DEF Unlock, At, OpFits, Busy, Target
<1>3. writer'[w] = r
  BY <1>1, TypeParts DEF IInv, WriterOK
<1>4. UNCHANGED <<ledger, history, aged, cut>>
  BY DEF Unlock
<1>5. LockOK' /\ LocksAreYoung' /\ \A h \in Gameweek \ {Target(w)} : lock'[h] = lock[h]
  BY <1>2, LockRemoved DEF Unlock
<1>6. LockFits(w, writer[w])'
  BY <1>1, <1>3 DEF LockFits, Fresh, Holding
<1>7. ASSUME NEW v \in Writer \ {w}, Target(v) \in Gameweek \ aged, Holding(writer[v])
      PROVE  lock'[Target(v)] = lock[Target(v)]
  BY <1>2, <1>5, <1>7, OneHolder DEF Holding
<1>8. OpFits(r) /\ ValueFits(r) /\ OutcomeFits(r) /\ SealFits(r)
  BY <1>1, FreshFits
<1> QED
  BY <1>1, <1>2, <1>4, <1>5, <1>6, <1>7, <1>8, LockStepKeeps

LEMMA DiesKeeps ==
    ASSUME IInv, NEW w \in Writer, Dies(w)
    PROVE  Core'
<1>1. /\ writer' = [writer EXCEPT ![w] = Idle] /\ writer'[w] = Idle
      /\ Idle \in WriterRec /\ Fresh(Idle)
  BY TypeParts, IdleIsFresh DEF IInv, WriterOK, Dies, Refuses
<1>2. /\ UNCHANGED <<ledger, history, aged>> /\ cut \subseteq cut'
      /\ writer[w].pc \in {"landed", "digested"} => Target(w) \in cut'
  BY DEF Dies, CutNow
<1>3. lock \in [Gameweek -> LockType \cup {NoLock}]
  BY TypeParts DEF IInv, LockOK, LockType
<1>4. \A g \in Gameweek :
        IF lock[g] # NoLock /\ lock[g].owner = w
        THEN lock'[g] = [lock[g] EXCEPT !.owner = NoWriter] ELSE lock'[g] = lock[g]
  BY DEF Dies
<1>5. ASSUME NEW g \in Gameweek
      PROVE  /\ lock'[g] \in LockType \cup {NoLock}
             /\ lock'[g] # NoLock => lock[g] # NoLock /\ lock'[g].stale = lock[g].stale
  <2>1. CASE lock[g] # NoLock /\ lock[g].owner = w
    <3>1. lock[g] \in LockType
      BY <1>3, <2>1
    <3> QED
      BY <1>4, <2>1, <3>1 DEF LockType
  <2>2. CASE ~(lock[g] # NoLock /\ lock[g].owner = w)
    BY <1>3, <1>4, <2>2
  <2> QED
    BY <2>1, <2>2
<1>6. LockOK'
  <2>1. lock' = [g \in Gameweek |-> lock'[g]]
    BY DEF Dies
  <2> QED
    BY <1>5, <2>1 DEF LockOK, LockType
<1>7. LocksAreYoung'
  BY <1>2, <1>5 DEF IInv, LocksAreYoung
<1>8. LockFits(w, writer[w])'
  BY <1>1 DEF LockFits, Fresh, Holding
<1>9. ASSUME NEW v \in Writer \ {w}, Target(v) \in Gameweek \ aged, Holding(writer[v])
      PROVE  lock'[Target(v)] = lock[Target(v)]
  <2>1. lock[Target(v)].owner = v
    BY <1>9 DEF IInv, WriterInv, LockFits, Target
  <2> QED
    BY <1>4, <1>9, <2>1
<1>10. OpFits(Idle) /\ ValueFits(Idle) /\ OutcomeFits(Idle) /\ SealFits(Idle)
  BY <1>1, FreshFits
<1> QED
  BY <1>1, <1>2, <1>6, <1>7, <1>8, <1>9, <1>10, LockStepKeeps

LEMMA AgeKeeps ==
    ASSUME IInv, NEW g \in Gameweek, Age(g)
    PROVE  Core'
<1>1. /\ UNCHANGED <<ledger, history, writer, cut>> /\ aged' = aged \cup {g}
      /\ lock[g] # NoLock /\ lock' = [lock EXCEPT ![g].stale = TRUE]
  BY DEF Age
<1>2. lock \in [Gameweek -> LockType \cup {NoLock}] /\ lock[g] \in LockType
  BY <1>1, TypeParts DEF IInv, LockOK, LockType
<1>3. LockOK' /\ \A h \in Gameweek \ {g} : lock'[h] = lock[h]
  BY <1>1, <1>2 DEF LockOK, LockType
<1>4. LocksAreYoung'
  BY <1>1, <1>3 DEF IInv, LocksAreYoung
<1>5. WriterOK' /\ aged \subseteq aged' /\ cut \subseteq cut'
  BY <1>1, TypeParts DEF IInv, WriterOK
<1>6. ASSUME NEW v \in Writer
      PROVE  /\ OpFits(writer'[v]) /\ ValueFits(writer'[v])
             /\ OutcomeFits(writer'[v]) /\ SealFits(writer'[v])
             /\ LockFits(v, writer[v])'
             /\ writer[v].pc \in {"landed", "digested"}
                  => \/ Target(v) \in cut'
                     \/ writer'[v].pc \in {"landed", "digested"} /\ writer'[v].g = Target(v)
  <2>1. writer'[v] = writer[v]
    BY <1>1
  <2>2. LockFits(v, writer[v])'
    BY <1>1, <1>3, <2>1 DEF IInv, WriterInv, LockFits, Holding
  <2>3. OpFits(writer'[v]) /\ ValueFits(writer'[v]) /\ OutcomeFits(writer'[v])
        /\ SealFits(writer'[v])
    BY <2>1 DEF IInv, WriterInv
  <2> QED
    BY <2>1, <2>2, <2>3 DEF Target
<1> QED
  BY <1>1, <1>3, <1>4, <1>5, <1>6, NothingRecorded

-------------------------------------------------------------------------------
\* Steps that record something

LEMMA WriterGoes ==
    ASSUME IInv, NEW w \in Writer, NEW pc \in {"landed", "unlocking"}, Goes(w, pc)
    PROVE  /\ WriterOK'
           /\ writer'[w].pc = pc /\ Op(w)' = Op(w) /\ Target(w)' = Target(w)
           /\ \A v \in Writer \ {w} : writer'[v] = writer[v]
<1> DEFINE r == [writer[w] EXCEPT !.pc = pc]
<1>0. pc \in {"found", "breaking", "again", "inside", "staged", "landed", "digested",
              "unlocking", "capturing", "replanning"}
  OBVIOUS
<1>1. r \in WriterRec /\ r.pc = pc /\ r.op = writer[w].op /\ r.g = writer[w].g
  <2>1. writer[w] \in WriterRec
    BY WriterFacts
  <2> QED
    BY <2>1 DEF WriterRec
<1>2. writer' = [writer EXCEPT ![w] = r]
  BY TypeParts DEF IInv, WriterOK, Goes
<1> HIDE DEF r
<1>3. WriterOK' /\ writer'[w] = r /\ \A v \in Writer \ {w} : writer'[v] = writer[v]
  BY <1>1, <1>2, TypeParts, WriterMoved DEF IInv
<1> QED
  BY <1>1, <1>3 DEF Op, Target

\* An entry that fits lands: the chain grows by it.
LEMMA ChainGrows ==
    ASSUME LedgerOK, HistoryOK, ChainInv, NEW g \in Gameweek, NEW v, Fits(g, v),
           entry[g] = NoEntry,
           entry' = [entry EXCEPT ![g] = v],
           held' = [held EXCEPT ![g] = HeldAfter(g, v)],
           bank' = [bank EXCEPT ![g] = BankedAfter(g, v)]
    PROVE  ChainInv' /\ HistoryOK'
<1>1. v \in Entry /\ v # NoEntry
  BY SeasonLedgerAssumption DEF Fits
<1>2. /\ entry'[g] = v /\ held'[g] = HeldAfter(g, v) /\ bank'[g] = BankedAfter(g, v)
      /\ \A h \in Gameweek \ {g} : entry'[h] = entry[h] /\ held'[h] = held[h] /\ bank'[h] = bank[h]
  BY DEF LedgerOK, HistoryOK
<1>3. g # 1 => g - 1 \in Gameweek /\ entry[g - 1] # NoEntry /\ v.base = held[g - 1]
  BY WeekBefore DEF Fits
<1>4. g = 1 => v = Opening /\ v.chip = "none"
  BY DEF Fits, Opening
<1>5. Gameweek \subseteq Nat /\ 1 \in Gameweek
  BY FirstGameweek
<1>6. \A h \in Gameweek : h < g => entry[h] # NoEntry
  <2>1. ASSUME NEW h \in Gameweek, h < g
        PROVE  entry[h] # NoEntry
    <3>1. g # 1 /\ (h = g - 1 \/ h < g - 1)
      BY <1>5, <2>1, WeekBefore DEF Gameweek
    <3> QED
      BY <1>3, <3>1 DEF ChainInv
  <2> QED
    BY <2>1
<1>7. \A h \in Gameweek : entry[h] # NoEntry => h < g
  BY <1>5 DEF ChainInv
<1>8. HistoryOK'
  <2>1. HeldAfter(g, v) \in Gameweek
    BY <1>1, <1>3, <1>4 DEF HeldAfter, Entry, HistoryOK
  <2>2. BankedAfter(g, v) \in 0..Cap
    <3>1. CASE g = 1
      BY <1>4, <3>1, OpeningFits, SeasonRulesAssumption
    <3>2. CASE g # 1
      <4>1. bank[g - 1] \in 0..Cap /\ v.count \in Nat /\ v.chip \in Chip
        BY <1>1, <1>3, <3>2 DEF HistoryOK, Entry
      <4>2. BankedAfter(g, v) = BankAfter(bank[g - 1], v.count, v.chip \in TransferChip)
        BY <3>2 DEF BankedAfter
      <4> QED
        BY <4>1, <4>2, AccountsAgree
    <3> QED
      BY <3>1, <3>2
  <2> QED
    BY <2>1, <2>2 DEF HistoryOK
<1>9. \A h, i \in Gameweek : i < h /\ entry'[h] # NoEntry => entry'[i] # NoEntry
  BY <1>1, <1>2, <1>5, <1>6, <1>7 DEF ChainInv
<1>10. entry'[1] # NoEntry => entry'[1].chip = "none"
  BY <1>2, <1>4, <1>5 DEF ChainInv
<1>11. ASSUME NEW h \in Gameweek, entry'[h] # NoEntry
       PROVE  \E i \in Gameweek : IsBasis(h, i)' /\ held'[h] = entry'[i].squad
  <2>1. CASE h = g /\ v.chip # "freehit"
    <3>1. entry'[g] = v /\ held'[g] = v.squad
      BY <1>2, <2>1 DEF HeldAfter
    <3>2. g \in 1..g /\ (g + 1)..g = {}
      BY <1>5 DEF Gameweek
    <3>3. IsBasis(g, g)'
      BY <2>1, <3>1, <3>2 DEF IsBasis, IsFreeHit
    <3> QED
      BY <2>1, <3>1, <3>3
  <2>2. CASE h = g /\ v.chip = "freehit"
    <3>1. g # 1
      BY <1>4, <2>2
    <3>2. PICK i \in Gameweek : IsBasis(g - 1, i) /\ held[g - 1] = entry[i].squad
      BY <1>3, <3>1 DEF ChainInv
    <3>3. i < g /\ i \in 1..g
      BY <1>5, <3>1, <3>2 DEF IsBasis, Gameweek
    <3>4. entry'[i] = entry[i]
      BY <1>2, <1>5, <3>3
    <3>5. ASSUME NEW j \in (i + 1)..g
          PROVE  entry'[j].chip = "freehit"
      <4>1. CASE j = g
        BY <1>2, <2>2, <4>1
      <4>2. CASE j # g
        <5>1. j \in (i + 1)..(g - 1) /\ j \in Gameweek
          <6>1. i \in Nat /\ g \in 1..Gameweeks /\ i >= 1 /\ j \in Int /\ i + 1 <= j /\ j <= g
            BY <1>5, <3>3, <3>5 DEF Gameweek
          <6> QED
            BY <4>2, <6>1, SeasonRulesAssumption DEF Gameweek
        <5> QED
          BY <1>2, <3>2, <4>2, <5>1 DEF IsBasis, IsFreeHit
      <4> QED
        BY <4>1, <4>2
    <3>6. IsBasis(g, i)'
      BY <3>2, <3>3, <3>4, <3>5 DEF IsBasis, IsFreeHit
    <3>7. held'[g] = entry'[i].squad
      BY <1>2, <2>2, <3>2, <3>4 DEF HeldAfter
    <3> QED
      BY <2>2, <3>6, <3>7
  <2>3. CASE h # g
    <3>1. entry[h] # NoEntry /\ h < g
      BY <1>2, <1>7, <1>11, <2>3
    <3>2. PICK i \in Gameweek : IsBasis(h, i) /\ held[h] = entry[i].squad
      BY <3>1 DEF ChainInv
    <3>3. \A j \in 1..h : entry'[j] = entry[j]
      BY <1>2, <1>5, <3>1 DEF Gameweek
    <3>4. \A j \in (i + 1)..h : j \in 1..h
      BY <1>5
    <3>5. IsBasis(h, i)'
      BY <3>2, <3>3, <3>4 DEF IsBasis, IsFreeHit
    <3> QED
      BY <1>2, <2>3, <3>2, <3>3, <3>5 DEF IsBasis
  <2> QED
    BY <2>1, <2>2, <2>3
<1>12. StartsFromHeldSquad'
  <2> SUFFICES ASSUME NEW h \in Gameweek \ {1}, entry'[h] # NoEntry
               PROVE  entry'[h].base = held'[h - 1]
    BY DEF StartsFromHeldSquad
  <2>1. h - 1 \in Gameweek /\ h - 1 < h
    BY WeekBefore
  <2>2. CASE h = g
    BY <1>2, <1>3, <2>1, <2>2
  <2>3. CASE h # g
    <3>1. entry[h] # NoEntry /\ entry[h - 1] # NoEntry
      BY <1>2, <2>1, <2>3 DEF ChainInv
    <3> QED
      BY <1>2, <2>1, <2>3, <3>1 DEF ChainInv, StartsFromHeldSquad
  <2> QED
    BY <2>2, <2>3
<1>13. FreeTransfersAgree'
  BY <1>2 DEF FreeTransfersAgree, ChainInv, Fits, Banked
<1> QED
  BY <1>8, <1>9, <1>10, <1>11, <1>12, <1>13 DEF ChainInv

\* What another writer is about to land still fits once gameweek g has its entry.
LEMMA FitsStands ==
    ASSUME LedgerOK, NEW g \in Gameweek, entry[g] = NoEntry, NEW h \in Gameweek, NEW v,
           Fits(h, v),
           \A i \in Gameweek \ {g} : entry'[i] = entry[i] /\ held'[i] = held[i]
                                     /\ bank'[i] = bank[i]
    PROVE  Fits(h, v)'
<1>1. CASE h = 1
  BY <1>1 DEF Fits, BankedAfter, Opening
<1>2. CASE h # 1
  <2>1. h - 1 \in Gameweek \ {g} /\ entry[h - 1] # NoEntry
    BY <1>2, WeekBefore DEF Fits
  <2>2. /\ entry'[h - 1] = entry[h - 1] /\ held'[h - 1] = held[h - 1]
        /\ bank'[h - 1] = bank[h - 1]
    BY <2>1
  <2> QED
    BY <1>2, <2>1, <2>2 DEF Fits, BankedAfter
<1> QED
  BY <1>1, <1>2

LEMMA LandEntryKeeps ==
    ASSUME IInv, NEW w \in Writer, LandEntry(w)
    PROVE  Core'
<1> DEFINE g == Target(w)
           v == writer[w].value
<1>1. writer[w].pc = "staged" /\ Op(w) \in {"decide", "roll"} /\ g \in Gameweek
  BY WriterFacts DEF LandEntry, At, OpFits, Busy, Target
<1>2. UNCHANGED <<outcome, sealed, lock, aged, cut>>
  BY DEF LandEntry
<1>3. CASE entry[g] = NoEntry
  <2>1. /\ entry' = [entry EXCEPT ![g] = v]
        /\ held' = [held EXCEPT ![g] = HeldAfter(g, v)]
        /\ bank' = [bank EXCEPT ![g] = BankedAfter(g, v)]
        /\ Goes(w, "unlocking")
    BY <1>3, Zenon DEF LandEntry, CanLand
  <2>2. Fits(g, v)
    BY <1>1, WriterFacts DEF ValueFits, Landing, Op, Target
  <2>3. LedgerOK /\ HistoryOK /\ LockOK /\ ChainInv
    BY TypeParts DEF IInv
  <2> HIDE DEF v
  <2>4. ChainInv' /\ HistoryOK'
    BY <1>1, <1>3, <2>1, <2>2, <2>3, ChainGrows DEF g
  <2>5. LedgerOK'
    BY <1>1, <1>2, <2>1, <2>2, <2>3 DEF LedgerOK, Fits
  <2>6. /\ WriterOK' /\ writer'[w].pc = "unlocking" /\ writer'[w].op = Op(w)
        /\ writer'[w].g = g /\ \A u \in Writer \ {w} : writer'[u] = writer[u]
    BY <2>1, WriterGoes DEF Op, Target
  <2>7. \A i \in Gameweek \ {g} : /\ entry'[i] = entry[i] /\ held'[i] = held[i]
                                  /\ bank'[i] = bank[i]
    BY <2>1, <2>3 DEF LedgerOK, HistoryOK
  <2>8. WriterInv'
    <3>1. ASSUME NEW u \in Writer \ {w}
          PROVE  (/\ OpFits(writer[u]) /\ ValueFits(writer[u]) /\ LockFits(u, writer[u])
                  /\ OutcomeFits(writer[u]) /\ SealFits(writer[u]))'
      <4>1. writer'[u] = writer[u]
        BY <2>6
      <4>2. OpFits(writer[u])'
        BY <4>1, WriterFacts DEF OpFits, Busy
      <4>3. ValueFits(writer[u])'
        <5>1. ASSUME Landing(writer[u]), writer[u].op \in {"decide", "roll"}
              PROVE  Fits(writer[u].g, writer[u].value)'
          <6>1. writer[u].g \in Gameweek /\ Fits(writer[u].g, writer[u].value)
            BY <5>1, WriterFacts DEF OpFits, ValueFits, Landing, Busy
          <6>2. PICK h \in Gameweek : h = writer[u].g
            BY <6>1
          <6>3. PICK x : x = writer[u].value
            OBVIOUS
          <6>4. Fits(h, x)
            BY <6>1, <6>2, <6>3
          <6>5. Fits(h, x)'
            BY <1>1, <1>3, <2>3, <2>7, <6>4, FitsStands
          <6> QED
            BY <4>1, <6>2, <6>3, <6>5 DEF Fits, BankedAfter
        <5> QED
          BY <4>1, <5>1 DEF ValueFits, Landing
      <4>4. LockFits(u, writer[u])'
        BY <1>2, <4>1, WriterFacts DEF LockFits, Holding
      <4>5. OutcomeFits(writer[u])' /\ SealFits(writer[u])'
        BY <1>2, <4>1, WriterFacts DEF OutcomeFits, SealFits, Busy
      <4> QED
        BY <4>2, <4>3, <4>4, <4>5
    <3>2. (OpFits(writer[w]) /\ ValueFits(writer[w]) /\ SealFits(writer[w]))'
      BY <1>1, <2>6 DEF OpFits, ValueFits, SealFits, Landing
    <3>3. LockFits(w, writer[w])' /\ OutcomeFits(writer[w])'
      BY <1>1, <1>2, <2>6, WriterFacts DEF LockFits, OutcomeFits, Holding, Busy, Target
    <3> QED
      BY <3>1, <3>2, <3>3 DEF WriterInv
  <2>9. LockOK' /\ LocksAreYoung' /\ EntriesAreReadable'
    BY <1>2, <2>3 DEF IInv, LockOK, LocksAreYoung, EntriesAreReadable, IsReadable
  <2>10. UnsealedIsExplained'
    <3> SUFFICES ASSUME NEW h \in Gameweek \ cut, outcome[h] # NoOutcome, sealed[h] = NoOutcome
                 PROVE  \E u \in Writer : /\ writer'[u].g = h
                                          /\ writer'[u].pc \in {"landed", "digested"}
      BY <1>2 DEF UnsealedIsExplained, Target
    <3>1. PICK u \in Writer : Target(u) = h /\ writer[u].pc \in {"landed", "digested"}
      BY DEF IInv, UnsealedIsExplained
    <3>2. u # w
      BY <1>1, <3>1
    <3> QED
      BY <2>6, <3>1, <3>2 DEF Target
  <2> QED
    BY <2>3, <2>4, <2>5, <2>6, <2>8, <2>9, <2>10 DEF Core
<1>4. CASE entry[g] # NoEntry
  <2> DEFINE r == [writer[w] EXCEPT !.pc = "unlocking", !.settles = {}, !.decides = {}]
  <2>0. Abandons(w) /\ UNCHANGED <<entry, history>>
    BY <1>4, Zenon DEF LandEntry, CanLand
  <2>1. r \in WriterRec /\ r.pc = "unlocking" /\ r.op = Op(w) /\ r.g = Target(w)
    BY WriterFacts, RecAbandons DEF Op, Target
  <2>2. Move(w, r)
    BY <1>1, <1>2, <2>0, TypeParts DEF IInv, WriterOK, Move, Abandons, ledger
  <2> HIDE DEF r
  <2>3. OpFits(r) /\ ValueFits(r) /\ SealFits(r)
    BY <1>1, <2>1 DEF OpFits, ValueFits, SealFits, Landing
  <2>4. LockFits(w, r) /\ OutcomeFits(r)
    BY <1>1, <2>1, WriterFacts DEF LockFits, OutcomeFits, Holding, Busy, Op, Target
  <2> QED
    BY <2>1, <2>2, <2>3, <2>4, MoveKeeps
<1> QED
  BY <1>3, <1>4

\* A writer that records an outcome or its digest: what the entries and the locks promise
\* stands as it is.
LEMMA RestStands ==
    ASSUME IInv, UNCHANGED <<entry, lock, history, aged>>
    PROVE  /\ LockOK' /\ HistoryOK' /\ ChainInv' /\ LocksAreYoung'
           /\ \A u \in Writer : writer'[u] = writer[u]
                => OpFits(writer[u])' /\ ValueFits(writer[u])' /\ LockFits(u, writer[u])'
<1>1. LockOK' /\ HistoryOK' /\ LocksAreYoung'
  BY TypeParts DEF IInv, LockOK, HistoryOK, LocksAreYoung, history
<1>2. ChainInv'
  BY ChainStands DEF IInv
<1>3. ASSUME NEW u \in Writer, writer'[u] = writer[u]
      PROVE  OpFits(writer[u])' /\ ValueFits(writer[u])' /\ LockFits(u, writer[u])'
  <2>1. OpFits(writer[u])'
    BY <1>3, WriterFacts DEF OpFits, Busy
  <2>2. ValueFits(writer[u])'
    <3>1. ValueFits(writer[u])
      BY WriterFacts
    <3> QED
      BY <1>3, <3>1 DEF ValueFits, Landing, Fits, BankedAfter, Opening, history
  <2>3. LockFits(u, writer[u])'
    BY <1>3, WriterFacts DEF LockFits, Holding
  <2> QED
    BY <2>1, <2>2, <2>3
<1> QED
  BY <1>1, <1>2, <1>3

LEMMA LandOutcomeKeeps ==
    ASSUME IInv, NEW w \in Writer, LandOutcome(w)
    PROVE  Core'
<1> DEFINE g == Target(w)
<1>1. writer[w].pc = "staged" /\ Op(w) = "settle" /\ g \in Gameweek
  BY WriterFacts DEF LandOutcome, At, OpFits, Busy, Target
<1>2. /\ UNCHANGED <<entry, sealed, lock, history, aged, cut>>
      /\ outcome' = [outcome EXCEPT ![g] = w] /\ Goes(w, "landed")
  BY DEF LandOutcome
<1>3. LedgerOK /\ HistoryOK
  BY TypeParts DEF IInv
<1>4. outcome'[g] = w /\ w # NoOutcome /\ \A h \in Gameweek \ {g} : outcome'[h] = outcome[h]
  BY <1>1, <1>2, <1>3, SeasonLedgerAssumption DEF LedgerOK
<1>5. LedgerOK'
  BY <1>1, <1>2, <1>3 DEF LedgerOK
<1>6. /\ WriterOK' /\ writer'[w].pc = "landed" /\ writer'[w].op = Op(w)
      /\ writer'[w].g = g /\ \A u \in Writer \ {w} : writer'[u] = writer[u]
  BY <1>2, WriterGoes DEF Op, Target
<1>7. /\ LockOK' /\ HistoryOK' /\ ChainInv' /\ LocksAreYoung'
      /\ \A u \in Writer : writer'[u] = writer[u]
            => OpFits(writer[u])' /\ ValueFits(writer[u])' /\ LockFits(u, writer[u])'
  BY <1>2, RestStands
<1>8. g \notin aged => outcome[g] = NoOutcome
  BY <1>1, WriterFacts DEF SealFits, Op, Target
<1> HIDE DEF g
<1>9. ASSUME NEW u \in Writer \ {w}
      PROVE  OutcomeFits(writer[u])' /\ SealFits(writer[u])'
  <2>1. writer'[u] = writer[u]
    BY <1>6
  <2>2. OutcomeFits(writer[u])'
    <3>1. OutcomeFits(writer[u]) /\ OpFits(writer[u])
      BY WriterFacts
    <3>2. CASE Busy(writer[u])
      <4>1. writer[u].g \in Gameweek
        BY <3>1, <3>2 DEF OpFits
      <4>2. outcome[writer[u].g] # NoOutcome => outcome'[writer[u].g] # NoOutcome
        BY <1>4, <4>1
      <4> QED
        BY <2>1, <3>1, <4>2 DEF OutcomeFits, Busy
    <3>3. CASE ~Busy(writer[u])
      BY <2>1, <3>3 DEF OutcomeFits, Busy
    <3> QED
      BY <3>2, <3>3
  <2>3. SealFits(writer[u])'
    <3>1. SealFits(writer[u]) /\ OpFits(writer[u])
      BY WriterFacts
    <3>2. ASSUME writer[u].g \notin aged, writer[u].pc \in {"staged", "digested"}
          PROVE  outcome'[writer[u].g] = outcome[writer[u].g]
      <4>1. writer[u].g \in Gameweek /\ Holding(writer[u]) /\ Holding(writer[w])
        BY <1>1, <3>1, <3>2 DEF OpFits, Busy, Holding
      <4>2. writer[u].g # g
        BY <3>2, <4>1, OneHolder DEF Target, g
      <4> QED
        BY <1>4, <4>1, <4>2
    <3> QED
      BY <1>2, <2>1, <3>1, <3>2 DEF SealFits
  <2> QED
    BY <2>2, <2>3
<1>10. (OpFits(writer[w]) /\ ValueFits(writer[w]) /\ OutcomeFits(writer[w])
        /\ SealFits(writer[w]))'
  BY <1>1, <1>4, <1>6 DEF OpFits, ValueFits, OutcomeFits, SealFits, Landing
<1>11. LockFits(w, writer[w])'
  BY <1>1, <1>2, <1>6, WriterFacts DEF LockFits, Holding, Target, g
<1>12. WriterInv'
  BY <1>6, <1>7, <1>9, <1>10, <1>11 DEF WriterInv
<1>13. EntriesAreReadable'
  BY <1>1, <1>2, <1>4, <1>8 DEF IInv, EntriesAreReadable, IsReadable
<1>14. UnsealedIsExplained'
  <2> SUFFICES ASSUME NEW h \in Gameweek \ cut, outcome'[h] # NoOutcome, sealed[h] = NoOutcome
               PROVE  \E u \in Writer : /\ writer'[u].g = h
                                        /\ writer'[u].pc \in {"landed", "digested"}
    BY <1>2 DEF UnsealedIsExplained, Target
  <2>1. CASE h = g
    BY <1>6, <2>1
  <2>2. CASE h # g
    <3>1. PICK u \in Writer : Target(u) = h /\ writer[u].pc \in {"landed", "digested"}
      BY <1>4, <2>2 DEF IInv, UnsealedIsExplained
    <3>2. u # w
      BY <1>1, <3>1
    <3> QED
      BY <1>6, <3>1, <3>2 DEF Target
  <2> QED
    BY <2>1, <2>2
<1> QED
  BY <1>5, <1>6, <1>7, <1>12, <1>13, <1>14 DEF Core

LEMMA SealKeeps ==
    ASSUME IInv, NEW w \in Writer, Seal(w)
    PROVE  Core'
<1> DEFINE g == Target(w)
           d == writer[w].digest
<1>1. writer[w].pc = "digested" /\ Op(w) # "none" /\ g \in Gameweek
  BY WriterFacts DEF Seal, At, OpFits, Busy, Target, Op
<1>2. /\ UNCHANGED <<entry, outcome, lock, history, aged, cut>>
      /\ sealed' = [sealed EXCEPT ![g] = d] /\ Goes(w, "unlocking")
  BY DEF Seal
<1>3. LedgerOK /\ HistoryOK
  BY TypeParts DEF IInv
<1>4. /\ d \in Writer \cup {NoOutcome} /\ d # NoOutcome
      /\ g \notin aged => d = outcome[g]
      /\ outcome[g] # NoOutcome
  <2>1. d \in Writer \cup {NoOutcome}
    BY WriterFacts DEF WriterRec
  <2>2. d # NoOutcome /\ outcome[g] # NoOutcome
    BY <1>1, WriterFacts DEF OutcomeFits, Target
  <2>3. g \notin aged => d = outcome[g]
    BY <1>1, WriterFacts DEF SealFits, Target
  <2> QED
    BY <2>1, <2>2, <2>3
<1> HIDE DEF d
<1>5. sealed'[g] = d /\ \A h \in Gameweek \ {g} : sealed'[h] = sealed[h]
  BY <1>1, <1>2, <1>3 DEF LedgerOK
<1>6. LedgerOK'
  BY <1>1, <1>2, <1>3, <1>4 DEF LedgerOK
<1>7. /\ WriterOK' /\ writer'[w].pc = "unlocking" /\ writer'[w].op = Op(w)
      /\ writer'[w].g = g /\ \A u \in Writer \ {w} : writer'[u] = writer[u]
  BY <1>2, WriterGoes DEF Op, Target
<1>8. /\ LockOK' /\ HistoryOK' /\ ChainInv' /\ LocksAreYoung'
      /\ \A u \in Writer : writer'[u] = writer[u]
            => OpFits(writer[u])' /\ ValueFits(writer[u])' /\ LockFits(u, writer[u])'
  BY <1>2, RestStands
<1>9. ASSUME NEW u \in Writer \ {w}
      PROVE  OutcomeFits(writer[u])' /\ SealFits(writer[u])'
  BY <1>2, <1>7, WriterFacts DEF OutcomeFits, SealFits, Busy
<1>10. (OpFits(writer[w]) /\ ValueFits(writer[w]) /\ SealFits(writer[w]))'
  BY <1>1, <1>7 DEF OpFits, ValueFits, SealFits, Landing
<1>11. LockFits(w, writer[w])'
  BY <1>1, <1>2, <1>7, WriterFacts DEF LockFits, Holding, Target
<1>12. OutcomeFits(writer[w])'
  BY <1>2, <1>4, <1>7 DEF OutcomeFits
<1>13. WriterInv'
  BY <1>7, <1>8, <1>9, <1>10, <1>11, <1>12 DEF WriterInv
<1>14. EntriesAreReadable'
  BY <1>1, <1>2, <1>4, <1>5 DEF IInv, EntriesAreReadable, IsReadable
<1>15. UnsealedIsExplained'
  <2> SUFFICES ASSUME NEW h \in Gameweek \ cut, outcome[h] # NoOutcome, sealed'[h] = NoOutcome
               PROVE  \E u \in Writer : /\ writer'[u].g = h
                                        /\ writer'[u].pc \in {"landed", "digested"}
    BY <1>2 DEF UnsealedIsExplained, Target
  <2>1. h # g /\ sealed[h] = NoOutcome
    BY <1>4, <1>5
  <2>2. PICK u \in Writer : Target(u) = h /\ writer[u].pc \in {"landed", "digested"}
    BY <2>1 DEF IInv, UnsealedIsExplained
  <2>3. u # w
    BY <2>1, <2>2
  <2> QED
    BY <1>7, <2>2, <2>3 DEF Target
<1> QED
  BY <1>6, <1>7, <1>8, <1>13, <1>14, <1>15 DEF Core

-------------------------------------------------------------------------------
\* Every step

\* The game's own steps.
LEMMA GameStepKeeps ==
    ASSUME IInv, OpenWindow \/ PassDeadline \/ CheckWeek
    PROVE  Core' /\ GameOK' /\ MarksOK'
<1>1. /\ UNCHANGED <<ledger, lock, writer, captures, history, aged, cut, runs, faults>>
      /\ GameOK /\ MarksOK /\ WriterOK /\ LockOK
  BY TypeParts DEF IInv, OpenWindow, PassDeadline, CheckWeek
<1>2. GameOK'
  <2>1. CASE OpenWindow
    BY <1>1, <2>1, SeasonRulesAssumption DEF GameOK, OpenWindow, captures
  <2>2. CASE PassDeadline
    <3>1. /\ passed \in 0..Gameweeks /\ passed < Gameweeks /\ checked \in 0..Gameweeks
          /\ checked <= passed /\ Gameweeks \in Nat
      BY <1>1, <2>2, SeasonRulesAssumption DEF GameOK, PassDeadline
    <3>2. passed' = passed + 1 /\ window' = FALSE /\ checked' = checked
      BY <2>2 DEF PassDeadline
    <3>3. passed' \in 0..Gameweeks /\ checked' \in 0..Gameweeks /\ checked' <= passed'
      BY <3>1, <3>2
    <3> QED
      BY <1>1, <3>2, <3>3 DEF GameOK, captures
  <2>3. CASE CheckWeek
    BY <1>1, <2>3, SeasonRulesAssumption DEF GameOK, CheckWeek, captures
  <2> QED
    BY <2>1, <2>2, <2>3
<1>3. MarksOK'
  BY <1>1 DEF MarksOK
<1>4. WriterOK' /\ LockOK' /\ LocksAreYoung'
  BY <1>1 DEF WriterOK, LockOK, IInv, LocksAreYoung
<1>5. ASSUME NEW v \in Writer
      PROVE  /\ OpFits(writer'[v]) /\ ValueFits(writer'[v])
             /\ OutcomeFits(writer'[v]) /\ SealFits(writer'[v])
             /\ LockFits(v, writer[v])'
             /\ writer[v].pc \in {"landed", "digested"}
                  => \/ Target(v) \in cut'
                     \/ writer'[v].pc \in {"landed", "digested"} /\ writer'[v].g = Target(v)
  <2>1. LockFits(v, writer[v])'
    BY <1>1, WriterFacts DEF LockFits, Holding
  <2>2. OpFits(writer'[v]) /\ ValueFits(writer'[v]) /\ OutcomeFits(writer'[v])
        /\ SealFits(writer'[v])
    BY <1>1, WriterFacts
  <2> QED
    BY <1>1, <2>1, <2>2 DEF Target
<1>6. UNCHANGED <<ledger, history>> /\ aged \subseteq aged' /\ cut \subseteq cut'
  BY <1>1
<1> QED
  BY <1>2, <1>3, <1>4, <1>5, <1>6, NothingRecorded

LEMMA StutterKeeps ==
    ASSUME IInv, UNCHANGED vars
    PROVE  IInv'
<1>1. UNCHANGED <<ledger, game, captures, history>>
      /\ UNCHANGED <<lock, writer, aged, cut, runs, faults>>
  BY DEF vars
<1>2. TypeOK'
  BY <1>1 DEF IInv, TypeOK, ledger, game, captures, history
<1>3. ChainInv'
  BY <1>1, ChainStands DEF IInv, ledger
<1>4. WriterInv'
  BY <1>1 DEF IInv, WriterInv, OpFits, ValueFits, LockFits, OutcomeFits, SealFits, Fits,
              BankedAfter, Busy, Landing, Holding, ledger, history
<1>5. LocksAreYoung'
  BY <1>1 DEF IInv, LocksAreYoung
<1>6. EntriesAreReadable'
  BY <1>1 DEF IInv, EntriesAreReadable, IsReadable, ledger
<1>7. UnsealedIsExplained'
  BY <1>1 DEF IInv, UnsealedIsExplained, Target, ledger
<1> QED
  BY <1>2, <1>3, <1>4, <1>5, <1>6, <1>7 DEF IInv

\* A writer's step keeps the types of what it is not about.
LEMMA StepKeepsRest ==
    ASSUME IInv, NEW w \in Writer, Step(w)
    PROVE  GameOK' /\ MarksOK'
<1>1. GameOK /\ MarksOK
  BY TypeParts DEF IInv
<1>2. UNCHANGED game
  BY Zenon DEF Step, StartTick, Capture, Replan, Prepare, Open, ReadAge, Break, Recheck,
               LandEntry, LandOutcome, Digest, Seal, Unlock, Fails, Dies
<1>3. UNCHANGED captures \/ Capture(w)
  BY Zenon DEF Step, StartTick, Replan, Prepare, Open, ReadAge, Break, Recheck,
               LandEntry, LandOutcome, Digest, Seal, Unlock, Fails, Dies
<1>4. GameOK'
  <2>1. CASE UNCHANGED captures
    BY <1>1, <1>2, <2>1 DEF GameOK, game, captures
  <2>2. CASE Capture(w)
    <3>1. passed + 1 \in Gameweek \/ ~window
      BY <1>1, SeasonRulesAssumption DEF GameOK, Gameweek
    <3>2. latest' \in [passed : 0..Gameweeks, checked : 0..Gameweeks]
      BY <1>1, <2>2 DEF Capture, GameOK
    <3>3. captured' \subseteq Gameweek
      BY <1>1, <2>2, <3>1 DEF Capture, GameOK
    <3> QED
      BY <1>1, <1>2, <3>2, <3>3 DEF GameOK, game
  <2> QED
    BY <1>3, <2>1, <2>2
<1>5. aged' = aged
  BY Zenon DEF Step, StartTick, Capture, Replan, Prepare, Open, ReadAge, Break, Recheck,
               LandEntry, LandOutcome, Digest, Seal, Unlock, Fails, Dies
<1>6. cut' = cut \/ cut' = cut \cup CutNow(w)
  BY Zenon DEF Step, StartTick, Capture, Replan, Prepare, Open, ReadAge, Break, Recheck,
               LandEntry, LandOutcome, Digest, Seal, Unlock, Fails, Dies
<1>7. runs' = runs \/ runs' = runs + 1
  BY Zenon DEF Step, StartTick, Capture, Replan, Prepare, Open, ReadAge, Break, Recheck,
               LandEntry, LandOutcome, Digest, Seal, Unlock, Fails, Dies, Starts
<1>8. faults' = faults \/ faults' = faults + 1
  BY Zenon DEF Step, StartTick, Capture, Replan, Prepare, Open, ReadAge, Break, Recheck,
               LandEntry, LandOutcome, Digest, Seal, Unlock, Fails, Dies, Fault
<1>9. CutNow(w) \subseteq Gameweek
  BY WriterFacts DEF CutNow, OpFits, Busy, Target
<1> QED
  BY <1>1, <1>4, <1>5, <1>6, <1>7, <1>8, <1>9 DEF MarksOK

LEMMA StepKeeps ==
    ASSUME IInv, NEW w \in Writer, Step(w)
    PROVE  IInv'
<1>1. Core'
  <2>1. CASE StartTick(w) \/ Capture(w) \/ Replan(w) \/ Prepare(w)
    BY <2>1, StartTickKeeps, CaptureKeeps, ReplanKeeps, PrepareKeeps
  <2>2. CASE Open(w) \/ ReadAge(w) \/ Break(w) \/ Recheck(w) \/ Unlock(w)
    BY <2>2, OpenKeeps, ReadAgeKeeps, BreakKeeps, RecheckKeeps, UnlockKeeps
  <2>3. CASE LandEntry(w) \/ LandOutcome(w) \/ Digest(w) \/ Seal(w)
    BY <2>3, LandEntryKeeps, LandOutcomeKeeps, DigestKeeps, SealKeeps
  <2>4. CASE Fails(w) \/ Dies(w)
    BY <2>4, FailsKeeps, DiesKeeps
  <2> QED
    BY <2>1, <2>2, <2>3, <2>4, Zenon DEF Step
<1>2. GameOK' /\ MarksOK'
  BY StepKeepsRest
<1>3. TypeOK' <=> (LedgerOK /\ LockOK /\ WriterOK /\ GameOK /\ HistoryOK /\ MarksOK)'
  BY TypeParts, PTL
<1> QED
  BY <1>1, <1>2, <1>3 DEF IInv, Core

LEMMA HandStepKeeps ==
    ASSUME IInv, NEW w \in Writer, NEW g \in Gameweek, HandStep(w, g)
    PROVE  IInv'
<1>1. \E op \in {"decide", "roll", "settle"}, chip \in Chip : ByHand(w, op, g, chip)
  BY DEF HandStep, Chip
<1>2. PICK op \in {"decide", "roll", "settle"}, chip \in Chip : ByHand(w, op, g, chip)
  BY <1>1
<1>3. Core'
  BY <1>2, ByHandKeeps
<1>4. GameOK /\ MarksOK
  BY TypeParts DEF IInv
<1>5. GameOK'
  BY <1>2, <1>4 DEF ByHand, GameOK, game, captures
<1>6. MarksOK'
  BY <1>2, <1>4 DEF ByHand, MarksOK, Starts
<1>7. TypeOK' <=> (LedgerOK /\ LockOK /\ WriterOK /\ GameOK /\ HistoryOK /\ MarksOK)'
  BY TypeParts, PTL
<1> QED
  BY <1>3, <1>5, <1>6, <1>7 DEF IInv, Core

LEMMA AgeStepKeeps ==
    ASSUME IInv, NEW g \in Gameweek, Age(g)
    PROVE  IInv'
<1>1. Core'
  BY AgeKeeps
<1>2. GameOK /\ MarksOK
  BY TypeParts DEF IInv
<1>3. GameOK'
  BY <1>2 DEF Age, GameOK, game, captures
<1>4. MarksOK'
  BY <1>2 DEF Age, MarksOK, Fault
<1>5. TypeOK' <=> (LedgerOK /\ LockOK /\ WriterOK /\ GameOK /\ HistoryOK /\ MarksOK)'
  BY TypeParts, PTL
<1> QED
  BY <1>1, <1>3, <1>4, <1>5 DEF IInv, Core

LEMMA NextKeeps == IInv /\ [Next]_vars => IInv'
<1> SUFFICES ASSUME IInv, [Next]_vars
             PROVE  IInv'
  OBVIOUS
<1>1. CASE OpenWindow \/ PassDeadline \/ CheckWeek
  <2>1. TypeOK' <=> (LedgerOK /\ LockOK /\ WriterOK /\ GameOK /\ HistoryOK /\ MarksOK)'
    BY TypeParts, PTL
  <2> QED
    BY <1>1, <2>1, GameStepKeeps DEF IInv, Core
<1>2. CASE \E w \in Writer : Step(w)
  BY <1>2, StepKeeps
<1>3. CASE \E w \in Writer, g \in Gameweek : HandStep(w, g)
  BY <1>3, HandStepKeeps
<1>4. CASE \E g \in Gameweek : Age(g)
  BY <1>4, AgeStepKeeps
<1>5. CASE UNCHANGED vars
  BY <1>5, StutterKeeps
<1> QED
  BY <1>1, <1>2, <1>3, <1>4, <1>5, Zenon DEF Next

LEMMA InitHolds == Init => IInv
<1> SUFFICES ASSUME Init
             PROVE  IInv
  OBVIOUS
<1>1. LedgerOK /\ LockOK /\ MarksOK
  BY DEF Init, LedgerOK, LockOK, MarksOK
<1>2. WriterOK
  BY IdleIsRec DEF Init, WriterOK
<1>3. GameOK
  <2>1. /\ passed = 0 /\ window = FALSE /\ checked = 0 /\ latest = NoCapture /\ captured = {}
        /\ Gameweeks \in Nat \ {0}
    BY SeasonRulesAssumption DEF Init
  <2>2. passed \in 0..Gameweeks /\ checked \in 0..Gameweeks /\ checked <= passed
    BY <2>1
  <2>3. latest \in [passed : 0..Gameweeks, checked : 0..Gameweeks] \cup {NoCapture}
    BY <2>1
  <2>4. window \in BOOLEAN /\ ~window /\ captured \subseteq Gameweek
    BY <2>1
  <2> QED
    BY <2>2, <2>3, <2>4, Zenon DEF GameOK
<1>4. HistoryOK
  BY FirstGameweek, SeasonRulesAssumption DEF Init, HistoryOK
<1>5. ChainInv
  BY FirstGameweek DEF Init, ChainInv, StartsFromHeldSquad, FreeTransfersAgree
<1>6. WriterInv
  BY IdleIsFresh, FreshFits DEF Init, WriterInv
<1>7. LocksAreYoung /\ EntriesAreReadable /\ UnsealedIsExplained
  BY DEF Init, LocksAreYoung, EntriesAreReadable, IsReadable, UnsealedIsExplained
<1> QED
  BY <1>1, <1>2, <1>3, <1>4, <1>5, <1>6, <1>7, TypeParts DEF IInv

-------------------------------------------------------------------------------
\* The invariant that carries the others: what the writers rely on while they compute,
\* wait for a lock and write.
THEOREM InvariantHolds == Spec => []IInv
  BY InitHolds, NextKeeps, PTL DEF Spec

\* Every variable keeps its type.
THEOREM TypeCorrect == Spec => []TypeOK
<1>1. IInv => TypeOK
  BY DEF IInv
<1> QED
  BY <1>1, InvariantHolds, PTL

\* record_decision and record_roll never leave a gap: an entry computed while others are
\* recorded still finds the entry of the week before.
THEOREM NoGaps == Spec => []ChainHasNoGap
<1>1. IInv => ChainHasNoGap
  BY WeekBefore DEF IInv, ChainInv, ChainHasNoGap
<1> QED
  BY <1>1, InvariantHolds, PTL

\* held_squad_from_ledger finds the squad the game holds at the deadline, through any run of
\* rolls and free hits, even when the entry lands much later than it was computed.
THEOREM HeldSquadIsBasis == Spec => []StartsFromHeldSquad
<1>1. IInv => StartsFromHeldSquad
  BY DEF IInv, ChainInv
<1> QED
  BY <1>1, InvariantHolds, PTL

\* The planner's and the roll's count of free transfers is the banking model's in every
\* season, for every cap and every run of chips and transfers.
THEOREM TransfersAgree == Spec => []FreeTransfersAgree
<1>1. IInv => FreeTransfersAgree
  BY DEF IInv, ChainInv
<1> QED
  BY <1>1, InvariantHolds, PTL

\* However writers and their deaths interleave, the manifest fits the files of every entry
\* no lock of which has grown old.
THEOREM EntriesReadable == Spec => []EntriesAreReadable
<1>1. IInv => EntriesAreReadable
  BY DEF IInv
<1> QED
  BY <1>1, InvariantHolds, PTL

\* An outcome outside its manifest has a writer, or was left by one that died or failed.
THEOREM UnsealedExplained == Spec => []UnsealedIsExplained
<1>1. IInv => UnsealedIsExplained
  BY DEF IInv
<1> QED
  BY <1>1, InvariantHolds, PTL

LEMMA StepsKeepDecisions ==
    ASSUME IInv, [Next]_vars, NEW g \in Gameweek, entry[g] # NoEntry
    PROVE  entry'[g] = entry[g]
<1>1. CASE entry' = entry
  BY <1>1
<1>2. CASE \E w \in Writer : LandEntry(w)
  <2>1. PICK w \in Writer : LandEntry(w)
    BY <1>2
  <2>2. \/ entry' = entry
        \/ /\ entry[Target(w)] = NoEntry
           /\ entry' = [entry EXCEPT ![Target(w)] = writer[w].value]
    BY <2>1, Zenon DEF LandEntry, CanLand
  <2> QED
    BY <2>2, TypeParts DEF IInv, LedgerOK
<1>3. entry' = entry \/ \E w \in Writer : LandEntry(w)
  <2>1. CASE OpenWindow \/ PassDeadline \/ CheckWeek \/ UNCHANGED vars
    BY <2>1 DEF OpenWindow, PassDeadline, CheckWeek, vars, ledger
  <2>2. ASSUME NEW w \in Writer, Step(w)
        PROVE  entry' = entry \/ LandEntry(w)
    BY <2>2 DEF Step, StartTick, Capture, Replan, Prepare, Open, ReadAge, Break, Recheck,
                LandOutcome, Digest, Seal, Unlock, Fails, Dies, ledger
  <2>3. ASSUME NEW w \in Writer, NEW h \in Gameweek, HandStep(w, h)
        PROVE  entry' = entry
    BY <2>3 DEF HandStep, ByHand, ledger
  <2>4. ASSUME NEW h \in Gameweek, Age(h)
        PROVE  entry' = entry
    BY <2>4 DEF Age, ledger
  <2> QED
    BY <2>1, <2>2, <2>3, <2>4 DEF Next
<1> QED
  BY <1>1, <1>2, <1>3

\* The rename that lands an entry refuses one that is there, so a recorded decision or roll
\* stands whatever becomes of the lock.
THEOREM DecisionKept == Spec => DecisionIsKept
<1>1. IInv /\ [Next]_vars => [\A g \in Gameweek : entry[g] # NoEntry => entry'[g] = entry[g]]_vars
  BY StepsKeepDecisions
<1> QED
  BY <1>1, InvariantHolds, PTL DEF Spec, DecisionIsKept

LEMMA StepsKeepOutcomes ==
    ASSUME IInv, [Next]_vars, NEW g \in Gameweek \ aged, outcome[g] # NoOutcome
    PROVE  outcome'[g] = outcome[g]
<1>1. CASE outcome' = outcome
  BY <1>1
<1>2. CASE \E w \in Writer : LandOutcome(w)
  <2>1. PICK w \in Writer : LandOutcome(w)
    BY <1>2
  <2>2. outcome' = [outcome EXCEPT ![Target(w)] = w]
    BY <2>1 DEF LandOutcome
  <2>3. Target(w) # g
    BY <2>1, WriterFacts DEF LandOutcome, At, Op, Target, SealFits
  <2> QED
    BY <2>2, <2>3, TypeParts DEF IInv, LedgerOK
<1>3. outcome' = outcome \/ \E w \in Writer : LandOutcome(w)
  <2>1. CASE OpenWindow \/ PassDeadline \/ CheckWeek \/ UNCHANGED vars
    BY <2>1 DEF OpenWindow, PassDeadline, CheckWeek, vars, ledger
  <2>2. ASSUME NEW w \in Writer, Step(w)
        PROVE  outcome' = outcome \/ LandOutcome(w)
    BY <2>2 DEF Step, StartTick, Capture, Replan, Prepare, Open, ReadAge, Break, Recheck,
                LandEntry, Digest, Seal, Unlock, Fails, Dies, ledger
  <2>3. ASSUME NEW w \in Writer, NEW h \in Gameweek, HandStep(w, h)
        PROVE  outcome' = outcome
    BY <2>3 DEF HandStep, ByHand, ledger
  <2>4. ASSUME NEW h \in Gameweek, Age(h)
        PROVE  outcome' = outcome
    BY <2>4 DEF Age, ledger
  <2> QED
    BY <2>1, <2>2, <2>3, <2>4 DEF Next
<1> QED
  BY <1>1, <1>2, <1>3

\* Until a lock of its gameweek has grown old, an outcome that was recorded is never replaced,
\* although its rename would replace one.
THEOREM OutcomeKept == Spec => OutcomeIsKept
<1>1. IInv /\ [Next]_vars
        => [\A g \in Gameweek \ aged : outcome[g] # NoOutcome => outcome'[g] = outcome[g]]_vars
  BY StepsKeepOutcomes
<1> QED
  BY <1>1, InvariantHolds, PTL DEF Spec, OutcomeIsKept

-------------------------------------------------------------------------------
\* What the record's promises rest on beside the invariant: what is computed or due stays so
\* until it is written, since entries stand and the game only goes on

\* An entry about to land is the one its command asks for.
Lawful(r) ==
    /\ r.g \in Gameweek
    /\ r.g # 1 => entry[r.g - 1] # NoEntry
    /\ r.value.squad = IF r.value.count > 0 THEN r.g ELSE r.value.base
    /\ r.op = "decide" =>
        /\ r.value.kind = "decision"
        /\ r.g # 1 =>
            /\ r.value.count \in Counts
            /\ r.value.chip = "none" \/ IsOffered(r.g, ChipsUsed(r.g, r.value.chip))
    /\ r.op = "roll" =>
        /\ r.value.kind = "roll" /\ r.value.chip = "none" /\ r.value.count = 0
        /\ r.g # 1 /\ r.g <= passed /\ entry[r.g - 1].chip # "freehit"

Settling(r) == Busy(r) /\ r.op \in {"settle", "complete"}

DueFits(r) ==
    /\ \A g \in r.settles : g <= checked
    /\ Settling(r) => r.g <= checked /\ (r.pc # "called" => r.g \in Decided)
    /\ Landing(r) /\ r.op \in {"decide", "roll"} => Lawful(r)

CaptureFits == latest # NoCapture => latest.passed <= passed /\ latest.checked <= checked

DueInv == CaptureFits /\ \A w \in Writer : DueFits(writer[w])

\* Every gameweek before one that is recorded is recorded.
LEMMA NoGapBefore ==
    ASSUME ChainInv, NEW g \in Gameweek, g # 1, entry[g - 1] # NoEntry, NEW h \in 1..(g - 1)
    PROVE  h \in Gameweek /\ entry[h] # NoEntry
<1>1. g - 1 \in Gameweek /\ g \in Nat /\ g > 1
  BY WeekBefore
<1>2. h \in Gameweek /\ (h = g - 1 \/ h < g - 1)
  BY <1>1, SeasonRulesAssumption DEF Gameweek
<1> QED
  BY <1>1, <1>2 DEF ChainInv

LEMMA DueStands ==
    ASSUME IInv, GameOK', NEW r, DueFits(r), passed <= passed', checked <= checked',
           r \in WriterRec, \A g \in Gameweek : entry[g] # NoEntry => entry'[g] = entry[g]
    PROVE  DueFits(r)'
<1>1. GameOK /\ ChainInv
  BY TypeParts DEF IInv
<1>2. /\ passed \in Nat /\ passed' \in Nat /\ checked \in Nat /\ checked' \in Nat
      /\ Gameweek \subseteq Nat /\ r.settles \subseteq Gameweek /\ r.g \in Nat
  BY <1>1, SeasonRulesAssumption DEF GameOK, Gameweek, WriterRec
<1>3. (\A g \in r.settles : g <= checked)'
  BY <1>2 DEF DueFits
<1>4. (Settling(r) => r.g <= checked /\ (r.pc # "called" => r.g \in Decided))'
  BY <1>2 DEF DueFits, Settling, Busy, Decided
<1>5. ASSUME Lawful(r)
      PROVE  Lawful(r)'
  <2>1. r.g # 1 => r.g - 1 \in Gameweek /\ entry'[r.g - 1] = entry[r.g - 1]
    BY <1>5, WeekBefore DEF Lawful
  <2>2. r.g # 1 => ChipsUsed(r.g, r.value.chip)' = ChipsUsed(r.g, r.value.chip)
    <3> SUFFICES ASSUME r.g # 1, NEW h \in 1..(r.g - 1)
                 PROVE  entry'[h] = entry[h]
      BY DEF ChipsUsed
    <3> QED
      BY <1>1, <1>5, NoGapBefore DEF Lawful
  <2>3. r.g # 1 /\ IsOffered(r.g, ChipsUsed(r.g, r.value.chip))
          => IsOffered(r.g, ChipsUsed(r.g, r.value.chip))'
    BY <2>2
  <2>4. r.g <= passed => r.g <= passed'
    BY <1>2
  <2> QED
    BY <1>5, <2>1, <2>3, <2>4 DEF Lawful
<1> QED
  BY <1>3, <1>4, <1>5 DEF DueFits, Landing

\* The next thing a call does is about the same gameweek.
LEMMA SameCallIsDue ==
    ASSUME NEW r, DueFits(r), NEW q, q.op = r.op, q.g = r.g, q.value = r.value,
           q.settles \subseteq r.settles, Busy(r), r.pc # "called", Landing(q) => Landing(r)
    PROVE  DueFits(q)
  BY DEF DueFits, Settling, Lawful

LEMMA IdleIsDue == DueFits(Idle)
  BY DEF DueFits, Idle, Settling, Busy, Landing

LEMMA NextCallIsDue ==
    ASSUME NEW r \in WriterRec, \A g \in r.settles : g <= checked
    PROVE  DueFits(NextCall(r))
<1> DEFINE s == r.settles
           d == r.decides
<1>0. s \subseteq Gameweek /\ d \subseteq Gameweek /\ "none" \in Chip
  BY DEF WriterRec, Chip
<1>1. CASE s # {}
  <2>1. Min(s) \in s
    BY <1>0, <1>1, LeastIsThere, Zenon
  <2> DEFINE q == Called(r, "settle", Min(s), "none")
  <2>2. q \in WriterRec /\ q.pc = "called" /\ q.op = "settle" /\ q.g = Min(s)
    BY <1>0, <2>1, CalledIsRec
  <2>3. q.settles = s
    BY DEF Called, WriterRec
  <2>4. NextCall(r) = [q EXCEPT !.settles = @ \ {Min(s)}]
    BY <1>1 DEF NextCall
  <2> HIDE DEF q
  <2>5. /\ NextCall(r).pc = "called" /\ NextCall(r).op = "settle" /\ NextCall(r).g = Min(s)
        /\ NextCall(r).settles = s \ {Min(s)}
    BY <2>2, <2>3, <2>4 DEF WriterRec
  <2> QED
    BY <2>1, <2>5 DEF DueFits, Landing
<1>2. CASE s = {} /\ d # {}
  <2>1. Min(d) \in Gameweek
    BY <1>0, <1>2, LeastIsThere, Zenon
  <2> DEFINE q == Called(r, "decide", Min(d), "none")
  <2>2. q \in WriterRec /\ q.pc = "called" /\ q.op = "decide"
    BY <1>0, <2>1, CalledIsRec
  <2>3. q.settles = {}
    BY <1>2 DEF Called, WriterRec
  <2>4. NextCall(r) = [q EXCEPT !.decides = {}]
    BY <1>2 DEF NextCall
  <2> HIDE DEF q
  <2>5. /\ NextCall(r).pc = "called" /\ NextCall(r).op = "decide" /\ NextCall(r).settles = {}
    BY <2>2, <2>3, <2>4 DEF WriterRec
  <2> QED
    BY <2>5 DEF DueFits, Landing, Settling
<1>3. CASE s = {} /\ d = {}
  BY <1>3, IdleIsDue DEF NextCall
<1> QED
  BY <1>1, <1>2, <1>3

LEMMA PlannedIsDue ==
    ASSUME IInv, CaptureFits, NEW r \in WriterRec, NEW p \in Planned(r)
    PROVE  DueFits(p)
<1>1. DueSettles \subseteq Gameweek /\ DueDecide(r) \subseteq Gameweek
  BY DEF DueSettles, DueDecide, Unsettled, Decided, Upcoming
<1>2. PICK d \in SUBSET Gameweek :
        p = NextCall([Idle EXCEPT !.settles = DueSettles, !.decides = d])
  BY <1>1 DEF Planned
<1> DEFINE q == [Idle EXCEPT !.settles = DueSettles, !.decides = d]
<1>3. q \in WriterRec /\ q.settles = DueSettles
  BY <1>1, IdleIsRec DEF WriterRec
<1>4. \A g \in DueSettles : g <= checked
  <2>1. GameOK
    BY TypeParts DEF IInv
  <2> SUFFICES ASSUME NEW g \in DueSettles
               PROVE  g <= checked
    OBVIOUS
  <2>2. latest # NoCapture /\ g <= latest.checked /\ g \in Gameweek
    BY <1>1 DEF DueSettles
  <2>3. latest.checked \in Nat /\ checked \in Nat /\ g \in Nat
    BY <2>1, <2>2, FirstGameweek, SeasonRulesAssumption DEF GameOK
  <2> QED
    BY <2>2, <2>3 DEF CaptureFits
<1> HIDE DEF q
<1> QED
  BY <1>2, <1>3, <1>4, NextCallIsDue DEF q


LEMMA DecisionsAreLawful ==
    ASSUME NEW g \in Gameweek, NEW chip \in Chip, NEW v \in Decisions(g, chip)
    PROVE  /\ v.kind = "decision" /\ v.squad = IF v.count > 0 THEN g ELSE v.base
           /\ g # 1 => /\ entry[g - 1] # NoEntry /\ v.count \in Counts
                       /\ v.chip = "none" \/ IsOffered(g, ChipsUsed(g, v.chip))
<1>1. CASE g = 1
  BY <1>1 DEF Decisions, Opening
<1>2. CASE g # 1
  <2>1. PICK play \in Plays : MayDecide(g, chip) /\ v = DecisionFrom(g, chip, play[2])
    BY <1>2 DEF Decisions
  <2>2. play[2] \in Counts
    BY DEF Counts
  <2>3. /\ v.kind = "decision" /\ v.chip = chip /\ v.count = play[2] /\ v.base = HeldSquad(g)
        /\ v.squad = IF play[2] > 0 THEN g ELSE HeldSquad(g)
    BY <2>1 DEF DecisionFrom
  <2> QED
    BY <1>2, <2>1, <2>2, <2>3 DEF MayDecide
<1> QED
  BY <1>1, <1>2

LEMMA RollsAreLawful ==
    ASSUME NEW g \in Gameweek, NEW v \in Rolls(g)
    PROVE  /\ v.kind = "roll" /\ v.chip = "none" /\ v.count = 0 /\ v.squad = v.base
           /\ g # 1 /\ entry[g - 1] # NoEntry /\ entry[g - 1].chip # "freehit"
<1>1. /\ g - 1 >= 1 /\ entry[g - 1] # NoEntry /\ ~IsFreeHit(g - 1)
      /\ v = [kind |-> "roll", chip |-> "none", count |-> 0, squad |-> entry[g - 1].squad,
              base |-> entry[g - 1].squad, free |-> FreeAfterRoll(entry[g - 1].free)]
  BY DEF Rolls
<1>2. g # 1
  BY <1>1
<1> QED
  BY <1>1, <1>2 DEF IsFreeHit

LEMMA PreparedIsDue ==
    ASSUME NEW r \in WriterRec, r.g \in Gameweek, r.op \in {"decide", "roll", "settle"},
           \A g \in r.settles : g <= checked,
           r.op = "settle" => r.g <= checked, r.op = "roll" => r.g <= passed,
           NEW q \in Prepared(r)
    PROVE  DueFits(q)
<1>1. CASE r.op = "settle"
  <2>1. PICK op \in {"settle", "complete"} :
            q = [r EXCEPT !.pc = "ready", !.op = op] /\ r.g \in Decided
    BY <1>1 DEF Prepared, OutcomeCalls, Unsettled
  <2>2. q.pc = "ready" /\ q.op = op /\ q.g = r.g /\ q.settles = r.settles
    BY <2>1 DEF WriterRec
  <2> QED
    BY <1>1, <2>1, <2>2 DEF DueFits
<1>2. CASE r.op # "settle"
  <2>1. PICK v \in IF r.op = "decide" THEN Decisions(r.g, r.chip) ELSE Rolls(r.g) :
            q = [r EXCEPT !.pc = "ready", !.chip = "none", !.value = v]
    BY <1>2 DEF Prepared, EntryCalls
  <2>2. /\ q.pc = "ready" /\ q.op = r.op /\ q.g = r.g /\ q.value = v
        /\ q.settles = r.settles
    BY <2>1 DEF WriterRec
  <2>3. r.chip \in Chip
    BY DEF WriterRec
  <2>4. CASE r.op = "decide"
    <3>1. Lawful(q)
      BY <2>1, <2>2, <2>3, <2>4, DecisionsAreLawful DEF Lawful
    <3> QED
      BY <2>2, <2>4, <3>1 DEF DueFits, Settling
  <2>5. CASE r.op = "roll"
    <3>1. Lawful(q)
      BY <2>1, <2>2, <2>5, RollsAreLawful DEF Lawful
    <3> QED
      BY <2>2, <2>5, <3>1 DEF DueFits, Settling
  <2> QED
    BY <1>2, <2>4, <2>5
<1> QED
  BY <1>1, <1>2

LEMMA DueFacts ==
    ASSUME IInv, DueInv, NEW w \in Writer
    PROVE  DueFits(writer[w]) /\ writer[w] \in WriterRec /\ OpFits(writer[w])
           /\ (Busy(writer[w]) => Target(w) \in Gameweek)
  BY WriterFacts DEF DueInv, OpFits, Target

\* Whatever a writer goes on to is due.
GoesOn(w) == \E q \in WriterRec : writer' = [writer EXCEPT ![w] = q] /\ DueFits(q)

LEMMA StopIsDue ==
    ASSUME NEW w \in Writer, Refuses(w)
    PROVE  GoesOn(w)
  BY IdleIsRec, IdleIsDue DEF GoesOn, Refuses

LEMMA GoesIsDue ==
    ASSUME IInv, DueInv, NEW w \in Writer,
           NEW pc \in {"found", "breaking", "again", "inside", "staged", "landed", "unlocking"},
           Goes(w, pc), Busy(writer[w]), ~At(w, "called"),
           pc \in {"landed", "unlocking"} \/ Landing(writer[w])
    PROVE  GoesOn(w)
<1> DEFINE q == [writer[w] EXCEPT !.pc = pc]
<1>1. writer[w] \in WriterRec
  BY DueFacts
<1>2. /\ q \in WriterRec /\ q.pc = pc /\ q.op = writer[w].op /\ q.g = writer[w].g
      /\ q.value = writer[w].value /\ q.settles = writer[w].settles
  BY <1>1 DEF WriterRec
<1>3. writer' = [writer EXCEPT ![w] = q]
  BY TypeParts DEF IInv, WriterOK, Goes
<1> HIDE DEF q
<1>4. DueFits(q)
  <2>1. Landing(q) => Landing(writer[w])
    BY <1>2 DEF Landing
  <2> QED
    BY <1>2, <2>1, DueFacts, SameCallIsDue DEF At
<1> QED
  BY <1>2, <1>3, <1>4 DEF GoesOn

LEMMA AbandonIsDue ==
    ASSUME IInv, DueInv, NEW w \in Writer, Abandons(w), Busy(writer[w]), ~At(w, "called")
    PROVE  GoesOn(w)
<1> DEFINE q == [writer[w] EXCEPT !.pc = "unlocking", !.settles = {}, !.decides = {}]
<1>1. writer[w] \in WriterRec
  BY DueFacts
<1>2. /\ q \in WriterRec /\ q.pc = "unlocking" /\ q.op = writer[w].op /\ q.g = writer[w].g
      /\ q.value = writer[w].value /\ q.settles = {}
  BY <1>1 DEF WriterRec
<1>3. writer' = [writer EXCEPT ![w] = q]
  BY TypeParts DEF IInv, WriterOK, Abandons
<1> HIDE DEF q
<1>4. DueFits(q)
  <2>1. ~Landing(q)
    BY <1>2 DEF Landing
  <2> QED
    BY <1>2, <2>1, DueFacts, SameCallIsDue DEF At
<1> QED
  BY <1>2, <1>3, <1>4 DEF GoesOn

LEMMA DigestIsDue ==
    ASSUME IInv, DueInv, NEW w \in Writer, Digest(w)
    PROVE  GoesOn(w)
<1> DEFINE q == [writer[w] EXCEPT !.pc = "digested", !.digest = outcome[Target(w)]]
<1>1. writer[w] \in WriterRec /\ Busy(writer[w]) /\ ~At(w, "called") /\ Target(w) \in Gameweek
  BY DueFacts DEF Digest, At, Busy
<1>2. outcome[Target(w)] \in Writer \cup {NoOutcome}
  BY <1>1, TypeParts DEF IInv, LedgerOK
<1>3. /\ q \in WriterRec /\ q.pc = "digested" /\ q.op = writer[w].op /\ q.g = writer[w].g
      /\ q.value = writer[w].value /\ q.settles = writer[w].settles
  BY <1>1, <1>2 DEF WriterRec
<1>4. writer' = [writer EXCEPT ![w] = q]
  BY TypeParts DEF IInv, WriterOK, Digest
<1> HIDE DEF q
<1>5. DueFits(q)
  <2>1. ~Landing(q)
    BY <1>3 DEF Landing
  <2> QED
    BY <1>1, <1>3, <2>1, DueFacts, SameCallIsDue DEF At
<1> QED
  BY <1>3, <1>4, <1>5 DEF GoesOn

LEMMA StartTickIsDue ==
    ASSUME IInv, DueInv, NEW w \in Writer, StartTick(w)
    PROVE  GoesOn(w)
<1> DEFINE r == [Idle EXCEPT !.passed = passed, !.window = window]
           q == [r EXCEPT !.pc = "capturing"]
<1>1. r \in WriterRec /\ r.settles = {}
  BY TypeParts, IdleIsRec DEF IInv, GameOK, WriterRec, Idle
<1>2. \/ writer' = [writer EXCEPT ![w] = q]
      \/ \E p \in Planned(r) : writer' = [writer EXCEPT ![w] = p]
  BY Zenon DEF StartTick
<1> HIDE DEF r
<1>3. q \in WriterRec /\ q.pc = "capturing" /\ q.settles = {}
  BY <1>1 DEF WriterRec
<1> HIDE DEF q
<1>4. DueFits(q)
  BY <1>3 DEF DueFits, Settling, Busy, Landing
<1>5. \A p \in Planned(r) : p \in WriterRec /\ DueFits(p)
  BY <1>1, PlannedIsFresh, PlannedIsDue DEF DueInv
<1> QED
  BY <1>2, <1>3, <1>4, <1>5, Zenon DEF GoesOn

LEMMA PlanningIsDue ==
    ASSUME IInv, DueInv, NEW w \in Writer, Capture(w) \/ Replan(w)
    PROVE  GoesOn(w)
<1>1. writer[w] \in WriterRec /\ DueFits(writer[w])
  BY DueFacts
<1>2. CASE Capture(w)
  <2> DEFINE q == [writer[w] EXCEPT !.pc = "replanning"]
  <2>1. q \in WriterRec /\ q.pc = "replanning" /\ q.settles = writer[w].settles
    BY <1>1 DEF WriterRec
  <2>2. writer' = [writer EXCEPT ![w] = q]
    BY <1>2, TypeParts DEF IInv, WriterOK, Capture, Goes
  <2> HIDE DEF q
  <2>3. DueFits(q)
    BY <1>1, <2>1 DEF DueFits, Settling, Busy, Landing
  <2> QED
    BY <2>1, <2>2, <2>3 DEF GoesOn
<1>3. CASE Replan(w)
  <2>1. Refuses(w) \/ \E p \in Planned(writer[w]) : writer' = [writer EXCEPT ![w] = p]
    BY <1>3 DEF Replan
  <2>2. \A p \in Planned(writer[w]) : p \in WriterRec /\ DueFits(p)
    BY <1>1, PlannedIsFresh, PlannedIsDue DEF DueInv
  <2> QED
    BY <2>1, <2>2, StopIsDue DEF GoesOn
<1> QED
  BY <1>2, <1>3

LEMMA PrepareIsDue ==
    ASSUME IInv, DueInv, NEW w \in Writer, Prepare(w)
    PROVE  GoesOn(w)
<1>1. CASE \E q \in Prepared(writer[w]) : writer' = [writer EXCEPT ![w] = q]
  <2>1. PICK q \in Prepared(writer[w]) : writer' = [writer EXCEPT ![w] = q]
    BY <1>1
  <2>2. /\ writer[w] \in WriterRec /\ DueFits(writer[w]) /\ Busy(writer[w])
        /\ writer[w].g \in Gameweek /\ writer[w].op \in {"decide", "settle"}
    BY DueFacts DEF Prepare, At, OpFits, Busy, Target
  <2>3. q \in WriterRec
    BY <2>1, <2>2, TypeParts, PreparedIsReady DEF IInv, IsReady
  <2>4. DueFits(q)
    BY <2>1, <2>2, PreparedIsDue DEF DueFits, Settling
  <2> QED
    BY <2>1, <2>3, <2>4 DEF GoesOn
<1>2. CASE Refuses(w)
  BY <1>2, StopIsDue
<1> QED
  BY <1>1, <1>2 DEF Prepare

LEMMA HandStepIsDue ==
    ASSUME IInv, DueInv, NEW w \in Writer, NEW g \in Gameweek, HandStep(w, g)
    PROVE  GoesOn(w)
<1>1. PICK op \in {"decide", "roll", "settle"}, chip \in Chip :
        /\ ByHand(w, op, g, chip)
        /\ op = "roll" => latest.passed >= g
        /\ op = "settle" => latest.checked >= g
  <2>1. "none" \in Chip
    BY DEF Chip
  <2> QED
    BY <2>1 DEF HandStep
<1>2. /\ GameOK /\ latest # NoCapture /\ CaptureFits
  BY TypeParts DEF IInv, DueInv, HandStep
<1>3. latest.passed \in Nat /\ latest.checked \in Nat /\ passed \in Nat /\ checked \in Nat
      /\ g \in Nat
  BY <1>2, FirstGameweek, SeasonRulesAssumption DEF GameOK
<1>4. (op = "roll" => g <= passed) /\ (op = "settle" => g <= checked)
  BY <1>1, <1>2, <1>3 DEF CaptureFits
<1> DEFINE c == Called(Idle, op, g, chip)
<1>5. c \in WriterRec /\ c.g = g /\ c.op = op
  BY IdleIsRec, CalledIsRec
<1>6. c.settles = {}
  BY DEF Called, Idle
<1>7. PICK q \in Prepared(c) : writer' = [writer EXCEPT ![w] = q]
  BY <1>1 DEF ByHand
<1> HIDE DEF c
<1>8. q \in WriterRec
  BY <1>5, <1>7, TypeParts, PreparedIsReady DEF IInv, IsReady
<1>9. DueFits(q)
  BY <1>4, <1>5, <1>6, <1>7, PreparedIsDue
<1> QED
  BY <1>7, <1>8, <1>9 DEF GoesOn

LEMMA StepIsDue ==
    ASSUME IInv, DueInv, NEW w \in Writer, Step(w)
    PROVE  GoesOn(w)
<1>0. DueFits(writer[w]) /\ writer[w] \in WriterRec
  BY DueFacts
<1>1. CASE StartTick(w) \/ Capture(w) \/ Replan(w) \/ Prepare(w) \/ Digest(w)
  BY <1>1, StartTickIsDue, PlanningIsDue, PrepareIsDue, DigestIsDue
<1>2. CASE Open(w) \/ ReadAge(w) \/ Break(w)
  <2>1. Refuses(w) \/ \E pc \in {"found", "inside", "breaking", "again"} : Goes(w, pc)
    BY <1>2 DEF Open, ReadAge, Break
  <2>2. Busy(writer[w]) /\ ~At(w, "called") /\ Landing(writer[w])
    BY <1>2 DEF Open, ReadAge, Break, At, Busy, Landing
  <2> QED
    BY <2>1, <2>2, StopIsDue, GoesIsDue
<1>3. CASE Recheck(w) \/ LandEntry(w) \/ LandOutcome(w)
  <2>1. Abandons(w) \/ \E pc \in {"staged", "landed", "unlocking"} : Goes(w, pc)
    BY <1>3 DEF Recheck, LandEntry, LandOutcome
  <2>2. Busy(writer[w]) /\ ~At(w, "called") /\ Landing(writer[w])
    BY <1>3 DEF Recheck, LandEntry, LandOutcome, At, Busy, Landing
  <2> QED
    BY <2>1, <2>2, AbandonIsDue, GoesIsDue
<1>4. CASE Seal(w)
  BY <1>4, GoesIsDue DEF Seal, At, Busy
<1>5. CASE Unlock(w)
  <2>1. Refuses(w) \/ writer' = [writer EXCEPT ![w] = NextCall(writer[w])]
    BY <1>5 DEF Unlock
  <2>2. NextCall(writer[w]) \in WriterRec /\ DueFits(NextCall(writer[w]))
    BY <1>0, NextCallIsFresh, NextCallIsDue DEF DueFits
  <2> QED
    BY <2>1, <2>2, StopIsDue DEF GoesOn
<1>6. CASE Fails(w) \/ Dies(w)
  <2>1. Refuses(w) \/ (IsInside(w) /\ Abandons(w))
    BY <1>6 DEF Fails, Dies
  <2> QED
    BY <2>1, StopIsDue, AbandonIsDue DEF IsInside, At, Busy
<1> QED
  BY <1>1, <1>2, <1>3, <1>4, <1>5, <1>6, Zenon DEF Step


\* The game only goes on, and a capture shows no more of it than there was.
LEMMA GameGoesOn ==
    ASSUME IInv, CaptureFits, [Next]_vars
    PROVE  GameOK' /\ passed <= passed' /\ checked <= checked' /\ CaptureFits'
<1>1. GameOK /\ GameOK'
  <2>1. IInv'
    BY NextKeeps
  <2>2. TypeOK' <=> (LedgerOK /\ LockOK /\ WriterOK /\ GameOK /\ HistoryOK /\ MarksOK)'
    BY TypeParts, PTL
  <2> QED
    BY <2>1, <2>2, TypeParts DEF IInv
<1>2. /\ passed \in Nat /\ passed' \in Nat /\ checked \in Nat /\ checked' \in Nat
      /\ latest # NoCapture => latest.passed \in Nat /\ latest.checked \in Nat
  BY <1>1, SeasonRulesAssumption DEF GameOK
<1>3. \/ UNCHANGED <<passed, checked, latest>>
      \/ passed' = passed + 1 /\ UNCHANGED <<checked, latest>>
      \/ checked' = checked + 1 /\ UNCHANGED <<passed, latest>>
      \/ \E w \in Writer : Capture(w)
  <2>1. CASE OpenWindow \/ PassDeadline \/ CheckWeek \/ UNCHANGED vars
    BY <2>1 DEF OpenWindow, PassDeadline, CheckWeek, vars, game, captures
  <2>2. ASSUME NEW w \in Writer, Step(w)
        PROVE  UNCHANGED <<passed, checked, latest>> \/ Capture(w)
    BY <2>2 DEF Step, StartTick, Replan, Prepare, Open, ReadAge, Break, Recheck, LandEntry,
                LandOutcome, Digest, Seal, Unlock, Fails, Dies, game, captures
  <2>3. ASSUME NEW w \in Writer, NEW g \in Gameweek, HandStep(w, g)
        PROVE  UNCHANGED <<passed, checked, latest>>
    BY <2>3 DEF HandStep, ByHand, game, captures
  <2>4. ASSUME NEW g \in Gameweek, Age(g)
        PROVE  UNCHANGED <<passed, checked, latest>>
    BY <2>4 DEF Age, game, captures
  <2> QED
    BY <2>1, <2>2, <2>3, <2>4 DEF Next
<1>4. CASE \E w \in Writer : Capture(w)
  BY <1>1, <1>2, <1>4 DEF Capture, game, CaptureFits
<1>5. CASE ~\E w \in Writer : Capture(w)
  BY <1>1, <1>2, <1>3, <1>5 DEF game, CaptureFits
<1> QED
  BY <1>4, <1>5

LEMMA NextIsDue ==
    ASSUME IInv, DueInv, [Next]_vars
    PROVE  DueInv'
<1>1. GameOK' /\ passed <= passed' /\ checked <= checked' /\ CaptureFits'
  BY GameGoesOn DEF DueInv
<1>2. \A g \in Gameweek : entry[g] # NoEntry => entry'[g] = entry[g]
  BY StepsKeepDecisions
<1>3. ASSUME NEW w \in Writer
      PROVE  writer'[w] \in WriterRec /\ DueFits(writer'[w])
  <2>1. DueFits(writer[w]) /\ writer[w] \in WriterRec /\ WriterOK
    BY DueFacts, TypeParts DEF IInv
  <2>2. ASSUME NEW v \in Writer, GoesOn(v)
        PROVE  writer'[w] \in WriterRec /\ DueFits(writer'[w])
    <3>1. PICK q \in WriterRec : writer' = [writer EXCEPT ![v] = q] /\ DueFits(q)
      BY <2>2 DEF GoesOn
    <3>2. writer'[w] = q \/ writer'[w] = writer[w]
      BY <2>1, <3>1 DEF WriterOK
    <3> QED
      BY <2>1, <3>1, <3>2
  <2>3. writer' = writer \/ \E v \in Writer : GoesOn(v)
    <3>1. CASE OpenWindow \/ PassDeadline \/ CheckWeek \/ UNCHANGED vars
      BY <3>1 DEF OpenWindow, PassDeadline, CheckWeek, vars
    <3>2. CASE \E g \in Gameweek : Age(g)
      BY <3>2 DEF Age
    <3> QED
      BY <3>1, <3>2, StepIsDue, HandStepIsDue, Zenon DEF Next
  <2> QED
    BY <2>1, <2>2, <2>3
<1>4. ASSUME NEW w \in Writer
      PROVE  DueFits(writer[w])'
  <2>1. PICK x \in WriterRec : x = writer'[w] /\ DueFits(x)
    BY <1>3
  <2>2. DueFits(x)'
    BY <1>1, <1>2, <2>1, DueStands
  <2> QED
    BY <2>1, <2>2 DEF DueFits, Settling, Lawful, Busy, Landing
<1> QED
  BY <1>1, <1>4 DEF DueInv

LEMMA InitIsDue == Init => DueInv
  BY IdleIsDue DEF Init, DueInv, CaptureFits

\* A week is settled only when the capture shows it checked, a roll only of a past deadline, and
\* a chip only in a window it was not played in: each still true when the write happens, however
\* long the writer waited for the lock.
THEOREM WritesAreDue == Spec => []DueInv
  BY InitIsDue, NextIsDue, InvariantHolds, PTL DEF Spec

-------------------------------------------------------------------------------
\* The ledger implements the season's record

LEMMA SameRules ==
    /\ Record!Gameweek = Gameweek /\ Record!Chip = Chip /\ Record!TransferChip = TransferChip
    /\ \A b : Record!Banked(b) = Banked(b)
    /\ \A b, n, free : Record!BankAfter(b, n, free) = BankAfter(b, n, free)
    /\ \A g, used : Record!IsOffered(g, used) = IsOffered(g, used)
<1>1. Record!Gameweek = Gameweek /\ Record!Chip = Chip /\ Record!TransferChip = TransferChip
  BY DEF Record!Gameweek, Gameweek, Record!Chip, Chip, Record!TransferChip, TransferChip
<1>2. \A a, b : Record!Least(a, b) = Least(a, b)
  BY DEF Record!Least, Least
<1>3. \A b : Record!Banked(b) = Banked(b)
  BY <1>2 DEF Record!Banked, Banked
<1>4. \A b, n, free : Record!BankAfter(b, n, free) = BankAfter(b, n, free)
  BY <1>2 DEF Record!BankAfter, BankAfter
<1>5. \A g, used : Record!IsOffered(g, used) = IsOffered(g, used)
  BY DEF Record!IsOffered, IsOffered
<1> QED
  BY <1>1, <1>3, <1>4, <1>5

\* The entry that lands is the one the record expects.
LEMMA LandEntryRecords ==
    ASSUME IInv, DueInv, NEW w \in Writer, LandEntry(w), CanLand(Target(w))
    PROVE  Record!Next
<1> DEFINE g == Target(w)
           v == writer[w].value
<1>1. /\ writer[w].op \in {"decide", "roll"} /\ Fits(g, v) /\ Lawful(writer[w])
      /\ g \in Gameweek /\ entry[g] = NoEntry
  BY DueFacts, WriterFacts
     DEF LandEntry, At, Op, Target, ValueFits, DueFits, Landing, Lawful, CanLand
<1>2. /\ entry' = [entry EXCEPT ![g] = v]
      /\ held' = [held EXCEPT ![g] = HeldAfter(g, v)]
      /\ bank' = [bank EXCEPT ![g] = BankedAfter(g, v)]
      /\ UNCHANGED <<outcome, aged, passed, checked>>
  BY DEF LandEntry, game
<1> DEFINE left == BankedAfter(g, v)
           squad == IF v.count > 0 THEN g ELSE v.base
<1>3. /\ v \in Entry /\ v.free = Banked(left) /\ v.squad = squad
      /\ v = [kind |-> v.kind, chip |-> v.chip, count |-> v.count, squad |-> squad,
              base |-> v.base, free |-> Banked(left)]
  BY <1>1 DEF Fits, Lawful, Target, Entry
<1>4. ~Record!IsRecorded(g) /\ (g # 1 => Record!IsRecorded(g - 1) /\ v.base = held[g - 1])
  BY <1>1 DEF Record!IsRecorded, Fits
<1>5. HeldAfter(g, v) = IF v.chip = "freehit" THEN v.base ELSE squad
  BY <1>1, <1>3, <1>4 DEF HeldAfter, Fits, Opening
<1>6. Record!Record(g, v.kind, v.chip, v.count, v.base, left)
  BY <1>2, <1>3, <1>5, SameRules DEF Record!Record
<1>7. CASE g = 1
  <2>1. v = Opening /\ left = 0
    BY <1>1, <1>7, OpeningFits DEF Fits
  <2>2. v.kind = "decision" /\ v.chip = "none" /\ v.count = 0 /\ v.base = 1
    BY <2>1 DEF Opening
  <2>3. Record!OpenSeason
    BY <1>4, <1>6, <1>7, <2>1, <2>2 DEF Record!OpenSeason
  <2> QED
    BY <2>3 DEF Record!Next
<1>8. CASE g # 1
  <2>1. Record!IsNext(g)
    BY <1>1, <1>4, <1>8, WeekBefore DEF Record!IsNext
  <2>2. left = BankAfter(bank[g - 1], v.count, v.chip \in TransferChip)
    BY <1>8 DEF BankedAfter
  <2>3. v.chip \in Chip
    BY <1>3 DEF Entry
  <2> HIDE DEF left
  <2>4. CASE writer[w].op = "decide"
    <3>1. /\ v.kind = "decision" /\ v.count \in Counts
          /\ v.chip = "none" \/ IsOffered(g, ChipsUsed(g, v.chip))
      BY <1>1, <1>8, <2>4 DEF Lawful, Target
    <3>2. Record!Used(g, v.chip) = ChipsUsed(g, v.chip)
      BY DEF Record!Used, Record!IsRecorded, ChipsUsed
    <3>3. Record!Decide(g)
      BY <1>4, <1>6, <1>8, <2>1, <2>2, <2>3, <3>1, <3>2, SameRules DEF Record!Decide
    <3> QED
      BY <1>1, <3>3, SameRules DEF Record!Next
  <2>5. CASE writer[w].op = "roll"
    <3>1. /\ v.kind = "roll" /\ v.chip = "none" /\ v.count = 0
          /\ g <= passed /\ entry[g - 1].chip # "freehit"
      BY <1>1, <2>5 DEF Lawful, Target
    <3>2. left = BankAfter(bank[g - 1], 0, FALSE)
      <4>1. v.chip \notin TransferChip
        BY <3>1 DEF TransferChip
      <4> QED
        BY <2>2, <3>1, <4>1 DEF BankAfter
    <3>3. Record!Record(g, "roll", "none", 0, held[g - 1], Record!BankAfter(bank[g - 1], 0, FALSE))
      BY <1>4, <1>6, <1>8, <3>1, <3>2, SameRules
    <3>4. Record!Roll(g)
      BY <2>1, <3>1, <3>3 DEF Record!Roll
    <3> QED
      BY <1>1, <3>4, SameRules DEF Record!Next
  <2> QED
    BY <1>1, <2>4, <2>5
<1> QED
  BY <1>7, <1>8

\* An outcome lands on a decided and checked week, over another only after its lock grew old.
LEMMA LandOutcomeSettles ==
    ASSUME IInv, DueInv, NEW w \in Writer, LandOutcome(w)
    PROVE  Record!Next
<1> DEFINE g == Target(w)
<1>1. /\ writer[w].pc = "staged" /\ writer[w].op = "settle" /\ Busy(writer[w])
  BY DEF LandOutcome, At, Op, Busy
<1>2. g \in Gameweek /\ g \in Decided /\ g <= checked
  BY <1>1, DueFacts DEF DueFits, Settling, Target
<1>3. outcome[g] = NoOutcome \/ g \in aged
  BY <1>1, WriterFacts DEF SealFits, Target
<1>4. outcome' = [outcome EXCEPT ![g] = w] /\ UNCHANGED <<entry, held, bank, aged, passed, checked>>
  BY DEF LandOutcome, game, history
<1>5. Record!IsDecided(g)
  BY <1>2 DEF Decided, Record!IsDecided, Record!IsRecorded
<1>6. Record!Settle(g)
  BY <1>2, <1>3, <1>4, <1>5 DEF Record!Settle
<1> QED
  BY <1>2, <1>6, SameRules DEF Record!Next

LEMMA NextRecords ==
    ASSUME IInv, DueInv, [Next]_vars
    PROVE  [Record!Next]_Record!vars
<1>1. CASE PassDeadline
  <2>1. Record!PassDeadline
    BY <1>1, TypeParts DEF IInv, GameOK, PassDeadline, Record!PassDeadline, ledger, history
  <2> QED
    BY <2>1 DEF Record!Next
<1>2. CASE CheckWeek
  <2>1. Record!CheckWeek
    BY <1>2 DEF CheckWeek, Record!CheckWeek, ledger, history
  <2> QED
    BY <2>1 DEF Record!Next
<1>3. CASE OpenWindow \/ UNCHANGED vars
  BY <1>3 DEF OpenWindow, vars, Record!vars, ledger, history, game
<1>4. CASE \E w \in Writer : Step(w)
  <2>1. PICK w \in Writer : Step(w)
    BY <1>4
  <2>2. CASE LandEntry(w)
    <3>1. CASE CanLand(Target(w))
      BY <2>2, <3>1, LandEntryRecords
    <3>2. CASE ~CanLand(Target(w))
      BY <2>2, <3>2 DEF LandEntry, Record!vars, history, game
    <3> QED
      BY <3>1, <3>2
  <2>3. CASE LandOutcome(w)
    BY <2>3, LandOutcomeSettles
  <2>4. CASE ~LandEntry(w) /\ ~LandOutcome(w)
    BY <2>1, <2>4
       DEF Step, StartTick, Capture, Replan, Prepare, Open, ReadAge, Break, Recheck, Digest, Seal,
           Unlock, Fails, Dies, Record!vars, ledger, history, game
  <2> QED
    BY <2>2, <2>3, <2>4
<1>5. CASE \E w \in Writer, g \in Gameweek : HandStep(w, g)
  BY <1>5 DEF HandStep, ByHand, Record!vars, ledger, history, game
<1>6. CASE \E g \in Gameweek : Age(g)
  <2>1. PICK g \in Gameweek : Age(g)
    BY <1>6
  <2>2. Record!BreakLock(g)
    BY <2>1 DEF Age, Record!BreakLock, ledger, history, game
  <2> QED
    BY <2>2, SameRules DEF Record!Next
<1> QED
  BY <1>1, <1>2, <1>3, <1>4, <1>5, <1>6 DEF Next

LEMMA InitRecords == Init => Record!Init
  BY SameRules DEF Init, Record!Init

\* Directories, manifests, lock files and the writers' deaths implement the season's record, in
\* every season, for every set of windows and any number of writers.
THEOREM Refinement == Spec => Refines
  BY InitRecords, NextRecords, InvariantHolds, WritesAreDue, PTL DEF Spec, Refines, Record!Spec

-------------------------------------------------------------------------------
\* What the record's promises say of the ledger

Promises == INSTANCE SeasonRecord_proofs WITH Settler <- Writer, broken <- aged

LEMMA EntriesAreRecords == Promises!EntriesAreEntries
  BY SeasonLedgerAssumption
     DEF Promises!EntriesAreEntries, Promises!EntryRec, Entry, Counts, Chip, TransferChip, Gameweek,
         Promises!Chip, Promises!TransferChip, Promises!Gameweek

LEMMA RecordIsPromised == Record!Spec => Promises!Spec
<1>1. Record!Init => Promises!Init
  BY DEF Record!Init, Promises!Init, Record!Gameweek, Promises!Gameweek
<1>2. [Record!Next]_Record!vars => [Promises!Next]_Promises!vars
  BY Zenon
     DEF Record!vars, Record!Next, Record!OpenSeason, Record!Decide, Record!Roll, Record!Settle,
         Record!BreakLock, Record!PassDeadline, Record!CheckWeek, Record!Record, Record!IsNext,
         Record!IsRecorded, Record!IsDecided, Record!Used, Record!IsOffered, Record!BankAfter,
         Record!Banked, Record!Least, Record!Gameweek, Record!Chip, Record!TransferChip,
         Promises!vars, Promises!Next, Promises!OpenSeason, Promises!Decide, Promises!Roll,
         Promises!Settle, Promises!BreakLock, Promises!PassDeadline, Promises!CheckWeek,
         Promises!Record, Promises!IsNext, Promises!IsRecorded, Promises!IsDecided, Promises!Used,
         Promises!IsOffered, Promises!BankAfter, Promises!Banked, Promises!Least,
         Promises!Gameweek, Promises!Chip, Promises!TransferChip
<1> QED
  BY <1>1, <1>2, PTL DEF Record!Spec, Promises!Spec

\* However commands and ticks interleave, no chip is recorded twice in a window that stands apart
\* from the others (planner_chips offers it from the ledger of an earlier moment).
THEOREM ChipsAreOncePerWindow == Spec => []Record!ChipOncePerWindow
<1>1. Promises!Spec => []Promises!ChipOncePerWindow
  BY EntriesAreRecords, SeasonRulesAssumption, Promises!ChipsOnce DEF Gameweek
<1>2. Promises!ChipOncePerWindow => Record!ChipOncePerWindow
  BY DEF Promises!ChipOncePerWindow, Record!ChipOncePerWindow, Promises!IsRecorded,
         Record!IsRecorded
<1> QED
  BY <1>1, <1>2, Refinement, RecordIsPromised, PTL DEF Refines

\* An outcome is only ever recorded of a week that was decided and that the game has checked.
THEOREM OutcomesAreChecked == Spec => []Record!SettledIsChecked
<1>1. Promises!Spec => []Promises!SettledIsChecked
  BY EntriesAreRecords, SeasonRulesAssumption, Promises!SettledAreChecked DEF Gameweek
<1>2. Promises!SettledIsChecked => Record!SettledIsChecked
  BY DEF Promises!SettledIsChecked, Record!SettledIsChecked, Promises!IsDecided, Record!IsDecided,
         Promises!IsRecorded, Record!IsRecorded, Promises!Gameweek, Record!Gameweek
<1> QED
  BY <1>1, <1>2, Refinement, RecordIsPromised, PTL DEF Refines

===============================================================================
