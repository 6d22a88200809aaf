--------------------------- MODULE MCAdviceSubmit -----------------------------
EXTENDS AdviceSubmit, TLC

CONSTANTS k1, k2, k3, i1, c1, e1, h1, h2, h3, s1, s2, p1, p2

\* Addresses are alike, and so are two threads of one service.
Symmetry == Permutations(Key) \cup Permutations({h1, h2})
AddressSymmetry == Permutations({k1, k2})

MCEntryOf == [k \in Key |-> e1]
MCServiceOf == [h \in Handler |-> IF h = h3 THEN s2 ELSE s1]
MCProcessOf == [s \in Service |-> IF s = s2 /\ p2 \in Process THEN p2 ELSE p1]
MCAsks == [s \in Service |-> Key]
MCSplitAsks == [s \in Service |-> IF s = s2 THEN {k3} ELSE {k1, k2}]
MCOwnAsks == [s \in Service |-> IF s = s2 THEN {k2} ELSE {k1}]

\* Bound: jobs in all, two of an address among them.
AtMostThreeJobs == Cardinality({j \in Job : IsPublished(j)}) <= 3

===============================================================================
