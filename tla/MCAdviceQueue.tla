---------------------------- MODULE MCAdviceQueue -----------------------------
(***************************************************************************)
(* Small instances of AdviceQueue for TLC: two workers; two jobs for one    *)
(* address (the second is what a retry after a failure submits) and one for *)
(* another; an answer that may come out differently the second time.        *)
(***************************************************************************)
EXTENDS AdviceQueue, TLC

CONSTANTS j1, j2, j3, k1, k2

MCKeyOf == j1 :> k1 @@ j2 :> k1 @@ j3 :> k2
MCRank == j1 :> 1 @@ j2 :> 3 @@ j3 :> 2

\* The liveness instance: two successive jobs of one address.
MCOneKeyOf == j1 :> k1 @@ j2 :> k1
MCOneKeyRank == j1 :> 1 @@ j2 :> 2

Symmetry == Permutations(Worker) \cup Permutations(Answer)

===============================================================================
