---------------------------- MODULE MCWeeklyJournal ---------------------------
(***************************************************************************)
(* A weekly run in small for TLC: a handoff computed from the capture, the   *)
(* preview computed from both, and the publication of the preview, which     *)
(* alone is not repeatable.                                                  *)
(***************************************************************************)
EXTENDS WeeklyJournal, TLC

CONSTANTS capture, handoff, preview, receipt

MCRepeatable == {1, 2}
MCInputsOf == <<{capture}, {capture, handoff}, {preview}>>
MCOutputsOf == <<{handoff}, {preview}, {receipt}>>

Symmetry == Permutations(Process)

===============================================================================
