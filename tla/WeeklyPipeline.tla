---------------------------- MODULE WeeklyPipeline ----------------------------
(***************************************************************************)
(* What a journalled weekly run promises, without a journal, a lock or a    *)
(* crash (platform/weekly_journal.py, docs/architecture/                    *)
(* weekly_operations.md): the stages work in their order, a finished stage  *)
(* never works again, one with an external effect works at most once, and a *)
(* run is sealed only when every stage has finished.  WeeklyJournal         *)
(* implements this specification; see Refines there.                        *)
(***************************************************************************)
EXTENDS Naturals

CONSTANTS
    N,            \* the stages are 1..N
    Repeatable    \* the stages without an external effect

VARIABLES
    finished,     \* the stages whose result is accepted
    effects,      \* how often each stage has worked
    sealed        \* the run is described as successful

vars == <<finished, effects, sealed>>

Stage == 1..N

Init ==
    /\ finished = {}
    /\ effects = [s \in Stage |-> 0]
    /\ sealed = FALSE

IsCurrent(s) == s \notin finished /\ 1..(s - 1) \subseteq finished

\* The stage works; whether its result will be accepted is not known yet.
Work(s) ==
    /\ IsCurrent(s)
    /\ s \notin Repeatable => effects[s] = 0
    /\ effects' = [effects EXCEPT ![s] = @ + 1]
    /\ UNCHANGED <<finished, sealed>>

\* Its result is accepted; only a stage that has worked has one.
Finish(s) ==
    /\ IsCurrent(s)
    /\ effects[s] > 0
    /\ finished' = finished \cup {s}
    /\ UNCHANGED <<effects, sealed>>

Seal == finished = Stage /\ sealed' = TRUE /\ UNCHANGED <<finished, effects>>

\* A later resume finds that the artifacts have changed.
Reject == sealed' = FALSE /\ UNCHANGED <<finished, effects>>

Next == (\E s \in Stage : Work(s) \/ Finish(s)) \/ Seal \/ Reject

Spec == Init /\ [][Next]_vars

===============================================================================
