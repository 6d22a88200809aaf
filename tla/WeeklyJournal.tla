----------------------------- MODULE WeeklyJournal ----------------------------
(***************************************************************************)
(* The durable journal of a weekly run (platform/weekly_journal.py), the    *)
(* invocations that run its stages in order (weekly_operations.py execute), *)
(* and its two kinds of reader: held_run, which owns the run while it       *)
(* works, and inspect_run, which does not.                                  *)
(*                                                                          *)
(* The journal is one file that every write replaces whole, and an          *)
(* invocation's document in memory equals it between writes.  A write that  *)
(* is refused raises, and so does a process that dies: both leave the       *)
(* journal as it was and free the run lock (Crash).  Artifacts are versions *)
(* of their bytes.  Invocations of a different request or stage plan, and   *)
(* those a held lock turns away, change nothing and are left out.           *)
(***************************************************************************)
EXTENDS Integers, Sequences

CONSTANTS
    N,            \* the stages are 1..N, in the order execute calls them
    Repeatable,   \* the stages without an external effect (all but publish)
    Path,         \* artifacts
    InputsOf,     \* the artifacts a stage declares as inputs
    OutputsOf,    \* the artifacts its operation writes and declares
    Process,      \* invocations of the weekly command
    Viewer,       \* readers of the journal
    Undo,         \* whether an edit may restore earlier bytes
    MaxEdits,     \* bound: changes of an artifact from outside the run
    MaxFaults     \* bound: deaths, refused writes, failing operations, unreadable inputs

Stage == 1..N

ASSUME WeeklyJournalAssumption ==
    /\ N \in Nat \ {0}
    /\ Repeatable \subseteq Stage
    /\ InputsOf \in [Stage -> SUBSET Path]
    /\ OutputsOf \in [Stage -> SUBSET Path]
    /\ \A s \in Stage : InputsOf[s] \cap OutputsOf[s] = {}
    /\ Undo \in BOOLEAN
    /\ MaxEdits \in Nat
    /\ MaxFaults \in Nat

VARIABLES
    status,       \* the run's status; "absent" when there is no journal
    stage,        \* each stage's status
    inputs,       \* each stage's recorded input fingerprint
    outputs,      \* each stage's recorded output fingerprint
    attempts,     \* each stage's attempts, by their status
    bytes,        \* the version of each artifact's bytes
    proc,         \* each invocation's step, the stage it is at, and what it holds
    viewer,       \* each reader's step and its copy of the journal
    effects,      \* history: how often each stage's operation has done its work
    used,         \* history: the input bytes each finished stage's operation read
    edits, faults

journal == <<status, stage, inputs, outputs, attempts>>
vars == <<journal, bytes, proc, viewer, effects, used, edits, faults>>

-------------------------------------------------------------------------------
\* Fingerprints: the version of every path they cover, 0 elsewhere

Nothing == [x \in Path |-> 0]
Fingerprint(paths) == [x \in Path |-> IF x \in paths THEN bytes[x] ELSE 0]
Verified(record) == \A x \in Path : record[x] # 0 => record[x] = bytes[x]

-------------------------------------------------------------------------------
\* The run

StageStatus == {"pending", "running", "completed", "skipped", "failed", "interrupted",
                "uncertain"}
\* Mutant: a failed stage counts as finished.
IsOver(s) == stage[s] \in {"completed", "skipped", "failed"}

IsFinished(s) == stage[s] \in {"completed", "skipped"}

Idle == [pc |-> "idle", at |-> 1, read |-> Nothing, declared |-> {}]
NoView == [pc |-> "idle", status |-> "absent", stage |-> [s \in Stage |-> "pending"],
           verdict |-> "none"]

Owned == (\E p \in Process : proc[p].pc # "idle") \/ (\E v \in Viewer : viewer[v].pc = "holding")

Fault == faults < MaxFaults /\ faults' = faults + 1

Init ==
    /\ status = "absent"
    /\ stage = [s \in Stage |-> "pending"]
    /\ inputs = [s \in Stage |-> Nothing]
    /\ outputs = [s \in Stage |-> Nothing]
    /\ attempts = [s \in Stage |-> << >>]
    /\ bytes = [x \in Path |-> 1]
    /\ proc = [p \in Process |-> Idle]
    /\ viewer = [v \in Viewer |-> NoView]
    /\ effects = [s \in Stage |-> 0]
    /\ used = [s \in Stage |-> Nothing]
    /\ edits = 0
    /\ faults = 0

\* An invocation ends, by an error or a return, and its lock with it.
Exit(p) == proc' = [proc EXCEPT ![p] = Idle]

\* Mutant: a stage is looked for past the last one.
OnwardPastLast(p) ==
    proc' = [proc EXCEPT ![p] = [Idle EXCEPT !.pc = "between", !.at = proc[p].at + 1]]

\* execute calls the next stage, and after the last one finish.
Onward(p) ==
    LET s == proc[p].at IN
    proc' = [proc EXCEPT ![p] =
        IF s = N THEN [Idle EXCEPT !.pc = "finishing"]
                 ELSE [Idle EXCEPT !.pc = "between", !.at = s + 1]]

\* hold: a new run writes its pending journal, a resume reads the one there is.
Begin(p) ==
    /\ ~Owned
    /\ status' = IF status = "absent" THEN "pending" ELSE status
    /\ proc' = [proc EXCEPT ![p] = [Idle EXCEPT !.pc = "between"]]
    /\ UNCHANGED <<stage, inputs, outputs, attempts, bytes, viewer, effects, used, edits,
                   faults>>

-------------------------------------------------------------------------------
\* stage

\* p calls stage s; the stages before it have finished.
Calls(p, s) ==
    /\ proc[p].pc = "between"
    /\ proc[p].at = s
    /\ \A r \in 1..(s - 1) : IsFinished(r)

Unchanged(s) == stage[s] # "pending" => inputs[s] = Fingerprint(InputsOf[s])

\* The inputs have changed since the stage was first started, or cannot be read.
RefuseInputs(p, s) ==
    /\ Calls(p, s)
    /\ \/ ~Unchanged(s) /\ UNCHANGED faults
       \/ Fault
    /\ status' = "validation_failed"
    /\ Exit(p)
    /\ UNCHANGED <<stage, inputs, outputs, attempts, bytes, viewer, effects, used, edits>>

\* A finished stage is skipped if its outputs still hold the recorded bytes.
Reuse(p, s) ==
    /\ Calls(p, s)
    /\ Unchanged(s)
    /\ IsFinished(s)
    /\ IF Verified(outputs[s]) THEN Onward(p) ELSE Exit(p)
    /\ UNCHANGED <<journal, bytes, viewer, effects, used, edits, faults>>

\* Mutant: any unfinished stage may be started again.
MayStartUnfinished(s) == ~IsFinished(s) /\ stage[s] # "uncertain"

MayStart(s) ==
    \/ stage[s] = "pending"
    \/ s \in Repeatable /\ ~IsFinished(s)

\* An unfinished stage that is not repeatable is fenced: WeeklyReconciliationRequired.
Fence(p, s) ==
    /\ Calls(p, s)
    /\ Unchanged(s)
    /\ ~IsFinished(s)
    /\ ~MayStart(s)
    /\ stage' = [stage EXCEPT ![s] = "uncertain"]
    /\ status' = "uncertain"
    /\ Exit(p)
    /\ UNCHANGED <<inputs, outputs, attempts, bytes, viewer, effects, used, edits, faults>>

Interrupted(list) ==
    [i \in DOMAIN list |-> IF list[i] = "running" THEN "interrupted" ELSE list[i]]

\* Mutant: an abandoned attempt stays running.
RetryForgets(list) == Append(list, "running")

Retry(list) == Append(Interrupted(list), "running")

\* The journal says running, with the inputs, before the operation is called.
Start(p, s) ==
    /\ Calls(p, s)
    /\ Unchanged(s)
    /\ MayStart(s)
    /\ stage' = [stage EXCEPT ![s] = "running"]
    /\ inputs' = [inputs EXCEPT ![s] = Fingerprint(InputsOf[s])]
    /\ attempts' = [attempts EXCEPT ![s] = Retry(@)]
    /\ status' = "running"
    /\ proc' = [proc EXCEPT ![p].pc = "operating"]
    /\ UNCHANGED <<outputs, bytes, viewer, effects, used, edits, faults>>

\* The operation reads its inputs, has its effect and returns: its declared artifacts,
\* rewritten, or none and a reason why the stage is skipped.
Work(p, declared) ==
    LET s == proc[p].at IN
    /\ proc[p].pc = "operating"
    /\ declared \in {OutputsOf[s], {}}
    /\ bytes' = [x \in Path |-> IF x \in declared THEN bytes[x] + 1 ELSE bytes[x]]
    /\ effects' = [effects EXCEPT ![s] = @ + 1]
    /\ proc' = [proc EXCEPT ![p].pc = "worked",
                            ![p].read = Fingerprint(InputsOf[s]),
                            ![p].declared = declared]
    /\ UNCHANGED <<journal, viewer, used, edits, faults>>

Concludes(s, outcome) ==
    /\ stage' = [stage EXCEPT ![s] = outcome]
    /\ attempts' = [attempts EXCEPT ![s] = [@ EXCEPT ![Len(@)] = outcome]]

\* Mutant: the inputs are not compared again after the work.
CompleteUnchecked(p) ==
    LET s == proc[p].at
        declared == proc[p].declared
    IN
    /\ proc[p].pc = "worked"
    /\ Concludes(s, IF declared = {} THEN "skipped" ELSE "completed")
    /\ outputs' = [outputs EXCEPT ![s] = Fingerprint(declared)]
    /\ used' = [used EXCEPT ![s] = proc[p].read]
    /\ status' = "running"
    /\ Onward(p)
    /\ UNCHANGED <<inputs, bytes, viewer, effects, edits, faults>>

\* The outputs are fingerprinted, the inputs must not have moved, and the stage is done.
Complete(p) ==
    LET s == proc[p].at
        declared == proc[p].declared
    IN
    /\ proc[p].pc = "worked"
    /\ Verified(inputs[s])
    /\ Concludes(s, IF declared = {} THEN "skipped" ELSE "completed")
    /\ outputs' = [outputs EXCEPT ![s] = Fingerprint(declared)]
    /\ used' = [used EXCEPT ![s] = proc[p].read]
    /\ status' = "running"
    /\ Onward(p)
    /\ UNCHANGED <<inputs, bytes, viewer, effects, edits, faults>>

\* The operation raises, before or after it had its effect, or the inputs moved.
Fail(p) ==
    LET s == proc[p].at IN
    /\ proc[p].pc \in {"operating", "worked"}
    /\ \/ Fault
       \/ proc[p].pc = "worked" /\ ~Verified(inputs[s]) /\ UNCHANGED faults
    /\ \E outcome \in IF s \in Repeatable THEN {"failed", "interrupted"} ELSE {"uncertain"} :
          /\ Concludes(s, outcome)
          /\ status' = outcome
    /\ Exit(p)
    /\ UNCHANGED <<inputs, outputs, bytes, viewer, effects, used, edits>>

-------------------------------------------------------------------------------
\* finish

\* Mutant: the stages are trusted to have finished with the outputs they recorded.
CheckNothing(p) ==
    /\ proc[p].pc = "finishing"
    /\ proc[p].at <= N
    /\ proc' = [proc EXCEPT ![p].at = @ + 1]
    /\ UNCHANGED <<journal, bytes, viewer, effects, used, edits, faults>>

\* The outputs are verified stage by stage, and an artifact can change in between.
Check(p) ==
    LET s == proc[p].at IN
    /\ proc[p].pc = "finishing"
    /\ s <= N
    /\ IF IsFinished(s) /\ Verified(outputs[s])
          THEN proc' = [proc EXCEPT ![p].at = s + 1]
          ELSE Exit(p)
    /\ UNCHANGED <<journal, bytes, viewer, effects, used, edits, faults>>

Seal(p) ==
    /\ proc[p].pc = "finishing"
    /\ proc[p].at = N + 1
    /\ status' = "completed"
    /\ Exit(p)
    /\ UNCHANGED <<stage, inputs, outputs, attempts, bytes, viewer, effects, used, edits,
                   faults>>

-------------------------------------------------------------------------------
\* The outside

\* The process dies or a journal write is refused: what it holds is lost.
Crash(p) ==
    /\ proc[p].pc # "idle"
    /\ Fault
    /\ Exit(p)
    /\ UNCHANGED <<journal, bytes, viewer, effects, used, edits>>

\* Somebody else changes an artifact, or (Undo) puts earlier bytes back.
Edit(x) ==
    /\ edits < MaxEdits
    /\ edits' = edits + 1
    /\ \E b \in IF Undo THEN (1..(bytes[x] + 1)) \ {bytes[x]} ELSE {bytes[x] + 1} :
          bytes' = [bytes EXCEPT ![x] = b]
    /\ UNCHANGED <<journal, proc, viewer, effects, used, faults>>

-------------------------------------------------------------------------------
\* Readers

\* _read: a copy of the journal.
Reads(v, step) ==
    viewer' = [viewer EXCEPT ![v] =
        [pc |-> step, status |-> status, stage |-> stage, verdict |-> "none"]]

\* Mutant: the journal is read and used whoever owns the run.
HoldAnyway(v) ==
    /\ viewer[v].pc = "idle"
    /\ status # "absent"
    /\ Reads(v, "holding")
    /\ UNCHANGED <<journal, bytes, proc, effects, used, edits, faults>>

\* held_run: the run lock first, then the journal, for as long as the caller works.
Hold(v) ==
    /\ viewer[v].pc = "idle"
    /\ status # "absent"
    /\ ~Owned
    /\ Reads(v, "holding")
    /\ UNCHANGED <<journal, bytes, proc, effects, used, edits, faults>>

LetGo(v) ==
    /\ viewer[v].pc = "holding"
    /\ viewer' = [viewer EXCEPT ![v] = NoView]
    /\ UNCHANGED <<journal, bytes, proc, effects, used, edits, faults>>

\* inspect_run reads the journal ...
Look(v) ==
    /\ viewer[v].pc = "idle"
    /\ status # "absent"
    /\ Reads(v, "looking")
    /\ UNCHANGED <<journal, bytes, proc, effects, used, edits, faults>>

\* ... and then tries the run lock: a held one means running, and a free one that a stage
\* the copy calls running was abandoned.
Verdict(seen) ==
    IF Owned THEN "running"
    ELSE IF seen.status = "running"
            THEN IF \E s \in Stage \ Repeatable : seen.stage[s] = "running"
                    THEN "uncertain" ELSE "interrupted"
    ELSE IF seen.status = "completed" /\ \E s \in Stage : ~Verified(outputs[s])
            THEN "invalid_artifacts"
    ELSE seen.status

Judge(v) ==
    /\ viewer[v].pc = "looking"
    /\ viewer' = [viewer EXCEPT ![v] = [NoView EXCEPT !.verdict = Verdict(viewer[v])]]
    /\ UNCHANGED <<journal, bytes, proc, effects, used, edits, faults>>

-------------------------------------------------------------------------------
\* The specification

Invocation(p) ==
    \/ Begin(p)
    \/ \E s \in Stage : RefuseInputs(p, s) \/ Reuse(p, s) \/ Fence(p, s) \/ Start(p, s)
    \/ \E declared \in SUBSET Path : Work(p, declared)
    \/ Complete(p) \/ Fail(p) \/ Check(p) \/ Seal(p) \/ Crash(p)

Reader(v) == Hold(v) \/ LetGo(v) \/ Look(v) \/ Judge(v)

Next ==
    \/ \E p \in Process : Invocation(p)
    \/ \E v \in Viewer : Reader(v)
    \/ \E x \in Path : Edit(x)

Spec == Init /\ [][Next]_vars

-------------------------------------------------------------------------------
\* Properties

RunStatus == StageStatus \cup {"absent", "validation_failed"}
Fingerprints == [Path -> Nat]
InvocationState ==
    [pc : {"idle", "between", "operating", "worked", "finishing"},
     at : 1..(N + 1), read : Fingerprints, declared : SUBSET Path]
ViewerState ==
    [pc : {"idle", "holding", "looking"}, status : RunStatus, stage : [Stage -> StageStatus],
     verdict : RunStatus \cup {"none", "invalid_artifacts"}]

TypeOK ==
    /\ status \in RunStatus
    /\ stage \in [Stage -> StageStatus]
    /\ inputs \in [Stage -> Fingerprints]
    /\ outputs \in [Stage -> Fingerprints]
    /\ attempts \in [Stage -> Seq(StageStatus)]
    /\ bytes \in [Path -> Nat \ {0}]
    /\ proc \in [Process -> InvocationState]
    /\ \A p \in Process : proc[p].at = N + 1 => proc[p].pc = "finishing"
    /\ viewer \in [Viewer -> ViewerState]
    /\ effects \in [Stage -> Nat]
    /\ used \in [Stage -> Fingerprints]
    /\ edits \in 0..MaxEdits
    /\ faults \in 0..MaxFaults

\* The module docstring: "Only explicitly repeatable operations may resume automatically".
\* Whatever dies and whoever resumes, an external effect happens at most once.
ExternalEffectOnce == \A s \in Stage \ Repeatable : effects[s] <= 1

\* weekly_operations.md: an abandoned attempt "is retained when safely resumed".  Every
\* effect has its attempt, only the last attempt can be open or accepted, and a finished
\* stage's last attempt is the one that was accepted.
AttemptsAreKept ==
    \A s \in Stage :
        LET list == attempts[s] IN
        /\ effects[s] <= Len(list)
        /\ \A i \in 1..(Len(list) - 1) : list[i] \in {"failed", "interrupted"}
        /\ IsFinished(s) => list # << >> /\ list[Len(list)] = stage[s]

\* The bytes one stage declared are the bytes a later stage was given.
Agrees(r, s) ==
    \A x \in Path : outputs[r][x] # 0 /\ inputs[s][x] # 0 => outputs[r][x] = inputs[s][x]

\* weekly_journal.py: "Prevent a computation from quietly crossing a mutable capture/alias
\* update".  Every finished stage worked on the bytes its record names.
ComputedFromRecord == \A s \in Stage : IsFinished(s) => used[s] = inputs[s]

\* A run described as successful is one computation: no artifact changed between the stage
\* that made it and a later stage that read it, although nothing compares the two records.
\* (Stages do not write one another's artifacts here.)
CompletedIsCoherent ==
    status = "completed" =>
        \A r, s \in Stage : r < s => IsFinished(r) /\ IsFinished(s) /\ Agrees(r, s)

\* held_run: "while the caller holds it no resume of the same run can rewrite what the
\* journal describes".
HeldCopyIsCurrent ==
    \A v \in Viewer : viewer[v].pc = "holding" =>
        viewer[v].status = status /\ viewer[v].stage = stage

\* weekly_operations.md: "an abandoned running stage is observed as interrupted".  Only a
\* run whose journal says running, and whose owner is gone, is called that.
InterruptedIsAbandoned ==
    [][\A v \in Viewer :
          viewer[v].pc = "looking" /\ viewer[v].status = "running"
              /\ viewer'[v].verdict \in {"interrupted", "uncertain"} => status = "running"]_vars

\* The journal implements what a weekly run promises.
Pipeline == INSTANCE WeeklyPipeline
    WITH finished <- {s \in Stage : IsFinished(s)}, sealed <- status = "completed"
Refines == Pipeline!Spec

-------------------------------------------------------------------------------
\* The inductive invariants: JInv for the journal's control, and VInv, over it, for the
\* versions, which only grow when nothing is undone

\* The run lock: one invocation, or holders of the journal, never both.
OneOwner ==
    /\ \A p, q \in Process : proc[p].pc # "idle" /\ proc[q].pc # "idle" => p = q
    /\ \A p \in Process, v \in Viewer : proc[p].pc # "idle" => viewer[v].pc # "holding"

\* A stage is started only when those before it have finished.
StagesInOrder ==
    \A r, s \in Stage : r < s /\ stage[s] # "pending" => IsFinished(r)

\* Where an invocation is in its run.
InvocationIsSound ==
    \A p \in Process :
        LET s == proc[p].at IN
        /\ proc[p].pc \in {"operating", "worked"} => stage[s] = "running"
        /\ proc[p].pc = "operating" => /\ effects[s] < Len(attempts[s])
                                       /\ s \notin Repeatable => effects[s] = 0
        /\ proc[p].pc = "worked" => effects[s] > 0
        /\ proc[p].pc = "finishing" => \A r \in Stage : IsFinished(r)

\* What a stage's status says of its attempts.
AttemptsMatch ==
    \A s \in Stage :
        LET list == attempts[s] IN
        /\ stage[s] = "pending" => list = << >> /\ effects[s] = 0
        /\ stage[s] # "pending" => Len(list) > 0
        /\ stage[s] = "uncertain" => s \notin Repeatable
        /\ stage[s] \notin {"pending", "uncertain"} => list[Len(list)] = stage[s]
        /\ s \notin Repeatable => Len(list) <= 1

CompletedIsFinished == status = "completed" => \A s \in Stage : IsFinished(s)

JInv ==
    /\ TypeOK
    /\ OneOwner
    /\ StagesInOrder
    /\ InvocationIsSound
    /\ AttemptsMatch
    /\ CompletedIsFinished
    /\ ExternalEffectOnce
    /\ AttemptsAreKept
    /\ HeldCopyIsCurrent

\* A stage's inputs are recorded when it is started, over the paths it declares.
InputsAreRecorded ==
    \A s \in Stage : \A x \in Path :
        inputs[s][x] # 0 <=> stage[s] # "pending" /\ x \in InputsOf[s]

\* Nothing recorded is newer than the artifact ...
RecordsArePast ==
    \A s \in Stage : \A x \in Path : inputs[s][x] <= bytes[x] /\ outputs[s][x] <= bytes[x]

\* ... nor than what an operation has read of it since.
ReadsAreRecent ==
    \A p \in Process : \A x \in Path :
        proc[p].pc = "worked" =>
            LET s == proc[p].at IN
            /\ inputs[s][x] <= proc[p].read[x]
            /\ proc[p].read[x] <= bytes[x]
            /\ inputs[s][x] = 0 => proc[p].read[x] = 0

\* An unfinished stage has no outputs, and a later stage read no older bytes than them.
OutputsComeFirst ==
    /\ \A s \in Stage : ~IsFinished(s) => outputs[s] = Nothing
    /\ \A r, s \in Stage : \A x \in Path :
          r < s /\ inputs[s][x] # 0 => outputs[r][x] <= inputs[s][x]

\* What finish has verified so far is coherent.
CheckedIsCoherent ==
    \A p \in Process : proc[p].pc = "finishing" =>
        \A r, s \in Stage : r < proc[p].at /\ r < s => Agrees(r, s)

VInv ==
    /\ InputsAreRecorded
    /\ RecordsArePast
    /\ ReadsAreRecent
    /\ OutputsComeFirst
    /\ CheckedIsCoherent
    /\ ComputedFromRecord
    /\ CompletedIsCoherent

===============================================================================
