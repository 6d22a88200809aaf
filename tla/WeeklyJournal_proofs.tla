------------------------- MODULE WeeklyJournal_proofs -------------------------
(***************************************************************************)
(* Proofs about WeeklyJournal, for any stages, artifacts, invocations,      *)
(* readers, edits and faults.                                               *)
(***************************************************************************)
EXTENDS WeeklyJournal, TLAPS

USE WeeklyJournalAssumption DEF journal, IsFinished, Stage

-------------------------------------------------------------------------------
\* What the parts of an action leave behind

LEMMA FingerprintTyped ==
    ASSUME TypeOK, NEW paths \in SUBSET Path
    PROVE  Fingerprint(paths) \in Fingerprints
BY DEF TypeOK, Fingerprint, Fingerprints

LEMMA IdleTyped == Idle \in InvocationState /\ Idle.pc = "idle" /\ Idle.at = 1
BY DEF Idle, InvocationState, Nothing, Fingerprints

\* Only p's record changes, and it stays one.
OnlyInvocation(p) ==
    /\ proc' \in [Process -> InvocationState]
    /\ proc'[p].at = N + 1 => proc'[p].pc = "finishing"
    /\ \A q \in Process \ {p} : proc'[q] = proc[q]

LEMMA ExitIs ==
    ASSUME TypeOK, NEW p \in Process, Exit(p)
    PROVE  OnlyInvocation(p) /\ proc'[p].pc = "idle"
BY IdleTyped DEF TypeOK, Exit, OnlyInvocation

LEMMA OnwardIs ==
    ASSUME TypeOK, NEW p \in Process, Onward(p), proc[p].at \in Stage
    PROVE  /\ OnlyInvocation(p)
           /\ proc'[p].pc = IF proc[p].at = N THEN "finishing" ELSE "between"
           /\ proc'[p].at = IF proc[p].at = N THEN 1 ELSE proc[p].at + 1
<1> DEFINE finishing == [Idle EXCEPT !.pc = "finishing"]
           between == [Idle EXCEPT !.pc = "between", !.at = proc[p].at + 1]
<1>1. finishing \in InvocationState /\ finishing.pc = "finishing" /\ finishing.at = 1
  BY IdleTyped DEF InvocationState
<1>2. CASE proc[p].at = N
  <2>1. proc' = [proc EXCEPT ![p] = finishing]
    BY <1>2 DEF Onward
  <2> QED BY <1>1, <1>2, <2>1 DEF TypeOK, OnlyInvocation
<1>3. CASE proc[p].at # N
  <2>1. proc' = [proc EXCEPT ![p] = between]
    BY <1>3 DEF Onward
  <2>2. proc[p].at + 1 \in 1..(N + 1) /\ proc[p].at + 1 # N + 1
    BY <1>3
  <2>3. between \in InvocationState /\ between.pc = "between" /\ between.at = proc[p].at + 1
    BY <2>2, IdleTyped DEF InvocationState
  <2> QED BY <1>3, <2>1, <2>2, <2>3 DEF TypeOK, OnlyInvocation
<1> QED BY <1>2, <1>3

LEMMA FaultTyped ==
    ASSUME TypeOK, Fault \/ UNCHANGED faults
    PROVE  faults' \in 0..MaxFaults
BY DEF TypeOK, Fault

LEMMA InterruptedIs ==
    ASSUME NEW list \in Seq(StageStatus)
    PROVE  /\ Interrupted(list) \in Seq(StageStatus)
           /\ Len(Interrupted(list)) = Len(list)
           /\ \A i \in 1..Len(list) :
                 Interrupted(list)[i] = IF list[i] = "running" THEN "interrupted" ELSE list[i]
BY DEF Interrupted, StageStatus

LEMMA RetryIs ==
    ASSUME NEW list \in Seq(StageStatus)
    PROVE  /\ Retry(list) \in Seq(StageStatus)
           /\ Len(Retry(list)) = Len(list) + 1
           /\ Retry(list)[Len(list) + 1] = "running"
           /\ \A i \in 1..Len(list) :
                 Retry(list)[i] = IF list[i] = "running" THEN "interrupted" ELSE list[i]
BY InterruptedIs DEF Retry, StageStatus

LEMMA ConcludesIs ==
    ASSUME TypeOK, NEW s \in Stage, NEW outcome \in StageStatus, Len(attempts[s]) > 0,
           Concludes(s, outcome)
    PROVE  /\ stage' \in [Stage -> StageStatus]
           /\ attempts' \in [Stage -> Seq(StageStatus)]
           /\ stage'[s] = outcome
           /\ Len(attempts'[s]) = Len(attempts[s])
           /\ attempts'[s][Len(attempts[s])] = outcome
           /\ \A i \in 1..(Len(attempts[s]) - 1) : attempts'[s][i] = attempts[s][i]
           /\ \A r \in Stage \ {s} : stage'[r] = stage[r] /\ attempts'[r] = attempts[r]
<1> DEFINE list == attempts[s]
           concluded == [list EXCEPT ![Len(list)] = outcome]
<1>1. list \in Seq(StageStatus) /\ Len(list) \in Nat \ {0}
  BY DEF TypeOK
<1>2. concluded \in Seq(StageStatus) /\ Len(concluded) = Len(list)
  BY <1>1
<1>3. \A i \in 1..Len(list) : concluded[i] = IF i = Len(list) THEN outcome ELSE list[i]
  BY <1>1
<1>4. attempts' = [attempts EXCEPT ![s] = concluded]
  BY DEF Concludes
<1>5. attempts' \in [Stage -> Seq(StageStatus)] /\ attempts'[s] = concluded
  BY <1>2, <1>4 DEF TypeOK
<1>6. \A r \in Stage \ {s} : attempts'[r] = attempts[r]
  BY <1>4 DEF TypeOK
<1>7. /\ stage' \in [Stage -> StageStatus]
      /\ stage'[s] = outcome
      /\ \A r \in Stage \ {s} : stage'[r] = stage[r]
  BY DEF Concludes, TypeOK
<1> QED BY <1>1, <1>2, <1>3, <1>5, <1>6, <1>7

-------------------------------------------------------------------------------
\* What an invocation that owns the run need not fear

LEMMA OwnerIsAlone ==
    ASSUME JInv, NEW p \in Process, proc[p].pc # "idle"
    PROVE  /\ \A q \in Process \ {p} : proc[q].pc = "idle"
           /\ \A v \in Viewer : viewer[v].pc # "holding"
BY DEF JInv, OneOwner

\* Whatever the owner does next, it is still the only one.
LEMMA OwnerStaysAlone ==
    ASSUME JInv, NEW p \in Process, proc[p].pc # "idle", OnlyInvocation(p), viewer' = viewer
    PROVE  OneOwner' /\ HeldCopyIsCurrent'
BY OwnerIsAlone DEF OnlyInvocation, OneOwner, HeldCopyIsCurrent

\* The invariants that speak of the stages alone.
StageParts == StagesInOrder /\ AttemptsMatch /\ ExternalEffectOnce /\ AttemptsAreKept

LEMMA StagesUntouched ==
    ASSUME JInv, UNCHANGED <<stage, attempts, effects>>
    PROVE  StageParts'
BY DEF JInv, StageParts, StagesInOrder, AttemptsMatch, ExternalEffectOnce, AttemptsAreKept

\* An owner that stops, and leaves the stages as they are.
LEMMA ExitKeeps ==
    ASSUME JInv, NEW p \in Process, proc[p].pc # "idle", Exit(p),
           UNCHANGED <<stage, attempts, effects, viewer>>
    PROVE  OneOwner' /\ InvocationIsSound' /\ HeldCopyIsCurrent' /\ StageParts'
<1>1. OnlyInvocation(p) /\ proc'[p].pc = "idle"
  BY ExitIs DEF JInv
<1>2. OneOwner' /\ HeldCopyIsCurrent'
  BY <1>1, OwnerStaysAlone
<1>3. InvocationIsSound'
  BY <1>1, OwnerIsAlone DEF OnlyInvocation, InvocationIsSound
<1> QED BY <1>2, <1>3, StagesUntouched

\* An owner that goes on to a stage or to finish, and leaves the stages as they are.
LEMMA OnwardKeeps ==
    ASSUME JInv, NEW p \in Process, NEW s \in Stage, proc[p].pc = "between",
           proc[p].at = s, IsFinished(s), \A r \in 1..(s - 1) : IsFinished(r), Onward(p),
           UNCHANGED <<stage, attempts, effects, viewer>>
    PROVE  OneOwner' /\ InvocationIsSound' /\ HeldCopyIsCurrent' /\ StageParts'
<1>1. OnlyInvocation(p) /\ proc'[p].pc = IF s = N THEN "finishing" ELSE "between"
  BY OnwardIs DEF JInv
<1>2. OneOwner' /\ HeldCopyIsCurrent'
  BY <1>1, OwnerStaysAlone
<1>3. s = N => \A r \in Stage : IsFinished(r)
  OBVIOUS
<1>4. InvocationIsSound'
  BY <1>1, <1>3, OwnerIsAlone DEF OnlyInvocation, InvocationIsSound
<1> QED BY <1>2, <1>4, StagesUntouched

-------------------------------------------------------------------------------
\* One lemma per action

LEMMA BeginPreserves ==
    ASSUME JInv, NEW p \in Process, Begin(p)
    PROVE  JInv'
<1> DEFINE between == [Idle EXCEPT !.pc = "between"]
<1>1. between \in InvocationState /\ between.pc = "between" /\ between.at = 1
  BY IdleTyped DEF InvocationState
<1>2. proc' = [proc EXCEPT ![p] = between]
  BY DEF Begin
<1>3. proc \in [Process -> InvocationState]
  BY DEF JInv, TypeOK
<1>4. OnlyInvocation(p) /\ proc'[p].pc = "between"
  BY <1>1, <1>2, <1>3 DEF OnlyInvocation
<1>5. TypeOK'
  BY <1>4 DEF Begin, JInv, TypeOK, OnlyInvocation, RunStatus, StageStatus
<1>6. /\ \A q \in Process : proc[q].pc = "idle"
      /\ \A v \in Viewer : viewer[v].pc # "holding"
  BY DEF Begin, Owned
<1>7. OneOwner' /\ HeldCopyIsCurrent' /\ InvocationIsSound'
  BY <1>4, <1>6 DEF Begin, OnlyInvocation, OneOwner, HeldCopyIsCurrent, InvocationIsSound
<1>8. CompletedIsFinished'
  BY DEF Begin, JInv, CompletedIsFinished
<1>9. StageParts'
  BY StagesUntouched DEF Begin
<1> QED BY <1>5, <1>7, <1>8, <1>9 DEF JInv, StageParts

LEMMA RefuseInputsPreserves ==
    ASSUME JInv, NEW p \in Process, NEW s \in Stage, RefuseInputs(p, s)
    PROVE  JInv'
<1>1. OnlyInvocation(p) /\ proc'[p].pc = "idle"
  BY ExitIs DEF JInv, RefuseInputs
<1>2. TypeOK'
  <2>1. faults' \in 0..MaxFaults
    BY FaultTyped DEF RefuseInputs, JInv
  <2> QED BY <1>1, <2>1 DEF RefuseInputs, JInv, TypeOK, OnlyInvocation, RunStatus
<1>3. OneOwner' /\ InvocationIsSound' /\ HeldCopyIsCurrent' /\ StageParts'
  BY ExitKeeps DEF RefuseInputs, Calls
<1>4. CompletedIsFinished'
  BY DEF RefuseInputs, CompletedIsFinished
<1> QED BY <1>2, <1>3, <1>4 DEF JInv, StageParts

LEMMA ReusePreserves ==
    ASSUME JInv, NEW p \in Process, NEW s \in Stage, Reuse(p, s)
    PROVE  JInv'
<1>1. OnlyInvocation(p)
  BY ExitIs, OnwardIs DEF JInv, Reuse, Calls
<1>2. TypeOK'
  BY <1>1 DEF Reuse, JInv, TypeOK, OnlyInvocation
<1>3. OneOwner' /\ InvocationIsSound' /\ HeldCopyIsCurrent' /\ StageParts'
  BY ExitKeeps, OnwardKeeps DEF Reuse, Calls
<1>4. CompletedIsFinished'
  BY DEF Reuse, JInv, CompletedIsFinished
<1> QED BY <1>2, <1>3, <1>4 DEF JInv, StageParts

LEMMA SealPreserves ==
    ASSUME JInv, NEW p \in Process, Seal(p)
    PROVE  JInv'
<1>1. OnlyInvocation(p) /\ proc'[p].pc = "idle"
  BY ExitIs DEF JInv, Seal
<1>2. TypeOK'
  BY <1>1 DEF Seal, JInv, TypeOK, OnlyInvocation, RunStatus, StageStatus
<1>3. OneOwner' /\ InvocationIsSound' /\ HeldCopyIsCurrent' /\ StageParts'
  BY ExitKeeps DEF Seal
<1>4. CompletedIsFinished'
  BY DEF Seal, JInv, InvocationIsSound, CompletedIsFinished
<1> QED BY <1>2, <1>3, <1>4 DEF JInv, StageParts

LEMMA CrashPreserves ==
    ASSUME JInv, NEW p \in Process, Crash(p)
    PROVE  JInv'
<1>1. OnlyInvocation(p) /\ proc'[p].pc = "idle"
  BY ExitIs DEF JInv, Crash
<1>2. TypeOK'
  <2>1. faults' \in 0..MaxFaults
    BY FaultTyped DEF Crash, JInv
  <2> QED BY <1>1, <2>1 DEF Crash, JInv, TypeOK, OnlyInvocation
<1>3. OneOwner' /\ InvocationIsSound' /\ HeldCopyIsCurrent' /\ StageParts'
  BY ExitKeeps DEF Crash
<1>4. CompletedIsFinished'
  BY DEF Crash, JInv, CompletedIsFinished
<1> QED BY <1>2, <1>3, <1>4 DEF JInv, StageParts

LEMMA CheckPreserves ==
    ASSUME JInv, NEW p \in Process, Check(p)
    PROVE  JInv'
<1> DEFINE s == proc[p].at
<1> USE DEF Check
<1>1. CASE IsFinished(s) /\ Verified(outputs[s])
  <2>1. proc' = [proc EXCEPT ![p].at = s + 1] /\ s \in 1..N /\ proc[p].pc = "finishing"
    BY <1>1 DEF JInv, TypeOK, InvocationState
  <2>2. OnlyInvocation(p) /\ proc'[p].pc = "finishing"
    <3> DEFINE checked == [proc[p] EXCEPT !.at = s + 1]
    <3>1. proc \in [Process -> InvocationState]
      BY DEF JInv, TypeOK
    <3>2. s + 1 \in 1..(N + 1)
      BY <2>1
    <3>3. checked \in InvocationState /\ checked.pc = "finishing"
      <4>1. proc[p] \in InvocationState
        BY <3>1
      <4> HIDE DEF s
      <4> QED BY <2>1, <3>2, <4>1 DEF InvocationState
    <3>4. proc' = [proc EXCEPT ![p] = checked]
      BY <2>1
    <3> QED BY <3>1, <3>3, <3>4 DEF OnlyInvocation
  <2>3. TypeOK'
    BY <2>2 DEF JInv, TypeOK, OnlyInvocation
  <2>4. OneOwner' /\ HeldCopyIsCurrent'
    BY <2>2, OwnerStaysAlone
  <2>5. InvocationIsSound'
    BY <2>2, OwnerIsAlone DEF JInv, OnlyInvocation, InvocationIsSound
  <2>6. CompletedIsFinished' /\ StageParts'
    BY StagesUntouched DEF JInv, CompletedIsFinished
  <2> QED BY <2>3, <2>4, <2>5, <2>6 DEF JInv, StageParts
<1>2. CASE ~(IsFinished(s) /\ Verified(outputs[s]))
  <2>1. Exit(p) /\ proc[p].pc = "finishing"
    BY <1>2
  <2>2. OnlyInvocation(p) /\ proc'[p].pc = "idle"
    BY <2>1, ExitIs DEF JInv
  <2>3. TypeOK'
    BY <2>2 DEF JInv, TypeOK, OnlyInvocation
  <2>4. OneOwner' /\ InvocationIsSound' /\ HeldCopyIsCurrent' /\ StageParts'
    BY <2>1, ExitKeeps
  <2>5. CompletedIsFinished'
    BY DEF JInv, CompletedIsFinished
  <2> QED BY <2>3, <2>4, <2>5 DEF JInv, StageParts
<1> QED BY <1>1, <1>2

LEMMA EditPreserves ==
    ASSUME JInv, NEW x \in Path, Edit(x)
    PROVE  JInv'
<1>1. TypeOK'
  <2>1. bytes' \in [Path -> Nat \ {0}] /\ edits' \in 0..MaxEdits
    BY DEF Edit, JInv, TypeOK
  <2> QED BY <2>1 DEF Edit, JInv, TypeOK
<1>2. OneOwner' /\ InvocationIsSound' /\ HeldCopyIsCurrent' /\ CompletedIsFinished'
  BY DEF Edit, JInv, OneOwner, InvocationIsSound, HeldCopyIsCurrent, CompletedIsFinished
<1>3. StageParts'
  BY StagesUntouched DEF Edit
<1> QED BY <1>1, <1>2, <1>3 DEF JInv, StageParts

\* A reader changes only its own record.
LEMMA ReaderKeeps ==
    ASSUME JInv, NEW v \in Viewer, viewer' \in [Viewer -> ViewerState],
           \A u \in Viewer \ {v} : viewer'[u] = viewer[u],
           viewer'[v].pc = "holding" => /\ ~Owned
                                        /\ viewer'[v].status = status
                                        /\ viewer'[v].stage = stage,
           UNCHANGED <<journal, bytes, proc, effects, used, edits, faults>>
    PROVE  JInv'
<1>1. TypeOK'
  BY DEF JInv, TypeOK
<1>2. OneOwner' /\ HeldCopyIsCurrent'
  BY DEF JInv, OneOwner, HeldCopyIsCurrent, Owned
<1>3. InvocationIsSound' /\ CompletedIsFinished'
  BY DEF JInv, InvocationIsSound, CompletedIsFinished
<1>4. StageParts'
  BY StagesUntouched
<1> QED BY <1>1, <1>2, <1>3, <1>4 DEF JInv, StageParts

LEMMA NoViewTyped == NoView \in ViewerState /\ NoView.pc = "idle"
BY DEF NoView, ViewerState, RunStatus, StageStatus

LEMMA ReadsIs ==
    ASSUME TypeOK, NEW v \in Viewer, NEW step \in {"holding", "looking"}, Reads(v, step)
    PROVE  /\ viewer' \in [Viewer -> ViewerState]
           /\ viewer'[v].pc = step /\ viewer'[v].status = status /\ viewer'[v].stage = stage
           /\ \A u \in Viewer \ {v} : viewer'[u] = viewer[u]
<1> DEFINE copy == [pc |-> step, status |-> status, stage |-> stage, verdict |-> "none"]
<1>1. copy \in ViewerState
  BY DEF TypeOK, ViewerState
<1>2. viewer' = [viewer EXCEPT ![v] = copy]
  BY DEF Reads
<1> QED BY <1>1, <1>2 DEF TypeOK

LEMMA VerdictTyped ==
    ASSUME NEW seen \in ViewerState
    PROVE  Verdict(seen) \in RunStatus \cup {"none", "invalid_artifacts"}
BY DEF Verdict, ViewerState, RunStatus, StageStatus

LEMMA ReaderPreserves ==
    ASSUME JInv, NEW v \in Viewer, Reader(v)
    PROVE  JInv'
<1> USE DEF JInv
<1>1. CASE Hold(v)
  BY <1>1, ReadsIs, ReaderKeeps DEF Hold
<1>2. CASE Look(v)
  BY <1>2, ReadsIs, ReaderKeeps DEF Look
<1>3. CASE LetGo(v)
  <2>1. viewer' \in [Viewer -> ViewerState] /\ viewer'[v].pc = "idle"
    BY <1>3, NoViewTyped DEF LetGo, TypeOK
  <2>2. \A u \in Viewer \ {v} : viewer'[u] = viewer[u]
    BY <1>3 DEF LetGo, TypeOK
  <2> QED BY <1>3, <2>1, <2>2, ReaderKeeps DEF LetGo
<1>4. CASE Judge(v)
  <2> DEFINE judged == [NoView EXCEPT !.verdict = Verdict(viewer[v])]
  <2>1. viewer \in [Viewer -> ViewerState]
    BY DEF TypeOK
  <2>2. judged \in ViewerState /\ judged.pc = "idle"
    BY <2>1, NoViewTyped, VerdictTyped DEF ViewerState
  <2>3. viewer' = [viewer EXCEPT ![v] = judged]
    BY <1>4 DEF Judge
  <2>4. /\ viewer' \in [Viewer -> ViewerState]
        /\ viewer'[v].pc = "idle"
        /\ \A u \in Viewer \ {v} : viewer'[u] = viewer[u]
    BY <2>1, <2>2, <2>3
  <2> QED BY <1>4, <2>4, ReaderKeeps DEF Judge
<1> QED BY <1>1, <1>2, <1>3, <1>4 DEF Reader

-------------------------------------------------------------------------------
\* The actions that change the stages

\* A stage that is not pending, with attempts the last of which it is.
LEMMA OthersMatch ==
    ASSUME AttemptsMatch, NEW s \in Stage,
           \A r \in Stage \ {s} : /\ stage'[r] = stage[r]
                                  /\ attempts'[r] = attempts[r]
                                  /\ effects'[r] = effects[r],
           stage'[s] # "pending",
           stage'[s] = "uncertain" => s \notin Repeatable,
           Len(attempts'[s]) > 0,
           attempts'[s][Len(attempts'[s])] = stage'[s],
           s \notin Repeatable => Len(attempts'[s]) <= 1
    PROVE  AttemptsMatch'
<1> SUFFICES ASSUME NEW r \in Stage
             PROVE  LET list == attempts'[r] IN
                    /\ stage'[r] = "pending" => list = << >> /\ effects'[r] = 0
                    /\ stage'[r] # "pending" => Len(list) > 0
                    /\ stage'[r] = "uncertain" => r \notin Repeatable
                    /\ stage'[r] \notin {"pending", "uncertain"} => list[Len(list)] = stage'[r]
                    /\ r \notin Repeatable => Len(list) <= 1
  BY DEF AttemptsMatch
<1>1. CASE r = s
  BY <1>1
<1>2. CASE r # s
  <2>1. stage'[r] = stage[r] /\ attempts'[r] = attempts[r] /\ effects'[r] = effects[r]
    BY <1>2
  <2> QED BY <2>1 DEF AttemptsMatch
<1> QED BY <1>1, <1>2

LEMMA FencePreserves ==
    ASSUME JInv, NEW p \in Process, NEW s \in Stage, Fence(p, s)
    PROVE  JInv'
<1>1. OnlyInvocation(p) /\ proc'[p].pc = "idle" /\ proc[p].pc # "idle"
  BY ExitIs DEF Fence, JInv, Calls
<1>2. stage[s] # "pending" /\ s \notin Repeatable
  BY DEF Fence, MayStart
<1>3. /\ stage' \in [Stage -> StageStatus]
      /\ stage'[s] = "uncertain" /\ ~IsFinished(s)
      /\ \A r \in Stage \ {s} : stage'[r] = stage[r]
  BY DEF Fence, JInv, TypeOK, StageStatus
<1> status' = "uncertain" /\ UNCHANGED <<inputs, outputs, attempts, bytes, viewer, effects,
                                         used, edits, faults>>
  BY DEF Fence
<1>4. TypeOK'
  <2>1. status' \in RunStatus
    BY DEF RunStatus, StageStatus
  <2>2. /\ proc' \in [Process -> InvocationState]
        /\ \A q \in Process : proc'[q].at = N + 1 => proc'[q].pc = "finishing"
    BY <1>1 DEF JInv, TypeOK, OnlyInvocation
  <2> QED BY <1>3, <2>1, <2>2 DEF JInv, TypeOK
<1>5. OneOwner' /\ HeldCopyIsCurrent'
  BY <1>1, OwnerStaysAlone
<1>6. InvocationIsSound'
  BY <1>1, OwnerIsAlone DEF OnlyInvocation, InvocationIsSound
<1>7. StagesInOrder'
  BY <1>2, <1>3 DEF JInv, StagesInOrder
<1>8. AttemptsMatch'
  BY <1>2, <1>3 DEF JInv, AttemptsMatch
<1>9. ExternalEffectOnce' /\ AttemptsAreKept'
  BY <1>3 DEF JInv, ExternalEffectOnce, AttemptsAreKept
<1>10. CompletedIsFinished'
  BY DEF CompletedIsFinished
<1> QED BY <1>4, <1>5, <1>6, <1>7, <1>8, <1>9, <1>10 DEF JInv

LEMMA StartPreserves ==
    ASSUME JInv, NEW p \in Process, NEW s \in Stage, Start(p, s)
    PROVE  JInv'
<1> DEFINE list == attempts[s]
           operating == [proc[p] EXCEPT !.pc = "operating"]
<1>1. /\ stage' \in [Stage -> StageStatus]
      /\ stage'[s] = "running" /\ ~IsFinished(s) /\ stage[s] # "completed"
      /\ \A r \in Stage \ {s} : stage'[r] = stage[r]
  BY DEF Start, MayStart, JInv, TypeOK, StageStatus
<1>2. list \in Seq(StageStatus) /\ Len(list) \in Nat
  BY DEF JInv, TypeOK
<1>3. /\ attempts' \in [Stage -> Seq(StageStatus)]
      /\ attempts'[s] = Retry(list)
      /\ \A r \in Stage \ {s} : attempts'[r] = attempts[r]
  BY <1>2, RetryIs DEF Start, JInv, TypeOK
<1>4. OnlyInvocation(p) /\ proc'[p].pc = "operating" /\ proc'[p].at = s
  <2>1. proc \in [Process -> InvocationState] /\ s # N + 1 /\ proc[p].at = s
    BY DEF Start, Calls, JInv, TypeOK
  <2>2. operating \in InvocationState /\ operating.pc = "operating" /\ operating.at = s
    BY <2>1 DEF InvocationState
  <2>3. proc' = [proc EXCEPT ![p] = operating]
    BY DEF Start
  <2> QED BY <2>1, <2>2, <2>3 DEF OnlyInvocation
<1>5. TypeOK'
  <2>1. inputs' \in [Stage -> Fingerprints]
    BY FingerprintTyped DEF Start, JInv, TypeOK
  <2> QED BY <1>1, <1>3, <1>4, <2>1
          DEF Start, JInv, TypeOK, OnlyInvocation, RunStatus, StageStatus
<1>6. OneOwner' /\ HeldCopyIsCurrent'
  BY <1>4, OwnerStaysAlone DEF Start, Calls
<1>7. /\ effects' = effects /\ effects[s] \in Nat /\ effects[s] <= Len(list)
      /\ s \notin Repeatable => stage[s] = "pending"
      /\ stage[s] = "pending" => list = << >> /\ effects[s] = 0
  BY DEF Start, MayStart, JInv, TypeOK, AttemptsMatch, AttemptsAreKept
<1>8. /\ Len(attempts'[s]) = Len(list) + 1
      /\ attempts'[s][Len(list) + 1] = "running"
      /\ \A i \in 1..Len(list) :
            attempts'[s][i] = IF list[i] = "running" THEN "interrupted" ELSE list[i]
  <2> HIDE DEF list
  <2> QED BY <1>2, <1>3, RetryIs
<1>9. InvocationIsSound'
  <2>1. effects'[s] < Len(attempts'[s]) /\ (s \notin Repeatable => effects'[s] = 0)
    BY <1>2, <1>7, <1>8
  <2>2. \A q \in Process \ {p} : proc'[q].pc = "idle"
    BY <1>4, OwnerIsAlone DEF Start, Calls, OnlyInvocation
  <2> QED BY <1>1, <1>4, <2>1, <2>2 DEF InvocationIsSound
<1>10. StagesInOrder'
  <2>1. \A r \in Stage : r < s => IsFinished(r)
    BY DEF Start, Calls
  <2> QED BY <1>1, <2>1 DEF JInv, StagesInOrder
<1>11. AttemptsMatch'
  <2>1. s \notin Repeatable => Len(attempts'[s]) <= 1
    BY <1>7, <1>8
  <2>2. attempts'[s][Len(attempts'[s])] = stage'[s] /\ Len(attempts'[s]) > 0
    BY <1>1, <1>2, <1>8
  <2>3. \A r \in Stage \ {s} : /\ stage'[r] = stage[r]
                               /\ attempts'[r] = attempts[r]
                               /\ effects'[r] = effects[r]
    BY <1>1, <1>3, <1>7
  <2>4. stage'[s] = "running" /\ AttemptsMatch
    BY <1>1 DEF JInv
  <2> QED BY <2>1, <2>2, <2>3, <2>4, OthersMatch
<1>12. AttemptsAreKept'
  <2>1. \A i \in 1..Len(list) : list[i] \in {"failed", "interrupted", "running"}
    <3>1. list # << >> => /\ Len(list) > 0
                          /\ stage[s] \notin {"pending", "uncertain", "completed", "skipped"}
      BY <1>1, <1>2, <1>7 DEF Start, MayStart, JInv, AttemptsMatch, TypeOK, StageStatus
    <3>2. list # << >> => list[Len(list)] \in {"failed", "interrupted", "running"}
      BY <3>1 DEF JInv, AttemptsMatch, TypeOK, StageStatus
    <3>3. \A i \in 1..(Len(list) - 1) : list[i] \in {"failed", "interrupted"}
      BY DEF JInv, AttemptsAreKept
    <3> QED BY <1>2, <3>2, <3>3
  <2>2. \A i \in 1..(Len(attempts'[s]) - 1) : attempts'[s][i] \in {"failed", "interrupted"}
    BY <1>2, <1>8, <2>1
  <2>3. effects'[s] <= Len(attempts'[s])
    BY <1>2, <1>7, <1>8
  <2> QED BY <1>1, <1>3, <1>7, <2>2, <2>3 DEF JInv, AttemptsAreKept
<1>13. ExternalEffectOnce' /\ CompletedIsFinished'
  BY DEF Start, JInv, ExternalEffectOnce, CompletedIsFinished
<1> QED BY <1>5, <1>6, <1>9, <1>10, <1>11, <1>12, <1>13 DEF JInv

LEMMA WorkPreserves ==
    ASSUME JInv, NEW p \in Process, NEW declared \in SUBSET Path, Work(p, declared)
    PROVE  JInv'
<1> DEFINE s == proc[p].at
           worked == [proc[p] EXCEPT !.pc = "worked", !.read = Fingerprint(InputsOf[s]),
                                     !.declared = declared]
<1>1. /\ proc \in [Process -> InvocationState] /\ proc[p].pc = "operating"
      /\ s \in Stage /\ s # N + 1
  <2>1. proc[p] \in InvocationState /\ proc[p].pc = "operating" /\ s # N + 1
    BY DEF Work, JInv, TypeOK
  <2>2. s \in 1..(N + 1)
    BY <2>1 DEF InvocationState
  <2> QED BY <2>1, <2>2 DEF JInv, TypeOK
<1>2. OnlyInvocation(p) /\ proc'[p].pc = "worked" /\ proc'[p].at = s
  <2>1. Fingerprint(InputsOf[s]) \in Fingerprints
    BY <1>1, FingerprintTyped DEF JInv
  <2>2. worked \in InvocationState /\ worked.pc = "worked" /\ worked.at = s
    BY <1>1, <2>1 DEF InvocationState
  <2>3. proc' = [proc EXCEPT ![p] = worked]
    BY DEF Work
  <2> QED BY <1>1, <2>2, <2>3 DEF OnlyInvocation
<1>3. /\ effects' \in [Stage -> Nat] /\ effects'[s] = effects[s] + 1 /\ effects[s] \in Nat
      /\ \A r \in Stage \ {s} : effects'[r] = effects[r]
  BY <1>1 DEF Work, JInv, TypeOK
<1>4. TypeOK'
  <2>1. bytes' \in [Path -> Nat \ {0}]
    BY DEF Work, JInv, TypeOK
  <2> QED BY <1>2, <1>3, <2>1 DEF Work, JInv, TypeOK, OnlyInvocation
<1>5. OneOwner' /\ HeldCopyIsCurrent'
  BY <1>1, <1>2, OwnerStaysAlone DEF Work
<1>6. /\ stage[s] = "running" /\ effects[s] < Len(attempts[s])
      /\ s \notin Repeatable => effects[s] = 0
  BY <1>1 DEF JInv, InvocationIsSound
<1>7. InvocationIsSound'
  <2>1. \A q \in Process \ {p} : proc'[q].pc = "idle"
    BY <1>1, <1>2, OwnerIsAlone DEF OnlyInvocation
  <2>2. stage'[s] = "running" /\ effects'[s] > 0
    BY <1>1, <1>3, <1>6 DEF Work
  <2> QED BY <1>2, <2>1, <2>2 DEF InvocationIsSound
<1>8. StagesInOrder' /\ CompletedIsFinished'
  BY DEF Work, JInv, StagesInOrder, CompletedIsFinished
<1>9. AttemptsMatch'
  BY <1>3, <1>6 DEF Work, JInv, AttemptsMatch
<1>10. ExternalEffectOnce'
  BY <1>3, <1>6 DEF Work, JInv, ExternalEffectOnce
<1>11. AttemptsAreKept'
  <2>1. Len(attempts[s]) \in Nat
    BY <1>1 DEF JInv, TypeOK
  <2>2. effects'[s] <= Len(attempts[s])
    BY <1>3, <1>6, <2>1
  <2> QED BY <1>3, <2>2 DEF Work, JInv, AttemptsAreKept
<1> QED BY <1>4, <1>5, <1>7, <1>8, <1>9, <1>10, <1>11 DEF JInv

\* A stage that has worked is concluded: by its result, or by an error.
LEMMA ConcludeKeeps ==
    ASSUME JInv, NEW s \in Stage, stage[s] = "running",
           NEW outcome \in StageStatus \ {"pending", "running"},
           outcome = "uncertain" => s \notin Repeatable,
           outcome \in {"failed", "interrupted"} => s \in Repeatable,
           Concludes(s, outcome), effects' = effects
    PROVE  StageParts'
<1> DEFINE list == attempts[s]
<1>1. list \in Seq(StageStatus) /\ Len(list) \in Nat \ {0}
  <2>1. list \in Seq(StageStatus) /\ Len(list) \in Nat
    BY DEF JInv, TypeOK
  <2> QED BY <2>1 DEF JInv, AttemptsMatch
<1>2. /\ stage'[s] = outcome
      /\ Len(attempts'[s]) = Len(list)
      /\ attempts'[s][Len(list)] = outcome
      /\ \A i \in 1..(Len(list) - 1) : attempts'[s][i] = list[i]
      /\ attempts' \in [Stage -> Seq(StageStatus)]
      /\ \A r \in Stage \ {s} : stage'[r] = stage[r] /\ attempts'[r] = attempts[r]
  <2>1. TypeOK /\ outcome \in StageStatus /\ Len(attempts[s]) > 0
    BY <1>1 DEF JInv
  <2> QED BY ONLY <2>1, ConcludesIs, s \in Stage, Concludes(s, outcome) DEF list
<1>3. StagesInOrder'
  <2>1. ~IsFinished(s) /\ stage[s] # "pending"
    OBVIOUS
  <2> QED BY <1>2, <2>1 DEF JInv, StagesInOrder
<1>4. AttemptsMatch'
  <2>1. s \notin Repeatable => Len(attempts'[s]) <= 1
    BY <1>2 DEF JInv, AttemptsMatch
  <2>2. attempts'[s][Len(attempts'[s])] = stage'[s] /\ Len(attempts'[s]) > 0
    BY <1>1, <1>2
  <2>3. \A r \in Stage \ {s} : /\ stage'[r] = stage[r]
                               /\ attempts'[r] = attempts[r]
                               /\ effects'[r] = effects[r]
    BY <1>2
  <2>4. /\ stage'[s] # "pending" /\ AttemptsMatch
        /\ stage'[s] = "uncertain" => s \notin Repeatable
    BY <1>2 DEF JInv
  <2> QED BY <2>1, <2>2, <2>3, <2>4, OthersMatch
<1>5. ExternalEffectOnce'
  BY DEF JInv, ExternalEffectOnce
<1>6. AttemptsAreKept'
  <2>1. effects'[s] <= Len(attempts'[s])
    BY <1>2 DEF JInv, AttemptsAreKept
  <2>2. \A i \in 1..(Len(attempts'[s]) - 1) : attempts'[s][i] \in {"failed", "interrupted"}
    BY <1>2 DEF JInv, AttemptsAreKept
  <2>3. attempts'[s] # << >> /\ attempts'[s][Len(attempts'[s])] = stage'[s]
    BY <1>1, <1>2
  <2>4. ASSUME NEW r \in Stage \ {s}
        PROVE  /\ effects'[r] <= Len(attempts'[r])
               /\ \A i \in 1..(Len(attempts'[r]) - 1) :
                     attempts'[r][i] \in {"failed", "interrupted"}
               /\ IsFinished(r)' => /\ attempts'[r] # << >>
                                    /\ attempts'[r][Len(attempts'[r])] = stage'[r]
    <3>1. stage'[r] = stage[r] /\ attempts'[r] = attempts[r] /\ effects'[r] = effects[r]
      BY <1>2
    <3> QED BY <3>1 DEF JInv, AttemptsAreKept
  <2> QED BY <2>1, <2>2, <2>3, <2>4 DEF AttemptsAreKept
<1> QED BY <1>3, <1>4, <1>5, <1>6 DEF StageParts

LEMMA OwnerIsAt ==
    ASSUME JInv, NEW p \in Process, proc[p].pc \in {"operating", "worked"}
    PROVE  /\ proc[p] \in InvocationState /\ proc[p].at \in Stage
           /\ stage[proc[p].at] = "running" /\ Len(attempts[proc[p].at]) > 0
<1>1. proc[p] \in InvocationState /\ proc[p].at # N + 1
  BY DEF JInv, TypeOK
<1>2. proc[p].at \in Stage
  <2>1. proc[p].at \in 1..(N + 1)
    BY <1>1 DEF InvocationState
  <2> QED BY <1>1, <2>1
<1> QED BY <1>1, <1>2 DEF JInv, InvocationIsSound, AttemptsMatch

LEMMA FailPreserves ==
    ASSUME JInv, NEW p \in Process, Fail(p)
    PROVE  JInv'
<1> DEFINE s == proc[p].at
<1>1. proc[p].pc \in {"operating", "worked"}
  BY DEF Fail
<1>2. /\ s \in Stage /\ stage[s] = "running" /\ Len(attempts[s]) > 0
  BY <1>1, OwnerIsAt
<1>3. PICK outcome \in IF s \in Repeatable THEN {"failed", "interrupted"} ELSE {"uncertain"} :
          Concludes(s, outcome) /\ status' = outcome
  BY DEF Fail
<1>4. outcome \in StageStatus
  BY DEF StageStatus
<1>5. OnlyInvocation(p) /\ proc'[p].pc = "idle"
  BY ExitIs DEF Fail, JInv
<1>6. TypeOK'
  <2>1. faults' \in 0..MaxFaults
    BY FaultTyped DEF Fail, JInv
  <2>2. stage' \in [Stage -> StageStatus] /\ attempts' \in [Stage -> Seq(StageStatus)]
    BY <1>2, <1>3, <1>4, ConcludesIs DEF JInv
  <2>3. status' \in RunStatus
    BY <1>3, <1>4 DEF RunStatus
  <2> QED BY <1>5, <2>1, <2>2, <2>3 DEF Fail, JInv, TypeOK, OnlyInvocation
<1>7. OneOwner' /\ HeldCopyIsCurrent'
  BY <1>1, <1>5, OwnerStaysAlone DEF Fail
<1>8. InvocationIsSound'
  BY <1>1, <1>5, OwnerIsAlone DEF OnlyInvocation, InvocationIsSound
<1>9. StageParts'
  <2> HIDE DEF s
  <2>1. effects' = effects
    BY DEF Fail
  <2>2. outcome \in StageStatus \ {"pending", "running"}
    BY DEF StageStatus
  <2> QED BY <1>2, <1>3, <2>1, <2>2, ConcludeKeeps
<1>10. CompletedIsFinished'
  BY <1>3 DEF CompletedIsFinished
<1> QED BY <1>6, <1>7, <1>8, <1>9, <1>10 DEF JInv, StageParts

LEMMA CompletePreserves ==
    ASSUME JInv, NEW p \in Process, Complete(p)
    PROVE  JInv'
<1> DEFINE s == proc[p].at
           outcome == IF proc[p].declared = {} THEN "skipped" ELSE "completed"
<1>1. proc[p].pc = "worked"
  BY DEF Complete
<1>2. /\ proc[p] \in InvocationState
      /\ s \in Stage /\ stage[s] = "running" /\ Len(attempts[s]) > 0
  BY <1>1, OwnerIsAt
<1>3. outcome \in StageStatus /\ Concludes(s, outcome)
  BY DEF Complete, StageStatus
<1>4. /\ OnlyInvocation(p)
      /\ proc'[p].pc = IF s = N THEN "finishing" ELSE "between"
  BY <1>2, OnwardIs DEF Complete, JInv
<1>5. /\ stage' \in [Stage -> StageStatus] /\ attempts' \in [Stage -> Seq(StageStatus)]
      /\ stage'[s] = outcome
      /\ \A r \in Stage \ {s} : stage'[r] = stage[r]
  <2> HIDE DEF s, outcome
  <2> QED BY <1>2, <1>3, ConcludesIs DEF JInv
<1>6. TypeOK'
  <2>1. Fingerprint(proc[p].declared) \in Fingerprints /\ proc[p].read \in Fingerprints
    BY <1>2, FingerprintTyped DEF InvocationState, JInv
  <2>2. outputs' \in [Stage -> Fingerprints] /\ used' \in [Stage -> Fingerprints]
    BY <1>2, <2>1 DEF Complete, JInv, TypeOK
  <2>3. status' \in RunStatus
    BY DEF Complete, RunStatus, StageStatus
  <2>4. /\ proc' \in [Process -> InvocationState]
        /\ \A q \in Process : proc'[q].at = N + 1 => proc'[q].pc = "finishing"
    BY <1>4 DEF JInv, TypeOK, OnlyInvocation
  <2>5. UNCHANGED <<inputs, bytes, viewer, effects, edits, faults>>
    BY DEF Complete
  <2> QED BY <1>5, <2>2, <2>3, <2>4, <2>5 DEF JInv, TypeOK
<1>7. OneOwner' /\ HeldCopyIsCurrent'
  BY <1>1, <1>4, OwnerStaysAlone DEF Complete
<1>8. \A r \in Stage : r < s => IsFinished(r)
  BY <1>2 DEF JInv, StagesInOrder
<1>9. s = N => \A r \in Stage : IsFinished(r)'
  <2>1. \A r \in Stage : r < N \/ r = N
    OBVIOUS
  <2>2. stage'[s] \in {"completed", "skipped"}
    BY <1>5
  <2>3. \A r \in Stage \ {s} : r < s => IsFinished(r)'
    BY <1>5, <1>8
  <2> QED BY <2>1, <2>2, <2>3
<1>10. InvocationIsSound'
  <2>1. \A q \in Process \ {p} : proc'[q].pc = "idle"
    BY <1>1, <1>4, OwnerIsAlone DEF OnlyInvocation
  <2> QED BY <1>4, <1>9, <2>1 DEF InvocationIsSound
<1>11. StageParts'
  <2>1. effects' = effects /\ outcome \in {"skipped", "completed"}
    BY DEF Complete
  <2>2. outcome \in StageStatus \ {"pending", "running"}
    BY DEF StageStatus
  <2> HIDE DEF s, outcome
  <2> QED BY <1>2, <1>3, <2>1, <2>2, ConcludeKeeps
<1>12. CompletedIsFinished'
  BY DEF Complete, CompletedIsFinished
<1> QED BY <1>6, <1>7, <1>10, <1>11, <1>12 DEF JInv, StageParts

-------------------------------------------------------------------------------
\* The theorems about the journal's control

LEMMA InitJournal == Init => JInv
<1> SUFFICES ASSUME Init PROVE JInv
  OBVIOUS
<1>1. TypeOK
  <2>1. Nothing \in Fingerprints
    BY DEF Nothing, Fingerprints
  <2>2. proc \in [Process -> InvocationState]
    BY IdleTyped DEF Init
  <2>3. viewer \in [Viewer -> ViewerState]
    BY NoViewTyped DEF Init
  <2>4. \A p \in Process : proc[p].at # N + 1
    BY IdleTyped DEF Init
  <2> QED BY <2>1, <2>2, <2>3, <2>4 DEF Init, TypeOK, RunStatus, StageStatus
<1>2. \A p \in Process : proc[p].pc = "idle"
  BY IdleTyped DEF Init
<1>3. \A v \in Viewer : viewer[v].pc = "idle"
  BY NoViewTyped DEF Init
<1>4. OneOwner /\ InvocationIsSound /\ HeldCopyIsCurrent
  BY <1>2, <1>3 DEF OneOwner, InvocationIsSound, HeldCopyIsCurrent
<1>5. StagesInOrder /\ AttemptsMatch /\ CompletedIsFinished
  BY DEF Init, StagesInOrder, AttemptsMatch, CompletedIsFinished
<1>6. ExternalEffectOnce /\ AttemptsAreKept
  BY DEF Init, ExternalEffectOnce, AttemptsAreKept
<1> QED BY <1>1, <1>4, <1>5, <1>6 DEF JInv

LEMMA NextJournal == JInv /\ [Next]_vars => JInv'
<1> SUFFICES ASSUME JInv, [Next]_vars PROVE JInv'
  OBVIOUS
<1>1. ASSUME NEW p \in Process, Invocation(p) PROVE JInv'
  BY <1>1, BeginPreserves, RefuseInputsPreserves, ReusePreserves, FencePreserves,
     StartPreserves, WorkPreserves, CompletePreserves, FailPreserves, CheckPreserves,
     SealPreserves, CrashPreserves DEF Invocation
<1>2. CASE UNCHANGED vars
  BY <1>2 DEF vars, JInv, TypeOK, OneOwner, StagesInOrder, InvocationIsSound, AttemptsMatch,
     CompletedIsFinished, ExternalEffectOnce, AttemptsAreKept, HeldCopyIsCurrent
<1> QED BY <1>1, <1>2, ReaderPreserves, EditPreserves DEF Next

LEMMA JournalInvariant == Spec => []JInv
<1>1. Init => JInv
  BY InitJournal
<1>2. JInv /\ [Next]_vars => JInv'
  BY NextJournal
<1> QED BY <1>1, <1>2, PTL DEF Spec

\* Every variable keeps its type, whatever the invocations, readers and editors do.
THEOREM TypeCorrect == Spec => []TypeOK
BY JournalInvariant, PTL DEF JInv

\* A stage with an external effect (publish) has it at most once, whatever dies and whoever
\* resumes (weekly_journal.py stage: running is written before the operation is called).
THEOREM EffectOnce == Spec => []ExternalEffectOnce
BY JournalInvariant, PTL DEF JInv

\* No attempt is lost: every effect has its attempt, and a finished stage's last one is the
\* accepted one (stage: "attempts" is only appended to).
THEOREM AttemptsKept == Spec => []AttemptsAreKept
BY JournalInvariant, PTL DEF JInv

\* What held_run's caller read stays what the journal says until it lets go.
THEOREM HeldCopyCurrent == Spec => []HeldCopyIsCurrent
BY JournalInvariant, PTL DEF JInv

-------------------------------------------------------------------------------
\* The journal implements the pipeline

Accepted == {s \in Stage : IsFinished(s)}

LEMMA RejectIs ==
    ASSUME status' # "completed", Accepted' = Accepted, effects' = effects
    PROVE  Pipeline!Reject
BY DEF Pipeline!Reject, Accepted

LEMMA StutterIs ==
    ASSUME (status' = "completed") <=> (status = "completed"), stage' = stage,
           effects' = effects
    PROVE  UNCHANGED Pipeline!vars
BY DEF Pipeline!vars

LEMMA WorkIs ==
    ASSUME JInv, NEW p \in Process, NEW declared \in SUBSET Path, Work(p, declared)
    PROVE  \E s \in Stage : Pipeline!Work(s)
<1> DEFINE s == proc[p].at
<1>1. s \in Stage /\ stage[s] = "running" /\ proc[p].pc = "operating"
  BY OwnerIsAt DEF Work
<1>2. Pipeline!IsCurrent(s)
  BY <1>1 DEF JInv, StagesInOrder, Pipeline!IsCurrent
<1>3. s \notin Repeatable => effects[s] = 0
  BY <1>1 DEF JInv, InvocationIsSound
<1>4. effects' = [effects EXCEPT ![s] = @ + 1] /\ stage' = stage /\ status' = status
  BY DEF Work
<1> HIDE DEF s
<1>5. Pipeline!Work(s)
  BY <1>2, <1>3, <1>4 DEF Pipeline!Work
<1> QED BY <1>1, <1>5

LEMMA FinishIs ==
    ASSUME JInv, NEW p \in Process, Complete(p)
    PROVE  \E s \in Stage : Pipeline!Finish(s)
<1> DEFINE s == proc[p].at
           outcome == IF proc[p].declared = {} THEN "skipped" ELSE "completed"
<1>1. s \in Stage /\ stage[s] = "running" /\ proc[p].pc = "worked"
  BY OwnerIsAt DEF Complete
<1>2. Pipeline!IsCurrent(s)
  BY <1>1 DEF JInv, StagesInOrder, Pipeline!IsCurrent
<1>3. effects[s] > 0 /\ status # "completed"
  BY <1>1 DEF JInv, InvocationIsSound, CompletedIsFinished
<1>4. /\ stage' = [stage EXCEPT ![s] = outcome]
      /\ effects' = effects /\ status' = "running"
  BY DEF Complete, Concludes
<1>5. outcome \in {"completed", "skipped"} /\ stage \in [Stage -> StageStatus]
  BY DEF JInv, TypeOK
<1> HIDE DEF s, outcome
<1>6. Accepted' = Accepted \cup {s}
  BY <1>1, <1>4, <1>5 DEF Accepted
<1>7. Pipeline!Finish(s)
  BY <1>2, <1>3, <1>4, <1>6 DEF Pipeline!Finish, Accepted
<1> QED BY <1>1, <1>7 DEF Pipeline!Finish

LEMMA InvocationIs ==
    ASSUME JInv, NEW p \in Process, Invocation(p)
    PROVE  Pipeline!Next \/ UNCHANGED Pipeline!vars
<1>1. CASE Begin(p)
  BY <1>1, StutterIs DEF Begin
<1>2. ASSUME NEW s \in Stage, RefuseInputs(p, s)
      PROVE  Pipeline!Reject
  BY <1>2, RejectIs DEF RefuseInputs, Accepted
<1>3. ASSUME NEW s \in Stage, Reuse(p, s)
      PROVE  UNCHANGED Pipeline!vars
  BY <1>3, StutterIs DEF Reuse
<1>4. ASSUME NEW s \in Stage, Fence(p, s)
      PROVE  Pipeline!Reject
  BY <1>4, RejectIs DEF Fence, Accepted, JInv, TypeOK
<1>5. ASSUME NEW s \in Stage, Start(p, s)
      PROVE  Pipeline!Reject
  <2>1. ~IsFinished(s)
    BY <1>5 DEF Start, MayStart
  <2> QED BY <1>5, <2>1, RejectIs DEF Start, Accepted, JInv, TypeOK
<1>6. CASE Fail(p)
  <2> DEFINE s == proc[p].at
  <2>1. s \in Stage /\ stage[s] = "running"
    BY <1>6, OwnerIsAt DEF Fail
  <2>2. PICK outcome \in IF s \in Repeatable THEN {"failed", "interrupted"} ELSE {"uncertain"} :
            Concludes(s, outcome) /\ status' = outcome
    BY <1>6 DEF Fail
  <2>3. stage' = [stage EXCEPT ![s] = outcome] /\ effects' = effects
    BY <1>6, <2>2 DEF Fail, Concludes
  <2> HIDE DEF s
  <2>4. Accepted' = Accepted
    BY <2>1, <2>2, <2>3 DEF Accepted, JInv, TypeOK
  <2>5. Pipeline!Reject
    BY <2>2, <2>3, <2>4, RejectIs
  <2> QED BY <2>5 DEF Pipeline!Next
<1>7. CASE Check(p) \/ Crash(p)
  BY <1>7, StutterIs DEF Check, Crash
<1>8. CASE Seal(p)
  <2>1. Accepted = Stage
    BY <1>8 DEF Seal, JInv, InvocationIsSound, Accepted
  <2>2. Pipeline!Seal
    BY <1>8, <2>1 DEF Seal, Pipeline!Seal, Pipeline!Stage, Accepted
  <2> QED BY <2>2 DEF Pipeline!Next
<1>9. ASSUME NEW declared \in SUBSET Path, Work(p, declared)
      PROVE  \E s \in Stage : Pipeline!Work(s)
  BY <1>9, WorkIs
<1>10. CASE Complete(p)
  <2>1. \E s \in Stage : Pipeline!Finish(s)
    BY <1>10, FinishIs
  <2> QED BY <2>1 DEF Pipeline!Next, Pipeline!Stage
<1> QED BY <1>1, <1>2, <1>3, <1>4, <1>5, <1>6, <1>7, <1>8, <1>9, <1>10
        DEF Invocation, Pipeline!Next, Pipeline!Stage

\* Every behaviour of the journal is one of the pipeline: stages in order, no second
\* effect, success only when every stage has finished.
THEOREM Refinement == Spec => Refines
<1>1. Init => Pipeline!Init
  BY DEF Init, Pipeline!Init, Pipeline!Stage
<1>2. JInv /\ [Next]_vars => [Pipeline!Next]_(Pipeline!vars)
  <2> SUFFICES ASSUME JInv, [Next]_vars
               PROVE  Pipeline!Next \/ UNCHANGED Pipeline!vars
    OBVIOUS
  <2>1. ASSUME NEW p \in Process, Invocation(p)
        PROVE  Pipeline!Next \/ UNCHANGED Pipeline!vars
    BY <2>1, InvocationIs
  <2>2. ASSUME NEW v \in Viewer, Reader(v)
        PROVE  UNCHANGED Pipeline!vars
    BY <2>2, StutterIs DEF Reader, Hold, LetGo, Look, Judge
  <2>3. ASSUME NEW x \in Path, Edit(x)
        PROVE  UNCHANGED Pipeline!vars
    BY <2>3, StutterIs DEF Edit
  <2>4. CASE UNCHANGED vars
    BY <2>4, StutterIs DEF vars
  <2> QED BY <2>1, <2>2, <2>3, <2>4 DEF Next
<1> QED BY <1>1, <1>2, JournalInvariant, PTL DEF Spec, Refines, Pipeline!Spec

-------------------------------------------------------------------------------
\* The versions, when nothing is undone

LEMMA BytesGrow ==
    ASSUME ~Undo, JInv, JInv', [Next]_vars
    PROVE  \A x \in Path : bytes[x] \in Nat \ {0} /\ bytes'[x] \in Nat /\ bytes[x] <= bytes'[x]
<1>1. \A x \in Path : bytes[x] \in Nat \ {0} /\ bytes'[x] \in Nat \ {0}
  BY DEF JInv, TypeOK
<1>2. ASSUME NEW p \in Process, NEW declared \in SUBSET Path, Work(p, declared)
      PROVE  \A x \in Path : bytes[x] <= bytes'[x]
  BY <1>1, <1>2 DEF Work
<1>3. ASSUME NEW y \in Path, Edit(y)
      PROVE  \A x \in Path : bytes[x] <= bytes'[x]
  <2>1. bytes' = [bytes EXCEPT ![y] = bytes[y] + 1]
    BY <1>3 DEF Edit
  <2> QED BY <1>1, <2>1 DEF JInv, TypeOK
<1>4. CASE bytes' = bytes
  BY <1>1, <1>4
<1>5. ASSUME NEW p \in Process, Invocation(p)
      PROVE  (\E declared \in SUBSET Path : Work(p, declared)) \/ bytes' = bytes
  BY <1>5 DEF Invocation, Begin, RefuseInputs, Reuse, Fence, Start, Complete, Fail, Check,
     Seal, Crash
<1>6. ASSUME NEW v \in Viewer, Reader(v)
      PROVE  bytes' = bytes
  BY <1>6 DEF Reader, Hold, LetGo, Look, Judge
<1> QED BY <1>1, <1>2, <1>3, <1>4, <1>5, <1>6 DEF Next, vars

LEMMA OthersAreIdle ==
    ASSUME JInv, NEW p \in Process, Invocation(p)
    PROVE  \A q \in Process \ {p} : proc'[q].pc = "idle"
<1>1. \A q \in Process \ {p} : proc[q].pc = "idle"
  <2>1. CASE Begin(p)
    BY <2>1 DEF Begin, Owned
  <2>2. CASE ~Begin(p)
    <3>1. proc[p].pc # "idle"
      BY <2>2 DEF Invocation, RefuseInputs, Reuse, Fence, Start, Work, Complete, Fail, Check,
         Seal, Crash, Calls
    <3> QED BY <3>1, OwnerIsAlone
  <2> QED BY <2>1, <2>2
<1>2. \A q \in Process \ {p} : proc'[q] = proc[q]
  BY DEF JInv, TypeOK, Invocation, Begin, RefuseInputs, Reuse, Fence, Start, Work, Complete,
     Fail, Check, Seal, Crash, Exit, Onward
<1> QED BY <1>1, <1>2

\* The recorded fingerprints, as numbers.
LEMMA RecordsTyped ==
    ASSUME TypeOK
    PROVE  \A s \in Stage : \A x \in Path : inputs[s][x] \in Nat /\ outputs[s][x] \in Nat
BY DEF TypeOK, Fingerprints

\* The records of the stages are not touched, and the artifacts only grow.
LEMMA RecordsUntouched ==
    ASSUME JInv, VInv, UNCHANGED <<inputs, outputs, used>>,
           \A x \in Path : bytes[x] \in Nat \ {0} /\ bytes'[x] \in Nat /\ bytes[x] <= bytes'[x],
           \A s \in Stage : IsFinished(s) <=> IsFinished(s)',
           \A s \in Stage : stage[s] = "pending" <=> stage'[s] = "pending"
    PROVE  InputsAreRecorded' /\ RecordsArePast' /\ OutputsComeFirst' /\ ComputedFromRecord'
<1>1. InputsAreRecorded'
  BY DEF VInv, InputsAreRecorded
<1>2. RecordsArePast'
  BY RecordsTyped DEF JInv, VInv, RecordsArePast
<1>3. OutputsComeFirst'
  BY DEF VInv, OutputsComeFirst
<1>4. ComputedFromRecord'
  BY DEF VInv, ComputedFromRecord
<1> QED BY <1>1, <1>2, <1>3, <1>4

\* When p is the only invocation there is, its record decides.
LEMMA OneRecord ==
    ASSUME NEW p \in Process, \A q \in Process \ {p} : proc'[q].pc = "idle",
           proc'[p].pc # "worked",
           proc'[p].pc = "finishing" => proc'[p].at = 1
    PROVE  ReadsAreRecent' /\ CheckedIsCoherent'
<1>1. ReadsAreRecent'
  BY DEF ReadsAreRecent
<1>2. CheckedIsCoherent'
  <2>1. \A q \in Process : proc'[q].pc = "finishing" => q = p /\ proc'[q].at = 1
    OBVIOUS
  <2>2. \A r \in Stage : ~(r < 1)
    OBVIOUS
  <2> QED BY <2>1, <2>2 DEF CheckedIsCoherent
<1> QED BY <1>1, <1>2

\* The bytes only grow: what each of the next lemmas assumes of its step.
Grows == \A x \in Path : bytes[x] \in Nat \ {0} /\ bytes'[x] \in Nat /\ bytes[x] <= bytes'[x]

LEMMA WhereItIs ==
    ASSUME JInv, NEW p \in Process
    PROVE  /\ proc[p].at \in Nat
           /\ proc[p].pc # "finishing" => proc[p].at \in Stage
<1>1. proc[p].at \in 1..(N + 1) /\ (proc[p].at = N + 1 => proc[p].pc = "finishing")
  BY DEF JInv, TypeOK, InvocationState
<1> QED BY <1>1

\* An invocation that ends, or goes on to the next stage, with the records as they are.
LEMMA MovesKeepVersions ==
    ASSUME JInv, JInv', VInv, Grows, NEW p \in Process, Invocation(p),
           \/ Begin(p)
           \/ \E s \in Stage : RefuseInputs(p, s) \/ Reuse(p, s)
           \/ Crash(p)
    PROVE  VInv'
<1>1. UNCHANGED <<inputs, outputs, used, stage>>
  BY DEF Begin, RefuseInputs, Reuse, Crash
<1>2. InputsAreRecorded' /\ RecordsArePast' /\ OutputsComeFirst' /\ ComputedFromRecord'
  BY <1>1, RecordsUntouched DEF Grows
<1>3. proc'[p].pc # "worked" /\ (proc'[p].pc = "finishing" => proc'[p].at = 1)
  <2>1. CASE Begin(p)
    BY <2>1, IdleTyped DEF Begin, Idle, JInv, TypeOK
  <2>2. ASSUME NEW s \in Stage, Reuse(p, s)
        PROVE  proc'[p].pc # "worked" /\ (proc'[p].pc = "finishing" => proc'[p].at = 1)
    BY <2>2, ExitIs, OnwardIs DEF Reuse, Calls, JInv
  <2>3. ASSUME Exit(p) PROVE proc'[p].pc = "idle"
    BY <2>3, ExitIs DEF JInv
  <2> QED BY <2>1, <2>2, <2>3 DEF RefuseInputs, Crash
<1>4. ReadsAreRecent' /\ CheckedIsCoherent'
  BY <1>3, OthersAreIdle, OneRecord
<1>5. CompletedIsCoherent'
  <2>1. status' = "completed" => status = "completed"
    BY DEF Begin, RefuseInputs, Reuse, Crash
  <2> QED BY <1>1, <2>1 DEF VInv, CompletedIsCoherent, Agrees
<1> QED BY <1>2, <1>4, <1>5 DEF VInv

LEMMA FenceKeepsVersions ==
    ASSUME JInv, JInv', VInv, Grows, NEW p \in Process, NEW s \in Stage, Invocation(p),
           Fence(p, s)
    PROVE  VInv'
<1>1. /\ stage[s] # "pending" /\ ~IsFinished(s) /\ stage' = [stage EXCEPT ![s] = "uncertain"]
      /\ UNCHANGED <<inputs, outputs, used>> /\ status' = "uncertain" /\ Exit(p)
  BY DEF Fence, MayStart
<1>2. InputsAreRecorded' /\ RecordsArePast' /\ OutputsComeFirst' /\ ComputedFromRecord'
  <2>1. \A r \in Stage : IsFinished(r) <=> IsFinished(r)'
    BY <1>1 DEF JInv, TypeOK
  <2>2. \A r \in Stage : stage[r] = "pending" <=> stage'[r] = "pending"
    BY <1>1 DEF JInv, TypeOK
  <2> QED BY <1>1, <2>1, <2>2, RecordsUntouched DEF Grows
<1>3. proc'[p].pc = "idle"
  BY <1>1, ExitIs DEF JInv
<1>4. ReadsAreRecent' /\ CheckedIsCoherent'
  BY <1>3, OthersAreIdle, OneRecord
<1> QED BY <1>1, <1>2, <1>4 DEF VInv, CompletedIsCoherent

LEMMA FailKeepsVersions ==
    ASSUME JInv, JInv', VInv, Grows, NEW p \in Process, Invocation(p), Fail(p)
    PROVE  VInv'
<1> DEFINE s == proc[p].at
<1>1. s \in Stage /\ stage[s] = "running"
  BY OwnerIsAt DEF Fail
<1>2. PICK outcome \in {"failed", "interrupted", "uncertain"} :
          stage' = [stage EXCEPT ![s] = outcome] /\ status' = outcome
  BY DEF Fail, Concludes
<1>3. UNCHANGED <<inputs, outputs, used>> /\ Exit(p)
  BY DEF Fail
<1>4. InputsAreRecorded' /\ RecordsArePast' /\ OutputsComeFirst' /\ ComputedFromRecord'
  <2> HIDE DEF s
  <2>1. \A r \in Stage : IsFinished(r) <=> IsFinished(r)'
    BY <1>1, <1>2 DEF JInv, TypeOK
  <2>2. \A r \in Stage : stage[r] = "pending" <=> stage'[r] = "pending"
    BY <1>1, <1>2 DEF JInv, TypeOK
  <2> QED BY <1>3, <2>1, <2>2, RecordsUntouched DEF Grows
<1>5. proc'[p].pc = "idle"
  BY <1>3, ExitIs DEF JInv
<1>6. ReadsAreRecent' /\ CheckedIsCoherent'
  BY <1>5, OthersAreIdle, OneRecord
<1> QED BY <1>2, <1>4, <1>6 DEF VInv, CompletedIsCoherent

LEMMA StartKeepsVersions ==
    ASSUME JInv, JInv', VInv, Grows, NEW p \in Process, NEW s \in Stage, Invocation(p),
           Start(p, s)
    PROVE  VInv'
<1>1. /\ stage' = [stage EXCEPT ![s] = "running"]
      /\ inputs' = [inputs EXCEPT ![s] = Fingerprint(InputsOf[s])]
      /\ UNCHANGED <<outputs, used, bytes>> /\ status' = "running" /\ ~IsFinished(s)
  BY DEF Start, MayStart
<1>2. \A x \in Path : inputs'[s][x] = IF x \in InputsOf[s] THEN bytes[x] ELSE 0
  BY <1>1 DEF JInv, TypeOK, Fingerprint
<1>3. \A r \in Stage \ {s} : inputs'[r] = inputs[r] /\ stage'[r] = stage[r]
  BY <1>1 DEF JInv, TypeOK
<1>4. stage'[s] = "running"
  BY <1>1 DEF JInv, TypeOK
<1>5. InputsAreRecorded'
  BY <1>2, <1>3, <1>4 DEF Grows, VInv, InputsAreRecorded
<1>6. RecordsArePast'
  BY <1>1, <1>2, <1>3 DEF Grows, VInv, RecordsArePast
<1>7. OutputsComeFirst'
  <2>1. \A r \in Stage : \A x \in Path : inputs'[s][x] # 0 => outputs'[r][x] <= inputs'[s][x]
    BY <1>1, <1>2 DEF VInv, RecordsArePast
  <2>2. \A r \in Stage : ~IsFinished(r)' => ~IsFinished(r)
    BY <1>1, <1>3
  <2> QED BY <1>1, <1>3, <2>1, <2>2 DEF VInv, OutputsComeFirst
<1>8. ComputedFromRecord'
  BY <1>1, <1>3, <1>4 DEF VInv, ComputedFromRecord
<1>9. proc'[p].pc = "operating"
  BY DEF Start, JInv, TypeOK, InvocationState
<1>10. ReadsAreRecent' /\ CheckedIsCoherent'
  BY <1>9, OthersAreIdle, OneRecord
<1> QED BY <1>1, <1>5, <1>6, <1>7, <1>8, <1>10 DEF VInv, CompletedIsCoherent

LEMMA WorkKeepsVersions ==
    ASSUME JInv, JInv', VInv, Grows, NEW p \in Process, NEW declared \in SUBSET Path,
           Invocation(p), Work(p, declared)
    PROVE  VInv'
<1> DEFINE s == proc[p].at
<1>1. s \in Stage /\ stage[s] = "running" /\ proc[p] \in InvocationState
  BY OwnerIsAt DEF Work
<1>2. UNCHANGED <<stage, inputs, outputs, used, status>>
  BY DEF Work
<1>3. InputsAreRecorded' /\ RecordsArePast' /\ OutputsComeFirst' /\ ComputedFromRecord'
  BY <1>2, RecordsUntouched DEF Grows
<1>4. /\ proc'[p].pc = "worked" /\ proc'[p].at = s
      /\ proc'[p].read = Fingerprint(InputsOf[s])
  BY <1>1 DEF Work, JInv, TypeOK, InvocationState
<1>5. ReadsAreRecent'
  <2>1. \A x \in Path : Fingerprint(InputsOf[s])[x] = IF x \in InputsOf[s] THEN bytes[x] ELSE 0
    BY DEF Fingerprint
  <2>2. \A x \in Path : inputs[s][x] # 0 <=> x \in InputsOf[s]
    BY <1>1 DEF VInv, InputsAreRecorded
  <2>3. \A x \in Path : inputs[s][x] <= bytes[x] /\ inputs[s][x] \in Nat
    BY <1>1, RecordsTyped DEF JInv, VInv, RecordsArePast
  <2>4. ASSUME NEW x \in Path
        PROVE  /\ inputs'[proc'[p].at][x] <= proc'[p].read[x]
               /\ proc'[p].read[x] <= bytes'[x]
               /\ inputs'[proc'[p].at][x] = 0 => proc'[p].read[x] = 0
    BY <1>2, <1>4, <2>1, <2>2, <2>3 DEF Grows
  <2> QED BY <1>4, <2>4, OthersAreIdle DEF ReadsAreRecent
<1>6. CheckedIsCoherent'
  BY <1>4, OthersAreIdle DEF CheckedIsCoherent
<1>7. CompletedIsCoherent'
  BY <1>2 DEF VInv, CompletedIsCoherent, Agrees
<1> QED BY <1>3, <1>5, <1>6, <1>7 DEF VInv

LEMMA CompleteKeepsVersions ==
    ASSUME JInv, JInv', VInv, Grows, NEW p \in Process, Invocation(p), Complete(p)
    PROVE  VInv'
<1> DEFINE s == proc[p].at
           outcome == IF proc[p].declared = {} THEN "skipped" ELSE "completed"
<1>1. /\ s \in Stage /\ stage[s] = "running" /\ proc[p].pc = "worked"
      /\ proc[p] \in InvocationState
  BY OwnerIsAt DEF Complete
<1>2. /\ stage' = [stage EXCEPT ![s] = outcome] /\ outcome \in {"skipped", "completed"}
      /\ outputs' = [outputs EXCEPT ![s] = Fingerprint(proc[p].declared)]
      /\ used' = [used EXCEPT ![s] = proc[p].read]
      /\ UNCHANGED <<inputs, bytes>> /\ status' = "running" /\ Verified(inputs[s])
  BY DEF Complete, Concludes
<1>3. proc'[p].pc # "worked" /\ (proc'[p].pc = "finishing" => proc'[p].at = 1)
  BY <1>1, OnwardIs DEF Complete, JInv
<1>4. ReadsAreRecent' /\ CheckedIsCoherent'
  BY <1>3, OthersAreIdle, OneRecord
<1>5. proc[p].read = inputs[s]
  <2>1. \A x \in Path : proc[p].read[x] = inputs[s][x]
    <3> TAKE x \in Path
    <3>1. /\ inputs[s][x] <= proc[p].read[x] /\ proc[p].read[x] <= bytes[x]
          /\ inputs[s][x] = 0 => proc[p].read[x] = 0
      BY <1>1 DEF VInv, ReadsAreRecent
    <3>2. inputs[s][x] # 0 => inputs[s][x] = bytes[x]
      BY <1>2 DEF Verified
    <3>3. proc[p].read[x] \in Nat /\ inputs[s][x] \in Nat
      BY <1>1, RecordsTyped DEF JInv, InvocationState, Fingerprints
    <3> QED BY <3>1, <3>2, <3>3 DEF Grows
  <2>2. proc[p].read \in [Path -> Nat] /\ inputs[s] \in [Path -> Nat]
    BY <1>1 DEF JInv, TypeOK, InvocationState, Fingerprints
  <2> QED BY <2>1, <2>2
<1> HIDE DEF s, outcome
<1>6. /\ \A r \in Stage \ {s} : /\ stage'[r] = stage[r] /\ outputs'[r] = outputs[r]
                                /\ used'[r] = used[r]
      /\ stage'[s] = outcome /\ used'[s] = inputs[s]
      /\ outputs'[s] = Fingerprint(proc[p].declared)
  BY <1>1, <1>2, <1>5 DEF JInv, TypeOK
<1>7. InputsAreRecorded'
  BY <1>1, <1>2, <1>6 DEF VInv, InputsAreRecorded
<1>8. RecordsArePast'
  <2>1. \A x \in Path : outputs'[s][x] <= bytes[x]
    BY <1>6 DEF Fingerprint, Grows
  <2> QED BY <1>2, <1>6, <2>1 DEF VInv, RecordsArePast
<1>9. OutputsComeFirst'
  <2>1. \A t \in Stage : s < t => stage[t] = "pending"
    BY <1>1 DEF JInv, StagesInOrder
  <2>2. \A t \in Stage : \A x \in Path : s < t => inputs[t][x] = 0
    BY <2>1 DEF VInv, InputsAreRecorded
  <2>3. \A r \in Stage : ~IsFinished(r)' => r # s /\ ~IsFinished(r)
    BY <1>2, <1>6
  <2>4. \A r \in Stage : ~IsFinished(r)' => outputs'[r] = Nothing
    BY <1>6, <2>3 DEF VInv, OutputsComeFirst
  <2>5. ASSUME NEW r \in Stage, NEW t \in Stage, NEW x \in Path, r < t, inputs'[t][x] # 0
        PROVE  outputs'[r][x] <= inputs'[t][x]
    BY <1>2, <1>6, <2>2, <2>5 DEF VInv, OutputsComeFirst
  <2> QED BY <2>4, <2>5 DEF OutputsComeFirst
<1>10. ComputedFromRecord'
  BY <1>2, <1>6 DEF VInv, ComputedFromRecord
<1> QED BY <1>2, <1>4, <1>7, <1>8, <1>9, <1>10 DEF VInv, CompletedIsCoherent

\* The outputs of the stage finish has just verified are what every later stage read: no
\* newer than the inputs recorded after them, and no older than what is there now.
LEMMA VerifiedAgrees ==
    ASSUME JInv, VInv, NEW r \in Stage, NEW s \in Stage, r < s, Verified(outputs[r])
    PROVE  Agrees(r, s)
<1> SUFFICES ASSUME NEW x \in Path, outputs[r][x] # 0, inputs[s][x] # 0
             PROVE  outputs[r][x] = inputs[s][x]
  BY DEF Agrees
<1>1. outputs[r][x] = bytes[x]
  BY DEF Verified
<1>2. outputs[r][x] <= inputs[s][x] /\ inputs[s][x] <= bytes[x]
  BY DEF VInv, OutputsComeFirst, RecordsArePast
<1>3. outputs[r][x] \in Nat /\ inputs[s][x] \in Nat
  BY RecordsTyped DEF JInv
<1> QED BY <1>1, <1>2, <1>3

LEMMA CheckKeepsVersions ==
    ASSUME JInv, JInv', VInv, Grows, NEW p \in Process, Invocation(p), Check(p)
    PROVE  VInv'
<1> DEFINE s == proc[p].at
<1>1. UNCHANGED <<inputs, outputs, used, stage, status>> /\ s <= N
  BY DEF Check
<1>2. InputsAreRecorded' /\ RecordsArePast' /\ OutputsComeFirst' /\ ComputedFromRecord'
  BY <1>1, RecordsUntouched DEF Grows
<1>3. CompletedIsCoherent'
  BY <1>1 DEF VInv, CompletedIsCoherent, Agrees
<1>4. ReadsAreRecent' /\ CheckedIsCoherent'
  <2>1. CASE Exit(p)
    BY <2>1, ExitIs, OthersAreIdle, OneRecord DEF JInv
  <2>2. CASE ~Exit(p)
    <3>1. /\ proc' = [proc EXCEPT ![p].at = s + 1] /\ proc[p].pc = "finishing"
          /\ Verified(outputs[s])
      BY <2>2 DEF Check
    <3>2. proc[p] \in InvocationState /\ s \in Stage
      <4>1. proc[p] \in InvocationState
        BY DEF JInv, TypeOK
      <4>2. s \in 1..(N + 1)
        BY <4>1 DEF InvocationState
      <4> QED BY <1>1, <4>1, <4>2
    <3>3. proc'[p].pc = "finishing" /\ proc'[p].at = s + 1
      BY <3>1, <3>2 DEF JInv, TypeOK, InvocationState
    <3>4. ReadsAreRecent'
      BY <3>3, OthersAreIdle DEF ReadsAreRecent
    <3>5. \A r, u \in Stage : r < s + 1 /\ r < u => Agrees(r, u)
      <4>1. \A r \in Stage : r < s + 1 => r < s \/ r = s
        BY <3>2
      <4>2. \A r, u \in Stage : r < s /\ r < u => Agrees(r, u)
        BY <3>1 DEF VInv, CheckedIsCoherent
      <4>3. \A u \in Stage : s < u => Agrees(s, u)
        BY <3>1, <3>2, VerifiedAgrees
      <4> QED BY <4>1, <4>2, <4>3
    <3>6. \A r, u \in Stage : Agrees(r, u)' <=> Agrees(r, u)
      BY <1>1 DEF Agrees
    <3>7. CheckedIsCoherent'
      BY <3>3, <3>5, <3>6, OthersAreIdle DEF CheckedIsCoherent
    <3> QED BY <3>4, <3>7
  <2> QED BY <2>1, <2>2
<1> QED BY <1>2, <1>3, <1>4 DEF VInv

LEMMA SealKeepsVersions ==
    ASSUME JInv, JInv', VInv, Grows, NEW p \in Process, Invocation(p), Seal(p)
    PROVE  VInv'
<1>1. UNCHANGED <<inputs, outputs, used, stage>> /\ Exit(p)
  BY DEF Seal
<1>2. InputsAreRecorded' /\ RecordsArePast' /\ OutputsComeFirst' /\ ComputedFromRecord'
  BY <1>1, RecordsUntouched DEF Grows
<1>3. ReadsAreRecent' /\ CheckedIsCoherent'
  BY <1>1, ExitIs, OthersAreIdle, OneRecord DEF JInv
<1>4. CompletedIsCoherent'
  <2>1. proc[p].pc = "finishing" /\ proc[p].at = N + 1
    BY DEF Seal
  <2>2. \A r \in Stage : r < N + 1 /\ IsFinished(r)
    BY <2>1 DEF JInv, InvocationIsSound
  <2>3. \A r, s \in Stage : r < s => Agrees(r, s)
    BY <2>1, <2>2 DEF VInv, CheckedIsCoherent
  <2> QED BY <1>1, <2>2, <2>3 DEF CompletedIsCoherent, Agrees
<1> QED BY <1>2, <1>3, <1>4 DEF VInv

\* Readers, editors and stuttering leave the invocations and their records alone.
LEMMA OutsideKeepsVersions ==
    ASSUME JInv, JInv', VInv, Grows, UNCHANGED <<journal, proc, used>>
    PROVE  VInv'
<1>1. InputsAreRecorded' /\ RecordsArePast' /\ OutputsComeFirst' /\ ComputedFromRecord'
  BY RecordsUntouched DEF Grows
<1>2. ReadsAreRecent'
  <2> SUFFICES ASSUME NEW p \in Process, NEW x \in Path, proc[p].pc = "worked"
               PROVE  proc[p].read[x] <= bytes'[x]
    BY DEF VInv, ReadsAreRecent
  <2>1. proc[p].read[x] \in Nat
    BY OwnerIsAt DEF InvocationState, Fingerprints
  <2> QED BY <2>1 DEF VInv, ReadsAreRecent, Grows
<1>3. CheckedIsCoherent' /\ CompletedIsCoherent'
  BY DEF VInv, CheckedIsCoherent, CompletedIsCoherent, Agrees
<1> QED BY <1>1, <1>2, <1>3 DEF VInv

LEMMA InitVersions == Init => VInv
<1> SUFFICES ASSUME Init PROVE VInv
  OBVIOUS
<1>1. \A p \in Process : proc[p].pc = "idle"
  BY IdleTyped DEF Init
<1>2. \A s \in Stage : /\ inputs[s] = Nothing /\ outputs[s] = Nothing
                       /\ stage[s] = "pending" /\ used[s] = Nothing
  BY DEF Init
<1>3. \A x \in Path : Nothing[x] = 0 /\ bytes[x] = 1
  BY DEF Init, Nothing
<1>4. InputsAreRecorded /\ RecordsArePast /\ OutputsComeFirst /\ ComputedFromRecord
  BY <1>2, <1>3 DEF InputsAreRecorded, RecordsArePast, OutputsComeFirst, ComputedFromRecord
<1>5. ReadsAreRecent /\ CheckedIsCoherent
  BY <1>1 DEF ReadsAreRecent, CheckedIsCoherent
<1>6. CompletedIsCoherent
  BY DEF Init, CompletedIsCoherent
<1> QED BY <1>4, <1>5, <1>6 DEF VInv

LEMMA NextVersions ==
    ASSUME ~Undo, JInv, JInv', VInv, [Next]_vars
    PROVE  VInv'
<1>1. Grows
  BY BytesGrow DEF Grows
<1>2. ASSUME NEW p \in Process, Invocation(p) PROVE VInv'
  BY <1>1, <1>2, MovesKeepVersions, FenceKeepsVersions, FailKeepsVersions,
     StartKeepsVersions, WorkKeepsVersions, CompleteKeepsVersions, CheckKeepsVersions,
     SealKeepsVersions DEF Invocation
<1>3. ASSUME NEW v \in Viewer, Reader(v) PROVE VInv'
  BY <1>1, <1>3, OutsideKeepsVersions DEF Reader, Hold, LetGo, Look, Judge
<1>4. ASSUME NEW x \in Path, Edit(x) PROVE VInv'
  BY <1>1, <1>4, OutsideKeepsVersions DEF Edit
<1>5. CASE UNCHANGED vars
  BY <1>1, <1>5, OutsideKeepsVersions DEF vars
<1> QED BY <1>2, <1>3, <1>4, <1>5 DEF Next

\* What the records say of the bytes, as long as no edit is undone.
LEMMA VersionsHold ==
    ASSUME ~Undo
    PROVE  Spec => []VInv
<1>1. Init => VInv
  BY InitVersions
<1>2. JInv /\ JInv' /\ VInv /\ [Next]_vars => VInv'
  BY NextVersions
<1> QED BY <1>1, <1>2, JournalInvariant, PTL DEF Spec

\* If no change of an artifact is ever undone, every finished stage worked on the bytes its
\* record names: stage compares its inputs before and after the operation.
THEOREM RecordsAreTrue ==
    ASSUME ~Undo
    PROVE  Spec => []ComputedFromRecord
<1>1. VInv => ComputedFromRecord
  BY DEF VInv
<1> QED BY <1>1, VersionsHold, PTL

\* If no change of an artifact is ever undone, a run that completes is one computation:
\* finish verifies every output once more.
THEOREM Coherent ==
    ASSUME ~Undo
    PROVE  Spec => []CompletedIsCoherent
<1>1. VInv => CompletedIsCoherent
  BY DEF VInv
<1> QED BY <1>1, VersionsHold, PTL

===============================================================================
