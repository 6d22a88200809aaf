-------------------------- MODULE AdviceQueue_proofs --------------------------
(***************************************************************************)
(* Proofs about AdviceQueue, for any number of jobs, addresses, answers,    *)
(* workers and faults.                                                      *)
(*                                                                          *)
(* IInv is inductive: one lemma per action (<Action>Preserves) with a step  *)
(* per conjunct, joined by NextPreserves.  The safety properties are        *)
(* conjuncts of IInv or follow from it (Invariance and the theorems after   *)
(* it); ProgressFenced, Refinement, StoreIsShared and the theorems after    *)
(* them are about steps taken in a state that satisfies IInv.               *)
(***************************************************************************)
EXTENDS AdviceQueue, TLAPS

USE AdviceQueueAssumption DEF IsOpen, IsTerminal, IsLive, IsBusy, Idle, NoSweep, LockFree,
    disk, Fault, Status, WorkerState, IsOrphan, IsHeld, IsLost, Unsettled,
    InterruptedClaim, LapsedAttempt

LEMMA SubmitPreserves ==
    ASSUME NEW j \in Job, IInv, Submit(j)
    PROVE  IInv'
<1> USE DEF Submit, FileJob, Publish
<1>1. TypeOK'
  BY DEF IInv, TypeOK
<1>2. ReservationsAgree'
  BY SMTT(30) DEF IInv, TypeOK, ReservationsAgree, AbsentIsBare
<1>3. AbsentIsBare'
  BY DEF IInv, TypeOK, AbsentIsBare, ReservationsAgree
<1>4. BusyIsPast'
  BY DEF IInv, TypeOK, BusyIsPast
<1>5. SweepIsSound'
  BY DEF IInv, TypeOK, SweepIsSound, ReservationsAgree
<1>6. ProgressIsPast'
  <2>1. \A i \in Job : attempt'[i] = attempt[i] \/ (status[i] = "absent" /\ attempt'[i] = 1)
    BY DEF IInv, TypeOK
  <2>2. \A i \in Job : progress'[i] = progress[i] \/ progress'[i] = 0
    BY DEF IInv, TypeOK
  <2> QED BY <2>1, <2>2 DEF IInv, TypeOK, ProgressIsPast, AbsentIsBare
<1>7. CompletedIsAnswered'
  BY DEF IInv, TypeOK, CompletedIsAnswered, BusyIsPast
<1>8. RunningIsMarked'
  BY DEF IInv, TypeOK, RunningIsMarked
<1>9. HistoryIsComplete'
  BY SMTT(60) DEF IInv, TypeOK, HistoryIsComplete
<1>10. ArchivedIsClean'
  BY DEF IInv, TypeOK, ArchivedIsClean, AbsentIsBare
<1>11. SettledIsClean'
  BY DEF IInv, TypeOK, SettledIsClean, AbsentIsBare
<1>12. AttemptsAreExplained'
  BY DEF IInv, TypeOK, AttemptsAreExplained, BusyIsPast, RunningIsMarked
<1>13. ExclusiveAttempt'
  BY DEF IInv, ExclusiveAttempt
<1> QED BY <1>1, <1>2, <1>3, <1>4, <1>5, <1>6, <1>7, <1>8, <1>9, <1>10, <1>11, <1>12,
          <1>13 DEF IInv

LEMMA ClaimPreserves ==
    ASSUME NEW w \in Worker, NEW j \in Job, IInv, Claim(w, j)
    PROVE  IInv'
<1> USE DEF Claim, Claimable, Dies
<1>1. TypeOK'
  <2>1. worker' \in [Worker -> WorkerState]
    BY SMTT(20) DEF IInv, TypeOK
  <2>2. /\ settled' \in [Worker -> SUBSET Job]
        /\ sweep' \in [by : Worker \cup {NoWorker}, orphans : SUBSET Key, due : SUBSET Job]
        /\ faults' \in 0..MaxFaults
    BY SMTT(20) DEF IInv, TypeOK
  <2>3. /\ status' \in [Job -> Status] /\ attempt' \in [Job -> Nat]
        /\ progress' \in [Job -> Nat]
        /\ reservation' \in [Key -> Job \cup {NoJob}]
    BY SMTT(20) DEF IInv, TypeOK
  <2>4. /\ marker' \in [Job -> {"none", "fresh", "stale"}]
        /\ archived' \subseteq Job /\ byIdempotency' \subseteq Job /\ byAnswer' \subseteq Job
        /\ cache' \in [Key -> Answer \cup {NoAnswer}]
    BY SMTT(20) DEF IInv, TypeOK
  <2> QED BY <2>1, <2>2, <2>3, <2>4 DEF TypeOK
<1>2. ReservationsAgree'
  BY DEF IInv, TypeOK, ReservationsAgree
<1>3. AbsentIsBare'
  BY DEF IInv, TypeOK, AbsentIsBare
<1>4. BusyIsPast'
  BY DEF IInv, TypeOK, BusyIsPast
<1>5. SweepIsSound'
  BY DEF IInv, TypeOK, SweepIsSound, ReservationsAgree
<1>6. ExclusiveAttempt'
  BY SMTT(30) DEF IInv, TypeOK, ExclusiveAttempt, BusyIsPast
<1>7. CompletedIsAnswered'
  BY DEF IInv, TypeOK, CompletedIsAnswered, BusyIsPast
<1>8. RunningIsMarked'
  BY DEF IInv, TypeOK, RunningIsMarked
<1>9. HistoryIsComplete'
  BY DEF IInv, TypeOK, HistoryIsComplete
<1>10. ArchivedIsClean'
  BY DEF IInv, TypeOK, ArchivedIsClean
<1>11. SettledIsClean'
  BY DEF IInv, TypeOK, SettledIsClean
<1>12. AttemptsAreExplained'
  BY SMTT(30) DEF IInv, TypeOK, AttemptsAreExplained, BusyIsPast, RunningIsMarked
<1>13. ProgressIsPast'
  BY DEF IInv, ProgressIsPast
<1> QED BY <1>1, <1>2, <1>3, <1>4, <1>5, <1>6, <1>7, <1>8, <1>9, <1>10, <1>11, <1>12,
          <1>13 DEF IInv

LEMMA LookUpPreserves ==
    ASSUME NEW w \in Worker, IInv, LookUp(w)
    PROVE  IInv'
<1> USE DEF LookUp, WorkKey
<1>1. TypeOK'
  <2>1. worker[w] \in WorkerState
    BY DEF IInv, TypeOK
  <2>2. cache[WorkKey(w)] \in Answer \cup {NoAnswer}
    BY DEF IInv, TypeOK, BusyIsPast
  <2>3. worker'[w] \in WorkerState
    <3>1. [worker[w] EXCEPT !.pc = "answered", !.answer = cache[WorkKey(w)]] \in WorkerState
      BY <2>1, <2>2
    <3>2. [worker[w] EXCEPT !.pc = "solving"] \in WorkerState
      BY <2>1
    <3> QED BY <3>1, <3>2 DEF IInv, TypeOK
  <2>4. worker' \in [Worker -> WorkerState]
    BY <2>3 DEF IInv, TypeOK
  <2> QED BY <2>4 DEF IInv, TypeOK
<1>2. BusyIsPast'
  BY DEF IInv, TypeOK, BusyIsPast
<1>3. SweepIsSound'
  BY DEF IInv, TypeOK, SweepIsSound, ReservationsAgree
<1>4. ExclusiveAttempt'
  BY DEF IInv, TypeOK, ExclusiveAttempt, BusyIsPast
<1>5. AttemptsAreExplained'
  BY DEF IInv, TypeOK, AttemptsAreExplained, BusyIsPast, RunningIsMarked
<1>6. ReservationsAgree' /\ AbsentIsBare' /\ ProgressIsPast' /\ CompletedIsAnswered' /\
      RunningIsMarked' /\ HistoryIsComplete' /\ ArchivedIsClean' /\ SettledIsClean'
  BY DEF IInv, ReservationsAgree, AbsentIsBare, ProgressIsPast, CompletedIsAnswered,
         RunningIsMarked, HistoryIsComplete, ArchivedIsClean, SettledIsClean
<1> QED BY <1>1, <1>2, <1>3, <1>4, <1>5, <1>6 DEF IInv

LEMMA SolvePreserves ==
    ASSUME NEW w \in Worker, NEW a \in Answer, IInv, Solve(w, a)
    PROVE  IInv'
<1> USE DEF Solve
<1>1. TypeOK'
  <2>1. worker[w] \in WorkerState
    BY DEF IInv, TypeOK
  <2>2. [worker[w] EXCEPT !.pc = "answered", !.answer = a] \in WorkerState
    BY <2>1
  <2>3. worker' \in [Worker -> WorkerState]
    BY <2>2 DEF IInv, TypeOK
  <2> QED BY <2>3 DEF IInv, TypeOK
<1>2. BusyIsPast'
  BY DEF IInv, TypeOK, BusyIsPast
<1>3. SweepIsSound'
  BY DEF IInv, TypeOK, SweepIsSound, ReservationsAgree
<1>4. ExclusiveAttempt'
  BY DEF IInv, TypeOK, ExclusiveAttempt, BusyIsPast
<1>5. AttemptsAreExplained'
  BY DEF IInv, TypeOK, AttemptsAreExplained, BusyIsPast, RunningIsMarked
<1>6. ReservationsAgree' /\ AbsentIsBare' /\ ProgressIsPast' /\ CompletedIsAnswered' /\
      RunningIsMarked' /\ HistoryIsComplete' /\ ArchivedIsClean' /\ SettledIsClean'
  BY DEF IInv, ReservationsAgree, AbsentIsBare, ProgressIsPast, CompletedIsAnswered,
         RunningIsMarked, HistoryIsComplete, ArchivedIsClean, SettledIsClean
<1> QED BY <1>1, <1>2, <1>3, <1>4, <1>5, <1>6 DEF IInv

LEMMA RefusePreserves ==
    ASSUME NEW w \in Worker, IInv, Refuse(w)
    PROVE  IInv'
<1> USE DEF Refuse
<1>1. TypeOK'
  <2>1. worker[w] \in WorkerState
    BY DEF IInv, TypeOK
  <2>2. [worker[w] EXCEPT !.pc = "failing"] \in WorkerState
    BY <2>1
  <2>3. worker' \in [Worker -> WorkerState]
    BY <2>2 DEF IInv, TypeOK
  <2> QED BY <2>3 DEF IInv, TypeOK
<1>2. BusyIsPast'
  BY DEF IInv, TypeOK, BusyIsPast
<1>3. SweepIsSound'
  BY DEF IInv, TypeOK, SweepIsSound, ReservationsAgree
<1>4. ExclusiveAttempt'
  BY DEF IInv, TypeOK, ExclusiveAttempt, BusyIsPast
<1>5. AttemptsAreExplained'
  BY DEF IInv, TypeOK, AttemptsAreExplained, BusyIsPast, RunningIsMarked
<1>6. ReservationsAgree' /\ AbsentIsBare' /\ ProgressIsPast' /\ CompletedIsAnswered' /\
      RunningIsMarked' /\ HistoryIsComplete' /\ ArchivedIsClean' /\ SettledIsClean'
  BY DEF IInv, ReservationsAgree, AbsentIsBare, ProgressIsPast, CompletedIsAnswered,
         RunningIsMarked, HistoryIsComplete, ArchivedIsClean, SettledIsClean
<1> QED BY <1>1, <1>2, <1>3, <1>4, <1>5, <1>6 DEF IInv

LEMMA HeartbeatPreserves ==
    ASSUME NEW w \in Worker, IInv, Heartbeat(w)
    PROVE  IInv'
<1> USE DEF Heartbeat, Owned
<1>1. TypeOK'
  BY DEF IInv, TypeOK
<1>2. AbsentIsBare'
  BY DEF IInv, TypeOK, AbsentIsBare
<1>3. SweepIsSound'
  BY DEF IInv, TypeOK, SweepIsSound, ReservationsAgree
<1>4. RunningIsMarked'
  BY DEF IInv, TypeOK, RunningIsMarked
<1>5. ArchivedIsClean'
  BY DEF IInv, TypeOK, ArchivedIsClean
<1>6. SettledIsClean'
  BY DEF IInv, TypeOK, SettledIsClean
<1>7. AttemptsAreExplained'
  BY DEF IInv, TypeOK, AttemptsAreExplained, BusyIsPast, RunningIsMarked
<1>8. ReservationsAgree' /\ BusyIsPast' /\ ProgressIsPast' /\ ExclusiveAttempt' /\
      CompletedIsAnswered' /\ HistoryIsComplete'
  BY DEF IInv, ReservationsAgree, BusyIsPast, ProgressIsPast, ExclusiveAttempt,
         CompletedIsAnswered, HistoryIsComplete
<1> QED BY <1>1, <1>2, <1>3, <1>4, <1>5, <1>6, <1>7, <1>8 DEF IInv

LEMMA RecordProgressPreserves ==
    ASSUME NEW w \in Worker, IInv, RecordProgress(w)
    PROVE  IInv'
<1> USE DEF RecordProgress, Owned
<1>1. TypeOK'
  BY DEF IInv, TypeOK
<1>2. AbsentIsBare'
  BY DEF IInv, TypeOK, AbsentIsBare
<1>3. ProgressIsPast'
  BY DEF IInv, TypeOK, ProgressIsPast
<1>4. ArchivedIsClean'
  BY DEF IInv, TypeOK, ArchivedIsClean
<1>5. ReservationsAgree' /\ BusyIsPast' /\ SweepIsSound' /\ ExclusiveAttempt' /\
      CompletedIsAnswered' /\ RunningIsMarked' /\ HistoryIsComplete' /\ SettledIsClean'
      /\ AttemptsAreExplained'
  BY DEF IInv, ReservationsAgree, BusyIsPast, SweepIsSound, ExclusiveAttempt,
         CompletedIsAnswered, RunningIsMarked, HistoryIsComplete, SettledIsClean,
         AttemptsAreExplained
<1> QED BY <1>1, <1>2, <1>3, <1>4, <1>5 DEF IInv

\* A worker that drops its claim loses one attempt, and one fault pays for it.
LEMMA AbandonedIsExplained ==
    ASSUME NEW w \in Worker, TypeOK, AttemptsAreExplained,
           worker' = [worker EXCEPT ![w] = Idle],
           faults' = faults + 1,
           UNCHANGED <<status, attempt, marker>>
    PROVE  AttemptsAreExplained'
<1>1. \A i \in Job : i # worker[w].job => (IsHeld(i)' <=> IsHeld(i))
  BY DEF TypeOK
<1>2. SUFFICES ASSUME NEW i \in Job
               PROVE  attempt[i] + (IF IsLost(i)' THEN 1 ELSE 0) <= 2 + faults
  BY DEF AttemptsAreExplained, TypeOK
<1>3. attempt[i] + (IF IsLost(i) THEN 1 ELSE 0) <= 1 + faults
  BY DEF AttemptsAreExplained
<1> QED BY <1>1, <1>3 DEF TypeOK

\* A worker that is about to record a failure still works under its attempt.
LEMMA FailingKeepsAttempt ==
    ASSUME NEW w \in Worker, IInv, worker[w].pc = "answered",
           worker' = [worker EXCEPT ![w].pc = "failing"],
           faults' \in 0..MaxFaults, faults' >= faults,
           UNCHANGED <<status, attempt, marker, reservation, sweep>>
    PROVE  /\ worker' \in [Worker -> WorkerState]
           /\ BusyIsPast' /\ SweepIsSound' /\ ExclusiveAttempt' /\ AttemptsAreExplained'
<1>1. worker' \in [Worker -> WorkerState]
  <2>1. worker[w] \in WorkerState
    BY DEF IInv, TypeOK
  <2>2. [worker[w] EXCEPT !.pc = "failing"] \in WorkerState
    BY <2>1
  <2> QED BY <2>2 DEF IInv, TypeOK
<1>2. BusyIsPast'
  BY DEF IInv, TypeOK, BusyIsPast
<1>3. SweepIsSound'
  BY DEF IInv, TypeOK, SweepIsSound
<1>4. ExclusiveAttempt'
  BY DEF IInv, TypeOK, ExclusiveAttempt
<1>5. AttemptsAreExplained'
  <2>1. \A i \in Job : IsHeld(i)' <=> IsHeld(i)
    BY DEF IInv, TypeOK
  <2>2. \A i \in Job : attempt[i] + (IF IsLost(i) THEN 1 ELSE 0) <= 1 + faults
    BY DEF IInv, AttemptsAreExplained
  <2> QED BY <2>1, <2>2 DEF IInv, TypeOK, AttemptsAreExplained
<1> QED BY <1>1, <1>2, <1>3, <1>4, <1>5

\* cache.put's refusal changes nothing but the worker's next step.
LEMMA ConflictPreserves ==
    ASSUME NEW w \in Worker, IInv, worker[w].pc = "answered", Conflicts(w)
    PROVE  IInv'
<1> USE DEF Conflicts
<1>1. /\ worker' \in [Worker -> WorkerState]
      /\ BusyIsPast' /\ SweepIsSound' /\ ExclusiveAttempt' /\ AttemptsAreExplained'
  <2>1. UNCHANGED <<status, attempt, marker, reservation, sweep>>
    OBVIOUS
  <2>2. faults' \in 0..MaxFaults /\ faults' >= faults
    BY DEF IInv, TypeOK
  <2> QED BY <2>1, <2>2, FailingKeepsAttempt
<1>2. TypeOK'
  BY <1>1 DEF IInv, TypeOK
<1>3. /\ ReservationsAgree' /\ AbsentIsBare' /\ ProgressIsPast' /\ CompletedIsAnswered'
      /\ RunningIsMarked' /\ HistoryIsComplete' /\ ArchivedIsClean' /\ SettledIsClean'
  BY DEF IInv, ReservationsAgree, AbsentIsBare, ProgressIsPast, CompletedIsAnswered,
         RunningIsMarked, HistoryIsComplete, ArchivedIsClean, SettledIsClean
<1> QED BY <1>1, <1>2, <1>3 DEF IInv

LEMMA WriteErrorPreserves ==
    ASSUME NEW w \in Worker, IInv, WriteError(w)
    PROVE  IInv'
<1> USE DEF WriteError
<1>1. faults' \in 0..MaxFaults /\ faults' >= faults
  BY DEF IInv, TypeOK
<1>2. /\ worker' \in [Worker -> WorkerState]
      /\ BusyIsPast' /\ SweepIsSound' /\ ExclusiveAttempt' /\ AttemptsAreExplained'
  BY <1>1, FailingKeepsAttempt
<1>3. /\ cache' \in [Key -> Answer \cup {NoAnswer}]
      /\ \A k \in Key : cache[k] # NoAnswer => cache'[k] = cache[k]
  BY DEF CachePut, WorkKey, IInv, TypeOK, BusyIsPast
<1>4. TypeOK'
  BY <1>1, <1>2, <1>3 DEF IInv, TypeOK
<1>5. CompletedIsAnswered'
  BY <1>3 DEF IInv, TypeOK, CompletedIsAnswered
<1>6. /\ ReservationsAgree' /\ AbsentIsBare' /\ ProgressIsPast' /\ RunningIsMarked'
      /\ HistoryIsComplete' /\ ArchivedIsClean' /\ SettledIsClean'
  BY DEF IInv, ReservationsAgree, AbsentIsBare, ProgressIsPast, RunningIsMarked,
         HistoryIsComplete, ArchivedIsClean, SettledIsClean
<1> QED BY <1>2, <1>4, <1>5, <1>6 DEF IInv

\* The owner's store, cut anywhere, keeps the invariant: of a completed job if its
\* answer is filed.
LEMMA StorePreserves ==
    ASSUME NEW w \in Worker, NEW to \in {"completed", "failed"}, NEW n \in 0..4,
           IInv, LockFree, IsBusy(w), Owned(w),
           Store(worker[w].job, to, n),
           IF n = 4 THEN Returns(w, {worker[w].job}) ELSE Dies(w),
           cache' \in [Key -> Answer \cup {NoAnswer}],
           \A k \in Key : cache[k] # NoAnswer => cache'[k] = cache[k],
           to = "completed" => cache'[WorkKey(w)] # NoAnswer
    PROVE  IInv'
<1> DEFINE j == worker[w].job
<1>1. /\ j \in Job
      /\ status[j] = "running"
      /\ attempt[j] = worker[w].attempt
      /\ reservation[KeyOf[j]] = j
  BY DEF IInv, BusyIsPast, Owned, ReservationsAgree
<1>2. /\ worker' = [worker EXCEPT ![w] = Idle]
      /\ settled' \in [Worker -> SUBSET Job]
      /\ \A v \in Worker, i \in Job :
            i \in settled'[v] => i \in settled[v] \/ (i = j /\ n = 4)
      /\ sweep' = NoSweep
      /\ faults' \in 0..MaxFaults
      /\ faults' = IF n = 4 THEN faults ELSE faults + 1
  <2>1. CASE n = 4
    <3>1. /\ worker' = [worker EXCEPT ![w] = Idle]
          /\ settled' = [settled EXCEPT ![w] = @ \cup {j}]
          /\ UNCHANGED <<sweep, faults>>
      BY <2>1 DEF Returns
    <3> QED BY <1>1, <2>1, <3>1 DEF IInv, TypeOK
  <2>2. CASE n # 4
    <3>1. /\ faults < MaxFaults /\ faults' = faults + 1
          /\ worker' = [worker EXCEPT ![w] = Idle]
          /\ settled' = [settled EXCEPT ![w] = {}]
          /\ sweep' = NoSweep
      BY <2>2 DEF Dies
    <3> QED BY <2>2, <3>1 DEF IInv, TypeOK
  <2> QED BY <2>1, <2>2
<1>3. /\ status' \in [Job -> Status]
      /\ \A i \in Job : status'[i] = IF i = j /\ n >= 1 THEN to ELSE status[i]
      /\ marker' \in [Job -> {"none", "fresh", "stale"}]
      /\ \A i \in Job : marker'[i] = IF i = j /\ n >= 2 THEN "none" ELSE marker[i]
      /\ progress' \in [Job -> Nat]
      /\ \A i \in Job : progress'[i] = IF i = j /\ n >= 3 THEN 0 ELSE progress[i]
      /\ reservation' \in [Key -> Job \cup {NoJob}]
      /\ \A k \in Key : reservation'[k] =
            IF k = KeyOf[j] /\ n >= 4 THEN NoJob ELSE reservation[k]
      /\ UNCHANGED <<attempt, archived, byIdempotency, byAnswer>>
  <2>1. /\ status' \in [Job -> Status]
        /\ \A i \in Job : status'[i] = IF i = j /\ n >= 1 THEN to ELSE status[i]
        /\ UNCHANGED <<attempt, archived, byIdempotency, byAnswer>>
    BY <1>1 DEF IInv, TypeOK, Store
  <2>2. /\ marker' \in [Job -> {"none", "fresh", "stale"}]
        /\ \A i \in Job : marker'[i] = IF i = j /\ n >= 2 THEN "none" ELSE marker[i]
    BY <1>1 DEF IInv, TypeOK, Store, Cleanup
  <2>3. /\ progress' \in [Job -> Nat]
        /\ \A i \in Job : progress'[i] = IF i = j /\ n >= 3 THEN 0 ELSE progress[i]
    BY <1>1 DEF IInv, TypeOK, Store, Cleanup
  <2>4. /\ reservation' \in [Key -> Job \cup {NoJob}]
        /\ \A k \in Key : reservation'[k] =
              IF k = KeyOf[j] /\ n >= 4 THEN NoJob ELSE reservation[k]
    BY <1>1 DEF IInv, TypeOK, Store, Cleanup
  <2> QED BY <2>1, <2>2, <2>3, <2>4
<1> HIDE DEF j
<1>4. TypeOK'
  <2>1. worker' \in [Worker -> WorkerState]
    BY <1>2 DEF IInv, TypeOK
  <2>2. sweep' \in [by : Worker \cup {NoWorker}, orphans : SUBSET Key, due : SUBSET Job]
    BY <1>2
  <2> QED BY <1>2, <1>3, <2>1, <2>2 DEF IInv, TypeOK
<1>5. ReservationsAgree'
  BY <1>1, <1>3 DEF IInv, TypeOK, ReservationsAgree
<1>6. AbsentIsBare'
  BY <1>1, <1>3 DEF IInv, TypeOK, AbsentIsBare
<1>7. BusyIsPast'
  BY <1>1, <1>2, <1>3 DEF IInv, TypeOK, BusyIsPast
<1>8. SweepIsSound'
  BY <1>2 DEF SweepIsSound
<1>9. ProgressIsPast'
  BY <1>1, <1>3 DEF IInv, TypeOK, ProgressIsPast
<1>10. ExclusiveAttempt'
  BY <1>2 DEF IInv, TypeOK, ExclusiveAttempt
<1>11. CompletedIsAnswered'
  BY <1>1, <1>3 DEF IInv, TypeOK, CompletedIsAnswered, WorkKey, j
<1>12. RunningIsMarked'
  BY <1>1, <1>3 DEF IInv, TypeOK, RunningIsMarked
<1>13. HistoryIsComplete'
  BY <1>1, <1>3 DEF IInv, TypeOK, HistoryIsComplete
<1>14. ArchivedIsClean'
  BY <1>1, <1>3 DEF IInv, TypeOK, ArchivedIsClean
<1>15. SettledIsClean'
  BY <1>1, <1>2, <1>3 DEF IInv, TypeOK, SettledIsClean
<1>16. AttemptsAreExplained'
  <2>1. \A i \in Job \ {j} : IsHeld(i)' <=> IsHeld(i)
    BY <1>2, <1>3 DEF IInv, TypeOK, j
  <2>2. \A i \in Job \ {j} : IsLost(i)' <=> IsLost(i)
    BY <1>1, <1>3, <2>1 DEF IInv, TypeOK
  <2>3. n = 4 => status'[j] # "running"
    BY <1>1, <1>3
  <2>4. ASSUME NEW i \in Job
        PROVE  attempt'[i] + (IF IsLost(i)' THEN 1 ELSE 0) <= 1 + faults'
    <3>1. /\ attempt'[i] = attempt[i] /\ attempt[i] \in Nat /\ faults \in Nat
          /\ attempt[i] + (IF IsLost(i) THEN 1 ELSE 0) <= 1 + faults
          /\ faults' = IF n = 4 THEN faults ELSE faults + 1
      BY <1>2, <1>3 DEF IInv, TypeOK, AttemptsAreExplained
    <3>2. CASE i # j
      BY <2>2, <3>1, <3>2
    <3>3. CASE i = j /\ n = 4
      <4>1. ~IsLost(i)'
        BY <2>3, <3>3
      <4> QED BY <3>1, <3>3, <4>1
    <3>4. CASE n # 4
      BY <3>1, <3>4
    <3> QED BY <3>2, <3>3, <3>4
  <2> QED BY <2>4 DEF AttemptsAreExplained
<1> QED BY <1>4, <1>5, <1>6, <1>7, <1>8, <1>9, <1>10, <1>11, <1>12, <1>13, <1>14, <1>15,
          <1>16 DEF IInv

LEMMA CompletePreserves ==
    ASSUME NEW w \in Worker, IInv, Complete(w)
    PROVE  IInv'
<1>1. CASE Conflicts(w)
  BY <1>1, ConflictPreserves DEF Complete
<1>2. CASE ~Conflicts(w)
  <2>1. PICK n \in 0..4 :
          /\ CachePut(w)
          /\ Store(worker[w].job, "completed", n)
          /\ IF n = 4 THEN Returns(w, {worker[w].job}) ELSE Dies(w)
    BY <1>2 DEF Complete
  <2>2. /\ cache' \in [Key -> Answer \cup {NoAnswer}]
        /\ \A k \in Key : cache[k] # NoAnswer => cache'[k] = cache[k]
        /\ cache'[WorkKey(w)] # NoAnswer
    BY <2>1 DEF Complete, CachePut, IInv, TypeOK, BusyIsPast, WorkKey
  <2> QED BY <2>1, <2>2, StorePreserves DEF Complete
<1> QED BY <1>1, <1>2

LEMMA StoreFailedPreserves ==
    ASSUME NEW w \in Worker, IInv, StoreFailed(w)
    PROVE  IInv'
<1>1. PICK n \in 1..4 :
        /\ Store(worker[w].job, "failed", n)
        /\ IF n = 4 THEN Returns(w, {worker[w].job}) ELSE Dies(w)
  BY DEF StoreFailed
<1>2. n \in 0..4
  OBVIOUS
<1>3. /\ cache' \in [Key -> Answer \cup {NoAnswer}]
      /\ \A k \in Key : cache[k] # NoAnswer => cache'[k] = cache[k]
  BY DEF StoreFailed, IInv, TypeOK
<1> QED BY <1>1, <1>2, <1>3, StorePreserves DEF StoreFailed

LEMMA LoseLeasePreserves ==
    ASSUME NEW w \in Worker, IInv, LoseLease(w)
    PROVE  IInv'
<1> USE DEF LoseLease, Owned, Returns
<1>1. TypeOK'
  BY DEF IInv, TypeOK
<1>2. BusyIsPast'
  BY DEF IInv, TypeOK, BusyIsPast
<1>3. SweepIsSound'
  BY DEF IInv, TypeOK, SweepIsSound, ReservationsAgree
<1>4. ExclusiveAttempt'
  BY DEF IInv, TypeOK, ExclusiveAttempt, BusyIsPast
<1>5. SettledIsClean'
  BY DEF IInv, TypeOK, SettledIsClean
<1>6. AttemptsAreExplained'
  BY DEF IInv, TypeOK, AttemptsAreExplained, BusyIsPast, RunningIsMarked
<1>7. ReservationsAgree' /\ AbsentIsBare' /\ ProgressIsPast' /\ CompletedIsAnswered' /\
      RunningIsMarked' /\ HistoryIsComplete' /\ ArchivedIsClean'
  BY DEF IInv, ReservationsAgree, AbsentIsBare, ProgressIsPast, CompletedIsAnswered,
         RunningIsMarked, HistoryIsComplete, ArchivedIsClean
<1> QED BY <1>1, <1>2, <1>3, <1>4, <1>5, <1>6, <1>7 DEF IInv

LEMMA DeferPreserves ==
    ASSUME NEW w \in Worker, IInv, Defer(w)
    PROVE  IInv'
<1>1. CASE Conflicts(w)
  BY <1>1, ConflictPreserves DEF Defer
<1>2. CASE ~Conflicts(w)
  <2>1. /\ worker' = [worker EXCEPT ![w] = Idle]
        /\ faults' = faults + 1
        /\ faults' \in 0..MaxFaults
        /\ UNCHANGED <<status, attempt, archived, marker, progress, reservation,
                       byIdempotency, byAnswer, settled, sweep>>
    BY <1>2 DEF Defer, IInv, TypeOK
  <2>2. /\ cache' \in [Key -> Answer \cup {NoAnswer}]
        /\ \A k \in Key : cache[k] # NoAnswer => cache'[k] = cache[k]
    BY <1>2 DEF Defer, CachePut, WorkKey, IInv, TypeOK, BusyIsPast
  <2>3. TypeOK'
    BY <2>1, <2>2 DEF IInv, TypeOK
  <2>4. BusyIsPast'
    BY <2>1 DEF IInv, TypeOK, BusyIsPast
  <2>5. SweepIsSound'
    BY <2>1 DEF IInv, TypeOK, SweepIsSound
  <2>6. ExclusiveAttempt'
    BY <2>1 DEF IInv, TypeOK, ExclusiveAttempt
  <2>7. CompletedIsAnswered'
    BY <2>1, <2>2 DEF IInv, TypeOK, CompletedIsAnswered
  <2>8. AttemptsAreExplained'
    BY <2>1, AbandonedIsExplained DEF IInv
  <2>9. /\ ReservationsAgree' /\ AbsentIsBare' /\ ProgressIsPast' /\ RunningIsMarked'
        /\ HistoryIsComplete' /\ ArchivedIsClean' /\ SettledIsClean'
    BY <2>1 DEF IInv, ReservationsAgree, AbsentIsBare, ProgressIsPast, RunningIsMarked,
                HistoryIsComplete, ArchivedIsClean, SettledIsClean
  <2> QED BY <2>3, <2>4, <2>5, <2>6, <2>7, <2>8, <2>9 DEF IInv
<1> QED BY <1>1, <1>2

LEMMA AbandonOutcomePreserves ==
    ASSUME NEW w \in Worker, IInv, AbandonOutcome(w)
    PROVE  IInv'
<1> USE DEF AbandonOutcome
<1>1. TypeOK'
  BY DEF IInv, TypeOK
<1>2. BusyIsPast'
  BY DEF IInv, TypeOK, BusyIsPast
<1>3. SweepIsSound'
  BY DEF IInv, TypeOK, SweepIsSound, ReservationsAgree
<1>4. ExclusiveAttempt'
  BY DEF IInv, TypeOK, ExclusiveAttempt, BusyIsPast
<1>5. AttemptsAreExplained'
  BY DEF IInv, TypeOK, AttemptsAreExplained, BusyIsPast, RunningIsMarked
<1>6. ReservationsAgree' /\ AbsentIsBare' /\ ProgressIsPast' /\ CompletedIsAnswered' /\
      RunningIsMarked' /\ HistoryIsComplete' /\ ArchivedIsClean' /\ SettledIsClean'
  BY DEF IInv, ReservationsAgree, AbsentIsBare, ProgressIsPast, CompletedIsAnswered,
         RunningIsMarked, HistoryIsComplete, ArchivedIsClean, SettledIsClean
<1> QED BY <1>1, <1>2, <1>3, <1>4, <1>5, <1>6 DEF IInv

LEMMA LapseAbandonedPreserves ==
    ASSUME NEW j \in Job, IInv, LapseAbandoned(j)
    PROVE  IInv'
<1> USE DEF LapseAbandoned, Lapse
<1>1. TypeOK'
  BY DEF IInv, TypeOK
<1>2. AbsentIsBare'
  BY DEF IInv, TypeOK, AbsentIsBare
<1>3. SweepIsSound'
  BY DEF IInv, TypeOK, SweepIsSound, ReservationsAgree
<1>4. RunningIsMarked'
  BY DEF IInv, TypeOK, RunningIsMarked
<1>5. ArchivedIsClean'
  BY DEF IInv, TypeOK, ArchivedIsClean
<1>6. SettledIsClean'
  BY DEF IInv, TypeOK, SettledIsClean
<1>7. AttemptsAreExplained'
  BY DEF IInv, TypeOK, AttemptsAreExplained, BusyIsPast, RunningIsMarked
<1>8. ReservationsAgree' /\ BusyIsPast' /\ ProgressIsPast' /\ ExclusiveAttempt' /\
      CompletedIsAnswered' /\ HistoryIsComplete'
  BY DEF IInv, ReservationsAgree, BusyIsPast, ProgressIsPast, ExclusiveAttempt,
         CompletedIsAnswered, HistoryIsComplete
<1> QED BY <1>1, <1>2, <1>3, <1>4, <1>5, <1>6, <1>7, <1>8 DEF IInv

LEMMA LapseHeldPreserves ==
    ASSUME NEW j \in Job, IInv, LapseHeld(j)
    PROVE  IInv'
<1> USE DEF LapseHeld, Lapse
<1>1. TypeOK'
  BY DEF IInv, TypeOK
<1>2. AbsentIsBare'
  BY DEF IInv, TypeOK, AbsentIsBare
<1>3. SweepIsSound'
  BY DEF IInv, TypeOK, SweepIsSound, ReservationsAgree
<1>4. RunningIsMarked'
  BY DEF IInv, TypeOK, RunningIsMarked
<1>5. ArchivedIsClean'
  BY DEF IInv, TypeOK, ArchivedIsClean
<1>6. SettledIsClean'
  BY DEF IInv, TypeOK, SettledIsClean
<1>7. AttemptsAreExplained'
  BY DEF IInv, TypeOK, AttemptsAreExplained, BusyIsPast, RunningIsMarked
<1>8. ReservationsAgree' /\ BusyIsPast' /\ ProgressIsPast' /\ ExclusiveAttempt' /\
      CompletedIsAnswered' /\ HistoryIsComplete'
  BY DEF IInv, ReservationsAgree, BusyIsPast, ProgressIsPast, ExclusiveAttempt,
         CompletedIsAnswered, HistoryIsComplete
<1> QED BY <1>1, <1>2, <1>3, <1>4, <1>5, <1>6, <1>7, <1>8 DEF IInv

LEMMA RecoverBeginPreserves ==
    ASSUME NEW w \in Worker, IInv, RecoverBegin(w)
    PROVE  IInv'
<1> USE DEF RecoverBegin, IsDue
<1>1. TypeOK'
  BY DEF IInv, TypeOK
<1>2. SweepIsSound'
  BY DEF IInv, TypeOK, SweepIsSound, ReservationsAgree
<1>3. ReservationsAgree' /\ AbsentIsBare' /\ BusyIsPast' /\ ProgressIsPast' /\
      ExclusiveAttempt' /\ CompletedIsAnswered' /\ RunningIsMarked' /\
      HistoryIsComplete' /\ ArchivedIsClean' /\ SettledIsClean' /\ AttemptsAreExplained'
  BY DEF IInv, ReservationsAgree, AbsentIsBare, BusyIsPast, ProgressIsPast,
         ExclusiveAttempt, CompletedIsAnswered, RunningIsMarked, HistoryIsComplete,
         ArchivedIsClean, SettledIsClean, AttemptsAreExplained
<1> QED BY <1>1, <1>2, <1>3 DEF IInv

LEMMA RecoverOrphanPreserves ==
    ASSUME NEW w \in Worker, NEW k \in Key, IInv, RecoverOrphan(w, k)
    PROVE  IInv'
<1> USE DEF RecoverOrphan, Publish, Visited
<1>1. TypeOK'
  BY DEF IInv, TypeOK
<1>2. ReservationsAgree'
  BY DEF IInv, TypeOK, ReservationsAgree, SweepIsSound, AbsentIsBare
<1>3. AbsentIsBare'
  BY DEF IInv, TypeOK, AbsentIsBare, SweepIsSound, ReservationsAgree
<1>4. BusyIsPast'
  BY DEF IInv, TypeOK, BusyIsPast, SweepIsSound, AbsentIsBare, ReservationsAgree
<1>5. SweepIsSound'
  BY DEF IInv, TypeOK, SweepIsSound, ReservationsAgree, AbsentIsBare
<1>6. ProgressIsPast'
  BY DEF IInv, TypeOK, ProgressIsPast, SweepIsSound, AbsentIsBare, ReservationsAgree
<1>7. CompletedIsAnswered'
  BY DEF IInv, TypeOK, CompletedIsAnswered, BusyIsPast, SweepIsSound, AbsentIsBare,
         ReservationsAgree
<1>8. RunningIsMarked'
  BY DEF IInv, TypeOK, RunningIsMarked, SweepIsSound, AbsentIsBare, ReservationsAgree
<1>9. HistoryIsComplete'
  BY DEF IInv, TypeOK, HistoryIsComplete, SweepIsSound, AbsentIsBare, ReservationsAgree
<1>10. ArchivedIsClean'
  BY DEF IInv, TypeOK, ArchivedIsClean, SweepIsSound, AbsentIsBare, ReservationsAgree
<1>11. SettledIsClean'
  BY DEF IInv, TypeOK, SettledIsClean, SweepIsSound, AbsentIsBare, ReservationsAgree
<1>12. AttemptsAreExplained'
  BY DEF IInv, TypeOK, AttemptsAreExplained, BusyIsPast, RunningIsMarked, SweepIsSound,
         AbsentIsBare, ReservationsAgree
<1>13. ExclusiveAttempt'
  BY DEF IInv, ExclusiveAttempt
<1> QED BY <1>1, <1>2, <1>3, <1>4, <1>5, <1>6, <1>7, <1>8, <1>9, <1>10, <1>11, <1>12,
          <1>13 DEF IInv

LEMMA RecoverJobPreserves ==
    ASSUME NEW w \in Worker, NEW j \in Job, IInv, RecoverJob(w, j)
    PROVE  IInv'
<1> USE DEF RecoverJob, RecoverRecord, Requeue, Cleanup, Visited, Dies
<1>1. TypeOK'
  <2>1. worker' \in [Worker -> WorkerState]
    BY SMTT(20) DEF IInv, TypeOK
  <2>2. PICK n \in 1..3 :
          /\ RecoverRecord(w, j, n)
          /\ IF n < 3 THEN Dies(w)
                      ELSE /\ Visited({}, sweep.due \ {j})
                           /\ settled' = IF IsTerminal(j)
                                            THEN [settled EXCEPT ![w] = @ \cup {j}]
                                            ELSE settled
                           /\ UNCHANGED <<worker, faults>>
    OBVIOUS
  <2>3. settled' \in [Worker -> SUBSET Job] /\ faults' \in 0..MaxFaults
    BY SMTT(30), <2>2 DEF IInv, TypeOK
  <2>4. sweep' \in [by : Worker \cup {NoWorker}, orphans : SUBSET Key, due : SUBSET Job]
    <3>1. sweep' = NoSweep \/ sweep' = [sweep EXCEPT !.orphans = {}, !.due = sweep.due \ {j}]
      BY <2>2
    <3>2. NoSweep \in [by : Worker \cup {NoWorker}, orphans : SUBSET Key, due : SUBSET Job]
      OBVIOUS
    <3>3. [sweep EXCEPT !.orphans = {}, !.due = sweep.due \ {j}]
             \in [by : Worker \cup {NoWorker}, orphans : SUBSET Key, due : SUBSET Job]
      BY DEF IInv, TypeOK
    <3> HIDE DEF NoSweep
    <3> QED BY <3>1, <3>2, <3>3
  <2>5. status' \in [Job -> Status]
    BY <2>2 DEF IInv, TypeOK
  <2>6. attempt' \in [Job -> Nat]
    <3>1. attempt' = attempt \/ attempt' = [attempt EXCEPT ![j] = @ + 1]
      BY <2>2
    <3> QED BY <3>1 DEF IInv, TypeOK
  <2>7. progress' \in [Job -> Nat]
    BY <2>2 DEF IInv, TypeOK
  <2>8. reservation' \in [Key -> Job \cup {NoJob}]
    BY <2>2 DEF IInv, TypeOK
  <2>9. /\ marker' \in [Job -> {"none", "fresh", "stale"}]
        /\ archived' \subseteq Job /\ byIdempotency' \subseteq Job /\ byAnswer' \subseteq Job
        /\ cache' \in [Key -> Answer \cup {NoAnswer}]
    BY <2>2 DEF IInv, TypeOK
  <2> QED BY <2>1, <2>3, <2>4, <2>5, <2>6, <2>7, <2>8, <2>9 DEF TypeOK
<1>2. ReservationsAgree'
  BY DEF IInv, TypeOK, ReservationsAgree
<1>3. AbsentIsBare'
  BY DEF IInv, TypeOK, AbsentIsBare
<1>4. BusyIsPast'
  BY SMTT(30) DEF IInv, TypeOK, BusyIsPast
<1>5. SweepIsSound'
  <2>1. sweep' = NoSweep \/ sweep' = [sweep EXCEPT !.orphans = {}, !.due = sweep.due \ {j}]
    OBVIOUS
  <2>2. CASE sweep' = NoSweep
    BY <2>2 DEF SweepIsSound
  <2>3. CASE sweep' = [sweep EXCEPT !.orphans = {}, !.due = sweep.due \ {j}]
    <3>1. sweep'.by = w /\ sweep'.orphans = {} /\ sweep'.due = sweep.due \ {j}
      BY <2>3 DEF IInv, TypeOK
    <3>2. ~IsBusy(w)'
      BY DEF IInv, TypeOK, SweepIsSound
    <3>3. \A i \in sweep'.due : status'[i] = status[i] /\ marker'[i] = marker[i]
      BY <3>1 DEF IInv, TypeOK
    <3> QED BY <3>1, <3>2, <3>3 DEF IInv, TypeOK, SweepIsSound
  <2> QED BY <2>1, <2>2, <2>3
<1>6. ProgressIsPast'
  BY DEF IInv, TypeOK, ProgressIsPast
<1>7. ExclusiveAttempt'
  BY SMTT(30) DEF IInv, TypeOK, ExclusiveAttempt, BusyIsPast
<1>8. CompletedIsAnswered'
  BY DEF IInv, TypeOK, CompletedIsAnswered, BusyIsPast
<1>9. RunningIsMarked'
  BY DEF IInv, TypeOK, RunningIsMarked
<1>10. HistoryIsComplete'
  BY DEF IInv, TypeOK, HistoryIsComplete
<1>11. ArchivedIsClean'
  BY DEF IInv, TypeOK, ArchivedIsClean
<1>12. SettledIsClean'
  BY SMTT(30) DEF IInv, TypeOK, SettledIsClean, ReservationsAgree
<1>13. AttemptsAreExplained'
  BY SMTT(30) DEF IInv, TypeOK, AttemptsAreExplained, BusyIsPast, RunningIsMarked,
         SweepIsSound
<1> QED BY <1>1, <1>2, <1>3, <1>4, <1>5, <1>6, <1>7, <1>8, <1>9, <1>10, <1>11, <1>12,
          <1>13 DEF IInv

LEMMA ArchivePreserves ==
    ASSUME NEW w \in Worker, NEW j \in Job, IInv, Archive(w, j)
    PROVE  IInv'
<1> USE DEF Archive, ArchiveOne, Index, Cleanup, Dies
<1>1. TypeOK'
  <2>1. worker' \in [Worker -> WorkerState]
    BY SMTT(20) DEF IInv, TypeOK
  <2>2. /\ settled' \in [Worker -> SUBSET Job]
        /\ sweep' \in [by : Worker \cup {NoWorker}, orphans : SUBSET Key, due : SUBSET Job]
        /\ faults' \in 0..MaxFaults
    BY SMTT(20) DEF IInv, TypeOK
  <2>3. /\ status' \in [Job -> Status] /\ attempt' \in [Job -> Nat]
        /\ progress' \in [Job -> Nat]
        /\ reservation' \in [Key -> Job \cup {NoJob}]
    BY SMTT(20) DEF IInv, TypeOK
  <2>4. /\ marker' \in [Job -> {"none", "fresh", "stale"}]
        /\ archived' \subseteq Job /\ byIdempotency' \subseteq Job /\ byAnswer' \subseteq Job
        /\ cache' \in [Key -> Answer \cup {NoAnswer}]
    BY SMTT(20) DEF IInv, TypeOK
  <2> QED BY <2>1, <2>2, <2>3, <2>4 DEF TypeOK
<1>2. ReservationsAgree'
  BY DEF IInv, TypeOK, ReservationsAgree
<1>3. AbsentIsBare'
  BY DEF IInv, TypeOK, AbsentIsBare
<1>4. BusyIsPast'
  BY SMTT(30) DEF IInv, TypeOK, BusyIsPast
<1>5. SweepIsSound'
  BY DEF IInv, TypeOK, SweepIsSound, ReservationsAgree
<1>6. ProgressIsPast'
  BY DEF IInv, TypeOK, ProgressIsPast
<1>7. ExclusiveAttempt'
  <2>1. \A v \in Worker : worker'[v] = worker[v] \/ worker'[v] = Idle
    BY DEF IInv, TypeOK
  <2> QED BY <2>1 DEF IInv, ExclusiveAttempt
<1>8. CompletedIsAnswered'
  BY DEF IInv, TypeOK, CompletedIsAnswered, BusyIsPast
<1>9. RunningIsMarked'
  BY DEF IInv, TypeOK, RunningIsMarked
<1>10. HistoryIsComplete'
  BY DEF IInv, TypeOK, HistoryIsComplete
<1>11. ArchivedIsClean'
  BY DEF IInv, TypeOK, ArchivedIsClean
<1>12. SettledIsClean'
  BY DEF IInv, TypeOK, SettledIsClean
<1>13. AttemptsAreExplained'
  BY DEF IInv, TypeOK, AttemptsAreExplained, BusyIsPast, RunningIsMarked
<1> QED BY <1>1, <1>2, <1>3, <1>4, <1>5, <1>6, <1>7, <1>8, <1>9, <1>10, <1>11, <1>12,
          <1>13 DEF IInv

LEMMA CrashPreserves ==
    ASSUME NEW w \in Worker, IInv, Crash(w)
    PROVE  IInv'
<1> USE DEF Crash, Dies
<1>1. TypeOK'
  BY DEF IInv, TypeOK
<1>2. BusyIsPast'
  BY DEF IInv, TypeOK, BusyIsPast
<1>3. SweepIsSound'
  BY DEF IInv, TypeOK, SweepIsSound, ReservationsAgree
<1>4. ExclusiveAttempt'
  BY DEF IInv, TypeOK, ExclusiveAttempt, BusyIsPast
<1>5. SettledIsClean'
  BY DEF IInv, TypeOK, SettledIsClean
<1>6. AttemptsAreExplained'
  BY DEF IInv, TypeOK, AttemptsAreExplained, BusyIsPast, RunningIsMarked
<1>7. ReservationsAgree' /\ AbsentIsBare' /\ ProgressIsPast' /\ CompletedIsAnswered' /\
      RunningIsMarked' /\ HistoryIsComplete' /\ ArchivedIsClean'
  BY DEF IInv, ReservationsAgree, AbsentIsBare, ProgressIsPast, CompletedIsAnswered,
         RunningIsMarked, HistoryIsComplete, ArchivedIsClean
<1> QED BY <1>1, <1>2, <1>3, <1>4, <1>5, <1>6, <1>7 DEF IInv

-------------------------------------------------------------------------------
\* The invariant

LEMMA InitEstablishes == Init => IInv
<1> SUFFICES ASSUME Init PROVE IInv
  OBVIOUS
<1> USE DEF Init
<1>1. TypeOK
  BY DEF TypeOK
<1>2. /\ ReservationsAgree /\ AbsentIsBare /\ BusyIsPast /\ SweepIsSound /\ ProgressIsPast
  BY DEF ReservationsAgree, AbsentIsBare, BusyIsPast, SweepIsSound, ProgressIsPast
<1>3. /\ ExclusiveAttempt /\ CompletedIsAnswered /\ RunningIsMarked /\ HistoryIsComplete
      /\ ArchivedIsClean /\ SettledIsClean /\ AttemptsAreExplained
  BY DEF ExclusiveAttempt, CompletedIsAnswered, RunningIsMarked, HistoryIsComplete,
         ArchivedIsClean, SettledIsClean, AttemptsAreExplained
<1> QED BY <1>1, <1>2, <1>3 DEF IInv

LEMMA NextPreserves == IInv /\ [Next]_vars => IInv'
<1> SUFFICES ASSUME IInv, [Next]_vars PROVE IInv'
  OBVIOUS
<1>1. CASE UNCHANGED vars
  BY <1>1 DEF IInv, TypeOK, ReservationsAgree, AbsentIsBare, BusyIsPast, SweepIsSound,
      ProgressIsPast, ExclusiveAttempt, CompletedIsAnswered, RunningIsMarked,
      HistoryIsComplete, ArchivedIsClean, SettledIsClean, AttemptsAreExplained, vars
<1>2. ASSUME NEW j \in Job, JobStep(j)
      PROVE  IInv'
  BY <1>2, SubmitPreserves, LapseAbandonedPreserves, LapseHeldPreserves DEF JobStep
<1>3. ASSUME NEW w \in Worker, WorkerStep(w)
      PROVE  IInv'
  <2>1. CASE \E j \in Job : Claim(w, j) \/ RecoverJob(w, j) \/ Archive(w, j)
    BY <2>1, ClaimPreserves, RecoverJobPreserves, ArchivePreserves
  <2>2. CASE LookUp(w) \/ Compute(w) \/ Heartbeat(w) \/ RecordProgress(w)
    BY <2>2, LookUpPreserves, SolvePreserves, RefusePreserves, HeartbeatPreserves,
       RecordProgressPreserves DEF Compute
  <2>3. CASE Conclude(w) \/ WriteError(w) \/ Defer(w) \/ AbandonOutcome(w) \/ Crash(w)
    BY <2>3, CompletePreserves, StoreFailedPreserves, LoseLeasePreserves, WriteErrorPreserves,
       DeferPreserves, AbandonOutcomePreserves, CrashPreserves DEF Conclude
  <2>4. CASE RecoverBegin(w) \/ \E k \in Key : RecoverOrphan(w, k)
    BY <2>4, RecoverBeginPreserves, RecoverOrphanPreserves
  <2> QED BY <1>3, <2>1, <2>2, <2>3, <2>4 DEF WorkerStep, Recover
<1> QED BY <1>1, <1>2, <1>3 DEF Next

\* Whatever the interleaving of submissions, workers, recoveries, deaths and lapses, and
\* for any number of them, the inductive invariant holds of the queue's files.
THEOREM Invariance == Spec => []IInv
<1> QED BY InitEstablishes, NextPreserves, PTL DEF Spec

\* Every state is well-typed.
THEOREM TypeCorrect == Spec => []TypeOK
<1>1. IInv => TypeOK
  BY DEF IInv
<1> QED BY <1>1, Invariance, PTL

\* At most one open job per answer address: an open job is reserved, and an address has
\* one reservation.
THEOREM OneOpenJob == Spec => []OneOpenJobPerKey
<1>1. IInv => OneOpenJobPerKey
  BY DEF IInv, ReservationsAgree, OneOpenJobPerKey
<1> QED BY <1>1, Invariance, PTL

\* No two workers ever hold the same attempt of a job.
THEOREM Fencing == Spec => []ExclusiveAttempt
<1>1. IInv => ExclusiveAttempt
  BY DEF IInv
<1> QED BY <1>1, Invariance, PTL

\* complete files the answer before the record, and no write of the cache takes one away: a
\* completed job can be served.
THEOREM AnswersAreThere == Spec => []CompletedIsAnswered
<1>1. IInv => CompletedIsAnswered
  BY DEF IInv
<1> QED BY <1>1, Invariance, PTL

\* A running record has its claim marker, whichever write its worker died after.
THEOREM MarkersAreThere == Spec => []RunningIsMarked
<1>1. IInv => RunningIsMarked
  BY DEF IInv
<1> QED BY <1>1, Invariance, PTL

\* recover walks no attempt back without cause: every attempt of a job after its first, and
\* one still to be walked back, has a death, a lapse or a busy lock of its own.
THEOREM AttemptsArePaidFor == Spec => []AttemptsAreExplained
<1>1. IInv => AttemptsAreExplained
  BY DEF IInv
<1> QED BY <1>1, Invariance, PTL

\* The indexes find every archived job, and name none that history could not load.
THEOREM HistoryFindsAll == Spec => []HistoryIsComplete
<1>1. IInv => HistoryIsComplete
  BY DEF IInv
<1> QED BY <1>1, Invariance, PTL

\* An archived record leaves no marker, count or reservation behind, which no later scan
\* would see.
THEOREM ArchiveIsClean == Spec => []ArchivedIsClean
<1>1. IInv => ArchivedIsClean
  BY DEF IInv
<1> QED BY <1>1, Invariance, PTL

\* What a worker remembers as cleaned up stays clean, whatever the other workers do.
THEOREM SettledStaysClean == Spec => []SettledIsClean
<1>1. IInv => SettledIsClean
  BY DEF IInv
<1> QED BY <1>1, Invariance, PTL

-------------------------------------------------------------------------------
\* Progress

\* A late count of a recovered attempt never replaces its successor's.
THEOREM ProgressFenced == Spec => ProgressNeverStepsBack
<1> DEFINE Fenced == \A j \in Job : progress'[j] # 0 => progress'[j] >= progress[j]
<1>1. ASSUME IInv, [Next]_vars
      PROVE  [Fenced]_vars
  <2>1. CASE UNCHANGED vars
    BY <2>1
  <2>2. ASSUME NEW j \in Job, JobStep(j)
        PROVE  Fenced
    BY <1>1, <2>2 DEF JobStep, Submit, FileJob, LapseAbandoned, LapseHeld, Lapse, IInv,
                      TypeOK
  <2>3. ASSUME NEW w \in Worker, WorkerStep(w)
        PROVE  Fenced
    <3>1. CASE RecordProgress(w)
      BY <1>1, <3>1 DEF RecordProgress, Owned, IInv, TypeOK, ProgressIsPast, BusyIsPast
    <3>2. CASE \E j \in Job : Claim(w, j) \/ RecoverJob(w, j) \/ Archive(w, j)
      BY <1>1, <3>2 DEF Claim, RecoverJob, RecoverRecord, Requeue, Archive, ArchiveOne,
                        Index, Cleanup, IInv,
                        TypeOK
    <3>3. CASE LookUp(w) \/ Compute(w) \/ Heartbeat(w)
      <4>1. UNCHANGED progress
        BY <3>3 DEF LookUp, Compute, Solve, Refuse, Heartbeat, disk
      <4> QED BY <1>1, <4>1 DEF IInv, TypeOK
    <3>4. CASE Conclude(w)
      BY <1>1, <3>4 DEF Conclude, Complete, Conflicts, StoreFailed, LoseLease, Store, Cleanup,
                  Returns, IInv, TypeOK
    <3>5. CASE WriteError(w) \/ Defer(w) \/ AbandonOutcome(w) \/ Crash(w)
      BY <1>1, <3>5 DEF WriteError, Defer, Conflicts, AbandonOutcome, Crash, IInv, TypeOK
    <3>6. CASE RecoverBegin(w) \/ \E k \in Key : RecoverOrphan(w, k)
      <4>1. UNCHANGED progress
        BY <3>6 DEF RecoverBegin, RecoverOrphan, disk
      <4> QED BY <1>1, <4>1 DEF IInv, TypeOK
    <3> QED BY <2>3, <3>1, <3>2, <3>3, <3>4, <3>5, <3>6 DEF WorkerStep, Recover
  <2> QED BY <1>1, <2>1, <2>2, <2>3 DEF Next
<1> QED BY <1>1, Invariance, PTL DEF Spec, ProgressNeverStepsBack

-------------------------------------------------------------------------------
\* Refinement

LEMMA InitRefines == Init => Jobs!Init
BY DEF Init, Jobs!Init

\* Publishing the record of a job that is all its address has reserved is an acceptance.
LEMMA PublishAccepts ==
    ASSUME IInv, NEW j \in Job,
           status[j] = "absent",
           \A i \in Job : KeyOf[i] = KeyOf[j] => ~IsOpen(i),
           Publish(j), UNCHANGED cache
    PROVE  Jobs!Next
BY DEF Publish, Jobs!Next, Jobs!Step, Jobs!Accept, Jobs!Edge, Jobs!IsOpen

\* An owner's store is the job's completion or failure, or was cut before the record.
LEMMA StoreConcludes ==
    ASSUME IInv, NEW w \in Worker, NEW n \in 0..4, NEW to \in {"completed", "failed"},
           IsBusy(w), Owned(w),
           Store(worker[w].job, to, n),
           \/ CachePut(w) /\ worker[w].pc = "answered" /\ to = "completed"
           \/ UNCHANGED cache /\ to = "failed"
    PROVE  [Jobs!Next]_Jobs!vars
<1> DEFINE j == worker[w].job
           a == worker[w].answer
<1>1. j \in Job /\ status[j] = "running" /\ UNCHANGED attempt
  BY DEF IInv, BusyIsPast, Owned, Store
<1>2. status' = IF n >= 1 THEN [status EXCEPT ![j] = to] ELSE status
  BY DEF Store
<1>3. CASE UNCHANGED cache /\ to = "failed"
  BY <1>1, <1>2, <1>3 DEF Jobs!Next, Jobs!Step, Jobs!Fail, Jobs!Edge, Jobs!vars
<1>4. CASE CachePut(w) /\ worker[w].pc = "answered" /\ to = "completed"
  <2>1. a \in Answer /\ Jobs!Filed(j, a)
    BY <1>1, <1>4 DEF IInv, BusyIsPast, CachePut, WorkKey, Jobs!Filed
  <2>2. CASE n = 0
    BY <1>1, <1>2, <2>1, <2>2 DEF Jobs!Next, Jobs!Step, Jobs!File
  <2>3. CASE n >= 1
    BY <1>1, <1>2, <1>4, <2>1, <2>3 DEF Jobs!Next, Jobs!Step, Jobs!Complete, Jobs!Edge
  <2> QED BY <2>2, <2>3
<1> QED BY <1>3, <1>4

LEMMA NextRefines == IInv /\ [Next]_vars => [Jobs!Next]_Jobs!vars
<1> SUFFICES ASSUME IInv, [Next]_vars PROVE [Jobs!Next]_Jobs!vars
  OBVIOUS
<1>1. CASE UNCHANGED vars
  BY <1>1 DEF vars, Jobs!vars
<1>2. ASSUME NEW j \in Job, Submit(j)
      PROVE  [Jobs!Next]_Jobs!vars
  <2> DEFINE i == reservation[KeyOf[j]]
  <2>1. CASE i # NoJob /\ status[i] = "absent"
    <3>1. i \in Job /\ Publish(i) /\ KeyOf[i] = KeyOf[j]
      BY <1>2, <2>1 DEF Submit, IInv, TypeOK, ReservationsAgree
    <3>2. \A l \in Job : KeyOf[l] = KeyOf[i] => ~IsOpen(l)
      BY <2>1, <3>1 DEF IInv, ReservationsAgree
    <3> QED BY <1>2, <2>1, <3>1, <3>2, PublishAccepts DEF Submit
  <2>2. CASE ~(i # NoJob /\ status[i] = "absent")
    <3>1. PICK n \in 1..5 : (i # NoJob => IsTerminal(i)) /\ FileJob(j, n)
      BY <1>2, <2>2 DEF Submit
    <3>2. CASE n = 5
      <4>1. \A l \in Job : KeyOf[l] = KeyOf[j] => ~IsOpen(l)
        BY <3>1 DEF IInv, ReservationsAgree
      <4> QED BY <1>2, <3>1, <3>2, <4>1, PublishAccepts DEF Submit, FileJob
    <3>3. CASE n # 5
      BY <1>2, <3>1, <3>3 DEF Submit, FileJob, Jobs!vars
    <3> QED BY <3>2, <3>3
  <2> QED BY <2>1, <2>2
<1>3. ASSUME NEW j \in Job, JobStep(j)
      PROVE  [Jobs!Next]_Jobs!vars
  BY <1>2, <1>3 DEF JobStep, LapseAbandoned, LapseHeld, Lapse, Jobs!vars
<1>4. ASSUME NEW w \in Worker, WorkerStep(w)
      PROVE  [Jobs!Next]_Jobs!vars
  <2>1. ASSUME NEW j \in Job, Claim(w, j)
        PROVE  [Jobs!Next]_Jobs!vars
    BY <2>1 DEF Claim, Claimable, Jobs!Next, Jobs!Step, Jobs!Start, Jobs!Edge, Jobs!vars
  <2>2. ASSUME NEW j \in Job, RecoverJob(w, j)
        PROVE  [Jobs!Next]_Jobs!vars
    BY <2>2 DEF RecoverJob, RecoverRecord, Requeue, Jobs!Next, Jobs!Step, Jobs!Requeue,
                Jobs!Edge, Jobs!vars
  <2>3. ASSUME NEW k \in Key, RecoverOrphan(w, k)
        PROVE  [Jobs!Next]_Jobs!vars
    <3> DEFINE i == reservation[k]
    <3>1. i \in Job /\ status[i] = "absent" /\ KeyOf[i] = k /\ Publish(i) /\ UNCHANGED cache
      BY <2>3 DEF RecoverOrphan, IInv, TypeOK, SweepIsSound, ReservationsAgree
    <3>2. \A l \in Job : KeyOf[l] = KeyOf[i] => ~IsOpen(l)
      BY <3>1 DEF IInv, ReservationsAgree
    <3> QED BY <3>1, <3>2, PublishAccepts
  <2>4. CASE Complete(w)
    <3>1. CASE Conflicts(w)
      BY <3>1 DEF Conflicts, Jobs!vars
    <3>2. CASE ~Conflicts(w)
      BY <2>4, <3>2, StoreConcludes DEF Complete
    <3> QED BY <3>1, <3>2
  <2>5. CASE StoreFailed(w)
    <3>1. PICK n \in 1..4 : Store(worker[w].job, "failed", n)
      BY <2>5 DEF StoreFailed
    <3>2. n \in 0..4
      OBVIOUS
    <3> QED BY <2>5, <3>1, <3>2, StoreConcludes DEF StoreFailed
  <2>6. CASE Defer(w)
    <3>1. CASE Conflicts(w)
      BY <3>1 DEF Conflicts, Jobs!vars
    <3>2. CASE ~Conflicts(w)
      <4> DEFINE j == worker[w].job
                 a == worker[w].answer
      <4>1. j \in Job /\ a \in Answer /\ status[j] # "absent"
        BY <2>6 DEF Defer, IInv, BusyIsPast
      <4>2. Jobs!File(j, a)
        BY <2>6, <3>2, <4>1 DEF Defer, CachePut, WorkKey, Jobs!File, Jobs!Filed
      <4> QED BY <4>1, <4>2 DEF Jobs!Next, Jobs!Step
    <3> QED BY <3>1, <3>2
  <2>7. CASE LookUp(w) \/ Compute(w) \/ Heartbeat(w) \/ RecordProgress(w) \/ LoseLease(w)
    BY <2>7 DEF LookUp, Compute, Solve, Refuse, Heartbeat, RecordProgress, LoseLease, Jobs!vars
  <2>8. CASE AbandonOutcome(w) \/ RecoverBegin(w) \/ Crash(w) \/ \E j \in Job : Archive(w, j)
    BY <2>8 DEF AbandonOutcome, RecoverBegin, Crash, Archive, ArchiveOne, Index,
                Jobs!vars
  <2>9. CASE WriteError(w)
    <3>1. CASE UNCHANGED cache
      BY <2>9, <3>1 DEF WriteError, Jobs!vars
    <3>2. CASE CachePut(w)
      <4> DEFINE j == worker[w].job
                 a == worker[w].answer
      <4>1. j \in Job /\ a \in Answer /\ status[j] # "absent"
        BY <2>9 DEF WriteError, IInv, BusyIsPast
      <4>2. Jobs!File(j, a)
        BY <2>9, <3>2, <4>1 DEF WriteError, CachePut, WorkKey, Jobs!File, Jobs!Filed
      <4> QED BY <4>1, <4>2 DEF Jobs!Next, Jobs!Step
    <3> QED BY <2>9, <3>1, <3>2 DEF WriteError
  <2> QED BY <1>4, <2>1, <2>2, <2>3, <2>4, <2>5, <2>6, <2>7, <2>8, <2>9
             DEF WorkerStep, Conclude, Recover
<1> QED BY <1>1, <1>3, <1>4 DEF Next

\* The queue, its crashes and recoveries included, does only what backend_jobs_v1 allows:
\* each of its steps is one lifecycle edge, the filing of an answer, or invisible.
THEOREM Refinement == Spec => Refines
<1> QED BY InitRefines, NextRefines, Invariance, PTL DEF Spec, Refines, Jobs!Spec

-------------------------------------------------------------------------------
\* The store that submissions and workers share

LEMMA InitShares == Init => Shared!Init
BY DEF Init, Shared!Init

\* How the record of one job, published or concluded, looks from a submission.
LEMMA SharedRecords ==
    ASSUME IInv
    PROVE  /\ \A j \in Job : Shared!IsPublished(j) <=> status[j] # "absent"
           /\ \A j \in Job : Shared!IsOpen(j) <=> IsOpen(j)
           /\ \A j \in Job : Shared!IsTerminal(j) <=> IsTerminal(j)
BY DEF IInv, TypeOK, Shared!IsPublished, Shared!IsOpen, Shared!IsTerminal

\* An intent that the reservation of k names is published.
LEMMA PublishShares ==
    ASSUME IInv, NEW k \in Key, reservation[k] # NoJob, status[reservation[k]] = "absent",
           Publish(reservation[k]), UNCHANGED <<reservation, cache>>
    PROVE  Shared!SharedStep
<1> DEFINE i == reservation[k]
<1>1. i \in Job
  BY DEF IInv, TypeOK
<1>2. status' = [status EXCEPT ![i] = "queued"]
  BY DEF Publish
<1>3. [j \in Job |-> IF IsOpen(j) THEN "open" ELSE status[j]]'
         = [[j \in Job |-> IF IsOpen(j) THEN "open" ELSE status[j]] EXCEPT ![i] = "open"]
  BY <1>1, <1>2 DEF IInv, TypeOK
<1>4. Shared!Publish(k)
  BY <1>1, <1>3, SharedRecords DEF Shared!Publish, Shared!Reserved
<1> QED BY <1>4 DEF Shared!SharedStep

\* The removals of _cleanup take back nothing but a finished job's own reservation.
LEMMA CleanupShares ==
    ASSUME IInv, NEW j \in Job, NEW n \in Int, IsTerminal(j), Cleanup(j, n),
           UNCHANGED <<status, cache>>
    PROVE  [Shared!SharedStep]_Shared!vars
<1>1. CASE UNCHANGED reservation
  BY <1>1 DEF Shared!vars
<1>2. CASE /\ reservation[KeyOf[j]] = j
           /\ reservation' = [reservation EXCEPT ![KeyOf[j]] = NoJob]
  <2>1. Shared!Release(KeyOf[j])
    BY <1>2, SharedRecords DEF Shared!Release, Shared!Reserved
  <2> QED BY <2>1 DEF Shared!SharedStep
<1> QED BY <1>1, <1>2 DEF Cleanup

\* The answer in hand reaches the cache, and nothing else is written.
LEMMA PutShares ==
    ASSUME IInv, NEW w \in Worker, worker[w].pc = "answered", CachePut(w),
           UNCHANGED <<status, reservation>>
    PROVE  Shared!WorkerStep
<1>1. PICK j \in Job : j = worker[w].job
  BY DEF IInv, BusyIsPast
<1>2. status[j] # "absent" /\ worker[w].answer \in Answer
  BY <1>1 DEF IInv, BusyIsPast
<1>3. Shared!FileAnswer(j)
  BY <1>1, <1>2, SharedRecords DEF IInv, TypeOK, CachePut, WorkKey, Shared!FileAnswer
<1> QED BY <1>3 DEF Shared!WorkerStep

\* The writes of store by the job's owner, with the answer in the cache for a completion.
LEMMA StoreShares ==
    ASSUME IInv, NEW w \in Worker, NEW n \in 1..4, NEW to \in {"completed", "failed"},
           IsBusy(w), Owned(w), Store(worker[w].job, to, n),
           \/ CachePut(w) /\ worker[w].pc = "answered" /\ to = "completed"
           \/ UNCHANGED cache /\ to = "failed"
    PROVE  Shared!WorkerStep
<1> DEFINE shown == [i \in Job |-> IF IsOpen(i) THEN "open" ELSE status[i]]
           answered == {k \in Key : cache[k] # NoAnswer}
<1>0. PICK j \in Job : j = worker[w].job
  BY DEF IInv, BusyIsPast
<1>1. status[j] = "running" /\ reservation[KeyOf[j]] = j
  BY <1>0 DEF IInv, Owned, ReservationsAgree
<1>2. shown' = [shown EXCEPT ![j] = to]
  <2>1. status' = [status EXCEPT ![j] = to]
    BY <1>0 DEF Store
  <2> QED BY <1>1, <2>1 DEF IInv, TypeOK
<1>3. reservation' \in {reservation, [reservation EXCEPT ![KeyOf[j]] = NoJob]}
  BY <1>0 DEF Store, Cleanup
<1>4. answered' = IF to = "completed" THEN answered \cup {KeyOf[j]} ELSE answered
  <2>1. CASE CachePut(w) /\ worker[w].pc = "answered" /\ to = "completed"
    <3>1. worker[w].answer \in Answer
      BY <2>1 DEF IInv, BusyIsPast
    <3> QED BY <1>0, <2>1, <3>1 DEF CachePut, WorkKey, IInv, TypeOK
  <2> QED BY <2>1
<1>5. Shared!Finish(j)
  BY <1>1, <1>2, <1>3, <1>4, SharedRecords DEF Shared!Finish
<1> QED BY <1>5 DEF Shared!WorkerStep

\* Each write of a submission, interrupted ones included, and each lapse of a lease, is one
\* of AdviceStore's steps of a submission, or invisible there.
THEOREM SubmissionsShare ==
    ASSUME IInv, NEW j \in Job, JobStep(j)
    PROVE  [Shared!SubmissionStep]_Shared!vars
<1> DEFINE k == KeyOf[j]
           i == reservation[k]
<1>1. CASE UNCHANGED <<status, reservation, cache>>
  BY <1>1 DEF Shared!vars
<1>2. CASE Submit(j) /\ i # NoJob /\ status[i] = "absent"
  BY <1>2, PublishShares DEF Submit, Shared!SubmissionStep
<1>3. CASE Submit(j) /\ ~(i # NoJob /\ status[i] = "absent")
  <2>1. PICK n \in 1..5 : (i # NoJob => IsTerminal(i)) /\ FileJob(j, n)
    BY <1>3 DEF Submit
  <2>2. CASE n \in {1, 2}
    BY <1>3, <2>1, <2>2, <1>1 DEF Submit, FileJob, IInv, TypeOK
  <2>3. CASE n = 3
    <3>1. i # NoJob /\ i \in Job
      BY <2>1, <2>3 DEF FileJob, IInv, TypeOK
    <3>2. Shared!Release(k)
      BY <1>3, <2>1, <2>3, <3>1, SharedRecords
         DEF Submit, FileJob, Shared!Release, Shared!Reserved
    <3> QED BY <3>2 DEF Shared!SubmissionStep, Shared!SharedStep
  <2>4. CASE n \in {4, 5}
    <3>1. status[j] = "absent" /\ cache[k] = NoAnswer /\ UNCHANGED cache
          /\ reservation' = [reservation EXCEPT ![k] = j]
      <4>1. n >= 4 /\ n # 3
        BY <2>4
      <4> QED BY <1>3, <2>1, <4>1 DEF Submit, FileJob
    <3>2. status' \in {status, [status EXCEPT ![j] = "queued"]}
      BY <2>1, <2>4 DEF FileJob, Publish
    <3>3. i # NoJob => i \in Job /\ Shared!IsTerminal(i)
      BY <2>1, SharedRecords DEF IInv, TypeOK
    <3>4. LET open == [m \in Job |-> IF IsOpen(m) THEN "open" ELSE status[m]]
          IN open' = open \/ open' = [open EXCEPT ![j] = "open"]
      BY <3>2 DEF IInv, TypeOK, IsOpen
    <3>5. ~Shared!IsPublished(j)
      BY <3>1, SharedRecords
    <3>6. Shared!File(j)
      BY <3>1, <3>3, <3>4, <3>5 DEF IInv, TypeOK, Shared!File, Shared!Reserved
    <3> QED BY <3>6 DEF Shared!SubmissionStep
  <2> QED BY <2>2, <2>3, <2>4
<1> QED BY <1>1, <1>2, <1>3 DEF JobStep, LapseAbandoned, LapseHeld, Lapse

\* Each write of a worker, those of recovery, archiving and interrupted operations included,
\* is one of AdviceStore's steps of a worker, or invisible there.
THEOREM WorkersShare ==
    ASSUME IInv, NEW w \in Worker, WorkerStep(w)
    PROVE  [Shared!WorkerStep]_Shared!vars
<1>0. CASE UNCHANGED <<status, reservation, cache>>
  BY <1>0 DEF Shared!vars
<1>1. ASSUME NEW j \in Job, Claim(w, j)
      PROVE  [Shared!WorkerStep]_Shared!vars
  BY <1>1 DEF Claim, Claimable, IInv, TypeOK, Shared!vars
<1>2. ASSUME NEW j \in Job, RecoverJob(w, j)
      PROVE  [Shared!WorkerStep]_Shared!vars
  <2>1. PICK n \in 1..3 : RecoverRecord(w, j, n)
    BY <1>2 DEF RecoverJob
  <2>2. UNCHANGED cache
    BY <1>2 DEF RecoverJob
  <2>3. CASE IsTerminal(j)
    BY <2>1, <2>2, <2>3, CleanupShares DEF RecoverRecord, Shared!WorkerStep
  <2>4. CASE status[j] = "queued"
    BY <2>1, <2>2, <2>4, <1>0 DEF RecoverRecord, Cleanup
  <2>5. CASE status[j] = "running"
    <3>1. Requeue(j, n)
      BY <2>1, <2>5 DEF RecoverRecord
    <3>2. UNCHANGED reservation /\ status' = [status EXCEPT ![j] = "queued"]
      BY <3>1 DEF Requeue, Cleanup
    <3> QED BY <2>2, <2>5, <3>2 DEF IInv, TypeOK, Shared!vars
  <2> QED BY <2>1, <2>3, <2>4, <2>5 DEF RecoverRecord
<1>3. ASSUME NEW k \in Key, RecoverOrphan(w, k)
      PROVE  [Shared!WorkerStep]_Shared!vars
  BY <1>3, PublishShares DEF RecoverOrphan, IInv, SweepIsSound, Shared!WorkerStep
<1>4. CASE Complete(w)
  <2>1. CASE Conflicts(w)
    BY <2>1, <1>0 DEF Conflicts, disk
  <2>2. CASE ~Conflicts(w)
    <3>1. PICK n \in 0..4 : CachePut(w) /\ Store(worker[w].job, "completed", n)
      BY <1>4, <2>2 DEF Complete
    <3>2. CASE n = 0
      <4>1. UNCHANGED <<status, reservation>>
        BY <3>1, <3>2 DEF Store, Cleanup
      <4> QED BY <1>4, <3>1, <4>1, PutShares DEF Complete
    <3>3. CASE n \in 1..4
      BY <1>4, <3>1, <3>3, StoreShares DEF Complete
    <3> QED BY <3>2, <3>3
  <2> QED BY <2>1, <2>2
<1>5. CASE StoreFailed(w)
  <2>1. PICK n \in 1..4 : Store(worker[w].job, "failed", n)
    BY <1>5 DEF StoreFailed
  <2> QED BY <1>5, <2>1, StoreShares DEF StoreFailed
<1>6. CASE Defer(w) \/ WriteError(w)
  BY <1>6, <1>0, PutShares DEF Defer, WriteError, Conflicts, disk
<1>7. CASE LookUp(w) \/ Compute(w) \/ Heartbeat(w) \/ RecordProgress(w) \/ LoseLease(w)
  BY <1>7, <1>0 DEF LookUp, Compute, Solve, Refuse, Heartbeat, RecordProgress, LoseLease, disk
<1>8. CASE AbandonOutcome(w) \/ RecoverBegin(w) \/ Crash(w)
  BY <1>8, <1>0 DEF AbandonOutcome, RecoverBegin, Crash, disk
<1>9. ASSUME NEW j \in Job, Archive(w, j)
      PROVE  [Shared!WorkerStep]_Shared!vars
  <2>1. PICK n \in 1..6 : ArchiveOne(j, n)
    BY <1>9 DEF Archive
  <2> QED BY <1>9, <2>1, CleanupShares DEF Archive, ArchiveOne, Shared!WorkerStep
<1> QED BY <1>1, <1>2, <1>3, <1>4, <1>5, <1>6, <1>7, <1>8, <1>9
           DEF WorkerStep, Conclude, Recover

LEMMA NextShares == IInv /\ [Next]_vars => [Shared!Next]_Shared!vars
<1> SUFFICES ASSUME IInv, [Next]_vars PROVE [Shared!Next]_Shared!vars
  OBVIOUS
<1>1. CASE UNCHANGED vars
  BY <1>1 DEF vars, disk, Shared!vars
<1> QED BY <1>1, SubmissionsShare, WorkersShare DEF Next, Shared!Next

\* Whatever the queue and its workers do to the records, the reservations and the answers,
\* a submission that expects AdviceStore's steps has expected it.
THEOREM StoreIsShared == Spec => SharesStore
<1> QED BY InitShares, NextShares, Invariance, PTL DEF Spec, SharesStore, Shared!Spec

-------------------------------------------------------------------------------
\* What recovery can find

\* Recovery passes over archived records and over those it remembers; neither hides a
\* marker, a reservation or an open job from it, for every worker and whatever it remembers.
THEOREM NothingIsLost == Spec => []NothingIsStranded
<1>1. ASSUME IInv
      PROVE  NothingIsStranded
  <2>1. ASSUME NEW j \in Job, IsOpen(j)
        PROVE  \/ Claimable(j)
               \/ status[j] = "running" /\ marker[j] = "fresh"
               \/ IsDueForAll(j)
    <3>1. IsLive(j)
      BY <1>1, <2>1 DEF IInv, ArchivedIsClean
    <3> QED BY <2>1, <3>1 DEF Claimable, IsDueForAll, IsDue
  <2>2. ASSUME NEW j \in Job, IsTerminal(j), LeavesSomething(j)
        PROVE  IsDueForAll(j)
    <3>1. IsLive(j)
      BY <1>1, <2>2 DEF IInv, ArchivedIsClean, LeavesSomething
    <3>2. \A w \in Worker : j \notin settled[w]
      BY <1>1, <2>2 DEF IInv, SettledIsClean, LeavesSomething
    <3> QED BY <2>2, <3>1, <3>2 DEF IsDueForAll, IsDue
  <2>3. ASSUME NEW j \in Job, status[j] = "absent", LeavesSomething(j)
        PROVE  IsOrphan(KeyOf[j])
    BY <1>1, <2>3 DEF IInv, AbsentIsBare, LeavesSomething
  <2>4. ASSUME NEW k \in Key, reservation[k] # NoJob
        PROVE  LeavesSomething(reservation[k])
    BY <1>1, <2>4 DEF IInv, ReservationsAgree, LeavesSomething
  <2> QED BY <2>1, <2>2, <2>3, <2>4 DEF NothingIsStranded
<1> QED BY <1>1, Invariance, PTL

-------------------------------------------------------------------------------
\* What a step never does

\* A step of the lifecycle, seen from one job and from one address.
LEMMA LifecycleStep ==
    ASSUME IInv, [Next]_vars
    PROVE  /\ \A j \in Job : IsTerminal(j) => status'[j] = status[j]
           /\ \A k \in Key : cache[k] # NoAnswer => cache'[k] = cache[k]
<1>0. TypeOK /\ [Jobs!Next]_Jobs!vars
  BY NextRefines DEF IInv
<1>1. CASE UNCHANGED <<status, attempt, cache>>
  BY <1>1
<1>2. ASSUME NEW j \in Job, Jobs!Step(j)
      PROVE  /\ \A i \in Job : IsTerminal(i) => status'[i] = status[i]
             /\ \A k \in Key : cache[k] # NoAnswer => cache'[k] = cache[k]
  <2>1. CASE Jobs!Accept(j) \/ Jobs!Requeue(j)
    BY <1>0, <2>1 DEF Jobs!Accept, Jobs!Requeue, Jobs!Edge, TypeOK
  <2>2. CASE Jobs!Start(j) \/ Jobs!Fail(j)
    BY <1>0, <2>2 DEF Jobs!Start, Jobs!Fail, Jobs!Edge, TypeOK
  <2>3. ASSUME NEW a \in Answer, Jobs!File(j, a) \/ Jobs!Complete(j, a)
        PROVE  /\ \A i \in Job : IsTerminal(i) => status'[i] = status[i]
               /\ \A k \in Key : cache[k] # NoAnswer => cache'[k] = cache[k]
    BY <1>0, <2>3 DEF Jobs!File, Jobs!Complete, Jobs!Filed, Jobs!Edge, TypeOK
  <2> QED BY <1>2, <2>1, <2>2, <2>3 DEF Jobs!Step
<1> QED BY <1>0, <1>1, <1>2 DEF Jobs!Next, Jobs!vars

\* A finished job stays finished as it is: no late worker, recovery or archiving replaces a
\* completion by a failure, or either by another attempt.
THEOREM OutcomesAreFinal ==
    Spec => [][\A j \in Job : IsTerminal(j) => status'[j] = status[j]]_vars
<1>1. IInv /\ [Next]_vars => [\A j \in Job : IsTerminal(j) => status'[j] = status[j]]_vars
  BY LifecycleStep
<1> QED BY <1>1, Invariance, PTL DEF Spec

\* The answer cache is write-once, the puts of late, deferred and dying workers included.
THEOREM AnswersAreWriteOnce ==
    Spec => [][\A k \in Key : cache[k] # NoAnswer => cache'[k] = cache[k]]_vars
<1>1. IInv /\ [Next]_vars => [\A k \in Key : cache[k] # NoAnswer => cache'[k] = cache[k]]_vars
  BY LifecycleStep
<1> QED BY <1>1, Invariance, PTL DEF Spec

===============================================================================
