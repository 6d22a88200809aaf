----------------------------- MODULE AdviceQueue ------------------------------
(***************************************************************************)
(* The file-backed advice queue (platform/file_advice_queue.py), the worker *)
(* step that drives it (platform/advice_queue.py) and the write-once answer *)
(* cache they publish into (platform/advice_cache.py).                      *)
(*                                                                          *)
(* Every queue operation runs inside QueueFileLock, which the operating     *)
(* system releases when its holder dies.  What an operation has written so  *)
(* far is therefore seen only by whoever takes the lock after a death.  An  *)
(* operation of several file writes is one action with a parameter n, the   *)
(* number of its writes that reached the disk: all of them, or fewer and    *)
(* the process died.  Recovery, which visits many records, holds the lock   *)
(* across several steps (sweep).  A process that dies is restarted at once, *)
(* with an empty memory.                                                    *)
(*                                                                          *)
(* Time is abstracted: a claim marker is fresh or stale (lease_seconds old),*)
(* and retention may have elapsed for any finished record.                  *)
(***************************************************************************)
EXTENDS Integers, FiniteSets

CONSTANTS
    Job,          \* job ids
    Key,          \* cache keys
    Answer,       \* answer bytes
    Worker,       \* advice worker processes
    KeyOf,        \* the cache key of a job
    Rank,         \* claim_order: (created_at_utc, job_id) as a position in line
    Keyed,        \* the jobs submitted with an Idempotency-Key
    MaxAttempts,  \* compute refuses an attempt after this one
    MaxFaults,    \* bound: deaths, lapses under a live worker, and lock timeouts
    NoJob, NoAnswer, NoWorker

ASSUME AdviceQueueAssumption ==
    /\ KeyOf \in [Job -> Key]
    /\ Rank \in [Job -> Nat]
    /\ \A i, j \in Job : Rank[i] = Rank[j] => i = j
    /\ Keyed \subseteq Job
    /\ MaxAttempts \in Nat
    /\ MaxFaults \in Nat
    /\ NoJob \notin Job
    /\ NoAnswer \notin Answer
    /\ NoWorker \notin Worker

VARIABLES
    status,       \* the record's status; "absent" when <id>.json was never published
    attempt,      \* the record's attempt counter
    archived,     \* the jobs whose record has moved to archive/
    marker,       \* <id>.claim: "none", or "fresh" / "stale" by its lease
    progress,     \* <id>.progress: the attempt that wrote it, 0 when there is none
    reservation,  \* open-<key>.idx: the job it names, which it holds in full
    byIdempotency,\* the jobs archive/idempotency/ names
    byAnswer,     \* the jobs archive/answers/ names
    cache,        \* the answer cache
    worker,       \* each worker process: its step and the claim it works under
    settled,      \* each worker's memory of finished jobs it has cleaned up (_settled)
    sweep,        \* the recovery that holds the lock, and what it has left to visit
    faults        \* how many of MaxFaults have happened

disk == <<status, attempt, archived, marker, progress, reservation,
          byIdempotency, byAnswer, cache>>
vars == <<disk, worker, settled, sweep, faults>>

-------------------------------------------------------------------------------
\* Records and processes

Status == {"absent", "queued", "running", "completed", "failed"}
IsOpen(j) == status[j] \in {"queued", "running"}
IsTerminal(j) == status[j] \in {"completed", "failed"}
IsLive(j) == status[j] # "absent" /\ j \notin archived

Idle == [pc |-> "idle", job |-> NoJob, attempt |-> 0, answer |-> NoAnswer]
IsBusy(w) == worker[w].pc # "idle"
WorkKey(w) == KeyOf[worker[w].job]

NoSweep == [by |-> NoWorker, orphans |-> {}, due |-> {}]
LockFree == sweep = NoSweep

\* Mutant: any running attempt passes for this one.
OwnedByAnyAttempt(w) ==
    LET j == worker[w].job IN status[j] = "running" /\ marker[j] # "none"

\* The fence: the record still runs this attempt, and the claim marker is there.
Owned(w) ==
    LET j == worker[w].job IN
    /\ status[j] = "running"
    /\ attempt[j] = worker[w].attempt
    /\ marker[j] # "none"

\* Somebody still works under the record's current attempt.
IsHeld(j) ==
    \E w \in Worker :
        IsBusy(w) /\ worker[w].job = j /\ worker[w].attempt = attempt[j]

Init ==
    /\ status = [j \in Job |-> "absent"]
    /\ attempt = [j \in Job |-> 0]
    /\ archived = {}
    /\ marker = [j \in Job |-> "none"]
    /\ progress = [j \in Job |-> 0]
    /\ reservation = [k \in Key |-> NoJob]
    /\ byIdempotency = {}
    /\ byAnswer = {}
    /\ cache = [k \in Key |-> NoAnswer]
    /\ worker = [w \in Worker |-> Idle]
    /\ settled = [w \in Worker |-> {}]
    /\ sweep = NoSweep
    /\ faults = 0

-------------------------------------------------------------------------------
\* Faults, and the end of an operation

Fault == faults < MaxFaults /\ faults' = faults + 1

\* The process of w ends: it forgets its claim and its memory, and the operating
\* system releases the queue lock if it held it.
Dies(w) ==
    /\ Fault
    /\ worker' = [worker EXCEPT ![w] = Idle]
    /\ settled' = [settled EXCEPT ![w] = {}]
    /\ sweep' = IF sweep.by = w THEN NoSweep ELSE sweep

\* An operation of w ends with all its writes done, and w has nothing in hand.
Returns(w, cleaned) ==
    /\ worker' = [worker EXCEPT ![w] = Idle]
    /\ settled' = [settled EXCEPT ![w] = @ \cup cleaned]
    /\ UNCHANGED <<sweep, faults>>

\* Between operations; a death with nothing in hand or in memory changes nothing.
Crash(w) ==
    /\ IsBusy(w) \/ sweep.by = w \/ settled[w] # {}
    /\ Dies(w)
    /\ UNCHANGED disk

-------------------------------------------------------------------------------
\* Writes that several operations share

Publish(j) ==
    /\ status' = [status EXCEPT ![j] = "queued"]
    /\ attempt' = [attempt EXCEPT ![j] = 1]

\* Mutant: the reservation is forgotten.
CleanupKeepsReservation(j, n) ==
    /\ marker' = IF n >= 1 THEN [marker EXCEPT ![j] = "none"] ELSE marker
    /\ progress' = IF n >= 2 THEN [progress EXCEPT ![j] = 0] ELSE progress
    /\ UNCHANGED reservation

\* The first n removals of _cleanup: the marker, the progress record, and the
\* reservation if it still names this job.
Cleanup(j, n) ==
    /\ marker' = IF n >= 1 THEN [marker EXCEPT ![j] = "none"] ELSE marker
    /\ progress' = IF n >= 2 THEN [progress EXCEPT ![j] = 0] ELSE progress
    /\ reservation' =
          IF n >= 3 /\ reservation[KeyOf[j]] = j
             THEN [reservation EXCEPT ![KeyOf[j]] = NoJob]
             ELSE reservation

\* Mutant: the job is cleaned up before its record is terminal.
StoreCleansFirst(j, to, n) ==
    /\ Cleanup(j, n)
    /\ status' = IF n = 4 THEN [status EXCEPT ![j] = to] ELSE status
    /\ UNCHANGED <<attempt, archived, byIdempotency, byAnswer>>

\* The first n writes of store: the terminal record, then _cleanup.
Store(j, to, n) ==
    /\ status' = IF n >= 1 THEN [status EXCEPT ![j] = to] ELSE status
    /\ Cleanup(j, n - 1)
    /\ UNCHANGED <<attempt, archived, byIdempotency, byAnswer>>

-------------------------------------------------------------------------------
\* Submission (an api process)

\* submit_unique files job j: a finished winner is cleaned up (3 writes), the
\* intent is published (4), then the record (5).  A job id that exists is refused
\* before the intent.
FileJob(j, n) ==
    LET k == KeyOf[j]
        i == reservation[k]
    IN
    /\ n >= 4 => status[j] = "absent"
    /\ IF i = NoJob
          THEN n >= 4 /\ UNCHANGED <<marker, progress>>
          ELSE /\ marker' = [marker EXCEPT ![i] = "none"]
               /\ progress' = IF n >= 2 THEN [progress EXCEPT ![i] = 0] ELSE progress
    /\ reservation' = [reservation EXCEPT ![k] =
                          IF n >= 4 THEN j ELSE IF n = 3 THEN NoJob ELSE @]
    /\ IF n = 5 THEN Publish(j) ELSE UNCHANGED <<status, attempt>>
    /\ \/ /\ n = 5 \/ (n = 3 /\ status[j] # "absent")
          /\ UNCHANGED faults
       \/ n < 5 /\ Fault

\* submit_unless_cached on a miss.  An open winner is returned unchanged, so that
\* case is no step; an intent whose record was never published is completed.
Submit(j) ==
    LET k == KeyOf[j]
        i == reservation[k]
    IN
    /\ LockFree
    /\ cache[k] = NoAnswer
    /\ \/ /\ i # NoJob
          /\ status[i] = "absent"
          /\ Publish(i)
          /\ UNCHANGED <<marker, progress, reservation, faults>>
       \/ /\ i # NoJob => IsTerminal(i)
          /\ \E n \in 1..5 : FileJob(j, n)
    /\ UNCHANGED <<archived, byIdempotency, byAnswer, cache, worker, settled, sweep>>

-------------------------------------------------------------------------------
\* The worker step: claim, compute, publish

Claimable(j) == status[j] = "queued" /\ marker[j] = "none"

\* claim takes the first claimable job in line: the marker (1), then the running
\* record (2).
Claim(w, j) ==
    /\ LockFree
    /\ ~IsBusy(w)
    /\ Claimable(j)
    /\ \A i \in Job : Claimable(i) => Rank[j] <= Rank[i]
    /\ marker' = [marker EXCEPT ![j] = "fresh"]
    /\ \/ /\ status' = [status EXCEPT ![j] = "running"]
          /\ worker' = [worker EXCEPT ![w] =
                 [pc |-> "claimed", job |-> j, attempt |-> attempt[j], answer |-> NoAnswer]]
          /\ UNCHANGED <<settled, sweep, faults>>
       \/ UNCHANGED status /\ Dies(w)
    /\ UNCHANGED <<attempt, archived, progress, reservation, byIdempotency, byAnswer, cache>>

\* A retried attempt takes the answer its key already holds; else it computes.
LookUp(w) ==
    LET held == cache[WorkKey(w)] IN
    /\ worker[w].pc = "claimed"
    /\ worker' = [worker EXCEPT ![w] =
           IF worker[w].attempt > 1 /\ held # NoAnswer
              THEN [@ EXCEPT !.pc = "answered", !.answer = held]
              ELSE [@ EXCEPT !.pc = "solving"]]
    /\ UNCHANGED <<disk, settled, sweep, faults>>

\* compute returns an answer, which a determinism defect may make any answer ...
Solve(w, a) ==
    /\ worker[w].pc = "solving"
    /\ worker[w].attempt <= MaxAttempts
    /\ worker' = [worker EXCEPT ![w] = [@ EXCEPT !.pc = "answered", !.answer = a]]
    /\ UNCHANGED <<disk, settled, sweep, faults>>

\* ... or refuses or raises: always past MaxAttempts, otherwise for reasons outside
\* the queue (an unreadable request, another context, a solver error).
Refuse(w) ==
    /\ worker[w].pc = "solving"
    /\ worker' = [worker EXCEPT ![w].pc = "failing"]
    /\ UNCHANGED <<disk, settled, sweep, faults>>

\* The heartbeat thread touches the marker from the claim to the terminal record.
Heartbeat(w) ==
    /\ LockFree
    /\ IsBusy(w)
    /\ Owned(w)
    /\ marker[worker[w].job] = "stale"
    /\ marker' = [marker EXCEPT ![worker[w].job] = "fresh"]
    /\ UNCHANGED <<status, attempt, archived, progress, reservation, byIdempotency,
                   byAnswer, cache, worker, settled, sweep, faults>>

RecordProgress(w) ==
    /\ LockFree
    /\ worker[w].pc = "solving"
    /\ Owned(w)
    /\ progress' = [progress EXCEPT ![worker[w].job] = worker[w].attempt]
    /\ UNCHANGED <<status, attempt, archived, marker, reservation, byIdempotency,
                   byAnswer, cache, worker, settled, sweep, faults>>

\* Mutant: an answer that is there is overwritten.
CacheOverwrite(w) == cache' = [cache EXCEPT ![WorkKey(w)] = worker[w].answer]

\* cache.put of the answer in hand: nothing is overwritten, the same bytes are a no-op.
CachePut(w) ==
    /\ cache[WorkKey(w)] \in {NoAnswer, worker[w].answer}
    /\ cache' = [cache EXCEPT ![WorkKey(w)] = worker[w].answer]

\* cache.put refuses different bytes: the job will be recorded DETERMINISM_DEFECT.
Conflicts(w) ==
    /\ cache[WorkKey(w)] \notin {NoAnswer, worker[w].answer}
    /\ worker' = [worker EXCEPT ![w].pc = "failing"]
    /\ UNCHANGED <<disk, settled, sweep, faults>>

\* Mutant: the record is completed before the answer is put.
CompleteRecordFirst(w) ==
    /\ LockFree
    /\ worker[w].pc = "answered"
    /\ Owned(w)
    /\ \E n \in 0..4 :
          /\ Store(worker[w].job, "completed", n)
          /\ IF n = 4 THEN CachePut(w) /\ Returns(w, {worker[w].job})
                      ELSE UNCHANGED cache /\ Dies(w)

\* complete: the answer is put (0), then store's four writes.
Complete(w) ==
    /\ LockFree
    /\ worker[w].pc = "answered"
    /\ Owned(w)
    /\ \/ Conflicts(w)
       \/ /\ CachePut(w)
          /\ \E n \in 0..4 :
                /\ Store(worker[w].job, "completed", n)
                /\ IF n = 4 THEN Returns(w, {worker[w].job}) ELSE Dies(w)

\* A file of complete cannot be written (the disk, another process holding it open): the
\* answer may be filed or not, the record still runs, and the job will be recorded failed.
WriteError(w) ==
    /\ LockFree
    /\ worker[w].pc = "answered"
    /\ Owned(w)
    /\ CachePut(w) \/ UNCHANGED cache
    /\ worker' = [worker EXCEPT ![w].pc = "failing"]
    /\ Fault
    /\ UNCHANGED <<status, attempt, archived, marker, progress, reservation,
                   byIdempotency, byAnswer, settled, sweep>>

\* The refusal, error or conflict is stored as the job's failure.
StoreFailed(w) ==
    /\ LockFree
    /\ worker[w].pc = "failing"
    /\ Owned(w)
    /\ \E n \in 1..4 :
          /\ Store(worker[w].job, "failed", n)
          /\ IF n = 4 THEN Returns(w, {worker[w].job}) ELSE Dies(w)
    /\ UNCHANGED cache

\* AdviceLeaseLostError: the attempt records no outcome.
LoseLease(w) ==
    /\ LockFree
    /\ worker[w].pc \in {"answered", "failing"}
    /\ ~Owned(w)
    /\ Returns(w, {})
    /\ UNCHANGED disk

\* The queue lock stayed busy for the whole completion budget: the answer is put
\* without the lock, the job stays running, and the worker goes on to its next round.
Defer(w) ==
    /\ worker[w].pc = "answered"
    /\ \/ Conflicts(w)
       \/ /\ CachePut(w)
          /\ Fault
          /\ worker' = [worker EXCEPT ![w] = Idle]
          /\ UNCHANGED <<status, attempt, archived, marker, progress, reservation,
                         byIdempotency, byAnswer, settled, sweep>>

\* The round raises before it writes anything: the lock was busy while a failure was to be
\* stored, or the clock stepped back behind the record's stamp.  The job stays running.
AbandonOutcome(w) ==
    /\ worker[w].pc \in {"answered", "failing"}
    /\ Fault
    /\ worker' = [worker EXCEPT ![w] = Idle]
    /\ UNCHANGED <<disk, settled, sweep>>

-------------------------------------------------------------------------------
\* Leases and recovery

\* A marker goes lease_seconds without a heartbeat: because nobody works under it
\* any more, or (a fault) under a live worker whose heartbeats did not get through.
Lapse(j) ==
    /\ status[j] = "running"
    /\ marker[j] = "fresh"
    /\ marker' = [marker EXCEPT ![j] = "stale"]
    /\ UNCHANGED <<status, attempt, archived, progress, reservation, byIdempotency,
                   byAnswer, cache, worker, settled, sweep>>

LapseAbandoned(j) == ~IsHeld(j) /\ Lapse(j) /\ UNCHANGED faults
LapseHeld(j) == IsHeld(j) /\ Lapse(j) /\ Fault

Unsettled(w, j) == IsTerminal(j) /\ j \notin settled[w]
InterruptedClaim(j) == status[j] = "queued" /\ marker[j] # "none"
LapsedAttempt(j) == status[j] = "running" /\ marker[j] # "fresh"

\* Mutants: recovery takes every running attempt for a lapsed one, leaves interrupted
\* claims alone, or leaves finished records alone.
DueWhileRunning(w, j) ==
    IsLive(j) /\ (Unsettled(w, j) \/ InterruptedClaim(j) \/ status[j] = "running")
DueUnlessClaimed(w, j) == IsLive(j) /\ (Unsettled(w, j) \/ LapsedAttempt(j))
DueWhileOpen(w, j) == IsLive(j) /\ (InterruptedClaim(j) \/ LapsedAttempt(j))

\* What recover, run by w, has something to do for.
IsOrphan(k) == reservation[k] # NoJob /\ status[reservation[k]] = "absent"
IsDue(w, j) == IsLive(j) /\ (Unsettled(w, j) \/ InterruptedClaim(j) \/ LapsedAttempt(j))

RecoverBegin(w) ==
    /\ LockFree
    /\ ~IsBusy(w)
    /\ sweep' = [by |-> w,
                 orphans |-> {k \in Key : IsOrphan(k)},
                 due |-> {j \in Job : IsDue(w, j)}]
    /\ sweep'.orphans # {} \/ sweep'.due # {}
    /\ UNCHANGED <<disk, worker, settled, faults>>

\* The lock is released with the last visit.
Visited(ks, js) ==
    sweep' = IF ks = {} /\ js = {}
                THEN NoSweep
                ELSE [sweep EXCEPT !.orphans = ks, !.due = js]

\* Every open index first: an interrupted submission's record is published.
RecoverOrphan(w, k) ==
    /\ sweep.by = w
    /\ k \in sweep.orphans
    /\ Publish(reservation[k])
    /\ Visited(sweep.orphans \ {k}, sweep.due)
    /\ UNCHANGED <<archived, marker, progress, reservation, byIdempotency, byAnswer,
                   cache, worker, settled, faults>>

\* Mutants: the attempt is not advanced; it counts the tries left instead; the marker is
\* removed before the record is back in line.
RequeueSameAttempt(j, n) ==
    /\ status' = [status EXCEPT ![j] = "queued"]
    /\ UNCHANGED attempt
    /\ Cleanup(j, n - 1)
RequeueCountsDown(j, n) ==
    /\ status' = [status EXCEPT ![j] = "queued"]
    /\ attempt' = [attempt EXCEPT ![j] = @ - 1]
    /\ Cleanup(j, n - 1)
RequeueMarkerFirst(j, n) ==
    /\ marker' = [marker EXCEPT ![j] = "none"]
    /\ status' = IF n >= 2 THEN [status EXCEPT ![j] = "queued"] ELSE status
    /\ attempt' = IF n >= 2 THEN [attempt EXCEPT ![j] = @ + 1] ELSE attempt
    /\ progress' = IF n = 3 THEN [progress EXCEPT ![j] = 0] ELSE progress
    /\ UNCHANGED reservation

\* Then the records in claim order.  A finished job is cleaned up and remembered; an
\* interrupted claim loses its marker; a lapsed attempt is walked back: the queued
\* record (1), its marker (2), its progress (3).
Requeue(j, n) ==
    /\ status' = [status EXCEPT ![j] = "queued"]
    /\ attempt' = [attempt EXCEPT ![j] = @ + 1]
    /\ Cleanup(j, n - 1)

RecoverRecord(w, j, n) ==
    \/ /\ IsTerminal(j)
       /\ Cleanup(j, n)
       /\ UNCHANGED <<status, attempt>>
    \/ /\ status[j] = "queued"
       /\ n = 3
       /\ Cleanup(j, 1)
       /\ UNCHANGED <<status, attempt>>
    \/ /\ status[j] = "running"
       /\ Requeue(j, n)

RecoverJob(w, j) ==
    /\ sweep.by = w
    /\ sweep.orphans = {}
    /\ j \in sweep.due
    /\ \A i \in sweep.due : Rank[j] <= Rank[i]
    /\ \E n \in 1..3 :
          /\ RecoverRecord(w, j, n)
          /\ IF n < 3
                THEN Dies(w)
                ELSE /\ Visited({}, sweep.due \ {j})
                     /\ settled' = IF IsTerminal(j)
                                      THEN [settled EXCEPT ![w] = @ \cup {j}]
                                      ELSE settled
                     /\ UNCHANGED <<worker, faults>>
    /\ UNCHANGED <<archived, byIdempotency, byAnswer, cache>>

-------------------------------------------------------------------------------
\* Archiving

Index(j, idempotency, answers) ==
    /\ byIdempotency' = IF idempotency /\ j \in Keyed THEN byIdempotency \cup {j}
                                                    ELSE byIdempotency
    /\ byAnswer' = IF answers THEN byAnswer \cup {j} ELSE byAnswer

\* Mutant: the record moves before it is indexed.
ArchiveMovesFirst(j, n) ==
    /\ Cleanup(j, n)
    /\ archived' = IF n >= 4 THEN archived \cup {j} ELSE archived
    /\ Index(j, n >= 5, n = 6)

\* Mutant: nothing is cleaned up before the move.
ArchiveUncleaned(j, n) ==
    /\ UNCHANGED <<marker, progress, reservation>>
    /\ Index(j, n >= 4, n >= 5)
    /\ archived' = IF n = 6 THEN archived \cup {j} ELSE archived

\* The first n writes of _archive_one: _cleanup (3), the idempotency index (4), the
\* answer index (5), the move (6).
ArchiveOne(j, n) ==
    /\ Cleanup(j, n)
    /\ Index(j, n >= 4, n >= 5)
    /\ archived' = IF n = 6 THEN archived \cup {j} ELSE archived

\* archive moves a finished record, which the archiving worker no longer remembers; one
\* call may move several, and each is a step.
Archive(w, j) ==
    /\ LockFree
    /\ ~IsBusy(w)
    /\ IsLive(j)
    /\ IsTerminal(j)
    /\ \E n \in 1..6 :
          /\ ArchiveOne(j, n)
          /\ IF n = 6
                THEN /\ settled' = [settled EXCEPT ![w] = @ \ {j}]
                     /\ UNCHANGED <<worker, sweep, faults>>
                ELSE Dies(w)
    /\ UNCHANGED <<status, attempt, cache>>

-------------------------------------------------------------------------------
\* The specification

Compute(w) == Refuse(w) \/ \E a \in Answer : Solve(w, a)
Conclude(w) == Complete(w) \/ StoreFailed(w) \/ LoseLease(w)
Recover(w) == (\E k \in Key : RecoverOrphan(w, k)) \/ (\E j \in Job : RecoverJob(w, j))

WorkerStep(w) ==
    \/ \E j \in Job : Claim(w, j)
    \/ LookUp(w) \/ Compute(w) \/ Heartbeat(w) \/ RecordProgress(w)
    \/ Conclude(w) \/ WriteError(w) \/ Defer(w) \/ AbandonOutcome(w)
    \/ RecoverBegin(w) \/ Recover(w)
    \/ \E j \in Job : Archive(w, j)
    \/ Crash(w)

JobStep(j) == Submit(j) \/ LapseAbandoned(j) \/ LapseHeld(j)

Next == (\E w \in Worker : WorkerStep(w)) \/ (\E j \in Job : JobStep(j))

Spec == Init /\ [][Next]_vars

\* The worker loop never stops taking rounds: it runs recover every 30 s, then claims,
\* computes (a bounded solve) and concludes; an abandoned marker ages.  Nothing is
\* assumed of submissions, heartbeats, archiving or faults.
Fairness ==
    /\ \A w \in Worker :
          /\ WF_vars(\E j \in Job : Claim(w, j))
          /\ WF_vars(LookUp(w))
          /\ WF_vars(Compute(w))
          /\ WF_vars(Conclude(w))
          /\ WF_vars(RecoverBegin(w))
          /\ WF_vars(Recover(w))
    /\ \A j \in Job : WF_vars(LapseAbandoned(j))

FairSpec == Spec /\ Fairness

-------------------------------------------------------------------------------
\* Properties

WorkerState ==
    [pc : {"idle", "claimed", "solving", "answered", "failing"},
     job : Job \cup {NoJob}, attempt : Nat, answer : Answer \cup {NoAnswer}]

TypeOK ==
    /\ status \in [Job -> Status]
    /\ attempt \in [Job -> Nat]
    /\ archived \subseteq Job
    /\ marker \in [Job -> {"none", "fresh", "stale"}]
    /\ progress \in [Job -> Nat]
    /\ reservation \in [Key -> Job \cup {NoJob}]
    /\ byIdempotency \subseteq Job
    /\ byAnswer \subseteq Job
    /\ cache \in [Key -> Answer \cup {NoAnswer}]
    /\ worker \in [Worker -> WorkerState]
    /\ settled \in [Worker -> SUBSET Job]
    /\ sweep \in [by : Worker \cup {NoWorker}, orphans : SUBSET Key, due : SUBSET Job]
    /\ faults \in 0..MaxFaults

\* At most one open job exists per answer address, however many submissions, crashed
\* submissions and recoveries there are (advice_submit.py: "at most one open job
\* exists per normalized request, however many keys or clients ask").
OneOpenJobPerKey ==
    \A i, j \in Job : KeyOf[i] = KeyOf[j] /\ IsOpen(i) /\ IsOpen(j) => i = j

\* The attempt counter fences: no two workers ever work under the same attempt of
\* the same job, so at most one of them can pass _owned.
ExclusiveAttempt ==
    \A v, w \in Worker :
        v # w /\ IsBusy(v) /\ IsBusy(w) /\ worker[v].job = worker[w].job
            => worker[v].attempt # worker[w].attempt

\* A completed job can be served: its address holds an answer.
CompletedIsAnswered ==
    \A j \in Job : status[j] = "completed" => cache[KeyOf[j]] # NoAnswer

\* Whatever write a process died after, a running record has its claim marker: its
\* owner can heartbeat and publish, and recovery measures a real lease.
RunningIsMarked == \A j \in Job : status[j] = "running" => marker[j] # "none"

\* history() finds every archived job through the indexes, and no index names a job
\* it cannot load (which would refuse every later submission for that address).
HistoryIsComplete ==
    /\ archived \subseteq byAnswer
    /\ archived \cap Keyed \subseteq byIdempotency
    /\ \A j \in byAnswer \cup byIdempotency : IsTerminal(j)

\* Recovery's scan no longer sees an archived record, so nothing of it may be left.
ArchivedIsClean ==
    \A j \in archived :
        IsTerminal(j) /\ marker[j] = "none" /\ progress[j] = 0
                      /\ reservation[KeyOf[j]] # j

\* The comment in recover: "Once removed, a finished job's marker and reservation never
\* return".  A worker's memory of it is therefore never out of date.
SettledIsClean ==
    \A w \in Worker : \A j \in settled[w] :
        IsTerminal(j) /\ marker[j] = "none" /\ reservation[KeyOf[j]] # j

\* Whichever write was the last before a death, nothing is beyond reach: an open job can
\* be claimed, or runs under a lease, or is due for the next recovery of every worker, its
\* memory of cleaned jobs notwithstanding; and so is whatever a finished job or an
\* interrupted submission has left behind.
LeavesSomething(j) == marker[j] # "none" \/ reservation[KeyOf[j]] = j
IsDueForAll(j) == \A w \in Worker : IsDue(w, j)
NothingIsStranded ==
    /\ \A j \in Job : IsOpen(j) =>
          \/ Claimable(j)
          \/ status[j] = "running" /\ marker[j] = "fresh"
          \/ IsDueForAll(j)
    /\ \A j \in Job : IsTerminal(j) /\ LeavesSomething(j) => IsDueForAll(j)
    /\ \A j \in Job : status[j] = "absent" /\ LeavesSomething(j) => IsOrphan(KeyOf[j])
    /\ \A k \in Key : reservation[k] # NoJob => LeavesSomething(reservation[k])

\* A recovered attempt's late count never replaces its successor's (record_progress).
ProgressNeverStepsBack ==
    [][\A j \in Job : progress'[j] # 0 => progress'[j] >= progress[j]]_vars

\* A record whose running attempt will have to be walked back.
IsLost(j) == status[j] = "running" /\ (marker[j] = "stale" \/ ~IsHeld(j))

\* Recovery never walks back an attempt without cause: each extra attempt, and each
\* lost one, is paid for by a death, a lapse or a busy lock.
AttemptsAreExplained ==
    \A j \in Job : attempt[j] + (IF IsLost(j) THEN 1 ELSE 0) <= 1 + faults

\* Every accepted job is finished in the end: whichever write a worker or a
\* submission died after, recovery puts the job back in line.
EveryJobFinishes == \A j \in Job : IsOpen(j) ~> IsTerminal(j)

\* Every reservation, an interrupted submission's included, is released in the end,
\* so its address can be asked for again.
EveryReservationIsReleased ==
    \A k \in Key : \A j \in Job : reservation[k] = j ~> reservation[k] # j

\* queue_contracts.py on AdviceLeaseLostError: "This attempt no longer owns the job and
\* may publish no result or heartbeat."  Only an attempt that owns its job files an
\* answer.
OnlyOwnersPublish ==
    [][\A k \in Key : cache'[k] # cache[k] =>
          \E w \in Worker : IsBusy(w) /\ WorkKey(w) = k /\ Owned(w)]_vars

\* The queue implements what it promises.
Jobs == INSTANCE AdviceJobs WITH phase <- status, tries <- attempt, answer <- cache
Refines == Jobs!Spec

\* Seen from a submission, it does what AdviceStore allows: the attempts of a job and the
\* bytes of its answer do not matter there.
Shared == INSTANCE AdviceStore WITH
    AddressOf <- KeyOf,
    status <- [j \in Job |-> IF IsOpen(j) THEN "open" ELSE status[j]],
    cached <- {k \in Key : cache[k] # NoAnswer}
SharesStore == Shared!Spec

-------------------------------------------------------------------------------
\* The inductive invariant: the properties above and what they rest on

\* A reservation names a job of its key, and an open job is always reserved.
ReservationsAgree ==
    /\ \A k \in Key : reservation[k] # NoJob => KeyOf[reservation[k]] = k
    /\ \A j \in Job : IsOpen(j) => reservation[KeyOf[j]] = j

\* A job that was never published has nothing but, perhaps, a reservation.
AbsentIsBare ==
    \A j \in Job : status[j] = "absent" =>
        marker[j] = "none" /\ progress[j] = 0 /\ j \notin archived

\* A busy worker works under an attempt the record has reached, and under an earlier
\* one when the record is back in line.
BusyIsPast ==
    \A w \in Worker : IsBusy(w) =>
        LET j == worker[w].job IN
        /\ j \in Job
        /\ status[j] # "absent"
        /\ worker[w].attempt <= attempt[j]
        /\ status[j] = "queued" => worker[w].attempt < attempt[j]
        /\ worker[w].pc = "answered" => worker[w].answer \in Answer

\* The lock's holder is an idle worker; what it has left to visit still needs the visit.
SweepIsSound ==
    /\ sweep.by = NoWorker => LockFree
    /\ sweep.by \in Worker => ~IsBusy(sweep.by)
    /\ \A k \in sweep.orphans : IsOrphan(k)
    /\ \A j \in sweep.due : status[j] = "running" => marker[j] # "fresh"

ProgressIsPast == \A j \in Job : progress[j] <= attempt[j]

IInv ==
    /\ TypeOK
    /\ ReservationsAgree
    /\ AbsentIsBare
    /\ BusyIsPast
    /\ SweepIsSound
    /\ ProgressIsPast
    /\ ExclusiveAttempt
    /\ CompletedIsAnswered
    /\ RunningIsMarked
    /\ HistoryIsComplete
    /\ ArchivedIsClean
    /\ SettledIsClean
    /\ AttemptsAreExplained

===============================================================================
