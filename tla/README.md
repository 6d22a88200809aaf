# A verification project for the football squad optimizer

Most of this repository computes: it predicts points, solves integer programs and renders
pages, one batch at a time. The part that has to be right *while things go wrong* is the
platform layer, `src/squadopt/platform/`, and the season ledger, `src/squadopt/live/`:
processes that share directories of files, take locks, die between two writes and are
resumed by others. This directory holds TLA+ models of that part, the TLC configurations that check them on small
instances, and TLAPS proofs of their main properties for every instance. Every definition
that models code is listed in `PROJECT.json` under `map` with the lines it stands for;
paths below are relative to the repository's `src/squadopt/platform/` unless they say
otherwise.

| module | what it is |
| --- | --- |
| `AdviceJobs` | abstract: what the advice queue promises of a job |
| `AdviceStore` | abstract: the store that submissions and workers share, and what each may do to it |
| `AdviceQueue` | the file-backed queue, the worker step, the answer cache |
| `AdviceSubmit` | the submission services in front of the queue |
| `WeeklyPipeline` | abstract: what a weekly run promises |
| `WeeklyJournal` | the durable journal, its invocations and its readers |
| `WeeklySchedule` | the deadline gate's decision, as functions of what a tick knows |
| `WeeklyRuns` | abstract: what the host promises of the week's runs |
| `WeeklyHost` | the timer, the gate's ticks, the runs they start, releases |
| `SeasonRules` | free transfers and chips, by each of the code's accounts |
| `SeasonRecord` | abstract: what the season's record promises, whoever writes it |
| `SeasonLedger` | the season's record on disk: decisions, rolls, outcomes, locks, ticks |
| `<module>_proofs` | inductive invariants and theorems of `AdviceQueue`, `AdviceSubmit`, `WeeklyJournal`, `WeeklyHost`, `SeasonLedger`, `AdviceStore`, `SeasonRecord` |
| `MC<module>` (+ cfg) | small instances of the first five of these for TLC |

Contents: [the system](#1-the-system), [AdviceQueue](#2-advicequeue),
[AdviceSubmit](#3-advicesubmit), [WeeklyJournal](#4-weeklyjournal),
[WeeklySchedule and WeeklyHost](#5-weeklyschedule-and-weeklyhost),
[SeasonRules and SeasonLedger](#6-seasonrules-and-seasonledger),
[disagreements found](#7-disagreements-between-the-code-and-what-it-says),
[what is proved and what is not](#8-what-is-proved-what-is-only-model-checked),
[what is not modelled](#9-what-is-not-modelled), [the plan](#10-the-plan),
[how to run it](#11-running-the-checks).

## 1. The system

### Inventory

| component | state it keeps | operations | how it meets the others | what is hard | what makes it correct |
| --- | --- | --- | --- | --- | --- |
| Advice queue `file_advice_queue.py`, `storage/_queue_lock.py` | one JSON record per job, a claim marker, a progress file, a reservation per answer address, an archive with two indexes | submit, claim, heartbeat, progress, complete, store, recover, archive, history | called by api processes and workers; one OS lock per operation | a death between any two file writes; leases that lapse under a live worker; a memory of cleaned-up jobs per process | one open job per address; one attempt publishes; nothing is lost or left behind; every job finishes |
| Answer cache `advice_cache.py` | one file per address | get, put | filled by complete, read by the api | two attempts file different bytes | write once |
| Advice worker `advice_worker.py`, `advice_queue.py` | the claim in hand | one round: recover, claim, look up, compute, conclude | drives queue and cache | the queue lock stays busy while an outcome is filed; recovery takes the job away | every outcome is recorded or walked back |
| Job contract `jobs_contract.py` | status and attempt of a record | transition | used by the queue | a clock that steps back | only allowed edges; attempts only grow |
| Submission service `advice_submit.py` | a map of its open jobs' clients, a limiter | submit | three calls of the queue, each its own transaction | counts read before the queue's lock; intents of a dead api process are invisible; two services in one process | caps, idempotency keys, budgets, a stored request for every record |
| Weekly journal `weekly_journal.py` | one journal per run, replaced whole | hold, stage, finish, inspect_run, held_run | called by weekly operations and status commands | deaths and resumes; mutable inputs; a reader beside a running owner | no second publication; a successful run is one computation |
| Weekly operations `weekly_operations.py`, `weekly_publish.py` | artifacts on disk, the published tree | execute | the journal's stages | external effect of publish | order of stages |
| Schedule and release `weekly_schedule.py`, `weekly_release.py` | a marker per run, a cached document of deadlines, a log per released run | decide, start_run, release_run | a timer starts them, the journal runs; a person may release | a tick as long as its run; deaths after the marker; deadlines that move; two releasers | the final run of a gameweek starts in its slot; one run per marker; one release per run |
| Season ledger `live/ledger.py` | a directory per gameweek: entry, outcome, manifest; a lock file | record_decision, record_roll, record_outcome, load_ledger | written by ticks and commands, read by both | a stale lock file broken by name; an entry computed long before it lands; a death between outcome and manifest | entries and outcomes are written once; each starts from what the game holds |
| Season tick and commands `application/season.py`, `live/tick.py`, `application/commands.py` | captures | season_tick, decide, roll, settle | call the ledger | a plan made once and executed later | settles before it decides, in order |
| Season rules `live/rules.py`, `banking.py`, `free_hit.py` | none | free transfers, chip windows, the squad after a free hit | the ledger and the planner | one rule computed in several places | the accounts agree |
| Deadline reminder `workers/deadline-push` | a table of subscribers | remind, subscribe | the push service | overlapping or dying runs, failing subscribers | nobody reminded twice, nobody starved |
| Damaged-entry quarantine `_damaged_entry.py` | a directory of moved files | quarantine | cache and queue reads | several movers and a writer | a whole entry is never lost |
| Projection retention `storage/projection_retention.py` | retained copies | retain | producers of a handoff | two producers | the alias's bytes are retained |
| Worker heartbeat `worker_heartbeat.py` | one document per worker | write, read | readiness checks | cached looks | (reads clocks, decides nothing) |
| Optimization, planning, prediction, evaluation, data, contracts, application | none shared | pure or sequential computations | called by the above | numerics, a solver | not a question for a model checker |
| Web site, other Workers, scripts, deploy files | none shared | rendering, proxying | read published documents | - | - |

`PROJECT.json` lists the same components with their source files and status, and every
hazard of the code that a test would hardly reach, with its line and the properties that
cover it (or the reason why none does yet).

### How the parts interact

An api process *submits* a request: the queue reserves the request's answer address and
publishes a record. A worker's round *recovers* what dead workers left, *claims* the first
job in line, computes, files the answer in the cache and records the outcome. The api
finds the answer in the cache or the job through the queue's *history*. All of this
meets in one directory under one lock, `QueueFileLock`, which the operating system
releases when its holder dies; nothing else is transactional.

A request gets to the queue through a *submission service*, of which an api process has two
(members, public teams): it counts open jobs, reads the history and only then enters the
queue's transaction.

A weekly run is one command that calls the journal's `stage` once per stage, in order, and
`finish` at the end, holding the run's lock throughout. If it dies, another invocation
resumes the same journal. A status command reads the journal without owning the run
(`inspect_run`), the record writer while it owns it (`held_run`). On the host, a timer starts
the *deadline gate*, which starts at most one weekly run per tick and, when told to,
releases it; a person can release a run too.

The *season ledger* is the record of what the product itself decided. A tick settles what the
game has finished and decides the next gameweek; the same commands can be given by hand, by
several people or jobs at once. An entry is computed from the entries before it, by the rules
of `live/`, and lands under a lock file of its gameweek.

## 2. AdviceQueue

### The model and the code

State: a record's `status`, `attempt` and whether it is `archived` are the job file;
`marker` is `<id>.claim` (fresh, or stale when its lease has run out), `progress`
the attempt that wrote `<id>.progress`, `reservation` is `open-<key>.idx`, `byIdempotency`
and `byAnswer` are the archive's indexes, `cache` the answer cache. Each `worker` has a step
(`claimed`, `solving`, `answered`, `failing`) and the job and attempt it works under;
`settled` is the process's own memory of finished jobs it has cleaned up.

An operation of several file writes is **one action with a parameter `n`**, the number of
its writes that reached the disk. The queue lock makes anything less than a death
invisible to the others, and a death is what leaves a prefix of the writes. So
`Store(j, to, n)` is the terminal record, then marker, progress and reservation removed one
by one; `ArchiveOne(j, n)` is the clean-up, the two indexes and the move. `recover` is the
exception: it visits many records, so it holds the lock over several steps (`sweep`).

| action | code |
| --- | --- |
| `Submit` | `submit_unless_cached`, `submit_unique`: reservation first, then the record; an intent without a record is completed by the next submission |
| `Claim`, `Claimable` | `claim`: first in line without a marker; marker, then running record |
| `LookUp`, `Solve`, `Refuse` | `_run_advice_worker_once` before and at `compute`; the attempt limit in `build_advice_compute` |
| `Heartbeat`, `RecordProgress` | the same, behind `_owned` |
| `Complete`, `StoreFailed`, `WriteError`, `LoseLease` | the worker step's outcomes; `complete` files the answer before the record |
| `Defer` | `_complete_within_budget`: the lock stays busy, the answer is filed without it |
| `AbandonOutcome`, `Crash` | the worker loop gives an outcome up, or dies |
| `RecoverBegin`, `RecoverOrphan`, `RecoverJob` | `recover`: orphaned intents, then finished, interrupted and lapsed records |
| `Archive` | `archive`, one record per step |
| `LapseAbandoned`, `LapseHeld` | a marker ages past its lease: of a dead attempt, or under a live one (a fault) |

Abstractions: time is a marker that is fresh or stale, and retention may have elapsed for
any finished record; what a job computes is any member of `Answer`, possibly another one the
second time; damaged files, which the scan sets aside, are not modelled.

### Runs

| run | instance | result |
| --- | --- | --- |
| `queue_safety` | 2 workers, 3 jobs on 2 addresses, 2 answers, 2 attempts, 2 faults | eight invariants, `ProgressNeverStepsBack` and two refinements hold (1,039,800 states) |
| `queue_liveness` | 2 workers, 2 successive jobs of one address, 2 faults | `EveryJobFinishes`, `EveryReservationIsReleased` hold (64,188 states) |
| `queue_fence` | as `queue_safety` | `OnlyOwnersPublish` is violated (section 7) |

Why these bounds are enough for the interesting cases. Two workers are what it takes for an
attempt to be walked back under a live worker and claimed by another. Two jobs of one
address are a job and its retry after failure, so that the reservation changes hands; the
third, on another address and between them in line, makes the order of claims matter.
Two faults allow a death *while the consequences of a death are being repaired* (a recovery
that dies, a second lapse); two answers make a non-deterministic computation visible.
`MaxFaults` bounds deaths, lapses under a live worker and busy locks; `MaxAttempts` is the
code's own limit.

Fairness (`FairSpec`, used by `queue_liveness` only): each worker keeps taking rounds -
claim, look up, compute, conclude, begin and continue a recovery - and an abandoned marker
ages. This is what the loop does: `run_advice_worker` never stops taking rounds, recovers
every 30 seconds, and a solve is bounded by its own time limit. Nothing is assumed of
submissions, heartbeats, archiving or faults.

Properties, beyond `TypeOK`:
- `OneOpenJobPerKey`, `ExclusiveAttempt` (the attempt counter fences), `RunningIsMarked`,
  `HistoryIsComplete`, `ArchivedIsClean`, `ProgressNeverStepsBack`, and
  `AttemptsAreExplained` (no job is walked back without a fault).
- `NothingIsStranded`: an open job can be claimed, runs under a lease, or is due for the next
  recovery of *every* worker, and so is whatever a finished job or an interrupted submission
  has left behind. Recovery passes over archived records and over those its process remembers
  as cleaned up; this says that neither hides anything from it.
- `Refines`: `AdviceJobs` with `phase`, `tries` and `answer` mapped to `status`, `attempt` and
  `cache`. `AdviceJobs` knows nothing of files, locks, workers or leases: jobs are accepted,
  start, are requeued with a larger attempt, fail, or complete with an answer that was filed
  once.
- `SharesStore`: `AdviceStore`, in which a claimed job is as open as a queued one and an
  address has an answer or has none. It is what a submission may expect (section 3); that a
  completed job's address is answered is part of it.

## 3. AdviceSubmit

### The model and the code

The queue is here what a submission sees of it: `status` and `idem` of the records,
`reservation` with the intent it holds, `cached` addresses, stored requests (`spec`). The
workers and recovery of section 2 are three actions: `Finish` ends a job, `FileAnswer` files an
answer whose record never follows (a late attempt, a death after the put), `Recover` completes
an intent or takes a reservation back. Workers die as often as they like; `MaxFaults` counts
what happens to the api processes, their deaths and refused writes. Each thread in
`handler` runs one submission of the service it belongs to. `owner` is a service's
`_client_jobs`, `used` a process's limiter; `filer` and `forgotten` are history.

| action | code |
| --- | --- |
| `Ask` | `submit` up to the admission lock: resolve, a cache miss, charge the client |
| `PrepareInputs` | the same when the inputs are not pinned yet, with the public service's check of the queue cap before it |
| `CountOpen` | the admission lock is taken and open jobs are counted |
| `ReadHistory` | the Idempotency-Key decides (conflict, an open job, an answer) or passes; the next ordinal is the number of the address's records plus one |
| `Enqueue` | one `submit_unless_cached`: `Join` an answer or open job, `JoinIntent`, `Refuse` (`admit`: queue cap, client cap, member's budget; the name), or `File` |
| `FileInterrupted` | a write of `File` is refused, or the process dies after 1 to 3 of its writes |
| `Abandon`, `Crash`, `WindowEnds` | a busy queue lock; the death of a process; a limiter window |

Abstractions: what a request asks for is its address; a limiter's window ends at any time,
which includes when it does; the history's order is left open. A key that only joined a
job or hit the cache is remembered nowhere, in the code as here: history sees published records.
The queue cap (`max_open_jobs`) is the public service's alone; the client cap is per
service and dies with its process.

`AdviceQueue` models the workers against submissions, `AdviceSubmit` the submissions against
workers. `AdviceStore` is what each may expect of the other: its steps are divided into those of a
submission, those of a worker and those that both take, and each side's own steps are among those
allowed to it (`HandlersShare`, `WorkersShare`). What the submissions' model reckons with is
exactly what a worker is allowed: `Spec` and `OpenSpec`, in which `QueueStep` is replaced by any
`AdviceStore` step of a worker, have the same behaviours (`AnyWorkerIsExpected`). In the other
direction only inclusion is proved: the submissions in `AdviceQueue` are submissions of
`AdviceStore` (`SubmissionsShare`), and that its `Submit` omits none of them rests on the action,
which tries every prefix of the writes; `AdviceStore` does not say what a submission does to
the marker, the progress record and the attempts that it hides.

### Runs

| run | instance | result |
| --- | --- | --- |
| `submit_records` | 2 threads of one service, 2 addresses with up to 2 jobs each and 3 in all, 1 key, 1 client, 1 fault | five invariants and the refinement hold (2,802,912 states) |
| `submit_caps` | 2 capped services in 2 processes that share no address, 3 addresses, 1 fault | `QueueCapHolds` and `EntryChargedPerJob` hold (2,677,812 states) |
| `submit_intent` | one thread of one service, 2 addresses, 1 key, 1 fault | `KeyIsOneRequestAnywhere` is violated (section 7) |
| `submit_key` | the two services of one process, one key | `KeyIsOneRequestAnywhere` is violated (section 7) |

Caps and budgets are 1, the smallest at which they refuse something, so that a second job is
already one too many. Two threads are what a stale count takes, two jobs of an address what a
count of names takes; the third address in `submit_caps` is there for the job that would
pass the cap by two. The bound of three jobs in all (`AtMostThreeJobs`, a constraint of the run)
leaves out only states in which both addresses have had their second job; without it the run
holds as well and takes twice as long.

- `KeyIsOneRequest`: a service files an Idempotency-Key for two addresses only if at one of the
  two another job carries the key that it did not file itself: another service's, or one that
  was published from the intent of an interrupted submission. Both really happen (section 7,
  `submit_key` and `submit_intent`); that two threads of one service, or a
  service and its own past, do it is excluded.
- `ClientCapHolds`: a client never exceeds its cap with a service whose process lives.
- `SpecIsThere`: every record, and every intent a recovery may publish, has its request.
- `NamesAreDense`: ordinals have no gap; a gap would make the next derived id collide for ever.
- `QueueCapHolds`: the cap is read before the queue's transaction, so capped services can pass
  it together - by one each beyond the first, never more. The bound is tight. Nor does it see an
  intent: a job published from one is beside the cap, and there is at most one such open job for
  each interrupted submission, however the intent is joined, recovered and filed over.
- `EntryChargedPerJob`: the member's budget pays for a new job and for nothing else. This needs
  no lock of its own, because `admit` runs inside the queue's transaction.
- `Refines`: what submissions do to records, reservations and answers is `AdviceStore`'s; in
  particular a new job is reserved only for an address without an answer and without an open
  job or intent, although both were looked for earlier and outside the lock as well.

## 4. WeeklyJournal

### The model and the code

State: `status` is the run's status (`absent` before there is a journal); `stage`, `inputs`,
`outputs` and `attempts` are the journal's stage records; `bytes` is the version of each
artifact on disk. A fingerprint (`fingerprint_paths`) is the version of every path it
covers, so `_verify` is equality of versions. Each invocation in `proc` is at a step
(`between` two stages, `operating`, `worked`, `finishing`) of the stage `at`, with what its
operation has read and declared; each `viewer` holds a copy of the journal. Two history
variables are read by properties only: `effects` counts how often a stage's operation did
its work, `used` is what it had read when its result was accepted.

The journal is one file that every write replaces whole, and an invocation's document in
memory equals it between two writes; so each action that writes is one write. A write that
is refused raises, and a process that dies does too: both leave the journal as it was and
free the run lock, and both are `Crash`.

| action | code |
| --- | --- |
| `Begin` | `hold`: a new run writes its pending journal, a resume reads the one there is |
| `RefuseInputs` | `stage`: inputs unreadable, or changed since the stage was first started |
| `Reuse` | `stage`: a finished stage is skipped if its outputs hold the recorded bytes |
| `Fence` | `stage`: an unfinished stage that is not repeatable becomes `uncertain` |
| `Start` | `stage`: abandoned attempts become `interrupted`, a new one is appended, and *running* is written before the operation is called |
| `Work` | the operation: reads its inputs, has its effect, rewrites its artifacts or none of them |
| `Complete`, `Fail` | `stage`: outputs fingerprinted, inputs verified again, the stage concluded; or the error path, before or after the effect |
| `Check`, `Seal` | `finish`: outputs verified one stage after another, then *completed* |
| `Crash`, `Edit` | a death or a refused write; somebody else changes an artifact |
| `Hold`, `LetGo` | `held_run` |
| `Look`, `Judge` | `inspect_run`, which reads the journal and only then tries the lock |
| `Onward` | the order in which `execute` (`weekly_operations.py`) calls the stages, and `finish` |

Abstractions: an artifact's bytes are a version number; the bytes of a directory are one
artifact. Invocations that a held lock turns away, or that resume with another request or
stage plan, change nothing and are left out, and so is the instant for which `inspect_run`
itself holds the lock. The model assumes that a stage does not write its own inputs
(`WeeklyJournalAssumption`), as the stages of `execute` do not.

### Runs

| run | instance | result |
| --- | --- | --- |
| `weekly_safety` | 3 stages, 4 artifacts, 2 invocations, 1 reader, 1 edit, 2 faults | six invariants and the refinement hold (2,756,430 states) |
| `weekly_status` | no fault, no edit | `InterruptedIsAbandoned` is violated (section 7) |

The three stages are the shape of the real run: a handoff computed from the capture, a
preview computed from the capture *and* the handoff, and the publication of the preview, the
only stage that is not repeatable. So there is an artifact read by two stages, one made by
a stage and read by the next, and an external effect at the end. Two faults allow the run
to die, be resumed and die again; one edit can fall between any two steps, in particular
between two of `finish`'s checks. Two invocations suffice for one to resume what the other
left, since the lock admits one at a time; they are interchangeable (symmetry).

Properties, beyond `TypeOK`:
- `ExternalEffectOnce`: a stage with an external effect has it at most once, whatever dies
  and whoever resumes.
- `AttemptsAreKept`: every effect has its attempt in the journal, only the last attempt can
  be open or accepted, and a finished stage's last attempt is the accepted one.
- `ComputedFromRecord`: a finished stage worked on the bytes its record names.
- `CompletedIsCoherent`: no artifact changed between the stage that made it and a later
  stage that read it. Nothing in the code compares the two records. It follows because
  `finish` verifies every output at the end, versions only grow, and a later stage's inputs
  were recorded after the earlier one's outputs.
- `HeldCopyIsCurrent`: what `held_run` hands its caller stays what the journal says.
- `Refines`: `WeeklyPipeline` with `finished` mapped to the completed and skipped stages and
  `sealed` to a completed status: stages work in order, a finished one never works again,
  one with an external effect works at most once, only a run whose stages have all finished
  is sealed, and a resume that finds its artifacts changed unseals it.

The model needs no fairness: nothing here must happen, a run may be left for ever.

## 5. WeeklySchedule and WeeklyHost

### The model and the code

`WeeklySchedule` has no state: `Chosen` is the run `decide` starts for the deadlines, the
clock and the markers a tick knows (the final run of the nearest gameweek, a morning run, or
the settled view of the last one across a fixture gap), and `MissedFinals` what it reports.

`WeeklyHost` is the host. Time is a counter with the time of day; the timer elapses every
`TickEvery`, and starts nothing while its oneshot unit is active, which lasts as long as the
run and the release a tick started. `copy` is `bootstrap.json`, `markers` the started
directory, `log` the release logs; `queued`, `merged` and `closed` are the states of a run's
pull request. `started`, `effects`, `faulty` and `moved` are history.

| action | code |
| --- | --- |
| `Advance`, `Crash`, `Boot` | `weekly-schedule.timer` and its unit: `OnCalendar`, `Persistent` |
| `Settle`, `MoveDeadline` | the game |
| `TickStarts`, `TickStartsNothing`, `TickFails` | `main` with `cached_bootstrap`, `decide`, the marker, the alarm |
| `WeeklyStops`, `WeeklyCompletes` | `run_and_release` |
| `TestLog`, `SayRun`, `RefuseInputs`, `RefuseTree` | `release_run`: one run, one release; inputs and tags; the league tree and required checks |
| `Enqueue`, `EnqueueFails`, `SeeMerged`, `StopWaiting` | `release_run` with the merge queue, and `wait_merged` |
| `Ship`, `MoveBackend` | the release itself, the backend and the bundle |
| `Merge`, `Kick`, `Close` | GitHub |
| `LookAtUnit`, `StopTimer`, `Interrupt`, `StartTimer` | `deploy/weekly-schedule/README.md`, "Release a run" |

The README's commands look at the unit *before* they stop the timer, so a tick can slip in
between; the model has that, and `ReleasedOnce` survives it. Two people releasing the same run
at once are not modelled: `release_run` tests for its log before any step creates it, and the
two would both pass. Tags, log wording, measurements, comments on the slot issue, the
backend's spool and the bundle's contents are left out.

### Run

`weekly_host`: two gameweeks whose deadlines leave a morning run, a final run and a fixture gap
with a settled view between them (days of 4 instants, a tick every 2), one deadline moved,
one release by hand at one of two instants, one fault of any kind (`MaxFaults` counts
failures, refusals, overruns, crashes and documents that cannot be read). Five invariants
and the refinement hold (4,178,789 states). A kick from the merge queue is free. One fault is the bound
because each property says what one fault costs: the next slot must already be safe.

- `MissedIsExplained`: a final run is missed only if the game moved the deadline, or the host
  could not start a run within one timer period from the final run's start. So no morning run,
  settled view, gap or stale copy ever takes its slot.
- `OncePerMarker`: a marker stands for one run, whatever dies and however deadlines move.
- `MissedAlarmIsTrue`: a final run reported missed never starts.
- `ReleasedOnce`: one release does all that is ever done to the public with a run.
- `Refines`: `WeeklyRuns`, with a run *offered* when a release has put it to the site's queue and
  *shipped* when one has made it public. There is no timer, marker, log or host in it: a
  marker's run is started once; a run that completed is offered once; one that was offered and
  merged is shipped, once.

The code refuses only `Lead < RunTime` and a window that is not positive. The schedule needs
more: `Lead >= RunTime + TickEvery`, so that the start meets a tick, and
`Window >= Day + Lead + RunTime`, because a settled view is not held back for a final run. The
deployment has both with room to spare (8 h, 7 h, 9 days, 15 minutes); they are the
assumption `WeeklyScheduleAssumption`.

## 6. SeasonRules and SeasonLedger

### The model and the code

`SeasonRules` holds what more than one part of the code computes: the free transfers a decision
carries (`FreeAfter`, the planner's constraint), those a roll carries (`FreeAfterRoll`), and
those the banking model derives from a history (`BankAfter`, `Banked`); and the windows a chip
is offered in.

`SeasonLedger` is paths in `src/squadopt/live/` and `application/`. A gameweek's directory is
`entry` (landed by one rename), `outcome` (added later, by a rename that replaces) and
`sealed` (the outcome whose digest the manifest holds); `lock` is `.gwNN.lock` with its owner
and whether it is stale. A `writer` is a process with a program counter. Squads, with their
banks and prices, are named by the gameweek that changed them last. `held` and `bank`
are what the game itself would hold, computed beside the ledger and read by properties only;
`aged` and `cut` mark what faults have touched.

| action | code |
| --- | --- |
| `OpenWindow`, `PassDeadline`, `CheckWeek` | the game |
| `StartTick`, `Capture`, `Replan` | `run_season_tick` and `plan_tick`: planned once, and once more after a capture, with the instant at which the tick started |
| `Prepare`, `ByHand` | what `decide`, `record_roll`, `record_outcome` read and refuse before the lock |
| `Open`, `ReadAge`, `Break`, `Unlock` | `_gameweek_lock`: create, look at the age, remove by name, create again; the finally clause |
| `Recheck`, `LandEntry` | `_land_entry`: the check under the lock, the rename |
| `LandOutcome`, `Digest`, `Seal` | `record_outcome`: the file, then `_write_manifest` |
| `Fails`, `Dies`, `Age` | a refused step; a death that leaves its lock; `STALE_LOCK_SECONDS` |

Abstractions: one `load_ledger` is one step (its files change only by renames); a staging
directory is invisible until it lands; a capture is one step; deadlines do not move. The
rendered summary is left out: two settles or rolls of different gameweeks can leave a stale
one, and the next command renders it again. What the solver chooses is any of `Plays`. Some
behaviour the model makes visible, and which no property calls wrong: a tick keeps its starting
instant, so a *live* decision can land after its deadline; a decision by hand may name any
gameweek and any capture; a tick never completes an outcome its manifest does not list,
because `load_ledger` counts it as settled - only `settle` by hand does; and a lock that is gone
when its age is read is an error, not a retry.

### Runs

| run | instance | result |
| --- | --- | --- |
| `season_ledger` | 3 gameweeks, 2 writers, 4 commands, 3 plays, 1 settled week, 1 fault | five invariants and the refinement hold (3,591,554 states) |
| `season_lock` | the same, no lock grows old under a living writer | `OutcomeIsKeptAlways` is violated (section 7) |

Three gameweeks are an opening, a free hit and the week that has to look back over it, or a
gap to be refused; chips may be played in weeks 2 and 3 separately, so two free hits in a row
occur. Two writers race for one lock or land different weeks; four commands are three weeks
recorded and one settled. `MaxChecked` and `Plays` only bound what is enumerated.

- `StartsFromHeldSquad`: each entry starts from the squad the game holds, although it was
  computed before others landed.
- `FreeTransfersAgree`: the planner's and the roll's count is the banking model's.
- `Refines`: `SeasonRecord`, with `broken` mapped to `aged`, the gameweeks whose lock has grown
  old. It has no files, locks, captures or commands. A week is recorded only after the week
  before it, and for good - *even* by writers that both believe they hold the lock, since the
  rename refuses; what it starts from is what the game has left *when it lands*; a chip is
  played where a window still offers it; a roll is of a deadline that has passed; an outcome is
  of a decided week that the game has checked, and is recorded once unless a lock of the
  gameweek has grown old. Without that condition the last is false.
- `EntriesAreReadable`: the manifest fits the entry's files, as long as no lock of it has grown
  old.
- `UnsealedIsExplained`: an outcome outside the manifest has a writer, or was left by a death
  or failure.

## 7. Disagreements between the code and what it says

- **A late attempt files an answer** (`queue_fence`, `advice_queue.py:132`). When the
  completion budget runs out on a busy queue lock, the answer is put into the cache without
  the lock and without `_owned`. A lapsed attempt whose job has been walked back can so
  still publish, while `advice_queue.py:351` says that "a recovered attempt may no longer
  publish any outcome". Addresses are write once, so a deterministic computation makes it
  harmless; with another answer the late one wins, and the owner's attempt is recorded as
  a determinism defect. The other properties hold with this behaviour included.
- **A healthy run is called interrupted** (`weekly_status`, `weekly_journal.py:369`).
  `inspect_run` reads the journal, then tries the lock. If the run's last stage and `finish`
  fall in between, the copy says *running*, the lock is free, and the verdict is
  *interrupted*, or *uncertain* if the copy was read during publish.
- **One key, two requests** (`submit_key`, `backend_runtime.py:842`). An api process builds two
  submission services, each with an admission lock of its own; one Idempotency-Key sent to both
  endpoints at once is accepted for two requests, although the comment at
  `advice_submit.py:416` says "One lock per process holds the read through the write". Separate api
  processes are documented as not serialized, and no property says they are.
- **An interrupted submission's key is free** (`submit_intent`, `advice_submit.py:438`). The key
  is looked for in the history, which holds published records. A submission that is
  interrupted after its reservation has left an intent with the key in it, and history does
  not see it; the same key is then accepted for another request, and when recovery publishes the
  intent both are jobs. The module says that "a key reused for a different request is a conflict
  whether or not the first job finished" (lines 428-429). One thread of one service is enough.
- **Two writers in one gameweek** (`season_lock`, `src/squadopt/live/ledger.py:208`). A stale
  lock is removed by name, whatever file has the name by then: two writers that both found
  a dead writer's lock end up inside together, and the second outcome replaces the first. The
  module says one writer is enforced and an outcome is attached "exactly once" (lines 44-46, 746).

Seen while modelling, and not the subject of a run. First, a stage's inputs are compared before
and after the operation (`weekly_journal.py:322-323`), so an alias that is changed while the
operation reads it and put back before it returns is "quietly crossed", which the comment
there wants to prevent: with `Undo = TRUE` and `MaxEdits = 2` in `MCWeeklyJournalStatus.cfg`, and
`ComputedFromRecord` as an invariant, TLC shows it. All that is said of the records' bytes is
said for edits that are not undone. Second, the ledger's own commands let a free hit
follow one in the week before, across the two halves of a season, because
`played_free_hit_last_week` is asked only for members (`application/entries.py:367`), although
`live/free_hit.py:1-8` lists it among the rules "that more than one path has to obey".

## 8. What is proved, what is only model-checked

### AdviceQueue_proofs

For any jobs, addresses, answers, workers, bounds and keyed jobs, from
`AdviceQueueAssumption` (keys and ranks are functions, ranks are distinct, the null values
are not members): a theorem for each invariant of the run (`TypeCorrect`, `OneOpenJob`,
`Fencing`, `MarkersAreThere`, `AttemptsArePaidFor`, `HistoryFindsAll`, `ArchiveIsClean`,
`NothingIsLost`) and for two that no run lists because the others imply them
(`AnswersAreThere`, `SettledStaysClean`); the action properties `ProgressFenced`,
`OutcomesAreFinal` and `AnswersAreWriteOnce`; and the refinements, `Refinement` and
`StoreIsShared`.

The inductive invariant is `IInv`. `OneOpenJobPerKey` is not inductive by itself: it follows
from `ReservationsAgree` (an open job holds its address's reservation). `ExclusiveAttempt` needs
`BusyIsPast`: a busy worker's attempt never exceeds its record's, and is behind it once the job
is back in line, so a new claim takes a fresh attempt. `SweepIsSound` says that what a recovery
found at its beginning still needs the visit when it gets there, although the other workers go
on between its steps. `AbsentIsBare` and `ProgressIsPast` are what a claim and a progress
write need. There is one lemma per action, and one for `Store`, which `Complete`
and `StoreFailed` share. `NothingIsLost` puts `ReservationsAgree`, `ArchivedIsClean`,
`SettledIsClean` and `AbsentIsBare` together: they say what each of recovery's blind spots
cannot contain. The refinements read each action, with its number of writes, as a step of the
specification or a stutter; `StoreIsShared` comes from `SubmissionsShare` and `WorkersShare`.

### AdviceStore_proofs

`OneOpenJob` and `CompletedAreAnswered` hold of any partners that keep to `AdviceStore`, from an
addressing of the jobs (`JobsAreAddressed`) alone. They do not depend on how either side is
modelled.

### WeeklyJournal_proofs

For any number of stages, any artifacts, declarations, invocations, readers and bounds, from
`WeeklyJournalAssumption`: `TypeCorrect`, `EffectOnce`, `AttemptsKept`, `HeldCopyCurrent`,
`Refinement`; and, under the further hypothesis `~Undo`, `RecordsAreTrue`
(`ComputedFromRecord`) and `Coherent`.

`JInv` is about control. `OneOwner` (one invocation, or holders of the journal) makes every
other invocation idle whenever one acts, so a step has one record to look at.
`StagesInOrder`, `InvocationIsSound` and `AttemptsMatch` tie the invocation's step to the
stage's status and to its attempts: an operation runs only under a stage that says
*running*, a pending stage has had no effect, a non-repeatable stage has at most one
attempt. `ExternalEffectOnce` follows: such a stage is started only from *pending*.
`WeeklyPipeline`'s steps then read off: `Work` is `Work`, `Complete` is `Finish`, `Seal` is
`Seal`, every action that writes another status is `Reject`, the rest stutter.

`VInv`, over `JInv`, is about versions, and needs that they only grow (`BytesGrow`, the one
use of `~Undo`). `RecordsArePast`, `ReadsAreRecent` and `OutputsComeFirst` order what was
recorded, read and made; two versions squeezed between equal ones are equal, which gives
`ComputedFromRecord` in `Complete` (inputs recorded <= read <= verified now) and, in
`VerifiedAgrees`, `CheckedIsCoherent` (output <= later input <= verified now).
`CompletedIsCoherent` is what remains when `finish` has checked them all.

### AdviceSubmit_proofs

For any addresses, keys, clients, threads, services, processes and bounds, from
`AdviceSubmitAssumption`: `TypeCorrect`, `OneRequestPerKey`, `ClientsAreCapped`,
`RequestsAreStored`, `OrdinalsAreDense`, `QueueIsCapped` and `BudgetIsSpentOnJobs`; and about
the store, `HandlersShare`, `Refinement`, `AnyWorkerIsExpected` and `OneOpenJob`.

`QueueCapHolds` is not inductive: services that counted too few jobs hold a permit
(`Permitted`), and `CapIsShared` bounds jobs and permits together once the cap is reached, so
that each further job uses a permit up. `PromisesArePaid` counts the jobs that came from an
intent together with the intents that still promise one, finished jobs included: only an
interruption adds to them, by one. `OwnersAreKnown` ties a service's map to the jobs it filed, and
ordinals are dense because a name was derived from a count of dense names. `KeyIsHeld` says of a
submission past its history that the job it is about to file keeps `KeyIsOneRequest`: no other
thread of its service can file one meanwhile (`OneInside`), and a job that recovery publishes
with the key is one the service did not file.

The refinement needs that an id which is not published is no record's yet and that a reservation
is for its own address, both in `IInv`. `AnyWorkerIsExpected` closes the argument about workers:
from a state of `IInv`, whatever `AdviceStore` lets a worker do to the three shared variables is,
with the submissions' own left alone, a `QueueStep` or nothing (`WorkerIsExpected`), and the other
way round (`QueueIsAWorker`, where the history of who filed a job stays as it is because
the intent that recovery publishes was nobody's). `IInv` is inductive under either, so every
theorem about `Spec` is one about submissions beside any such worker; `WorkersShare` says that
`AdviceQueue`'s workers, seen through the mapping, are such. No module runs the two as one.

### WeeklyHost_proofs

For any season, lead, run time, window, day, timer period and bounds that satisfy
`WeeklyScheduleAssumption` and `WeeklyHostAssumption`: `TypeCorrect`, `FinalRunIsExplained`,
`OneRunPerMarker`, `AlarmsAreTrue`, `OneRelease`, `ReleasesAreInPlace`, `Refinement` and
`OneRunIsShipped`.

The final run's slot rests on three invariants. `KnownInv`: what a tick may decide on agrees
with the game on every deadline the game has not moved, the stale copy included. `RunFits`: a
run under way ends before the start of a final run that is still to come (this is where the
morning time's arithmetic and the window's bound are used). `OnTime`: from that start on, with
the host in order, the timer has not elapsed without a tick that is about to start the
run. `AlarmInv` holds because the time left
for a run reported missed only shrinks. `ReleaseInv` is about the two
releasers: they never work on one run (`GateInv`, `PersonInv`: a run is completed before
its tick ends), and a run past its log belongs to one release (`EffectsInv`). On top of them,
`ShipInv` ties what was done with a run to how far its release has come: nothing after *said*,
one enqueueing after *enqueued*, a merge after *merged*, and no ship before the last step. So
each `Enqueue` is the first of its run, each `Ship` the first of a merged one, and the host
implements `WeeklyRuns`; with one run per marker, the public sees one run of a marker at most
(`OneRunIsShipped`).

### SeasonLedger_proofs

For any number of gameweeks, any cap, windows, plays, writers, commands and faults, and
whether or not locks may grow old under living writers, from `SeasonRulesAssumption` and
`SeasonLedgerAssumption`: a theorem for every property of the run (`TypeCorrect`,
`HeldSquadIsBasis`, `TransfersAgree`, `EntriesReadable`, `UnsealedExplained`, `Refinement`); for
`ChainHasNoGap`, `DecisionIsKept` and `OutcomeIsKept`, which the refinement has taken over from
the run (`NoGaps`, `DecisionKept`, `OutcomeKept`); `WritesAreDue`, `ChipsAreOncePerWindow` and
`OutcomesAreChecked`.

Two arguments meet in the writers. *The chain*: `ValueFits` says that a value on its way to
the ledger fits the entries and the game before its gameweek. It stays true while others land
theirs, because what it was computed from is recorded and recorded entries do not
change; so when it lands, the chain and the game's own account grow together
(`ChainInv`, lemma `ChainGrows`). `AccountsAgree` is the arithmetic of one week, and
`HeldIsFound` shows that the walk back over free hits ends at the gameweek whose squad is
held. *The lock*: as long as no lock of a gameweek has grown old, a writer that is inside owns
its lock (`LockFits`), so there is one (`OneHolder`), and an outcome and its digest are one
writer's (`SealFits`). Once a lock has aged only the first argument is left, which is why
`DecisionKept` has no condition and `OutcomeKept` has.

*What is due* is the third, and what the refinement adds. A tick plans on a capture it took
earlier, a command reads the ledger before it asks for the lock, and both write later:
`DueInv` says that what they found is so when they write. What was checked stays checked
(`CaptureFits`); a roll's deadline stays passed; and a chip that was on offer in a gameweek is
still on offer when its decision lands, because what it was found unused in, the weeks
before, was complete (`Lawful`). So every landing is one of `SeasonRecord`'s steps.

### SeasonRecord_proofs

From the promises alone, for any entries that can be told from none (`EntriesAreEntries`):
`ChipsOnce` (a chip is played once in a window, as long as no two windows overlap there),
`SettledAreChecked`, `RollsPast`. The weeks being recorded in order is what makes them true:
every earlier play of a chip is on record when the next one is decided. The ledger's own
theorems of the first two instantiate this module over its `Refinement`.

### Only model-checked

Liveness (`EveryJobFinishes`, `EveryReservationIsReleased`): temporal reasoning with
fairness and ENABLED is beyond the installed provers; `NothingIsLost` is the part of their
argument that is about states. The five violations are TLC
counterexamples. Every other property of the runs has a theorem.

## 9. What is not modelled

Within the modelled components: damaged or unreadable records (set aside by the scan,
refused by `_read`), clocks (only the outcome of a refused transition is modelled), the wire
format of files, the retry loops of file replacement on Windows, logs and progress
documents.

Between components: the journal's stages and the ledger's summary are not one model; a weekly
run in `WeeklyHost` completes or stops, and `WeeklyJournal` says what happens inside it.

Other components: the read side and HTTP API, capture and news acquisition, manifests and
command line, backup, the process pool of publication, the web site, Workers other than the
reminder, deployment scripts. They are stateless, sequential, or read what the modelled parts
write. Prediction, features, evaluation, optimization and planning, most of the repository's
lines, are numerical code over data frames or integer programs for a solver: what could go
wrong in them is a wrong number, which a state machine does not show. The one exception, rules
that two parts compute separately, is `SeasonRules`. The reminder, quarantine and retention are
planned below.

## 10. The plan

In this order, by what a mistake would cost:

1. `AdviceJobs`, `AdviceQueue` - done, proved; with `AdviceStore` between it and 3.
2. `WeeklyPipeline`, `WeeklyJournal` - done, proved.
3. `AdviceSubmit` - done, proved.
4. `WeeklySchedule`, `WeeklyRuns`, `WeeklyHost` - done, proved.
5. `SeasonRules`, `SeasonRecord`, `SeasonLedger` - done, proved.
6. `DeadlinePush`: batches, failing subscribers, overlapping and dying runs of the reminder.
7. `DamagedEntry` (movers against a writer), `ProjectionRetention` (retained bytes against the
   alias).

What would deepen the existing modules: two people releasing one run in `WeeklyHost`; deadlines
that move in `SeasonLedger`; a liveness property of the final run under a live host.

## 11. Running the checks

Each run is `tlc -config <cfg> <module>` in this directory (the cfg names its properties), and
each proof module `tlapm <module>`. `PROJECT.json` lists the runs, for every property
of a passing run a mutated definition under which TLC finds it violated (the operators
commented *Mutant* in the modules), the map to the source, the hazards and the theorems.
