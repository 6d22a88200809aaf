----------------------------- MODULE AdviceSubmit ------------------------------
(***************************************************************************)
(* The submission service (platform/advice_submit.py): how a POST becomes a *)
(* cached answer, an open job to join, a refusal, or one new job.           *)
(*                                                                          *)
(* An api process runs submissions on a pool of threads (handlers).  A      *)
(* service serializes its own submissions from the count of open jobs to    *)
(* the write with its admission lock; the queue is locked only during each  *)
(* of the three calls made in between (jobs, history, submit_unless_cached),*)
(* so other services and the queue's workers move from one to the next.     *)
(* backend_runtime.build_backend makes two services in one process, for     *)
(* league members and for public teams, with one limiter between them; an   *)
(* api replica is another process.                                          *)
(*                                                                          *)
(* The queue is here what a submission sees of it: records, reservations    *)
(* and cached answers, and workers that take the steps AdviceStore allows   *)
(* them, as often as it allows them; AdviceQueue's workers take no others.  *)
(***************************************************************************)
EXTENDS Integers, FiniteSets

CONSTANTS
    Key,          \* answer addresses (cache keys); one normalized request each
    Idem,         \* Idempotency-Key values
    Client,       \* client address buckets
    Entry,        \* entry buckets: a capture and an entry
    Handler,      \* the threads that run submissions
    Service,      \* AdviceSubmitService instances
    Process,      \* api processes
    EntryOf,      \* the entry bucket of an address
    ServiceOf,    \* the service a handler runs
    ProcessOf,    \* the process a service lives in
    Asks,         \* the addresses a service resolves requests to
    Capped,       \* the services with a max_open_jobs; they also prepare inputs
    MaxOpen,      \* max_open_jobs
    MaxPerClient, \* max_open_jobs_per_client
    Budget,       \* the limiter's limit per bucket and window
    MaxOrdinal,   \* bound: jobs per address
    MaxFaults,    \* bound: deaths of api processes, and file errors in a submission
    NoIdem, NoJob, NoClient, NoKey, NoService

ASSUME AdviceSubmitAssumption ==
    /\ EntryOf \in [Key -> Entry]
    /\ ServiceOf \in [Handler -> Service]
    /\ ProcessOf \in [Service -> Process]
    /\ Asks \in [Service -> SUBSET Key]
    /\ Capped \subseteq Service
    /\ Client \cap Entry = {}
    /\ MaxOpen \in Nat \ {0}
    /\ MaxPerClient \in Nat \ {0}
    /\ Budget \in Nat \ {0}
    /\ MaxOrdinal \in Nat
    /\ MaxFaults \in Nat
    /\ IsFiniteSet(Key) /\ IsFiniteSet(Service)
    /\ NoIdem \notin Idem /\ NoClient \notin Client /\ NoKey \notin Key
    /\ NoService \notin Service
    /\ NoJob \notin Key \X Nat

\* A job's id is its address and an ordinal: advice-<key>-<n>.
Job == Key \X (1..MaxOrdinal)
KeyOf(j) == j[1]

VARIABLES
    status,      \* a record's status as a submission sees it
    idem,        \* the idempotency key in a job's record or intent
    reservation, \* open-<key>.idx: the job it names, which it holds in full
    cached,      \* the addresses with an answer
    spec,        \* the addresses with a stored request
    prepared,    \* the addresses whose inputs are pinned
    owner,       \* each service's _client_jobs: the client of a job it admitted
    used,        \* each process's limiter: requests spent per bucket in its window
    handler,     \* what each thread is doing
    filer,       \* history: who filed a job; nobody's, if recovery published its intent
    forgotten,   \* history: the jobs filed by a process that has died since
    faults       \* how many of MaxFaults have happened

store == <<status, idem, reservation, cached, spec, prepared>>
history == <<filer, forgotten>>
vars == <<store, owner, used, handler, history, faults>>

-------------------------------------------------------------------------------
\* Records, reservations, budgets

IsPublished(j) == status[j] # "absent"
IsOpen(j) == status[j] = "open"
IsTerminal(j) == status[j] \in {"completed", "failed"}
Reserved(k) == reservation[k] # NoJob
OpenJobs == {j \in Job : IsOpen(j)}

Unfiled == [service |-> NoService, client |-> NoClient]
Idle == [pc |-> "idle", key |-> NoKey, idem |-> NoIdem, client |-> NoClient,
         opened |-> 0, ordinal |-> 0]

ProcessOfHandler(h) == ProcessOf[ServiceOf[h]]

\* Mutant: a bucket always has room.
HasRoomAlways(h, b) == used[ProcessOfHandler(h)][b] >= 0

HasRoom(h, b) == used[ProcessOfHandler(h)][b] < Budget
Charge(h, b) == used' = [used EXCEPT ![ProcessOfHandler(h)][b] = @ + 1]

\* Mutant: submissions of one service are not serialized.
AdmissionUnlocked(s) == s \in Service

\* No thread of the service is inside _admission.
AdmissionFree(s) ==
    \A h \in Handler : ServiceOf[h] = s => handler[h].pc \notin {"counted", "named"}

Init ==
    /\ status = [j \in Job |-> "absent"]
    /\ idem = [j \in Job |-> NoIdem]
    /\ reservation = [k \in Key |-> NoJob]
    /\ cached = {}
    /\ spec = {}
    /\ prepared = Key \ UNION {Asks[s] : s \in Capped}
    /\ owner = [s \in Service |-> [j \in Job |-> NoClient]]
    /\ used = [p \in Process |-> [b \in Client \cup Entry |-> 0]]
    /\ handler = [h \in Handler |-> Idle]
    /\ filer = [j \in Job |-> Unfiled]
    /\ forgotten = {}
    /\ faults = 0

Fault == faults < MaxFaults /\ faults' = faults + 1

\* The submission ends: with an answer, a job, or a refusal.
Returns(h) == handler' = [handler EXCEPT ![h] = Idle]

-------------------------------------------------------------------------------
\* Before the admission lock: resolve, read the cache, charge the client

Request(k, i, c) ==
    [pc |-> "missed", key |-> k, idem |-> i, client |-> c, opened |-> 0, ordinal |-> 0]

\* A miss spends one of the client's requests.  A hit, and a refusal for want of
\* budget, change nothing.
Ask(h, k, i, c) ==
    /\ handler[h].pc = "idle"
    /\ k \in Asks[ServiceOf[h]] \cap prepared
    /\ k \notin cached
    /\ HasRoom(h, c)
    /\ Charge(h, c)
    /\ handler' = [handler EXCEPT ![h] = Request(k, i, c)]
    /\ UNCHANGED <<store, owner, history, faults>>

\* The inputs are not pinned yet: the service checks its queue cap, charges the client
\* and pins them before it resolves again; or they cannot be read.
PrepareInputs(h, k, i, c) ==
    /\ handler[h].pc = "idle"
    /\ ServiceOf[h] \in Capped
    /\ k \in Asks[ServiceOf[h]] \ prepared
    /\ Cardinality(OpenJobs) < MaxOpen
    /\ HasRoom(h, c)
    /\ Charge(h, c)
    /\ \/ /\ prepared' = prepared \cup {k}
          /\ handler' = [handler EXCEPT ![h] = Request(k, i, c)]
       \/ UNCHANGED <<prepared, handler>>
    /\ UNCHANGED <<status, idem, reservation, cached, spec, owner, history, faults>>

-------------------------------------------------------------------------------
\* Under the admission lock: count, read the history, enqueue

\* The lock is taken and open jobs are counted, under the queue's lock for that read.
CountOpen(h) ==
    /\ handler[h].pc = "missed"
    /\ AdmissionFree(ServiceOf[h])
    /\ handler' = [handler EXCEPT
          ![h] = [@ EXCEPT !.pc = "counted", !.opened = Cardinality(OpenJobs)]]
    /\ UNCHANGED <<store, owner, used, history, faults>>

\* What the history holds of an idempotency key, and of an address.  It sees published
\* records only: an intent without a record is not in it.
FiledWith(i) == {j \in Job : IsPublished(j) /\ idem[j] = i}
FiledAt(k) == {j \in Job : IsPublished(j) /\ KeyOf(j) = k}

\* Mutant: every job of the history is counted, those of other addresses too.
CountsWholeHistory(k) == 1 + Cardinality(UNION {FiledAt(l) : l \in Key \cup {k}})

NextOrdinal(k) == 1 + Cardinality(FiledAt(k))

\* The key was used for this very request and nothing is left of that: it failed, or it
\* was answered elsewhere and the answer is gone.  A key never used passes too.  The
\* first match in claim order decides, and that order is left open.
KeyMayFile(k, i) ==
    \/ i = NoIdem
    \/ FiledWith(i) = {}
    \/ \E j \in FiledWith(i) : KeyOf(j) = k /\ IsTerminal(j) /\ k \notin cached

\* The key is a conflict, names an open job to return, or has its answer.
KeyDecides(k, i) ==
    /\ i # NoIdem
    /\ \E j \in FiledWith(i) : KeyOf(j) # k \/ IsOpen(j) \/ k \in cached

ReadHistory(h) ==
    LET k == handler[h].key
        i == handler[h].idem
        n == NextOrdinal(k)
    IN
    /\ handler[h].pc = "counted"
    /\ \/ KeyDecides(k, i) /\ Returns(h)
       \/ /\ KeyMayFile(k, i)
          /\ n <= MaxOrdinal
          /\ handler' = [handler EXCEPT ![h] = [@ EXCEPT !.pc = "named", !.ordinal = n]]
    /\ UNCHANGED <<store, owner, used, history, faults>>

-------------------------------------------------------------------------------
\* submit_unless_cached, one transaction of the queue

Publish(j, who) ==
    /\ status' = [status EXCEPT ![j] = "open"]
    /\ filer' = [filer EXCEPT ![j] = who]

\* Mutant: the member's budget is spent on work that starts nothing.
JoinCharged(h) ==
    LET k == handler[h].key IN
    /\ Reserved(k) /\ IsOpen(reservation[k])
    /\ HasRoom(h, EntryOf[k])
    /\ Charge(h, EntryOf[k])
    /\ UNCHANGED <<store, owner, history, faults>>

\* An answer that has come since, or an open job for the address, ends the submission.
Join(h) ==
    LET k == handler[h].key IN
    /\ k \in cached \/ (Reserved(k) /\ IsOpen(reservation[k]))
    /\ UNCHANGED <<store, owner, used, history, faults>>

\* An intent whose record was never published is completed and joined.
JoinIntent(h) ==
    LET k == handler[h].key IN
    /\ k \notin cached
    /\ Reserved(k)
    /\ ~IsPublished(reservation[k])
    /\ Publish(reservation[k], Unfiled)
    /\ UNCHANGED <<idem, reservation, cached, spec, prepared, owner, used, forgotten,
                   faults>>

\* Mutant: an open job of the address is replaced, not joined.
ReplacesOpenJob(k) == k \notin cached /\ (Reserved(k) => IsPublished(reservation[k]))

\* New work: no answer, and no open job or intent for the address.
IsNewWork(k) == k \notin cached /\ (Reserved(k) => IsTerminal(reservation[k]))

\* Mutants: one more than the cap is admitted; the finished jobs are kept.
IsFullPast(h) ==
    ServiceOf[h] \in Capped /\ handler[h].opened > MaxOpen
PrunedToFinished(s) == [j \in Job |-> IF IsTerminal(j) THEN owner[s][j] ELSE NoClient]

IsFull(h) == ServiceOf[h] \in Capped /\ handler[h].opened >= MaxOpen

\* _client_jobs without the jobs that have finished or are not in the queue.
Pruned(s) == [j \in Job |-> IF IsOpen(j) THEN owner[s][j] ELSE NoClient]
OwnedBy(map, c) == {j \in Job : map[j] = c}
IsAtClientCap(s, c) == Cardinality(OwnedBy(Pruned(s), c)) >= MaxPerClient

\* A full queue is refused first.  Then the map is pruned, and the client's cap, the
\* member's budget, the deadline (left open here) or a name that is taken refuse; by the
\* last, the request is stored and a finished winner cleaned up.
Refuse(h) ==
    LET k == handler[h].key
        s == ServiceOf[h]
    IN
    /\ IsNewWork(k)
    /\ IF IsFull(h)
          THEN UNCHANGED <<reservation, spec, owner>>
          ELSE /\ owner' = [owner EXCEPT ![s] = Pruned(s)]
               /\ \/ UNCHANGED <<reservation, spec>>
                  \/ /\ ~IsAtClientCap(s, handler[h].client)
                     /\ HasRoom(h, EntryOf[k])
                     /\ IsPublished(<<k, handler[h].ordinal>>)
                     /\ reservation' = [reservation EXCEPT ![k] = NoJob]
                     /\ spec' = spec \cup {k}
    /\ UNCHANGED <<status, idem, cached, prepared, used, history, faults>>

\* admit and prepare pass, and the name is free.
MayFile(h) ==
    LET k == handler[h].key
        c == handler[h].client
    IN
    /\ IsNewWork(k)
    /\ ~IsFull(h)
    /\ ~IsAtClientCap(ServiceOf[h], c)
    /\ HasRoom(h, EntryOf[k])
    /\ ~IsPublished(<<k, handler[h].ordinal>>)

\* The request is stored, the address reserved with the whole record, the record
\* published, the member's budget spent, and the client remembered as the owner.
File(h) ==
    LET k == handler[h].key
        j == <<k, handler[h].ordinal>>
        s == ServiceOf[h]
        c == handler[h].client
    IN
    /\ MayFile(h)
    /\ spec' = spec \cup {k}
    /\ reservation' = [reservation EXCEPT ![k] = j]
    /\ idem' = [idem EXCEPT ![j] = handler[h].idem]
    /\ Publish(j, [service |-> s, client |-> c])
    /\ owner' = [owner EXCEPT ![s] = [Pruned(s) EXCEPT ![j] = c]]
    /\ Charge(h, EntryOf[k])
    /\ UNCHANGED <<cached, prepared, forgotten, faults>>

\* Mutant: the request is stored last.
SpecLast(h, n) ==
    LET k == handler[h].key
        j == <<k, handler[h].ordinal>>
    IN
    /\ MayFile(h)
    /\ reservation' = [reservation EXCEPT ![k] =
                          IF n = 3 THEN j ELSE IF n = 2 THEN NoJob ELSE @]
    /\ idem' = IF n = 3 THEN [idem EXCEPT ![j] = handler[h].idem] ELSE idem
    /\ UNCHANGED <<status, cached, spec, prepared, filer>>

\* The first n writes of the same: the request (1), a finished winner's reservation
\* (2), the intent (3).
FilePart(h, n) ==
    LET k == handler[h].key
        j == <<k, handler[h].ordinal>>
    IN
    /\ MayFile(h)
    /\ spec' = spec \cup {k}
    /\ reservation' = [reservation EXCEPT ![k] =
                          IF n = 3 THEN j ELSE IF n = 2 THEN NoJob ELSE @]
    /\ idem' = IF n = 3 THEN [idem EXCEPT ![j] = handler[h].idem] ELSE idem
    /\ UNCHANGED <<status, cached, prepared, filer>>

\* A process ends: its threads, its services' memory and its limiter with it.
Dies(p) ==
    /\ Fault
    /\ handler' = [h \in Handler |-> IF ProcessOfHandler(h) = p THEN Idle ELSE handler[h]]
    /\ owner' = [s \in Service |->
                    IF ProcessOf[s] = p THEN [j \in Job |-> NoClient] ELSE owner[s]]
    /\ used' = [used EXCEPT ![p] = [b \in Client \cup Entry |-> 0]]
    /\ forgotten' = forgotten \cup
          {j \in Job : filer[j] # Unfiled /\ ProcessOf[filer[j].service] = p}

\* A file of the submission cannot be written: the exception takes the owner back, and
\* the process goes on; or the process dies there.
FileInterrupted(h) ==
    LET s == ServiceOf[h] IN
    /\ \E n \in 1..3 : FilePart(h, n)
    /\ \/ Dies(ProcessOf[s])
       \/ /\ Fault
          /\ Returns(h)
          /\ owner' = [owner EXCEPT ![s] = Pruned(s)]
          /\ UNCHANGED <<used, forgotten>>

Enqueue(h) ==
    /\ handler[h].pc = "named"
    /\ \/ /\ Join(h) \/ JoinIntent(h) \/ Refuse(h) \/ File(h)
          /\ Returns(h)
       \/ FileInterrupted(h)

\* A queue lock that stays busy, or a store that cannot be read, ends a submission
\* before it has written anything.
Abandon(h) ==
    /\ handler[h].pc # "idle"
    /\ Returns(h)
    /\ UNCHANGED <<store, owner, used, history, faults>>

-------------------------------------------------------------------------------
\* The limiter's windows, and processes that die between two writes

\* A bucket's window ends: it counts like one never seen.
WindowEnds(p, b) ==
    /\ used[p][b] # 0
    /\ used' = [used EXCEPT ![p][b] = 0]
    /\ UNCHANGED <<store, owner, handler, history, faults>>

Crash(p) ==
    /\ Dies(p)
    /\ UNCHANGED <<store, filer>>

-------------------------------------------------------------------------------
\* The queue's workers

\* The attempt's answer is filed and its record completed, or it is recorded failed; the
\* reservation goes with it, unless the worker dies first.  Workers die as often as they
\* like: no fault is counted here.
Finish(j) ==
    /\ IsOpen(j)
    /\ \/ /\ status' = [status EXCEPT ![j] = "completed"]
          /\ cached' = cached \cup {KeyOf(j)}
       \/ /\ status' = [status EXCEPT ![j] = "failed"]
          /\ UNCHANGED cached
    /\ \/ reservation' = [reservation EXCEPT ![KeyOf(j)] = NoJob]
       \/ UNCHANGED reservation
    /\ UNCHANGED <<idem, spec, prepared, owner, used, handler, history, faults>>

\* An answer arrives without its record: the worker died or a write failed after the put,
\* the queue's lock stayed busy, or the attempt was no longer the last.  The job may still
\* be open, or have failed.
FileAnswer(j) ==
    /\ IsPublished(j)
    /\ KeyOf(j) \notin cached
    /\ cached' = cached \cup {KeyOf(j)}
    /\ UNCHANGED <<status, idem, reservation, spec, prepared, owner, used, handler, history,
                   faults>>

\* Recovery completes an intent, and takes back what a finished job has left.
Recover(k) ==
    /\ Reserved(k)
    /\ \/ /\ ~IsPublished(reservation[k])
          /\ Publish(reservation[k], Unfiled)
          /\ UNCHANGED reservation
       \/ /\ IsTerminal(reservation[k])
          /\ reservation' = [reservation EXCEPT ![k] = NoJob]
          /\ UNCHANGED <<status, filer>>
    /\ UNCHANGED <<idem, cached, spec, prepared, owner, used, handler, forgotten, faults>>

-------------------------------------------------------------------------------
\* The specification

HandlerStep(h) ==
    \/ \E k \in Key, i \in Idem \cup {NoIdem}, c \in Client :
          Ask(h, k, i, c) \/ PrepareInputs(h, k, i, c)
    \/ CountOpen(h) \/ ReadHistory(h) \/ Enqueue(h) \/ Abandon(h)

ProcessStep(p) == Crash(p) \/ \E b \in Client \cup Entry : WindowEnds(p, b)

QueueStep == (\E j \in Job : Finish(j) \/ FileAnswer(j)) \/ (\E k \in Key : Recover(k))

Next ==
    \/ \E h \in Handler : HandlerStep(h)
    \/ \E p \in Process : ProcessStep(p)
    \/ QueueStep

Spec == Init /\ [][Next]_vars

-------------------------------------------------------------------------------
\* Properties

HandlerState ==
    [pc : {"idle", "missed", "counted", "named"}, key : Key \cup {NoKey},
     idem : Idem \cup {NoIdem}, client : Client \cup {NoClient}, opened : Nat,
     ordinal : 0..MaxOrdinal]

TypeOK ==
    /\ status \in [Job -> {"absent", "open", "completed", "failed"}]
    /\ idem \in [Job -> Idem \cup {NoIdem}]
    /\ reservation \in [Key -> Job \cup {NoJob}]
    /\ cached \subseteq Key
    /\ spec \subseteq Key
    /\ prepared \subseteq Key
    /\ owner \in [Service -> [Job -> Client \cup {NoClient}]]
    /\ used \in [Process -> [Client \cup Entry -> 0..Budget]]
    /\ handler \in [Handler -> HandlerState]
    /\ filer \in [Job -> [service : Service, client : Client] \cup {Unfiled}]
    /\ forgotten \subseteq Job
    /\ faults \in 0..MaxFaults

\* advice_submit.py: "Reusing one idempotency key for a different request is a
\* conflict".  A service files a key for two addresses only if at one of the two the key
\* is also on a job it did not file: another service's, which it may have missed, or one
\* whose submission was interrupted, which history did not show until it was published.
FiledElsewhere(i, k, s) == \E j \in FiledWith(i) : KeyOf(j) = k /\ filer[j].service # s
KeyIsOneRequest ==
    \A i \in Idem, s \in Service : \A j, l \in FiledWith(i) :
        filer[j].service = s /\ filer[l].service = s =>
            \/ KeyOf(j) = KeyOf(l)
            \/ FiledElsewhere(i, KeyOf(j), s)
            \/ FiledElsewhere(i, KeyOf(l), s)

\* What the code says, of all the records: "a key reused for a different request is a
\* conflict whether or not the first job finished", and before _admission is taken, "One
\* lock per process holds the read through the write".
KeyIsOneRequestAnywhere ==
    \A i \in Idem : \A j, l \in FiledWith(i) : KeyOf(j) = KeyOf(l)

\* The queue cap is read before the queue's transaction, so services that count together
\* may pass it together: by one job for each other capped service, and never by more.
\* And it does not see intents: a job published from one is beside the cap, at most one
\* for each submission that was interrupted, however often its intent is joined and
\* recovered.
OpenFiledByCapped == {j \in Job : IsOpen(j) /\ filer[j].service \in Capped}
OpenUnfiled == {j \in Job : IsOpen(j) /\ filer[j] = Unfiled}
QueueCapHolds ==
    /\ Cardinality(OpenFiledByCapped) <= MaxOpen + Cardinality(Capped) - 1
    /\ Cardinality(OpenUnfiled) <= faults

\* A client never has more open jobs than it is allowed with one service, as long as its
\* process lives ("process restart forgets ownership").
OpenFiledBy(s, c) ==
    {j \in Job : IsOpen(j) /\ j \notin forgotten
                 /\ filer[j] = [service |-> s, client |-> c]}
ClientCapHolds ==
    \A s \in Service, c \in Client : Cardinality(OpenFiledBy(s, c)) <= MaxPerClient

\* "A worker may claim the instant the record lands, and a claimed job whose request
\* cannot be read is a job nobody can answer": the request is stored before the record,
\* and before the intent a recovery may publish.
SpecIsThere ==
    /\ \A j \in Job : IsPublished(j) => KeyOf(j) \in spec
    /\ \A k \in Key : Reserved(k) => k \in spec

\* The ordinals of an address have no gap.  With one, the id derived from their count
\* would be taken, and every later submission for the address refused for good.
NamesAreDense ==
    \A j \in Job : IsPublished(j) =>
        \A n \in 1..j[2] : IsPublished(<<KeyOf(j), n>>)

\* "The entry bucket is spent only when a new job is admitted": a request that joins an
\* open job, is refused or fails spends none of the member's budget, and a new job
\* always spends one.
IsNewlyFiled(j, p) == ~IsPublished(j) /\ filer'[j].service \in {s \in Service : ProcessOf[s] = p}
EntryChargedPerJob ==
    [][\A p \in Process, e \in Entry :
          used'[p][e] > used[p][e]
              <=> \E j \in Job : EntryOf[KeyOf(j)] = e /\ IsNewlyFiled(j, p)]_vars

\* What submissions do to the records, the reservations and the answers, and what they
\* expect of the workers, is AdviceStore.
Queue == INSTANCE AdviceStore WITH AddressOf <- [j \in Job |-> KeyOf(j)]
Refines == Queue!Spec

-------------------------------------------------------------------------------
\* The inductive invariant

IsInside(h) == handler[h].pc \in {"counted", "named"}

\* The lower ordinals of an id are published.
IsNextName(k, n) == \A m \in 1..(n - 1) : IsPublished(<<k, m>>)

HandlersAreSound ==
    \A h \in Handler :
        /\ handler[h].pc # "idle" => handler[h].key \in Key /\ handler[h].client \in Client
        /\ handler[h].pc = "named" =>
              /\ handler[h].ordinal \in 1..MaxOrdinal
              /\ IsNextName(handler[h].key, handler[h].ordinal)

OneInside ==
    \A g, h \in Handler :
        ServiceOf[g] = ServiceOf[h] /\ IsInside(g) /\ IsInside(h) => g = h

ReservationsAreSound ==
    \A k \in Key : Reserved(k) =>
        KeyOf(reservation[k]) = k /\ IsNextName(k, reservation[k][2])

UnpublishedIsNobodys == \A j \in Job : ~IsPublished(j) => filer[j] = Unfiled

\* A job that a named submission is about to file keeps KeyIsOneRequest.
KeyIsHeld ==
    \A h \in Handler : handler[h].pc = "named" /\ handler[h].idem # NoIdem =>
        \A j \in FiledWith(handler[h].idem) : filer[j].service = ServiceOf[h] =>
            \/ KeyOf(j) = handler[h].key
            \/ FiledElsewhere(handler[h].idem, handler[h].key, ServiceOf[h])
            \/ FiledElsewhere(handler[h].idem, KeyOf(j), ServiceOf[h])

OwnersAreKnown ==
    \A s \in Service, c \in Client : \A j \in OpenFiledBy(s, c) : owner[s][j] = c

\* The capped services that counted too few open jobs to be refused.
Permitted ==
    {s \in Capped : \E h \in Handler :
        ServiceOf[h] = s /\ IsInside(h) /\ handler[h].opened < MaxOpen}

\* Once the cap is reached no count permits another job, and each permit left is used
\* up by the job it lets in.
CapIsShared ==
    Cardinality(OpenFiledByCapped) >= MaxOpen =>
        Cardinality(OpenFiledByCapped) + Cardinality(Permitted)
            <= MaxOpen + Cardinality(Capped) - 1

\* The jobs that came from an intent, and those an intent still promises.
Promised ==
    {j \in Job : IF IsPublished(j) THEN filer[j] = Unfiled ELSE reservation[KeyOf(j)] = j}

\* An intent without its record is the trace of an interruption.
PromisesArePaid == Cardinality(Promised) <= faults

IInv ==
    /\ TypeOK
    /\ HandlersAreSound
    /\ OneInside
    /\ ReservationsAreSound
    /\ UnpublishedIsNobodys
    /\ SpecIsThere
    /\ NamesAreDense
    /\ KeyIsHeld
    /\ KeyIsOneRequest
    /\ OwnersAreKnown
    /\ ClientCapHolds
    /\ CapIsShared
    /\ PromisesArePaid

===============================================================================
