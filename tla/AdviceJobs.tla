------------------------------ MODULE AdviceJobs ------------------------------
(***************************************************************************)
(* What the advice queue promises its callers, without a file, a lock or a  *)
(* crash: the lifecycle of backend_jobs_v1 (platform/jobs_contract.py),     *)
(* at most one open job for an answer's address, and write-once answers.    *)
(* AdviceQueue implements this specification; see Refines there.            *)
(***************************************************************************)
EXTENDS Naturals

CONSTANTS
    Job,       \* job identities: "advice-<address>-<ordinal>"
    Key,       \* answer addresses (cache keys)
    Answer,    \* the bytes an address may be answered with
    KeyOf,     \* the address a job is for
    NoAnswer   \* no bytes are filed at an address

VARIABLES
    phase,     \* [Job -> Phase]
    tries,     \* [Job -> Nat], the attempt counter of the record
    answer     \* [Key -> Answer or NoAnswer]

vars == <<phase, tries, answer>>

Phase == {"absent", "queued", "running", "completed", "failed"}

IsOpen(j) == phase[j] \in {"queued", "running"}

Init ==
    /\ phase = [j \in Job |-> "absent"]
    /\ tries = [j \in Job |-> 0]
    /\ answer = [k \in Key |-> NoAnswer]

\* One edge of ALLOWED_TRANSITIONS.
Edge(j, from, to) ==
    /\ phase[j] = from
    /\ phase' = [phase EXCEPT ![j] = to]

\* A job is accepted only while its address has no open job.
Accept(j) ==
    /\ \A i \in Job : KeyOf[i] = KeyOf[j] => ~IsOpen(i)
    /\ Edge(j, "absent", "queued")
    /\ tries' = [tries EXCEPT ![j] = 1]
    /\ UNCHANGED answer

Start(j) == Edge(j, "queued", "running") /\ UNCHANGED <<tries, answer>>

\* The disposable-worker edge: it alone moves the attempt counter, by one.
Requeue(j) ==
    /\ Edge(j, "running", "queued")
    /\ tries' = [tries EXCEPT ![j] = @ + 1]
    /\ UNCHANGED answer

Fail(j) == Edge(j, "running", "failed") /\ UNCHANGED <<tries, answer>>

\* An answer is filed once, at an address some accepted job asked for.
Filed(j, a) ==
    /\ phase[j] # "absent"
    /\ answer[KeyOf[j]] \in {NoAnswer, a}
    /\ answer' = [answer EXCEPT ![KeyOf[j]] = a]

File(j, a) == Filed(j, a) /\ UNCHANGED <<phase, tries>>

\* A job completes only with its address answered.
Complete(j, a) ==
    /\ Edge(j, "running", "completed")
    /\ Filed(j, a)
    /\ UNCHANGED tries

Step(j) ==
    \/ Accept(j) \/ Start(j) \/ Requeue(j) \/ Fail(j)
    \/ \E a \in Answer : File(j, a) \/ Complete(j, a)

Next == \E j \in Job : Step(j)

Spec == Init /\ [][Next]_vars

===============================================================================
