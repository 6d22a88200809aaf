------------------------------ MODULE AdviceStore ------------------------------
(***************************************************************************)
(* What submissions and workers share of the advice store: the records, the *)
(* reservations and which addresses are answered (platform/                 *)
(* file_advice_queue.py, platform/advice_cache.py), with what either side   *)
(* may do to them.  AdviceQueue models the workers in detail against any    *)
(* submission, AdviceSubmit the submissions against any worker; both        *)
(* implement this specification (SharesStore in the one, Refines in the     *)
(* other), so neither assumes more of its partner than the partner keeps.   *)
(***************************************************************************)
CONSTANTS
    Job,      \* job ids
    Key,      \* answer addresses (cache keys)
    AddressOf, \* the address a job is for
    NoJob     \* no reservation

VARIABLES
    status,       \* a record's status; a claimed job is as open as a queued one
    reservation,  \* open-<key>.idx: the job it names, which it holds in full
    cached        \* the addresses with an answer

vars == <<status, reservation, cached>>

IsPublished(j) == status[j] # "absent"
IsOpen(j) == status[j] = "open"
IsTerminal(j) == status[j] \in {"completed", "failed"}
Reserved(k) == reservation[k] # NoJob

Init ==
    /\ status = [j \in Job |-> "absent"]
    /\ reservation = [k \in Key |-> NoJob]
    /\ cached = {}

-------------------------------------------------------------------------------
\* Both sides: an intent is published, a finished job's reservation is taken back

Publish(k) ==
    /\ Reserved(k)
    /\ ~IsPublished(reservation[k])
    /\ status' = [status EXCEPT ![reservation[k]] = "open"]
    /\ UNCHANGED <<reservation, cached>>

Release(k) ==
    /\ Reserved(k)
    /\ IsTerminal(reservation[k])
    /\ reservation' = [reservation EXCEPT ![k] = NoJob]
    /\ UNCHANGED <<status, cached>>

-------------------------------------------------------------------------------
\* Submissions

\* A new job is reserved, and its record published unless the submission dies first.
\* Its address has no answer, and no open job or intent.
File(j) ==
    LET k == AddressOf[j] IN
    /\ k \notin cached
    /\ Reserved(k) => IsTerminal(reservation[k])
    /\ ~IsPublished(j)
    /\ reservation' = [reservation EXCEPT ![k] = j]
    /\ status' = status \/ status' = [status EXCEPT ![j] = "open"]
    /\ UNCHANGED cached

-------------------------------------------------------------------------------
\* Workers

\* An attempt ends: its answer is filed and its record completed, or it has failed.  The
\* reservation goes with it, unless the worker dies first.
Finish(j) ==
    /\ IsOpen(j)
    /\ \/ /\ status' = [status EXCEPT ![j] = "completed"]
          /\ cached' = cached \cup {AddressOf[j]}
       \/ /\ status' = [status EXCEPT ![j] = "failed"]
          /\ UNCHANGED cached
    /\ \/ reservation' = [reservation EXCEPT ![AddressOf[j]] = NoJob]
       \/ UNCHANGED reservation

\* An answer arrives without its record: the worker died or failed after the put, or its
\* attempt was not the last.  The job may still be open, or may have ended otherwise.
FileAnswer(j) ==
    /\ IsPublished(j)
    /\ cached' = cached \cup {AddressOf[j]}
    /\ UNCHANGED <<status, reservation>>

-------------------------------------------------------------------------------
\* The specification

SharedStep == \E k \in Key : Publish(k) \/ Release(k)
SubmissionStep == SharedStep \/ \E j \in Job : File(j)
WorkerStep == SharedStep \/ \E j \in Job : Finish(j) \/ FileAnswer(j)

Next == SubmissionStep \/ WorkerStep

Spec == Init /\ [][Next]_vars

-------------------------------------------------------------------------------
\* Properties

Status == {"absent", "open", "completed", "failed"}

TypeOK ==
    /\ status \in [Job -> Status]
    /\ reservation \in [Key -> Job \cup {NoJob}]
    /\ cached \subseteq Key

\* advice_submit.py: "at most one open job exists per normalized request".
OneOpenJobPerKey ==
    \A i, j \in Job : AddressOf[i] = AddressOf[j] /\ IsOpen(i) /\ IsOpen(j) => i = j

\* A completed job's address is answered.
CompletedIsAnswered == \A j \in Job : status[j] = "completed" => AddressOf[j] \in cached

\* What the two rest on: an open job holds its address's reservation.
ReservationsAgree ==
    /\ \A k \in Key : Reserved(k) => AddressOf[reservation[k]] = k
    /\ \A j \in Job : IsOpen(j) => reservation[AddressOf[j]] = j

IInv == TypeOK /\ ReservationsAgree /\ CompletedIsAnswered

===============================================================================
