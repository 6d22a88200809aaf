------------------------------- MODULE WeeklyRuns -------------------------------
(***************************************************************************)
(* What the host promises of the week's runs (platform/weekly_schedule.py,  *)
(* platform/weekly_release.py), whatever fails and whoever releases: a      *)
(* marker's run is started once, and what becomes public is a run that      *)
(* completed, was offered to the site once, was merged there, and only then *)
(* shipped, once.  WeeklyHost implements this with a timer, markers on disk,*)
(* release logs and a host that may go down at any step (Refines).          *)
(***************************************************************************)
VARIABLES
    started,    \* the runs started; each is for its marker
    completed,  \* those that completed
    offered,    \* those with a pull request put to the site's queue
    queued, merged, closed,  \* runs by the state of that pull request; open otherwise
    shipped     \* those made public

vars == <<started, completed, offered, queued, merged, closed, shipped>>

Init ==
    /\ started = {} /\ completed = {} /\ offered = {}
    /\ queued = {} /\ merged = {} /\ closed = {} /\ shipped = {}

IsOpen(r) == r \notin queued \cup merged \cup closed

-------------------------------------------------------------------------------
Start ==
    /\ \E r \in started' : /\ started' = started \cup {r}
                           /\ \A s \in started : s.marker # r.marker
    /\ UNCHANGED <<completed, offered, queued, merged, closed, shipped>>

Complete(r) ==
    /\ completed' = completed \cup {r}
    /\ UNCHANGED <<started, offered, queued, merged, closed, shipped>>

\* Once, however the answer is lost or the release that asked stops.
Offer(r) ==
    /\ r \notin offered /\ IsOpen(r)
    /\ offered' = offered \cup {r}
    /\ queued' = queued \cup {r}
    /\ UNCHANGED <<started, completed, merged, closed, shipped>>

\* The site's queue merges a pull request, drops it, or closes it.
Resolve(r) ==
    /\ queued' = queued \ {r}
    /\ \/ merged' = merged \cup {r} /\ UNCHANGED closed
       \/ closed' = closed \cup {r} /\ UNCHANGED merged
       \/ UNCHANGED <<merged, closed>>
    /\ UNCHANGED <<started, completed, offered, shipped>>

Ship(r) ==
    /\ r \in offered /\ r \in merged /\ r \notin shipped
    /\ shipped' = shipped \cup {r}
    /\ UNCHANGED <<started, completed, offered, queued, merged, closed>>

Next ==
    \/ Start
    \/ \E r \in started : Complete(r)
    \/ \E r \in completed : Offer(r)
    \/ \E r \in queued : Resolve(r)
    \/ \E r \in merged : Ship(r)

Spec == Init /\ [][Next]_vars

-------------------------------------------------------------------------------
\* The public never sees two runs of one marker, nor a run that did not complete or that the
\* site did not merge.
ShippedOnce ==
    /\ shipped \subseteq started \cap completed \cap offered \cap merged
    /\ \A r, s \in shipped : r.marker = s.marker => r = s
===============================================================================
