-------------------------- MODULE AdviceSubmit_proofs -------------------------
(***************************************************************************)
(* Proofs about AdviceSubmit, for any number of addresses, keys, clients,   *)
(* threads, services, processes and faults.                                 *)
(*                                                                          *)
(* IInv is inductive.  Each of its conjuncts has a lemma over all the       *)
(* actions (<Conjunct>Step); the cardinality arguments of the two caps      *)
(* rest on the lemmas about finite sets at the head of their parts.         *)
(***************************************************************************)
EXTENDS AdviceSubmit, FiniteSetTheorems, TLAPS

USE AdviceSubmitAssumption
USE DEF IsPublished, IsOpen, IsTerminal, Reserved, Fault, store, history, ProcessOfHandler

LEMMA JobIds ==
    /\ \A k \in Key, n \in 1..MaxOrdinal :
          <<k, n>> \in Job /\ KeyOf(<<k, n>>) = k /\ <<k, n>>[2] = n
    /\ \A j \in Job : KeyOf(j) \in Key /\ j[2] \in 1..MaxOrdinal /\ j = <<KeyOf(j), j[2]>>
    /\ NoJob \notin Job
    /\ IsFiniteSet(Job)
<1>1. IsFiniteSet(1..MaxOrdinal)
  BY FS_Interval
<1>2. IsFiniteSet(Job)
  BY <1>1, FS_Product DEF Job
<1>3. NoJob \notin Job
  BY DEF Job
<1> QED BY <1>2, <1>3 DEF Job, KeyOf

-------------------------------------------------------------------------------
\* Types

\* What a thread may come to hold.
LEMMA HandlerTypes ==
    ASSUME TypeOK, NEW h \in Handler
    PROVE  /\ Idle \in HandlerState
           /\ \A k \in Key, i \in Idem \cup {NoIdem}, c \in Client :
                 Request(k, i, c) \in HandlerState
           /\ \A n \in Nat :
                 [handler[h] EXCEPT !.pc = "counted", !.opened = n] \in HandlerState
           /\ \A n \in 0..MaxOrdinal :
                 [handler[h] EXCEPT !.pc = "named", !.ordinal = n] \in HandlerState
           /\ \A r \in HandlerState :
                 [handler EXCEPT ![h] = r] \in [Handler -> HandlerState]
<1>1. handler[h] \in HandlerState
  BY DEF TypeOK
<1>2. Idle \in HandlerState
  BY DEF HandlerState, Idle
<1>3. \A k \in Key, i \in Idem \cup {NoIdem}, c \in Client : Request(k, i, c) \in HandlerState
  BY DEF HandlerState, Request
<1>4. \A n \in Nat : [handler[h] EXCEPT !.pc = "counted", !.opened = n] \in HandlerState
  BY <1>1 DEF HandlerState
<1>5. \A n \in 0..MaxOrdinal :
         [handler[h] EXCEPT !.pc = "named", !.ordinal = n] \in HandlerState
  BY <1>1 DEF HandlerState
<1>6. \A r \in HandlerState : [handler EXCEPT ![h] = r] \in [Handler -> HandlerState]
  BY DEF TypeOK
<1> QED BY <1>2, <1>3, <1>4, <1>5, <1>6

LEMMA CountsAreNat ==
    ASSUME NEW S \in SUBSET Job
    PROVE  IsFiniteSet(S) /\ Cardinality(S) \in Nat
BY JobIds, FS_Subset, FS_CardinalityType

LEMMA ChargeTypes ==
    ASSUME TypeOK, NEW h \in Handler, NEW b \in Client \cup Entry, HasRoom(h, b), Charge(h, b)
    PROVE  used' \in [Process -> [Client \cup Entry -> 0..Budget]]
<1>1. used[ProcessOfHandler(h)][b] + 1 \in 0..Budget
  BY DEF TypeOK, HasRoom
<1> QED BY <1>1 DEF TypeOK, Charge

LEMMA DiesTypes ==
    ASSUME TypeOK, NEW p \in Process, Dies(p)
    PROVE  /\ handler' \in [Handler -> HandlerState]
           /\ owner' \in [Service -> [Job -> Client \cup {NoClient}]]
           /\ used' \in [Process -> [Client \cup Entry -> 0..Budget]]
           /\ forgotten' \subseteq Job
           /\ faults' \in 0..MaxFaults
<1>1. handler' \in [Handler -> HandlerState]
  <2>1. Idle \in HandlerState
    BY DEF HandlerState, Idle
  <2> QED BY <2>1 DEF TypeOK, Dies
<1>2. used' \in [Process -> [Client \cup Entry -> 0..Budget]]
  <2>1. [b \in Client \cup Entry |-> 0] \in [Client \cup Entry -> 0..Budget]
    OBVIOUS
  <2> QED BY <2>1 DEF TypeOK, Dies
<1>3. owner' \in [Service -> [Job -> Client \cup {NoClient}]]
  BY DEF TypeOK, Dies
<1> QED BY <1>1, <1>2, <1>3 DEF TypeOK, Dies

LEMMA PrunedTypes ==
    ASSUME TypeOK, NEW s \in Service
    PROVE  Pruned(s) \in [Job -> Client \cup {NoClient}]
BY DEF TypeOK, Pruned

LEMMA PruneTypes ==
    ASSUME TypeOK, NEW s \in Service, owner' = [owner EXCEPT ![s] = Pruned(s)]
    PROVE  owner' \in [Service -> [Job -> Client \cup {NoClient}]]
BY PrunedTypes DEF TypeOK

\* What a named submission works with.
LEMMA NamedFacts ==
    ASSUME TypeOK, HandlersAreSound, NEW h \in Handler, handler[h].pc = "named"
    PROVE  /\ handler[h].key \in Key
           /\ handler[h].client \in Client
           /\ handler[h].idem \in Idem \cup {NoIdem}
           /\ handler[h].ordinal \in 1..MaxOrdinal
           /\ <<handler[h].key, handler[h].ordinal>> \in Job
           /\ KeyOf(<<handler[h].key, handler[h].ordinal>>) = handler[h].key
           /\ <<handler[h].key, handler[h].ordinal>> # NoJob
           /\ EntryOf[handler[h].key] \in Entry
           /\ ServiceOf[h] \in Service /\ ProcessOf[ServiceOf[h]] \in Process
<1>1. handler[h].key \in Key /\ handler[h].client \in Client
      /\ handler[h].ordinal \in 1..MaxOrdinal
  BY DEF HandlersAreSound
<1>2. handler[h].idem \in Idem \cup {NoIdem}
  BY DEF TypeOK, HandlerState
<1> QED BY <1>1, <1>2, JobIds

LEMMA FileTypes ==
    ASSUME TypeOK, HandlersAreSound, NEW h \in Handler, handler[h].pc = "named",
           File(h), Returns(h)
    PROVE  TypeOK'
<1> DEFINE k == handler[h].key
           j == <<k, handler[h].ordinal>>
           s == ServiceOf[h]
           c == handler[h].client
<1>0. /\ k \in Key /\ j \in Job /\ c \in Client /\ s \in Service
      /\ handler[h].idem \in Idem \cup {NoIdem}
  BY NamedFacts
<1>1. status' \in [Job -> {"absent", "open", "completed", "failed"}]
      /\ filer' \in [Job -> [service : Service, client : Client] \cup {Unfiled}]
  BY <1>0 DEF File, Publish, TypeOK
<1>2. idem' \in [Job -> Idem \cup {NoIdem}] /\ reservation' \in [Key -> Job \cup {NoJob}]
      /\ cached' \subseteq Key /\ spec' \subseteq Key /\ prepared' \subseteq Key
  BY <1>0 DEF File, TypeOK
<1>3. owner' \in [Service -> [Job -> Client \cup {NoClient}]]
  BY <1>0, PrunedTypes DEF File, TypeOK
<1>4. used' \in [Process -> [Client \cup Entry -> 0..Budget]]
  BY NamedFacts, ChargeTypes DEF File, MayFile
<1>5. handler' \in [Handler -> HandlerState]
  BY HandlerTypes DEF Returns
<1> QED BY <1>1, <1>2, <1>3, <1>4, <1>5 DEF TypeOK, File

LEMMA FileInterruptedTypes ==
    ASSUME TypeOK, HandlersAreSound, NEW h \in Handler, handler[h].pc = "named",
           FileInterrupted(h)
    PROVE  TypeOK'
<1>1. PICK n \in 1..3 : FilePart(h, n)
  BY DEF FileInterrupted
<1>2. idem' \in [Job -> Idem \cup {NoIdem}] /\ reservation' \in [Key -> Job \cup {NoJob}]
      /\ status' \in [Job -> {"absent", "open", "completed", "failed"}]
      /\ filer' \in [Job -> [service : Service, client : Client] \cup {Unfiled}]
      /\ cached' \subseteq Key /\ spec' \subseteq Key /\ prepared' \subseteq Key
  BY <1>1, NamedFacts DEF FilePart, TypeOK
<1>3. handler' \in [Handler -> HandlerState]
      /\ owner' \in [Service -> [Job -> Client \cup {NoClient}]]
      /\ used' \in [Process -> [Client \cup Entry -> 0..Budget]]
      /\ forgotten' \subseteq Job /\ faults' \in 0..MaxFaults
  <2>1. CASE Dies(ProcessOf[ServiceOf[h]])
    BY <2>1, DiesTypes, NamedFacts
  <2>2. CASE /\ Fault
             /\ Returns(h)
             /\ owner' = [owner EXCEPT ![ServiceOf[h]] = Pruned(ServiceOf[h])]
             /\ UNCHANGED <<used, forgotten>>
    <3>1. handler' \in [Handler -> HandlerState]
      BY <2>2, HandlerTypes DEF Returns
    <3>2. owner' \in [Service -> [Job -> Client \cup {NoClient}]]
      <4>1. ServiceOf[h] \in Service
        OBVIOUS
      <4> QED BY <2>2, <4>1, PruneTypes
    <3>3. faults' \in 0..MaxFaults
      BY <2>2 DEF TypeOK
    <3>4. used' \in [Process -> [Client \cup Entry -> 0..Budget]] /\ forgotten' \subseteq Job
      <4>1. used' = used /\ forgotten' = forgotten
        BY <2>2
      <4> QED BY <4>1 DEF TypeOK
    <3> QED BY <3>1, <3>2, <3>3, <3>4
  <2> QED BY <2>1, <2>2 DEF FileInterrupted
<1> QED BY <1>2, <1>3 DEF TypeOK

LEMMA TypeStep ==
    ASSUME TypeOK, HandlersAreSound, [Next]_vars
    PROVE  TypeOK'
<1>1. ASSUME NEW h \in Handler, NEW k \in Key, NEW i \in Idem \cup {NoIdem}, NEW c \in Client,
             Ask(h, k, i, c) \/ PrepareInputs(h, k, i, c)
      PROVE  TypeOK'
  <2>1. handler' \in [Handler -> HandlerState]
    <3>1. Request(k, i, c) \in HandlerState
      BY HandlerTypes
    <3>2. handler' = handler \/ handler' = [handler EXCEPT ![h] = Request(k, i, c)]
      BY <1>1 DEF Ask, PrepareInputs
    <3>3. CASE handler' = handler
      BY <3>3 DEF TypeOK
    <3>4. CASE handler' = [handler EXCEPT ![h] = Request(k, i, c)]
      BY <3>1, <3>4, HandlerTypes
    <3> QED BY <3>2, <3>3, <3>4
  <2>2. used' \in [Process -> [Client \cup Entry -> 0..Budget]]
    BY <1>1, ChargeTypes DEF Ask, PrepareInputs
  <2> QED BY <1>1, <2>1, <2>2 DEF Ask, PrepareInputs, TypeOK
<1>2. ASSUME NEW h \in Handler, CountOpen(h)
      PROVE  TypeOK'
  <2>1. Cardinality(OpenJobs) \in Nat
    BY CountsAreNat DEF OpenJobs
  <2>2. handler' \in [Handler -> HandlerState]
    BY <1>2, <2>1, HandlerTypes DEF CountOpen
  <2> QED BY <1>2, <2>2 DEF CountOpen, TypeOK
<1>3. ASSUME NEW h \in Handler, ReadHistory(h)
      PROVE  TypeOK'
  <2>1. NextOrdinal(handler[h].key) \in Nat
    BY CountsAreNat DEF NextOrdinal, FiledAt
  <2>2. handler' \in [Handler -> HandlerState]
    <3>1. CASE Returns(h)
      BY <3>1, HandlerTypes DEF Returns
    <3>2. CASE ~Returns(h)
      <4> DEFINE n == NextOrdinal(handler[h].key)
      <4>1. n \in 0..MaxOrdinal
        BY <1>3, <2>1, <3>2 DEF ReadHistory
      <4>2. handler' = [handler EXCEPT ![h] = [@ EXCEPT !.pc = "named", !.ordinal = n]]
        BY <1>3, <3>2 DEF ReadHistory
      <4> HIDE DEF n
      <4> QED BY <4>1, <4>2, HandlerTypes
    <3> QED BY <3>1, <3>2
  <2> QED BY <1>3, <2>2 DEF ReadHistory, TypeOK
<1>4. ASSUME NEW h \in Handler, Enqueue(h)
      PROVE  TypeOK'
  <2>0. handler[h].pc = "named"
    BY <1>4 DEF Enqueue
  <2>1. CASE Join(h) /\ Returns(h)
    <3>1. handler' \in [Handler -> HandlerState]
      BY <2>1, HandlerTypes DEF Returns
    <3> QED BY <2>1, <3>1 DEF Join, TypeOK
  <2>2. CASE JoinIntent(h) /\ Returns(h)
    <3>1. handler' \in [Handler -> HandlerState]
      BY <2>2, HandlerTypes DEF Returns
    <3>2. reservation[handler[h].key] \in Job
      BY <2>0, <2>2, NamedFacts DEF JoinIntent, TypeOK
    <3>3. status' \in [Job -> {"absent", "open", "completed", "failed"}]
          /\ filer' \in [Job -> [service : Service, client : Client] \cup {Unfiled}]
      BY <2>2, <3>2 DEF JoinIntent, Publish, TypeOK
    <3> QED BY <2>2, <3>1, <3>3 DEF JoinIntent, TypeOK
  <2>3. CASE Refuse(h) /\ Returns(h)
    <3>1. handler' \in [Handler -> HandlerState]
      BY <2>3, HandlerTypes DEF Returns
    <3>2. owner' \in [Service -> [Job -> Client \cup {NoClient}]]
      <4>1. ServiceOf[h] \in Service
        OBVIOUS
      <4>2. owner' = owner \/ owner' = [owner EXCEPT ![ServiceOf[h]] = Pruned(ServiceOf[h])]
        BY <2>3 DEF Refuse
      <4> QED BY <4>1, <4>2, PruneTypes DEF TypeOK
    <3>3. reservation' \in [Key -> Job \cup {NoJob}] /\ spec' \subseteq Key
      <4>1. handler[h].key \in Key
        BY <2>0, NamedFacts
      <4>2. \/ UNCHANGED <<reservation, spec>>
            \/ /\ reservation' = [reservation EXCEPT ![handler[h].key] = NoJob]
               /\ spec' = spec \cup {handler[h].key}
        BY <2>3 DEF Refuse
      <4> QED BY <4>1, <4>2 DEF TypeOK
    <3> QED BY <2>3, <3>1, <3>2, <3>3 DEF Refuse, TypeOK
  <2>4. CASE File(h) /\ Returns(h)
    BY <2>0, <2>4, FileTypes
  <2>5. CASE FileInterrupted(h)
    BY <2>0, <2>5, FileInterruptedTypes
  <2> QED BY <1>4, <2>1, <2>2, <2>3, <2>4, <2>5 DEF Enqueue
<1>5. ASSUME NEW h \in Handler, Abandon(h)
      PROVE  TypeOK'
  <2>1. handler' \in [Handler -> HandlerState]
    BY <1>5, HandlerTypes DEF Abandon, Returns
  <2> QED BY <1>5, <2>1 DEF Abandon, TypeOK
<1>6. ASSUME NEW p \in Process, NEW b \in Client \cup Entry, WindowEnds(p, b)
      PROVE  TypeOK'
  <2>1. used' \in [Process -> [Client \cup Entry -> 0..Budget]]
    <3>1. [used[p] EXCEPT ![b] = 0] \in [Client \cup Entry -> 0..Budget]
      BY DEF TypeOK
    <3> QED BY <1>6, <3>1 DEF WindowEnds, TypeOK
  <2> QED BY <1>6, <2>1 DEF WindowEnds, TypeOK
<1>7. ASSUME NEW p \in Process, Crash(p)
      PROVE  TypeOK'
  BY <1>7, DiesTypes DEF Crash, TypeOK
<1>8. ASSUME NEW j \in Job, Finish(j)
      PROVE  TypeOK'
  <2>1. KeyOf(j) \in Key
    BY JobIds
  <2>2. faults' \in 0..MaxFaults
    BY <1>8 DEF Finish, TypeOK
  <2>3. reservation' \in [Key -> Job \cup {NoJob}] /\ cached' \subseteq Key
    BY <1>8, <2>1 DEF Finish, TypeOK
  <2>4. status' \in [Job -> {"absent", "open", "completed", "failed"}]
    BY <1>8 DEF Finish, TypeOK
  <2> QED BY <1>8, <2>2, <2>3, <2>4 DEF Finish, TypeOK
<1>9. ASSUME NEW k \in Key, Recover(k)
      PROVE  TypeOK'
  <2>1. reservation[k] \in Job
    BY <1>9 DEF Recover, TypeOK
  <2> QED BY <1>9, <2>1 DEF Recover, Publish, TypeOK
<1>10. ASSUME NEW j \in Job, FileAnswer(j)
       PROVE  TypeOK'
  <2>1. KeyOf(j) \in Key
    BY JobIds
  <2>2. faults' \in 0..MaxFaults /\ cached' \subseteq Key
    BY <1>10, <2>1 DEF FileAnswer, TypeOK
  <2>3. UNCHANGED <<status, idem, reservation, spec, prepared, owner, used, handler, filer,
                    forgotten>>
    BY <1>10 DEF FileAnswer
  <2> QED BY <2>2, <2>3 DEF TypeOK
<1>11. CASE UNCHANGED vars
  BY <1>11 DEF vars, TypeOK
<1> QED BY <1>1, <1>2, <1>3, <1>4, <1>5, <1>6, <1>7, <1>8, <1>9, <1>10, <1>11
        DEF Next, HandlerStep, ProcessStep, QueueStep

-------------------------------------------------------------------------------
\* What a step may do to the records

\* A published record is never unpublished, refiled or given another key, and at most
\* one record is published: an intent, or the job of a named submission.
LEMMA Publication ==
    ASSUME TypeOK, HandlersAreSound, UnpublishedIsNobodys, [Next]_vars
    PROVE  /\ \A j \in Job : IsPublished(j) =>
                  IsPublished(j)' /\ filer'[j] = filer[j] /\ idem'[j] = idem[j]
           /\ \/ \A j \in Job : ~IsPublished(j) => ~IsPublished(j)' /\ filer'[j] = filer[j]
              \/ \E k \in Key :
                    /\ Reserved(k)
                    /\ \A j \in Job : ~IsPublished(j) =>
                          IF j = reservation[k] THEN filer'[j] = Unfiled
                          ELSE ~IsPublished(j)' /\ filer'[j] = filer[j]
              \/ \E h \in Handler :
                    /\ handler[h].pc = "named"
                    /\ File(h)
                    /\ Returns(h)
<1>1. ASSUME NEW h \in Handler, NEW k \in Key, NEW i \in Idem \cup {NoIdem}, NEW c \in Client,
             Ask(h, k, i, c) \/ PrepareInputs(h, k, i, c)
      PROVE  UNCHANGED <<status, filer, idem>>
  BY <1>1 DEF Ask, PrepareInputs
<1>2. ASSUME NEW h \in Handler, CountOpen(h) \/ ReadHistory(h) \/ Abandon(h)
      PROVE  UNCHANGED <<status, filer, idem>>
  BY <1>2 DEF CountOpen, ReadHistory, Abandon
<1>3. ASSUME NEW p \in Process, Crash(p) \/ \E b \in Client \cup Entry : WindowEnds(p, b)
      PROVE  UNCHANGED <<status, filer, idem>>
  BY <1>3 DEF Crash, WindowEnds
<1>4. CASE UNCHANGED <<status, filer, idem>>
  BY <1>4
<1>5. ASSUME NEW h \in Handler, handler[h].pc = "named", Join(h) \/ Refuse(h)
      PROVE  UNCHANGED <<status, filer, idem>>
  BY <1>5 DEF Join, Refuse
<1>6. ASSUME NEW k \in Key, Reserved(k), ~IsPublished(reservation[k]),
             Publish(reservation[k], Unfiled), idem' = idem
      PROVE  /\ \A j \in Job : IsPublished(j) =>
                   IsPublished(j)' /\ filer'[j] = filer[j] /\ idem'[j] = idem[j]
             /\ \A j \in Job : ~IsPublished(j) =>
                   IF j = reservation[k] THEN filer'[j] = Unfiled
                   ELSE ~IsPublished(j)' /\ filer'[j] = filer[j]
  <2>1. reservation[k] \in Job
    BY <1>6 DEF TypeOK
  <2> QED BY <1>6, <2>1 DEF Publish, TypeOK
<1>7. ASSUME NEW h \in Handler, handler[h].pc = "named", JoinIntent(h)
      PROVE  /\ handler[h].key \in Key
             /\ Reserved(handler[h].key) /\ ~IsPublished(reservation[handler[h].key])
             /\ Publish(reservation[handler[h].key], Unfiled) /\ idem' = idem
  BY <1>7, NamedFacts DEF JoinIntent
<1>8. ASSUME NEW h \in Handler, handler[h].pc = "named", File(h)
      PROVE  \A j \in Job : IsPublished(j) =>
                  IsPublished(j)' /\ filer'[j] = filer[j] /\ idem'[j] = idem[j]
  <2> DEFINE l == <<handler[h].key, handler[h].ordinal>>
  <2>1. l \in Job /\ ~IsPublished(l)
    BY <1>8, NamedFacts DEF File, MayFile
  <2>2. \A j \in Job : IsPublished(j) => j # l
    BY <2>1
  <2>3. \A j \in Job : j # l =>
           status'[j] = status[j] /\ filer'[j] = filer[j] /\ idem'[j] = idem[j]
    BY <1>8, <2>1 DEF File, Publish, TypeOK
  <2> QED BY <2>2, <2>3
<1>9. ASSUME NEW h \in Handler, handler[h].pc = "named", FileInterrupted(h)
      PROVE  /\ UNCHANGED <<status, filer>>
             /\ \A j \in Job : IsPublished(j) => idem'[j] = idem[j]
  <2> DEFINE l == <<handler[h].key, handler[h].ordinal>>
  <2>1. PICK n \in 1..3 : FilePart(h, n)
    BY <1>9 DEF FileInterrupted
  <2>2. l \in Job /\ ~IsPublished(l)
    BY <1>9, <2>1, NamedFacts DEF FilePart, MayFile
  <2>3. \A j \in Job : j # l => idem'[j] = idem[j]
    BY <2>1, <2>2 DEF FilePart, TypeOK
  <2> QED BY <2>1, <2>2, <2>3 DEF FilePart
<1>10. ASSUME NEW j \in Job, Finish(j) \/ FileAnswer(j)
       PROVE  filer' = filer /\ idem' = idem /\ \A l \in Job : IsPublished(l) <=> IsPublished(l)'
  BY <1>10 DEF Finish, FileAnswer, history, TypeOK
<1>11. ASSUME NEW k \in Key, Recover(k)
       PROVE  \/ UNCHANGED <<status, filer, idem>>
              \/ /\ Reserved(k) /\ ~IsPublished(reservation[k])
                 /\ Publish(reservation[k], Unfiled) /\ idem' = idem
  BY <1>11 DEF Recover
<1>12. CASE \E h \in Handler : HandlerStep(h)
  <2>1. PICK h \in Handler : HandlerStep(h)
    BY <1>12
  <2>2. CASE Enqueue(h)
    <3>1. handler[h].pc = "named"
      BY <2>2 DEF Enqueue
    <3>2. CASE (Join(h) \/ Refuse(h)) /\ Returns(h)
      BY <3>1, <3>2, <1>5, <1>4
    <3>3. CASE JoinIntent(h) /\ Returns(h)
      BY <3>1, <3>3, <1>7, <1>6
    <3>4. CASE File(h) /\ Returns(h)
      BY <3>1, <3>4, <1>8
    <3>5. CASE FileInterrupted(h)
      BY <3>1, <3>5, <1>9
    <3> QED BY <2>2, <3>2, <3>3, <3>4, <3>5 DEF Enqueue
  <2> QED BY <2>1, <2>2, <1>1, <1>2, <1>4 DEF HandlerStep
<1>13. CASE \E p \in Process : ProcessStep(p)
  BY <1>13, <1>3, <1>4 DEF ProcessStep
<1>14. CASE QueueStep
  BY <1>14, <1>10, <1>11, <1>6, <1>4 DEF QueueStep
<1>15. CASE UNCHANGED vars
  BY <1>15, <1>4 DEF vars
<1> QED BY <1>12, <1>13, <1>14, <1>15 DEF Next

LEMMA UnpublishedStep ==
    ASSUME TypeOK, HandlersAreSound, UnpublishedIsNobodys, [Next]_vars
    PROVE  UnpublishedIsNobodys'
<1>1. SUFFICES ASSUME NEW j \in Job, ~IsPublished(j)'
               PROVE  filer'[j] = Unfiled
  BY DEF UnpublishedIsNobodys
<1>2. ~IsPublished(j) /\ filer[j] = Unfiled
  BY <1>1, Publication DEF UnpublishedIsNobodys
<1>3. ASSUME NEW h \in Handler, handler[h].pc = "named", File(h)
      PROVE  filer'[j] = filer[j]
  <2> DEFINE l == <<handler[h].key, handler[h].ordinal>>
  <2>1. l \in Job /\ status' = [status EXCEPT ![l] = "open"]
    BY <1>3, NamedFacts DEF File, Publish
  <2>2. j # l
    BY <1>1, <2>1 DEF TypeOK
  <2> QED BY <1>3, <2>1, <2>2 DEF File, Publish, TypeOK
<1> QED BY <1>1, <1>2, <1>3, Publication

-------------------------------------------------------------------------------
\* Names without a gap

\* The ordinal after the count of an address's jobs is free of gaps below it.
LEMMA DenseNames ==
    ASSUME TypeOK, NamesAreDense, NEW k \in Key, NextOrdinal(k) <= MaxOrdinal
    PROVE  NextOrdinal(k) \in 1..MaxOrdinal /\ IsNextName(k, NextOrdinal(k))
<1> DEFINE S == FiledAt(k)
           n == NextOrdinal(k)
<1>1. S \subseteq Job /\ IsFiniteSet(S) /\ Cardinality(S) \in Nat /\ n = 1 + Cardinality(S)
  BY CountsAreNat DEF FiledAt, NextOrdinal
<1>2. ASSUME NEW m \in 1..(n - 1), ~IsPublished(<<k, m>>)
      PROVE  FALSE
  <2>1. m \in 1..MaxOrdinal
    BY <1>1
  <2>2. ASSUME NEW j \in S
        PROVE  j \in {k} \X (1..(m - 1))
    <3>1. j = <<k, j[2]>> /\ j[2] \in 1..MaxOrdinal /\ j \in Job /\ IsPublished(j) /\ KeyOf(j) = k
      BY JobIds DEF FiledAt
    <3>2. ~(m <= j[2])
      BY <1>2, <2>1, <3>1 DEF NamesAreDense
    <3> QED BY <2>1, <3>1, <3>2
  <2>3. IsFiniteSet({k} \X (1..(m - 1)))
        /\ Cardinality({k} \X (1..(m - 1))) = m - 1
    <3>1. IsFiniteSet(1..(m - 1)) /\ Cardinality(1..(m - 1)) = m - 1
      <4>1. 1 \in Int /\ m - 1 \in Int /\ 0 <= m - 1
        BY <2>1
      <4>2. Cardinality(1..(m - 1)) = IF 1 > m - 1 THEN 0 ELSE (m - 1) - 1 + 1
        BY <4>1, FS_Interval
      <4> QED BY <4>1, <4>2, FS_Interval
    <3>2. IsFiniteSet({k}) /\ Cardinality({k}) = 1
      BY FS_Singleton
    <3>3. IsFiniteSet({k} \X (1..(m - 1)))
          /\ Cardinality({k} \X (1..(m - 1))) = Cardinality({k}) * Cardinality(1..(m - 1))
      BY <3>1, <3>2, FS_Product
    <3>4. Cardinality({k} \X (1..(m - 1))) = 1 * (m - 1)
      BY <3>1, <3>2, <3>3
    <3> QED BY <2>1, <3>3, <3>4
  <2>4. Cardinality(S) <= m - 1
    BY <2>2, <2>3, FS_Subset
  <2> QED BY <1>1, <2>1, <2>4
<1> QED BY <1>1, <1>2 DEF IsNextName

\* Names stay complete from below: published jobs stay published.
LEMMA NextNameStays ==
    ASSUME TypeOK, HandlersAreSound, UnpublishedIsNobodys, [Next]_vars,
           NEW k \in Key, NEW n \in 1..MaxOrdinal, IsNextName(k, n)
    PROVE  IsNextName(k, n)'
<1>1. \A m \in 1..(n - 1) : <<k, m>> \in Job
  BY JobIds
<1> QED BY <1>1, Publication DEF IsNextName

LEMMA DenseStep ==
    ASSUME TypeOK, HandlersAreSound, UnpublishedIsNobodys, ReservationsAreSound,
           NamesAreDense, [Next]_vars
    PROVE  NamesAreDense'
<1>1. SUFFICES ASSUME NEW j \in Job, IsPublished(j)'
               PROVE  \A m \in 1..j[2] : IsPublished(<<KeyOf(j), m>>)'
  BY DEF NamesAreDense
<1>2. KeyOf(j) \in Key /\ j[2] \in 1..MaxOrdinal /\ j = <<KeyOf(j), j[2]>>
  BY JobIds
<1>3. \A m \in 1..j[2] : <<KeyOf(j), m>> \in Job
  BY <1>2, JobIds
<1>4. CASE IsPublished(j)
  BY <1>2, <1>3, <1>4, Publication DEF NamesAreDense
<1>5. CASE ~IsPublished(j)
  <2>1. IsNextName(KeyOf(j), j[2])
    <3>1. ASSUME NEW k \in Key, Reserved(k), j = reservation[k]
          PROVE  IsNextName(KeyOf(j), j[2])
      BY <3>1 DEF ReservationsAreSound
    <3>2. ASSUME NEW h \in Handler, handler[h].pc = "named", File(h)
          PROVE  IsNextName(KeyOf(j), j[2])
      <4> DEFINE l == <<handler[h].key, handler[h].ordinal>>
      <4>1. l \in Job /\ status' = [status EXCEPT ![l] = "open"]
        BY <3>2, NamedFacts DEF File, Publish
      <4>2. j = l
        BY <1>1, <1>5, <4>1 DEF TypeOK
      <4>3. handler[h].key \in Key /\ handler[h].ordinal \in 1..MaxOrdinal
        BY <3>2, NamedFacts
      <4>4. KeyOf(j) = handler[h].key /\ j[2] = handler[h].ordinal
        BY <4>2, <4>3, JobIds
      <4> QED BY <3>2, <4>4 DEF HandlersAreSound
    <3> QED BY <1>1, <1>5, <3>1, <3>2, Publication
  <2>2. IsNextName(KeyOf(j), j[2])'
    BY <1>2, <2>1, NextNameStays
  <2>3. ASSUME NEW m \in 1..j[2]
        PROVE  IsPublished(<<KeyOf(j), m>>)'
    <3>1. CASE m = j[2]
      BY <1>1, <1>2, <3>1
    <3>2. CASE m # j[2]
      BY <1>2, <2>2, <3>2 DEF IsNextName
    <3> QED BY <3>1, <3>2
  <2> QED BY <2>3
<1> QED BY <1>4, <1>5

-------------------------------------------------------------------------------
\* Threads and their admission locks

\* How one thread's state may change in a step.
LEMMA HandlerMoves ==
    ASSUME TypeOK, [Next]_vars, NEW g \in Handler
    PROVE  \/ handler'[g] = handler[g]
           \/ handler'[g] = Idle
           \/ /\ handler[g].pc = "idle"
              /\ \E k \in Key, i \in Idem \cup {NoIdem}, c \in Client :
                    handler'[g] = Request(k, i, c)
           \/ /\ CountOpen(g)
              /\ handler'[g] = [handler[g] EXCEPT !.pc = "counted",
                                                  !.opened = Cardinality(OpenJobs)]
           \/ /\ ReadHistory(g)
              /\ KeyMayFile(handler[g].key, handler[g].idem)
              /\ NextOrdinal(handler[g].key) <= MaxOrdinal
              /\ handler'[g] = [handler[g] EXCEPT !.pc = "named",
                                                  !.ordinal = NextOrdinal(handler[g].key)]
<1>1. ASSUME NEW h \in Handler, Returns(h)
      PROVE  handler'[g] = handler[g] \/ handler'[g] = Idle
  BY <1>1 DEF Returns, TypeOK
<1>2. ASSUME NEW p \in Process, Dies(p)
      PROVE  handler'[g] = handler[g] \/ handler'[g] = Idle
  BY <1>2 DEF Dies
<1>3. ASSUME NEW h \in Handler, HandlerStep(h), h # g
      PROVE  handler'[g] = handler[g] \/ handler'[g] = Idle
  <2>1. CASE Enqueue(h)
    BY <2>1, <1>1, <1>2 DEF Enqueue, FileInterrupted
  <2>2. CASE Abandon(h) \/ Returns(h)
    BY <2>2, <1>1 DEF Abandon
  <2>3. CASE CountOpen(h) \/ (ReadHistory(h) /\ ~Returns(h))
    BY <1>3, <2>3 DEF CountOpen, ReadHistory, TypeOK
  <2>4. CASE \E k \in Key, i \in Idem \cup {NoIdem}, c \in Client :
                Ask(h, k, i, c) \/ PrepareInputs(h, k, i, c)
    BY <1>3, <2>4 DEF Ask, PrepareInputs, TypeOK
  <2> QED BY <1>3, <2>1, <2>2, <2>3, <2>4 DEF HandlerStep
<1>4. CASE HandlerStep(g)
  <2>1. CASE Enqueue(g)
    BY <2>1, <1>1, <1>2 DEF Enqueue, FileInterrupted
  <2>2. CASE Abandon(g) \/ Returns(g)
    BY <2>2, <1>1 DEF Abandon
  <2>3. CASE CountOpen(g)
    BY <2>3 DEF CountOpen, TypeOK
  <2>4. CASE ReadHistory(g) /\ ~Returns(g)
    BY <2>4 DEF ReadHistory, TypeOK
  <2>5. ASSUME NEW k \in Key, NEW i \in Idem \cup {NoIdem}, NEW c \in Client,
               Ask(g, k, i, c) \/ PrepareInputs(g, k, i, c)
        PROVE  handler'[g] = handler[g]
               \/ (handler[g].pc = "idle" /\ handler'[g] = Request(k, i, c))
    BY <2>5 DEF Ask, PrepareInputs, TypeOK
  <2> QED BY <1>4, <2>1, <2>2, <2>3, <2>4, <2>5 DEF HandlerStep
<1>5. CASE \E p \in Process : ProcessStep(p)
  <2>1. ASSUME NEW p \in Process, NEW b \in Client \cup Entry, WindowEnds(p, b)
        PROVE  handler' = handler
    BY <2>1 DEF WindowEnds
  <2> QED BY <1>5, <2>1, <1>2 DEF ProcessStep, Crash
<1>6. CASE QueueStep
  BY <1>6 DEF QueueStep, Finish, FileAnswer, Recover
<1>7. CASE UNCHANGED vars
  BY <1>7 DEF vars
<1> QED BY <1>3, <1>4, <1>5, <1>6, <1>7 DEF Next

LEMMA HandlersStep ==
    ASSUME TypeOK, HandlersAreSound, UnpublishedIsNobodys, NamesAreDense, [Next]_vars
    PROVE  HandlersAreSound'
<1>1. SUFFICES ASSUME NEW g \in Handler
               PROVE  (/\ handler[g].pc # "idle" =>
                             handler[g].key \in Key /\ handler[g].client \in Client
                       /\ handler[g].pc = "named" =>
                             /\ handler[g].ordinal \in 1..MaxOrdinal
                             /\ IsNextName(handler[g].key, handler[g].ordinal))'
  BY DEF HandlersAreSound
<1>2. ASSUME NEW k \in Key, NEW n \in 1..MaxOrdinal, IsNextName(k, n)
      PROVE  IsNextName(k, n)'
  BY <1>2, NextNameStays
<1>3. handler[g] \in HandlerState
  BY DEF TypeOK
<1>4. CASE handler'[g] = handler[g]
  BY <1>4, <1>2 DEF HandlersAreSound
<1>5. CASE handler'[g] = Idle
  BY <1>5 DEF Idle
<1>6. ASSUME NEW k \in Key, NEW i \in Idem \cup {NoIdem}, NEW c \in Client,
             handler'[g] = Request(k, i, c)
      PROVE  handler'[g].pc = "missed" /\ handler'[g].key \in Key /\ handler'[g].client \in Client
  BY <1>6 DEF Request
<1>7. CASE CountOpen(g) /\ handler'[g] = [handler[g] EXCEPT !.pc = "counted",
                                                  !.opened = Cardinality(OpenJobs)]
  <2>1. handler[g].pc = "missed"
    BY <1>7 DEF CountOpen
  <2>2. handler'[g].pc = "counted" /\ handler'[g].key = handler[g].key
        /\ handler'[g].client = handler[g].client
    BY <1>3, <1>7 DEF HandlerState
  <2> QED BY <2>1, <2>2 DEF HandlersAreSound
<1>8. CASE /\ ReadHistory(g)
           /\ NextOrdinal(handler[g].key) <= MaxOrdinal
           /\ handler'[g] = [handler[g] EXCEPT !.pc = "named",
                                               !.ordinal = NextOrdinal(handler[g].key)]
  <2>1. handler[g].key \in Key /\ handler[g].client \in Client
    BY <1>8 DEF ReadHistory, HandlersAreSound
  <2>2. handler'[g].ordinal = NextOrdinal(handler[g].key) /\ handler'[g].key = handler[g].key
        /\ handler'[g].client = handler[g].client
    BY <1>3, <1>8 DEF HandlerState
  <2>3. NextOrdinal(handler[g].key) \in 1..MaxOrdinal
        /\ IsNextName(handler[g].key, NextOrdinal(handler[g].key))
    BY <1>8, <2>1, DenseNames
  <2> QED BY <2>1, <2>2, <2>3, <1>2
<1> QED BY <1>4, <1>5, <1>6, <1>7, <1>8, HandlerMoves

LEMMA OneInsideStep ==
    ASSUME TypeOK, OneInside, [Next]_vars
    PROVE  OneInside'
<1>1. \A g \in Handler : IsInside(g)' => IsInside(g) \/ CountOpen(g)
  <2>1. SUFFICES ASSUME NEW g \in Handler, IsInside(g)', ~CountOpen(g)
                 PROVE  IsInside(g)
    OBVIOUS
  <2>2. handler'[g] # Idle /\ \A k, i, c : handler'[g] # Request(k, i, c)
    BY <2>1 DEF IsInside, Idle, Request
  <2>3. handler'[g] = handler[g] \/ ReadHistory(g)
    BY <2>1, <2>2, HandlerMoves
  <2> QED BY <2>1, <2>3 DEF IsInside, ReadHistory
<1>2. ASSUME NEW g \in Handler, CountOpen(g), NEW h \in Handler, h # g,
             ServiceOf[h] = ServiceOf[g]
      PROVE  ~IsInside(h)'
  BY <1>2 DEF CountOpen, AdmissionFree, IsInside, TypeOK
<1> QED BY <1>1, <1>2 DEF OneInside

-------------------------------------------------------------------------------
\* Reservations and stored requests

LEMMA StoreMoves ==
    ASSUME TypeOK, HandlersAreSound, [Next]_vars
    PROVE  /\ spec \subseteq spec'
           /\ \A k \in Key : reservation'[k] # NoJob =>
                 \/ reservation'[k] = reservation[k]
                 \/ /\ k \in spec'
                    /\ \E h \in Handler :
                          /\ handler[h].pc = "named"
                          /\ handler[h].key = k
                          /\ reservation'[k] = <<k, handler[h].ordinal>>
<1>1. ASSUME NEW h \in Handler, HandlerStep(h), ~Enqueue(h)
      PROVE  UNCHANGED <<spec, reservation>>
  BY <1>1 DEF HandlerStep, Ask, PrepareInputs, CountOpen, ReadHistory, Abandon
<1>2. CASE UNCHANGED <<spec, reservation>>
  BY <1>2
<1>3. ASSUME NEW h \in Handler, Enqueue(h)
      PROVE  \/ UNCHANGED <<spec, reservation>>
             \/ /\ spec' = spec \cup {handler[h].key}
                /\ \/ reservation' = reservation
                   \/ reservation' = [reservation EXCEPT ![handler[h].key] = NoJob]
                   \/ reservation' = [reservation EXCEPT
                         ![handler[h].key] = <<handler[h].key, handler[h].ordinal>>]
  <2>1. CASE Join(h) \/ JoinIntent(h) \/ Refuse(h)
    BY <2>1 DEF Join, JoinIntent, Refuse
  <2>2. CASE File(h)
    BY <2>2 DEF File
  <2>3. CASE FileInterrupted(h)
    <3>1. PICK n \in 1..3 : FilePart(h, n)
      BY <2>3 DEF FileInterrupted
    <3>2. CASE n = 1
      BY <3>1, <3>2 DEF FilePart, TypeOK
    <3>3. CASE n = 2
      BY <3>1, <3>3 DEF FilePart
    <3>4. CASE n = 3
      BY <3>1, <3>4 DEF FilePart
    <3> QED BY <3>2, <3>3, <3>4
  <2> QED BY <1>3, <2>1, <2>2, <2>3 DEF Enqueue
<1>4. ASSUME NEW h \in Handler, Enqueue(h)
      PROVE  /\ spec \subseteq spec'
             /\ \A k \in Key : reservation'[k] # NoJob =>
                 \/ reservation'[k] = reservation[k]
                 \/ /\ k \in spec'
                    /\ handler[h].pc = "named"
                    /\ handler[h].key = k
                    /\ reservation'[k] = <<k, handler[h].ordinal>>
  <2>1. handler[h].pc = "named" /\ handler[h].key \in Key
    BY <1>4, NamedFacts DEF Enqueue
  <2>2. reservation \in [Key -> Job \cup {NoJob}]
    BY DEF TypeOK
  <2>3. CASE UNCHANGED <<spec, reservation>>
    BY <2>3
  <2>4. CASE spec' = spec \cup {handler[h].key} /\ reservation' = reservation
    BY <2>4
  <2>5. CASE /\ spec' = spec \cup {handler[h].key}
             /\ reservation' = [reservation EXCEPT ![handler[h].key] = NoJob]
    BY <2>1, <2>2, <2>5
  <2>6. CASE /\ spec' = spec \cup {handler[h].key}
             /\ reservation' = [reservation EXCEPT
                    ![handler[h].key] = <<handler[h].key, handler[h].ordinal>>]
    BY <2>1, <2>2, <2>6
  <2> QED BY <1>3, <1>4, <2>3, <2>4, <2>5, <2>6
<1>5. CASE \E p \in Process : ProcessStep(p)
  BY <1>5, <1>2 DEF ProcessStep, Crash, WindowEnds
<1>6. CASE QueueStep
  BY <1>6 DEF QueueStep, Finish, FileAnswer, Recover, TypeOK
<1>7. CASE UNCHANGED vars
  BY <1>7, <1>2 DEF vars
<1> QED BY <1>1, <1>2, <1>4, <1>5, <1>6, <1>7 DEF Next

LEMMA ReservationsStep ==
    ASSUME TypeOK, HandlersAreSound, UnpublishedIsNobodys, ReservationsAreSound, [Next]_vars
    PROVE  ReservationsAreSound'
<1>1. ASSUME NEW k \in Key, Reserved(k)'
      PROVE  \E n \in 1..MaxOrdinal :
                 reservation'[k] = <<k, n>> /\ IsNextName(k, n)
  <2>1. CASE reservation'[k] = reservation[k]
    <3>1. reservation[k] \in Job
      BY <1>1, <2>1 DEF TypeOK
    <3>2. KeyOf(reservation[k]) = k /\ IsNextName(k, reservation[k][2])
      BY <1>1, <2>1 DEF ReservationsAreSound
    <3> QED BY <2>1, <3>1, <3>2, JobIds
  <2>2. ASSUME NEW h \in Handler, handler[h].pc = "named", handler[h].key = k,
               reservation'[k] = <<k, handler[h].ordinal>>
        PROVE  handler[h].ordinal \in 1..MaxOrdinal /\ IsNextName(k, handler[h].ordinal)
    BY <2>2 DEF HandlersAreSound
  <2> QED BY <1>1, <2>1, <2>2, StoreMoves
<1>2. ASSUME NEW k \in Key, NEW n \in 1..MaxOrdinal, IsNextName(k, n),
             (reservation[k] = <<k, n>>)'
      PROVE  (KeyOf(reservation[k]) = k /\ IsNextName(k, reservation[k][2]))'
  <2>1. IsNextName(k, n)'
    BY <1>2, NextNameStays
  <2>2. KeyOf(<<k, n>>) = k /\ <<k, n>>[2] = n
    BY JobIds
  <2> QED BY <1>2, <2>1, <2>2
<1>3. ASSUME NEW k \in Key, Reserved(k)'
      PROVE  (KeyOf(reservation[k]) = k /\ IsNextName(k, reservation[k][2]))'
  BY <1>1, <1>2, <1>3
<1> QED BY <1>3 DEF ReservationsAreSound

LEMMA SpecStep ==
    ASSUME TypeOK, HandlersAreSound, UnpublishedIsNobodys, ReservationsAreSound,
           SpecIsThere, [Next]_vars
    PROVE  SpecIsThere'
<1>1. ASSUME NEW k \in Key, reservation'[k] # NoJob
      PROVE  k \in spec'
  BY <1>1, StoreMoves DEF SpecIsThere
<1>2. ASSUME NEW j \in Job, IsPublished(j)'
      PROVE  KeyOf(j) \in spec'
  <2>1. CASE IsPublished(j)
    BY <2>1, StoreMoves DEF SpecIsThere
  <2>2. ASSUME NEW k \in Key, Reserved(k), j = reservation[k]
        PROVE  KeyOf(j) \in spec'
    BY <2>2, StoreMoves DEF SpecIsThere, ReservationsAreSound
  <2>3. ASSUME NEW h \in Handler, handler[h].pc = "named", File(h), ~IsPublished(j)
        PROVE  KeyOf(j) \in spec'
    <3> DEFINE l == <<handler[h].key, handler[h].ordinal>>
    <3>1. l \in Job /\ KeyOf(l) = handler[h].key
          /\ status' = [status EXCEPT ![l] = "open"] /\ handler[h].key \in spec'
      BY <2>3, NamedFacts DEF File, Publish
    <3>2. j = l
      BY <1>2, <2>3, <3>1 DEF TypeOK
    <3> QED BY <3>1, <3>2
  <2> QED BY <1>2, <2>1, <2>2, <2>3, Publication
<1> QED BY <1>1, <1>2 DEF SpecIsThere

-------------------------------------------------------------------------------
\* One key, one request

\* A newly published record is nobody's, or the job of the thread that returns with it.
LEMMA NewRecord ==
    ASSUME TypeOK, HandlersAreSound, UnpublishedIsNobodys, [Next]_vars,
           NEW j \in Job, ~IsPublished(j), IsPublished(j)'
    PROVE  \/ filer'[j].service = NoService
           \/ \E h \in Handler :
                 /\ handler[h].pc = "named"
                 /\ handler'[h] = Idle
                 /\ j = <<handler[h].key, handler[h].ordinal>>
                 /\ KeyOf(j) = handler[h].key
                 /\ filer'[j].service = ServiceOf[h]
                 /\ idem'[j] = handler[h].idem
<1>1. ASSUME NEW k \in Key, j = reservation[k], filer'[j] = Unfiled
      PROVE  filer'[j].service = NoService
  BY <1>1 DEF Unfiled
<1>2. ASSUME NEW h \in Handler, handler[h].pc = "named", File(h), Returns(h)
      PROVE  /\ handler'[h] = Idle
             /\ j = <<handler[h].key, handler[h].ordinal>>
             /\ KeyOf(j) = handler[h].key
             /\ filer'[j].service = ServiceOf[h]
             /\ idem'[j] = handler[h].idem
  <2> DEFINE l == <<handler[h].key, handler[h].ordinal>>
  <2>1. l \in Job /\ KeyOf(l) = handler[h].key
        /\ status' = [status EXCEPT ![l] = "open"]
    BY <1>2, NamedFacts DEF File, Publish
  <2>2. j = l
    BY <2>1 DEF TypeOK
  <2>3. handler'[h] = Idle
    BY <1>2 DEF Returns, TypeOK
  <2>4. idem'[l] = handler[h].idem
    BY <1>2, <2>1 DEF File, TypeOK
  <2>5. filer'[l] = [service |-> ServiceOf[h], client |-> handler[h].client]
    BY <1>2, <2>1 DEF File, Publish, TypeOK
  <2> QED BY <2>1, <2>2, <2>3, <2>4, <2>5
<1> QED BY <1>1, <1>2, Publication

\* What is filed with a key stays filed with it; what is filed anew is a new record.
LEMMA FiledWithGrows ==
    ASSUME TypeOK, HandlersAreSound, UnpublishedIsNobodys, [Next]_vars, NEW i
    PROVE  /\ FiledWith(i) \subseteq FiledWith(i)'
           /\ \A j \in FiledWith(i) : filer'[j] = filer[j]
           /\ \A j \in FiledWith(i)' \ FiledWith(i) :
                 j \in Job /\ ~IsPublished(j) /\ IsPublished(j)' /\ idem'[j] = i
BY Publication DEF FiledWith

\* A job that the service did not file remains one.
LEMMA ElsewhereStays ==
    ASSUME TypeOK, HandlersAreSound, UnpublishedIsNobodys, [Next]_vars,
           NEW i, NEW k, NEW s, FiledElsewhere(i, k, s)
    PROVE  FiledElsewhere(i, k, s)'
BY FiledWithGrows DEF FiledElsewhere

LEMMA KeyIsHeldStep ==
    ASSUME TypeOK, HandlersAreSound, UnpublishedIsNobodys, OneInside, KeyIsHeld,
           KeyIsOneRequest, [Next]_vars
    PROVE  KeyIsHeld'
<1>1. ASSUME NEW g \in Handler, NEW i \in Idem, NEW k,
             handler'[g].pc = "named", handler'[g].idem = i, handler'[g].key = k,
             NEW l \in FiledWith(i)', filer'[l].service = ServiceOf[g]
      PROVE  \/ KeyOf(l) = k
             \/ FiledElsewhere(i, k, ServiceOf[g])'
             \/ FiledElsewhere(i, KeyOf(l), ServiceOf[g])'
  <2>1. handler[g] \in HandlerState
    BY DEF TypeOK
  <2>2. CASE handler'[g] = handler[g]
    <3>1. handler[g].pc = "named" /\ handler[g].idem = i /\ i # NoIdem /\ handler[g].key = k
      BY <1>1, <2>2
    <3>2. CASE l \in FiledWith(i)
      <4>1. filer[l].service = ServiceOf[g]
        BY <1>1, <3>2, FiledWithGrows
      <4>2. \/ KeyOf(l) = k
            \/ FiledElsewhere(i, k, ServiceOf[g])
            \/ FiledElsewhere(i, KeyOf(l), ServiceOf[g])
        BY <3>1, <3>2, <4>1 DEF KeyIsHeld
      <4> QED BY <4>2, ElsewhereStays
    <3>3. CASE l \notin FiledWith(i)
      <4>1. l \in Job /\ ~IsPublished(l) /\ IsPublished(l)'
        BY <1>1, <3>3, FiledWithGrows
      <4>2. ServiceOf[g] # NoService
        OBVIOUS
      <4>3. PICK h \in Handler : /\ handler[h].pc = "named"
                                 /\ handler'[h] = Idle
                                 /\ filer'[l].service = ServiceOf[h]
        BY <1>1, <4>1, <4>2, NewRecord
      <4>4. h = g
        BY <1>1, <3>1, <4>3 DEF OneInside, IsInside
      <4> QED BY <1>1, <4>3, <4>4 DEF Idle
    <3> QED BY <3>2, <3>3
  <2>3. CASE /\ ReadHistory(g)
             /\ KeyMayFile(handler[g].key, handler[g].idem)
             /\ handler'[g] = [handler[g] EXCEPT !.pc = "named",
                                                 !.ordinal = NextOrdinal(handler[g].key)]
    <3>1. k = handler[g].key /\ handler[g].idem = i
      BY <1>1, <2>1, <2>3 DEF HandlerState
    <3>2. status' = status /\ idem' = idem /\ filer' = filer
      BY <2>3 DEF ReadHistory, store, history
    <3>3. l \in FiledWith(i) /\ filer[l].service = ServiceOf[g]
      BY <1>1, <3>2 DEF FiledWith
    <3>4. PICK j \in FiledWith(i) : KeyOf(j) = k
      BY <2>3, <3>1, <3>3 DEF KeyMayFile
    <3>5. \/ KeyOf(l) = k
          \/ FiledElsewhere(i, k, ServiceOf[g])
          \/ FiledElsewhere(i, KeyOf(l), ServiceOf[g])
      <4>1. CASE filer[j].service = ServiceOf[g]
        BY <3>3, <3>4, <4>1 DEF KeyIsOneRequest
      <4>2. CASE filer[j].service # ServiceOf[g]
        BY <3>4, <4>2 DEF FiledElsewhere
      <4> QED BY <4>1, <4>2
    <3> QED BY <3>5, ElsewhereStays
  <2>4. CASE handler'[g] = Idle
    BY <1>1, <2>4 DEF Idle
  <2>5. ASSUME NEW q, NEW n, NEW c, handler'[g] = Request(q, n, c)
        PROVE  FALSE
    BY <1>1, <2>5 DEF Request
  <2>6. ASSUME handler'[g] = [handler[g] EXCEPT !.pc = "counted",
                                                !.opened = Cardinality(OpenJobs)]
        PROVE  FALSE
    BY <1>1, <2>1, <2>6 DEF HandlerState
  <2> QED BY <2>2, <2>3, <2>4, <2>5, <2>6, HandlerMoves
<1>2. ASSUME NEW g \in Handler, (handler[g].pc = "named" /\ handler[g].idem # NoIdem)'
      PROVE  handler'[g].idem \in Idem
  BY <1>2, TypeStep DEF TypeOK, HandlerState
<1> QED BY <1>1, <1>2 DEF KeyIsHeld

LEMMA KeyIsOneRequestStep ==
    ASSUME TypeOK, HandlersAreSound, UnpublishedIsNobodys, KeyIsHeld, KeyIsOneRequest,
           [Next]_vars
    PROVE  KeyIsOneRequest'
<1> DEFINE OneRequest(i, s, j, l) ==
              \/ KeyOf(j) = KeyOf(l)
              \/ FiledElsewhere(i, KeyOf(j), s)'
              \/ FiledElsewhere(i, KeyOf(l), s)'
<1>1. SUFFICES ASSUME NEW i \in Idem, NEW s \in Service,
                      NEW j0 \in FiledWith(i)', NEW l0 \in FiledWith(i)',
                      filer'[j0].service = s, filer'[l0].service = s
               PROVE  OneRequest(i, s, j0, l0)
  BY DEF KeyIsOneRequest
<1>2. ASSUME NEW j \in FiledWith(i), NEW l \in FiledWith(i),
             filer'[j].service = s, filer'[l].service = s
      PROVE  OneRequest(i, s, j, l)
  <2>1. filer[j].service = s /\ filer[l].service = s
    BY <1>2, FiledWithGrows
  <2>2. \/ KeyOf(j) = KeyOf(l)
        \/ FiledElsewhere(i, KeyOf(j), s)
        \/ FiledElsewhere(i, KeyOf(l), s)
    BY <2>1 DEF KeyIsOneRequest
  <2> QED BY <2>2, ElsewhereStays
<1>3. ASSUME NEW j \in FiledWith(i)', j \notin FiledWith(i), filer'[j].service = s,
             NEW l \in FiledWith(i), filer'[l].service = s
      PROVE  OneRequest(i, s, j, l) /\ OneRequest(i, s, l, j)
  <2>1. j \in Job /\ ~IsPublished(j) /\ IsPublished(j)' /\ idem'[j] = i
    BY <1>3, FiledWithGrows
  <2>2. PICK h \in Handler : /\ handler[h].pc = "named"
                             /\ KeyOf(j) = handler[h].key
                             /\ filer'[j].service = ServiceOf[h]
                             /\ idem'[j] = handler[h].idem
    BY <1>3, <2>1, NewRecord
  <2>3. filer[l].service = ServiceOf[h]
    BY <1>3, <2>2, FiledWithGrows
  <2>4. \/ KeyOf(l) = KeyOf(j)
        \/ FiledElsewhere(i, KeyOf(j), s)
        \/ FiledElsewhere(i, KeyOf(l), s)
    BY <1>3, <2>1, <2>2, <2>3 DEF KeyIsHeld
  <2> QED BY <2>4, ElsewhereStays
<1>4. ASSUME NEW j \in FiledWith(i)', j \notin FiledWith(i), filer'[j].service = s,
             NEW l \in FiledWith(i)', l \notin FiledWith(i), filer'[l].service = s
      PROVE  j = l
  <2>1. j \in Job /\ ~IsPublished(j) /\ IsPublished(j)' /\ filer'[j].service = s
        /\ l \in Job /\ ~IsPublished(l) /\ IsPublished(l)' /\ filer'[l].service = s
    BY <1>4, FiledWithGrows
  <2>2. CASE \E k \in Key : \A m \in Job : ~IsPublished(m) =>
                          IF m = reservation[k] THEN filer'[m] = Unfiled
                          ELSE ~IsPublished(m)' /\ filer'[m] = filer[m]
    BY <2>1, <2>2 DEF Unfiled
  <2>3. ASSUME NEW h \in Handler, handler[h].pc = "named", File(h)
        PROVE  j = l
    <3>1. <<handler[h].key, handler[h].ordinal>> \in Job
          /\ status' = [status EXCEPT ![<<handler[h].key, handler[h].ordinal>>] = "open"]
      BY <2>3, NamedFacts DEF File, Publish
    <3> QED BY <2>1, <3>1 DEF TypeOK
  <2> QED BY <2>1, <2>2, <2>3, Publication
<1> QED BY <1>1, <1>2, <1>3, <1>4


-------------------------------------------------------------------------------
\* The client's cap

\* What an open job may have been, and how one comes to be open.
LEMMA NewOpen ==
    ASSUME TypeOK, HandlersAreSound, UnpublishedIsNobodys, [Next]_vars,
           NEW j \in Job, IsOpen(j)'
    PROVE  \/ IsOpen(j) /\ filer'[j] = filer[j]
           \/ filer'[j] = Unfiled
           \/ \E h \in Handler :
                 /\ handler[h].pc = "named" /\ File(h) /\ Returns(h)
                 /\ j = <<handler[h].key, handler[h].ordinal>>
                 /\ filer'[j] = [service |-> ServiceOf[h], client |-> handler[h].client]
<1>1. ASSUME NEW l \in Job, NEW who, ~IsPublished(l), Publish(l, who)
      PROVE  IsOpen(j) \/ ~IsPublished(j)
  BY <1>1 DEF Publish, TypeOK
<1>2. IsOpen(j) \/ ~IsPublished(j)
  <2>1. CASE UNCHANGED status
    BY <2>1
  <2>2. ASSUME NEW h \in Handler, HandlerStep(h), ~Enqueue(h)
        PROVE  UNCHANGED status
    BY <2>2 DEF HandlerStep, Ask, PrepareInputs, CountOpen, ReadHistory, Abandon
  <2>3. ASSUME NEW h \in Handler, Enqueue(h)
        PROVE  IsOpen(j) \/ ~IsPublished(j)
    <3>1. handler[h].pc = "named"
      BY <2>3 DEF Enqueue
    <3>2. CASE Join(h) \/ Refuse(h) \/ FileInterrupted(h)
      <4>1. UNCHANGED status
        BY <3>2 DEF Join, Refuse, FileInterrupted, FilePart
      <4> QED BY <4>1
    <3>3. CASE JoinIntent(h)
      <4>1. reservation[handler[h].key] \in Job
        BY <3>1, <3>3, NamedFacts DEF JoinIntent, TypeOK
      <4> QED BY <3>3, <4>1, <1>1 DEF JoinIntent
    <3>4. CASE File(h)
      BY <3>1, <3>4, <1>1, NamedFacts DEF File, MayFile
    <3> QED BY <2>3, <3>2, <3>3, <3>4 DEF Enqueue
  <2>4. CASE \E p \in Process : ProcessStep(p)
    BY <2>1, <2>4 DEF ProcessStep, Crash, WindowEnds
  <2>5. ASSUME NEW l \in Job, Finish(l) \/ FileAnswer(l)
        PROVE  IsOpen(j)
    BY <2>5 DEF Finish, FileAnswer, TypeOK
  <2>6. ASSUME NEW k \in Key, Recover(k)
        PROVE  IsOpen(j) \/ ~IsPublished(j)
    <3>1. reservation[k] \in Job
      BY <2>6 DEF Recover, TypeOK
    <3> QED BY <2>6, <3>1, <1>1 DEF Recover
  <2>7. CASE UNCHANGED vars
    BY <2>1, <2>7 DEF vars
  <2> QED BY <2>1, <2>2, <2>3, <2>4, <2>5, <2>6, <2>7 DEF Next, QueueStep
<1>3. ASSUME NEW h \in Handler, handler[h].pc = "named", File(h), ~IsPublished(j)
      PROVE  /\ j = <<handler[h].key, handler[h].ordinal>>
             /\ filer'[j] = [service |-> ServiceOf[h], client |-> handler[h].client]
  <2> DEFINE l == <<handler[h].key, handler[h].ordinal>>
  <2>1. l \in Job /\ status' = [status EXCEPT ![l] = "open"]
        /\ filer' = [filer EXCEPT ![l] = [service |-> ServiceOf[h],
                                           client |-> handler[h].client]]
    BY <1>3, NamedFacts DEF File, Publish
  <2>2. j = l
    BY <1>3, <2>1 DEF TypeOK
  <2> QED BY <2>1, <2>2 DEF TypeOK
<1>4. IsPublished(j)'
  OBVIOUS
<1> QED BY <1>2, <1>3, <1>4, Publication

\* What becomes of the ownership of a job that stays open.
LEMMA OwnerMoves ==
    ASSUME TypeOK, HandlersAreSound, [Next]_vars, NEW s \in Service
    PROVE  /\ forgotten \subseteq forgotten'
           /\ \/ \A j \in Job : IsOpen(j) => owner'[s][j] = owner[s][j]
              \/ \A j \in Job : filer[j] # Unfiled /\ filer[j].service = s => j \in forgotten'
<1> DEFINE Kept == \A j \in Job : IsOpen(j) => owner'[s][j] = owner[s][j]
<1>0. owner \in [Service -> [Job -> Client \cup {NoClient}]]
  BY DEF TypeOK
<1>1. CASE UNCHANGED <<owner, forgotten>>
  BY <1>1
<1>2. ASSUME NEW t \in Service, owner' = [owner EXCEPT ![t] = Pruned(t)]
      PROVE  Kept
  BY <1>0, <1>2 DEF Pruned
<1>3. ASSUME NEW p \in Process, Dies(p)
      PROVE  /\ forgotten \subseteq forgotten'
             /\ Kept \/ \A j \in Job : filer[j] # Unfiled /\ filer[j].service = s
                                           => j \in forgotten'
  BY <1>0, <1>3 DEF Dies
<1>4. ASSUME NEW h \in Handler, handler[h].pc = "named", File(h)
      PROVE  forgotten' = forgotten /\ Kept
  <2> DEFINE l == <<handler[h].key, handler[h].ordinal>>
             t == ServiceOf[h]
  <2>1. l \in Job /\ ~IsPublished(l) /\ t \in Service
    BY <1>4, NamedFacts DEF File, MayFile
  <2>2. owner' = [owner EXCEPT ![t] = [Pruned(t) EXCEPT ![l] = handler[h].client]]
        /\ forgotten' = forgotten
    BY <1>4 DEF File
  <2>3. \A j \in Job : IsOpen(j) => j # l
    BY <2>1
  <2>4. CASE s = t
    <3>1. owner'[s] = [Pruned(s) EXCEPT ![l] = handler[h].client]
      BY <1>0, <2>2, <2>4
    <3>2. Pruned(s) \in [Job -> Client \cup {NoClient}]
      BY PrunedTypes
    <3>3. \A j \in Job : j # l => owner'[s][j] = Pruned(s)[j]
      BY <3>1, <3>2
    <3> QED BY <2>2, <2>3, <3>3 DEF Pruned
  <2>5. CASE s # t
    BY <1>0, <2>2, <2>5
  <2> QED BY <2>4, <2>5
<1>5. ASSUME NEW h \in Handler, Enqueue(h)
      PROVE  \/ UNCHANGED <<owner, forgotten>>
             \/ owner' = [owner EXCEPT ![ServiceOf[h]] = Pruned(ServiceOf[h])]
                   /\ UNCHANGED forgotten
             \/ Dies(ProcessOf[ServiceOf[h]])
             \/ handler[h].pc = "named" /\ File(h)
  BY <1>5 DEF Enqueue, Join, JoinIntent, Refuse, FileInterrupted
<1>6. ASSUME NEW h \in Handler
      PROVE  ServiceOf[h] \in Service /\ ProcessOf[ServiceOf[h]] \in Process
  OBVIOUS
<1>7. CASE \E h \in Handler : HandlerStep(h)
  <2>1. ASSUME NEW h \in Handler, HandlerStep(h), ~Enqueue(h)
        PROVE  UNCHANGED <<owner, forgotten>>
    BY <2>1 DEF HandlerStep, Ask, PrepareInputs, CountOpen, ReadHistory, Abandon
  <2> QED BY <1>7, <2>1, <1>1, <1>2, <1>3, <1>4, <1>5, <1>6
<1>8. CASE \E p \in Process : ProcessStep(p)
  <2>1. ASSUME NEW p \in Process, NEW b \in Client \cup Entry, WindowEnds(p, b)
        PROVE  UNCHANGED <<owner, forgotten>>
    BY <2>1 DEF WindowEnds
  <2> QED BY <1>8, <2>1, <1>1, <1>3 DEF ProcessStep, Crash
<1>9. CASE QueueStep
  BY <1>9, <1>1 DEF QueueStep, Finish, FileAnswer, Recover
<1>10. CASE UNCHANGED vars
  BY <1>10, <1>1 DEF vars
<1> QED BY <1>7, <1>8, <1>9, <1>10 DEF Next

LEMMA OwnersStep ==
    ASSUME TypeOK, HandlersAreSound, UnpublishedIsNobodys, OwnersAreKnown, [Next]_vars
    PROVE  OwnersAreKnown'
<1>1. SUFFICES ASSUME NEW s \in Service, NEW c \in Client, NEW j \in Job, IsOpen(j)',
                      j \notin forgotten', filer'[j] = [service |-> s, client |-> c]
               PROVE  owner'[s][j] = c
  BY DEF OwnersAreKnown, OpenFiledBy
<1>2. filer'[j] # Unfiled
  BY <1>1 DEF Unfiled
<1>3. CASE IsOpen(j) /\ filer'[j] = filer[j]
  <2>1. j \notin forgotten
    BY <1>1, OwnerMoves
  <2>2. owner[s][j] = c
    BY <1>1, <1>3, <2>1 DEF OwnersAreKnown, OpenFiledBy
  <2>3. filer[j] # Unfiled /\ filer[j].service = s
    BY <1>1, <1>2, <1>3
  <2> QED BY <1>1, <1>3, <2>2, <2>3, OwnerMoves
<1>4. ASSUME NEW h \in Handler, handler[h].pc = "named", File(h),
             j = <<handler[h].key, handler[h].ordinal>>,
             filer'[j] = [service |-> ServiceOf[h], client |-> handler[h].client]
      PROVE  owner'[s][j] = c
  <2>1. s = ServiceOf[h] /\ c = handler[h].client
    BY <1>1, <1>4
  <2>2. owner' = [owner EXCEPT ![s] = [Pruned(s) EXCEPT ![j] = c]]
    BY <1>4, <2>1 DEF File
  <2>3. Pruned(s) \in [Job -> Client \cup {NoClient}]
    BY PrunedTypes
  <2> QED BY <2>2, <2>3 DEF TypeOK
<1> QED BY <1>1, <1>2, <1>3, <1>4, NewOpen

LEMMA AddOne ==
    ASSUME NEW S, NEW x, IsFiniteSet(S)
    PROVE  /\ IsFiniteSet(S \cup {x})
           /\ Cardinality(S \cup {x}) \in Nat
           /\ Cardinality(S \cup {x}) <= Cardinality(S) + 1
<1>1. IsFiniteSet(S \cup {x})
      /\ Cardinality(S \cup {x}) = IF x \in S THEN Cardinality(S) ELSE Cardinality(S) + 1
  BY FS_AddElement
<1>2. Cardinality(S) \in Nat /\ Cardinality(S \cup {x}) \in Nat
  BY <1>1, FS_CardinalityType
<1> QED BY <1>1, <1>2

LEMMA ClientCapStep ==
    ASSUME TypeOK, HandlersAreSound, UnpublishedIsNobodys, OwnersAreKnown, ClientCapHolds,
           [Next]_vars
    PROVE  ClientCapHolds'
<1>1. SUFFICES ASSUME NEW s \in Service, NEW c \in Client
               PROVE  Cardinality(OpenFiledBy(s, c)') <= MaxPerClient
  BY DEF ClientCapHolds
<1> DEFINE S == OpenFiledBy(s, c)
           T == OpenFiledBy(s, c)'
           IsHis(h) == /\ handler[h].pc = "named" /\ File(h)
                       /\ ServiceOf[h] = s /\ handler[h].client = c
<1>2. S \in SUBSET Job /\ T \in SUBSET Job
  BY DEF OpenFiledBy
<1>3. IsFiniteSet(S) /\ IsFiniteSet(T) /\ Cardinality(S) \in Nat /\ Cardinality(T) \in Nat
  BY <1>2, CountsAreNat
<1>4. Cardinality(S) <= MaxPerClient
  BY DEF ClientCapHolds
<1>5. ASSUME NEW j \in T, j \notin S
      PROVE  \E h \in Handler : IsHis(h) /\ j = <<handler[h].key, handler[h].ordinal>>
  <2>1. j \in Job /\ IsOpen(j)' /\ j \notin forgotten'
        /\ filer'[j] = [service |-> s, client |-> c]
    BY <1>5 DEF OpenFiledBy
  <2>2. j \notin forgotten
    BY <2>1, OwnerMoves
  <2>3. ~(IsOpen(j) /\ filer'[j] = filer[j])
    BY <1>5, <2>1, <2>2 DEF OpenFiledBy
  <2>4. filer'[j] # Unfiled
    BY <2>1 DEF Unfiled
  <2>5. PICK h \in Handler :
            /\ handler[h].pc = "named" /\ File(h)
            /\ j = <<handler[h].key, handler[h].ordinal>>
            /\ filer'[j] = [service |-> ServiceOf[h], client |-> handler[h].client]
    BY <2>1, <2>3, <2>4, NewOpen
  <2> QED BY <2>1, <2>5
<1>6. CASE T \subseteq S
  BY <1>3, <1>4, <1>6, FS_Subset
<1>7. ASSUME NEW h \in Handler, IsHis(h)
      PROVE  Cardinality(T) <= MaxPerClient
  <2> DEFINE l == <<handler[h].key, handler[h].ordinal>>
             O == OwnedBy(Pruned(s), c)
  <2>1. Cardinality(O) \in Nat /\ O \in SUBSET Job /\ IsFiniteSet(O)
    BY CountsAreNat DEF OwnedBy
  <2>2. Cardinality(O) < MaxPerClient
    BY <1>7, <2>1 DEF File, MayFile, IsAtClientCap
  <2>3. S \subseteq O
    BY DEF OpenFiledBy, OwnedBy, Pruned, OwnersAreKnown
  <2>4. Cardinality(S) <= Cardinality(O)
    BY <2>1, <2>3, FS_Subset
  <2>5. T \subseteq S \cup {l}
    <3>1. SUFFICES ASSUME NEW j \in T, j \notin S
                   PROVE  j = l
      OBVIOUS
    <3>2. status' = [status EXCEPT ![l] = "open"] /\ l \in Job
          /\ filer' = [filer EXCEPT ![l] = [service |-> s, client |-> c]]
          /\ forgotten' = forgotten
      BY <1>7, NamedFacts DEF File, Publish
    <3> QED BY <3>1, <3>2 DEF OpenFiledBy, TypeOK
  <2>6. IsFiniteSet(S \cup {l}) /\ Cardinality(S \cup {l}) <= Cardinality(S) + 1
    BY <1>3, AddOne
  <2>7. Cardinality(T) <= Cardinality(S \cup {l}) /\ Cardinality(S \cup {l}) \in Nat
    BY <2>5, <2>6, FS_Subset, FS_CardinalityType
  <2> QED BY <1>3, <2>1, <2>2, <2>4, <2>6, <2>7
<1> QED BY <1>5, <1>6, <1>7

-------------------------------------------------------------------------------
\* The queue's cap

LEMMA CappedIsFinite ==
    /\ IsFiniteSet(Capped) /\ Cardinality(Capped) \in Nat
    /\ \A P \in SUBSET Capped :
          IsFiniteSet(P) /\ Cardinality(P) \in Nat /\ Cardinality(P) <= Cardinality(Capped)
<1>1. IsFiniteSet(Capped)
  BY FS_Subset
<1> QED BY <1>1, FS_Subset, FS_CardinalityType

\* The arithmetic of a step: D and P are the jobs and the permits before, E and Q after.
LEMMA PermitsAreUsedUp ==
    ASSUME NEW D \in SUBSET Job, NEW E \in SUBSET Job,
           NEW P \in SUBSET Capped, NEW Q \in SUBSET Capped,
           Cardinality(D) >= MaxOpen =>
               Cardinality(D) + Cardinality(P) <= MaxOpen + Cardinality(Capped) - 1,
           Cardinality(E) >= MaxOpen,
           \/ E \subseteq D /\ Q \subseteq P
           \/ \E l \in Job, s \in P : E \subseteq D \cup {l} /\ Q \subseteq P \ {s}
    PROVE  Cardinality(E) + Cardinality(Q) <= MaxOpen + Cardinality(Capped) - 1
<1>1. /\ IsFiniteSet(D) /\ Cardinality(D) \in Nat /\ IsFiniteSet(E) /\ Cardinality(E) \in Nat
      /\ IsFiniteSet(P) /\ Cardinality(P) \in Nat /\ IsFiniteSet(Q) /\ Cardinality(Q) \in Nat
      /\ Cardinality(Capped) \in Nat /\ Cardinality(P) <= Cardinality(Capped)
  BY CountsAreNat, CappedIsFinite
<1>2. CASE E \subseteq D /\ Q \subseteq P
  <2>1. Cardinality(E) <= Cardinality(D) /\ Cardinality(Q) <= Cardinality(P)
    BY <1>1, <1>2, FS_Subset
  <2> QED BY <1>1, <2>1
<1>3. ASSUME NEW l \in Job, NEW s \in P, E \subseteq D \cup {l}, Q \subseteq P \ {s}
      PROVE  Cardinality(E) + Cardinality(Q) <= MaxOpen + Cardinality(Capped) - 1
  <2>1. IsFiniteSet(D \cup {l}) /\ Cardinality(D \cup {l}) <= Cardinality(D) + 1
        /\ Cardinality(D \cup {l}) \in Nat
    BY <1>1, AddOne
  <2>2. IsFiniteSet(P \ {s}) /\ Cardinality(P \ {s}) = Cardinality(P) - 1
    BY <1>1, FS_RemoveElement
  <2>3. Cardinality(E) <= Cardinality(D \cup {l})
    BY <1>3, <2>1, FS_Subset
  <2>4. Cardinality(Q) <= Cardinality(P \ {s})
    BY <1>3, <2>2, FS_Subset
  <2> QED BY <1>1, <2>1, <2>2, <2>3, <2>4
<1> QED BY <1>2, <1>3

LEMMA CapStep ==
    ASSUME TypeOK, HandlersAreSound, UnpublishedIsNobodys, OneInside, CapIsShared, [Next]_vars
    PROVE  CapIsShared'
<1> DEFINE D == OpenFiledByCapped
           E == OpenFiledByCapped'
           P == Permitted
           Q == Permitted'
           IsAdmitted(h) == handler[h].pc = "named" /\ File(h) /\ Returns(h)
                            /\ ServiceOf[h] \in Capped
<1>1. D \in SUBSET Job /\ E \in SUBSET Job /\ P \in SUBSET Capped /\ Q \in SUBSET Capped
  BY DEF OpenFiledByCapped, Permitted
<1>2. ASSUME NEW j \in E, j \notin D
      PROVE  \E h \in Handler : IsAdmitted(h)
  <2>1. j \in Job /\ IsOpen(j)' /\ filer'[j].service \in Capped
    BY <1>2 DEF OpenFiledByCapped
  <2>2. ~(IsOpen(j) /\ filer'[j] = filer[j]) /\ filer'[j] # Unfiled
    BY <1>2, <2>1 DEF OpenFiledByCapped, Unfiled
  <2>3. PICK h \in Handler :
            /\ handler[h].pc = "named" /\ File(h) /\ Returns(h)
            /\ filer'[j] = [service |-> ServiceOf[h], client |-> handler[h].client]
    BY <2>1, <2>2, NewOpen
  <2> QED BY <2>1, <2>3
<1>3. ASSUME NEW s \in Q, s \notin P
      PROVE  Cardinality(E) < MaxOpen
  <2>1. PICK g \in Handler : ServiceOf[g] = s /\ IsInside(g)' /\ (handler[g].opened < MaxOpen)'
    BY <1>3 DEF Permitted
  <2>2. handler[g] \in HandlerState
    BY DEF TypeOK
  <2>3. ~(IsInside(g) /\ handler[g].opened < MaxOpen)
    BY <1>1, <1>3, <2>1 DEF Permitted
  <2>4. CountOpen(g) /\ Cardinality(OpenJobs) < MaxOpen
    <3>1. handler'[g] # handler[g]
      BY <2>1, <2>3 DEF IsInside
    <3>2. handler'[g] # Idle /\ \A k, i, c : handler'[g] # Request(k, i, c)
      BY <2>1 DEF IsInside, Idle, Request
    <3>3. ASSUME ReadHistory(g),
                 handler'[g] = [handler[g] EXCEPT !.pc = "named",
                                                  !.ordinal = NextOrdinal(handler[g].key)]
          PROVE  FALSE
      <4>1. handler'[g].opened = handler[g].opened /\ IsInside(g)
        BY <2>2, <3>3 DEF HandlerState, ReadHistory, IsInside
      <4> QED BY <2>1, <2>3, <4>1
    <3>4. CountOpen(g) /\ handler'[g] = [handler[g] EXCEPT !.pc = "counted",
                                                           !.opened = Cardinality(OpenJobs)]
      BY <3>1, <3>2, <3>3, HandlerMoves
    <3>5. handler'[g].opened = Cardinality(OpenJobs)
      BY <2>2, <3>4 DEF HandlerState
    <3> QED BY <2>1, <3>4, <3>5
  <2>5. E \subseteq OpenJobs
    BY <2>4 DEF CountOpen, OpenFiledByCapped, OpenJobs
  <2>6. IsFiniteSet(OpenJobs) /\ Cardinality(OpenJobs) \in Nat
    BY CountsAreNat DEF OpenJobs
  <2>7. Cardinality(E) <= Cardinality(OpenJobs) /\ Cardinality(E) \in Nat
    BY <1>1, <2>5, <2>6, FS_Subset, CountsAreNat
  <2> QED BY <2>4, <2>6, <2>7
<1>4. ASSUME NEW h \in Handler, IsAdmitted(h)
      PROVE  \E l \in Job, s \in P : E \subseteq D \cup {l} /\ Q \subseteq P \ {s}
  <2> DEFINE l == <<handler[h].key, handler[h].ordinal>>
             s == ServiceOf[h]
  <2>1. l \in Job /\ status' = [status EXCEPT ![l] = "open"]
        /\ \E who : filer' = [filer EXCEPT ![l] = who]
    BY <1>4, NamedFacts DEF File, Publish
  <2>2. E \subseteq D \cup {l}
    BY <2>1 DEF OpenFiledByCapped, TypeOK
  <2>3. handler[h].opened < MaxOpen /\ IsInside(h)
    BY <1>4 DEF File, MayFile, IsFull, IsInside, TypeOK, HandlerState
  <2>4. s \in P
    BY <1>4, <2>3 DEF Permitted
  <2>5. ASSUME NEW t \in Q
        PROVE  t \in P \ {s}
    <3>1. PICK g \in Handler : ServiceOf[g] = t /\ IsInside(g)' /\ (handler[g].opened < MaxOpen)'
      BY <2>5 DEF Permitted
    <3>2. handler' = [handler EXCEPT ![h] = Idle]
      BY <1>4 DEF Returns
    <3>3. g # h
      BY <3>1, <3>2 DEF IsInside, Idle, TypeOK
    <3>4. handler'[g] = handler[g]
      BY <3>2, <3>3 DEF TypeOK
    <3>5. IsInside(g) /\ handler[g].opened < MaxOpen
      BY <3>1, <3>4 DEF IsInside
    <3>6. t # s
      BY <2>3, <3>1, <3>3, <3>5 DEF OneInside
    <3> QED BY <1>1, <2>5, <3>1, <3>5, <3>6 DEF Permitted
  <2> QED BY <2>1, <2>2, <2>4, <2>5
<1>5. ASSUME Cardinality(E) >= MaxOpen
      PROVE  Cardinality(E) + Cardinality(Q) <= MaxOpen + Cardinality(Capped) - 1
  <2>1. Q \subseteq P
    <3>1. Cardinality(E) \in Nat
      BY <1>1, CountsAreNat
    <3> QED BY <1>3, <1>5, <3>1
  <2>2. CASE E \subseteq D
    BY <1>1, <1>5, <2>1, <2>2, PermitsAreUsedUp DEF CapIsShared
  <2>3. CASE ~(E \subseteq D)
    <3>1. \E l \in Job, s \in P : E \subseteq D \cup {l} /\ Q \subseteq P \ {s}
      BY <1>2, <1>4, <2>3
    <3> QED BY <1>1, <1>5, <3>1, PermitsAreUsedUp DEF CapIsShared
  <2> QED BY <2>2, <2>3
<1> QED BY <1>5 DEF CapIsShared

-------------------------------------------------------------------------------
\* Jobs from intents

\* An interrupted submission leaves at most its own job promised.
LEMMA InterruptedPromise ==
    ASSUME TypeOK, HandlersAreSound, NEW h \in Handler, handler[h].pc = "named",
           FileInterrupted(h)
    PROVE  /\ Promised' \subseteq Promised \cup {<<handler[h].key, handler[h].ordinal>>}
           /\ faults' = faults + 1
<1> DEFINE l == <<handler[h].key, handler[h].ordinal>>
<1>1. faults' = faults + 1
  BY DEF FileInterrupted, Dies, Fault
<1>2. PICK n \in 1..3 : FilePart(h, n)
  BY DEF FileInterrupted
<1>3. ASSUME NEW j \in Job, j \in Promised', j # l
      PROVE  j \in Promised
  <2>1. UNCHANGED <<status, filer>>
    BY <1>2 DEF FilePart
  <2>2. CASE IsPublished(j)
    BY <1>3, <2>1, <2>2 DEF Promised
  <2>3. CASE ~IsPublished(j)
    <3>1. KeyOf(j) \in Key /\ j # NoJob /\ reservation'[KeyOf(j)] = j
      BY <1>3, <2>1, <2>3, JobIds DEF Promised
    <3>2. reservation'[KeyOf(j)] \in {l, NoJob, reservation[KeyOf(j)]}
      BY <1>2, <3>1 DEF FilePart, TypeOK
    <3> QED BY <1>3, <2>3, <3>1, <3>2 DEF Promised
  <2> QED BY <2>2, <2>3
<1> QED BY <1>1, <1>3 DEF Promised

\* No other step makes a promise: a filed job has a filer, and the rest reserve nothing.
LEMMA NoOtherPromise ==
    ASSUME TypeOK, HandlersAreSound, UnpublishedIsNobodys, ReservationsAreSound, [Next]_vars,
           \A h \in Handler : ~(handler[h].pc = "named" /\ FileInterrupted(h))
    PROVE  Promised' \subseteq Promised /\ faults' \in {faults, faults + 1}
<1>1. faults' \in {faults, faults + 1}
  <2>1. ASSUME NEW h \in Handler, HandlerStep(h)
        PROVE  faults' = faults
    BY <2>1 DEF HandlerStep, Ask, PrepareInputs, CountOpen, ReadHistory, Enqueue, Abandon,
                Join, JoinIntent, Refuse, File
  <2>2. ASSUME NEW p \in Process, ProcessStep(p)
        PROVE  faults' \in {faults, faults + 1}
    BY <2>2 DEF ProcessStep, Crash, WindowEnds, Dies, Fault
  <2>3. CASE QueueStep
    BY <2>3 DEF QueueStep, Finish, FileAnswer, Recover
  <2>4. CASE UNCHANGED vars
    BY <2>4 DEF vars
  <2> QED BY <2>1, <2>2, <2>3, <2>4 DEF Next
<1>2. ASSUME NEW j \in Job, j \in Promised', j \notin Promised
      PROVE  FALSE
  <2>1. ~IsPublished(j)
    BY <1>2, Publication DEF Promised
  <2>2. KeyOf(j) \in Key /\ j # NoJob /\ reservation[KeyOf(j)] # j
    BY <1>2, <2>1, JobIds DEF Promised
  <2>3. ASSUME NEW h \in Handler, handler[h].pc = "named", File(h)
        PROVE  FALSE
    <3> DEFINE l == <<handler[h].key, handler[h].ordinal>>
    <3>1. /\ l \in Job /\ KeyOf(l) = handler[h].key /\ ServiceOf[h] \in Service
          /\ status' = [status EXCEPT ![l] = "open"]
          /\ filer' = [filer EXCEPT ![l] = [service |-> ServiceOf[h],
                                             client |-> handler[h].client]]
          /\ reservation' = [reservation EXCEPT ![handler[h].key] = l]
      BY <2>3, NamedFacts DEF File, Publish
    <3>2. CASE j = l
      <4>1. IsPublished(j)' /\ filer'[j].service = ServiceOf[h]
        BY <3>1, <3>2 DEF TypeOK
      <4> QED BY <1>2, <3>1, <4>1 DEF Promised, Unfiled
    <3>3. CASE j # l
      <4>1. ~IsPublished(j)'
        BY <2>1, <3>1, <3>3 DEF TypeOK
      <4>2. reservation'[KeyOf(j)] \in {l, reservation[KeyOf(j)]}
        BY <2>2, <3>1 DEF TypeOK
      <4> QED BY <1>2, <2>2, <3>3, <4>1, <4>2 DEF Promised
    <3> QED BY <3>2, <3>3
  <2>4. CASE IsPublished(j)'
    <3>1. PICK k \in Key : Reserved(k) /\ j = reservation[k]
      BY <2>1, <2>3, <2>4, Publication
    <3> QED BY <2>2, <3>1 DEF ReservationsAreSound
  <2>5. CASE ~IsPublished(j)'
    <3>1. reservation'[KeyOf(j)] = j
      BY <1>2, <2>5 DEF Promised
    <3>2. ASSUME NEW h \in Handler, HandlerStep(h)
          PROVE  FALSE
      <4>1. CASE Enqueue(h)
        <5>1. handler[h].pc = "named"
          BY <4>1 DEF Enqueue
        <5>2. CASE Join(h) \/ JoinIntent(h)
          BY <2>2, <3>1, <5>2 DEF Join, JoinIntent
        <5>3. CASE Refuse(h)
          <6>1. reservation'[KeyOf(j)] \in {NoJob, reservation[KeyOf(j)]}
            BY <2>2, <5>3 DEF Refuse, TypeOK
          <6> QED BY <2>2, <3>1, <6>1
        <5> QED BY <2>3, <4>1, <5>1, <5>2, <5>3 DEF Enqueue
      <4>2. CASE ~Enqueue(h)
        <5>1. UNCHANGED reservation
          BY <3>2, <4>2 DEF HandlerStep, Ask, PrepareInputs, CountOpen, ReadHistory, Abandon
        <5> QED BY <2>2, <3>1, <5>1
      <4> QED BY <4>1, <4>2
    <3>3. ASSUME NEW p \in Process, ProcessStep(p)
          PROVE  FALSE
      BY <2>2, <3>1, <3>3 DEF ProcessStep, Crash, WindowEnds
    <3>4. CASE QueueStep
      <4>1. reservation'[KeyOf(j)] \in {NoJob, reservation[KeyOf(j)]}
        BY <2>2, <3>4 DEF QueueStep, Finish, FileAnswer, Recover, TypeOK
      <4> QED BY <2>2, <3>1, <4>1
    <3>5. CASE UNCHANGED vars
      BY <2>2, <3>1, <3>5 DEF vars
    <3> QED BY <3>2, <3>3, <3>4, <3>5 DEF Next
  <2> QED BY <2>4, <2>5
<1> QED BY <1>1, <1>2 DEF Promised

LEMMA PromisesStep ==
    ASSUME TypeOK, HandlersAreSound, UnpublishedIsNobodys, ReservationsAreSound,
           PromisesArePaid, [Next]_vars
    PROVE  PromisesArePaid'
<1>1. /\ IsFiniteSet(Promised) /\ Cardinality(Promised) \in Nat
      /\ IsFiniteSet(Promised') /\ Cardinality(Promised') \in Nat
      /\ faults \in Nat
  BY CountsAreNat DEF Promised, TypeOK
<1>2. ASSUME NEW h \in Handler, handler[h].pc = "named", FileInterrupted(h)
      PROVE  PromisesArePaid'
  <2> DEFINE l == <<handler[h].key, handler[h].ordinal>>
  <2>1. Promised' \subseteq Promised \cup {l} /\ faults' = faults + 1
    BY <1>2, InterruptedPromise
  <2>2. /\ IsFiniteSet(Promised \cup {l}) /\ Cardinality(Promised \cup {l}) \in Nat
        /\ Cardinality(Promised \cup {l}) <= Cardinality(Promised) + 1
    BY <1>1, AddOne
  <2>3. Cardinality(Promised') <= Cardinality(Promised \cup {l})
    BY <2>1, <2>2, FS_Subset
  <2> QED BY <1>1, <2>1, <2>2, <2>3 DEF PromisesArePaid
<1>3. CASE \A h \in Handler : ~(handler[h].pc = "named" /\ FileInterrupted(h))
  <2>1. Promised' \subseteq Promised /\ faults' \in {faults, faults + 1}
    BY <1>3, NoOtherPromise
  <2>2. Cardinality(Promised') <= Cardinality(Promised)
    BY <1>1, <2>1, FS_Subset
  <2> QED BY <1>1, <2>1, <2>2 DEF PromisesArePaid
<1> QED BY <1>2, <1>3

-------------------------------------------------------------------------------
\* The theorems

LEMMA InitIsSound == Init => IInv
<1> SUFFICES ASSUME Init PROVE IInv
  OBVIOUS
<1>1. TypeOK
  <2>1. Idle \in HandlerState
    BY DEF HandlerState, Idle
  <2>2. UNION {Asks[s] : s \in Capped} \subseteq Key
    OBVIOUS
  <2> QED BY <2>1, <2>2 DEF Init, TypeOK, Unfiled
<1>2. HandlersAreSound /\ OneInside /\ KeyIsHeld
  BY DEF Init, HandlersAreSound, OneInside, KeyIsHeld, IsInside, Idle
<1>3. ReservationsAreSound /\ UnpublishedIsNobodys /\ SpecIsThere /\ NamesAreDense
  BY DEF Init, ReservationsAreSound, UnpublishedIsNobodys, SpecIsThere, NamesAreDense
<1>4. KeyIsOneRequest
  BY DEF Init, KeyIsOneRequest, FiledWith
<1>5. \A s \in Service, c \in Client : OpenFiledBy(s, c) = {}
  BY DEF Init, OpenFiledBy
<1>6. OwnersAreKnown
  BY <1>5 DEF OwnersAreKnown
<1>7. ClientCapHolds
  <2>1. 0 <= MaxPerClient
    OBVIOUS
  <2>2. Cardinality({}) = 0
    BY FS_EmptySet
  <2> QED BY <1>5, <2>1, <2>2 DEF ClientCapHolds
<1>8. CapIsShared
  <2>1. OpenFiledByCapped = {}
    BY DEF Init, OpenFiledByCapped
  <2> QED BY <2>1, FS_EmptySet DEF CapIsShared
<1>9. PromisesArePaid
  <2>1. Promised = {}
    BY JobIds DEF Init, Promised
  <2> QED BY <2>1, FS_EmptySet DEF Init, PromisesArePaid
<1> QED BY <1>1, <1>2, <1>3, <1>4, <1>6, <1>7, <1>8, <1>9 DEF IInv

LEMMA IInvStep == IInv /\ [Next]_vars => IInv'
<1> SUFFICES ASSUME IInv, [Next]_vars PROVE IInv'
  OBVIOUS
<1>1. TypeOK' /\ HandlersAreSound' /\ OneInside' /\ ReservationsAreSound'
      /\ UnpublishedIsNobodys'
  BY TypeStep, HandlersStep, OneInsideStep, ReservationsStep, UnpublishedStep DEF IInv
<1>2. SpecIsThere' /\ NamesAreDense'
  BY SpecStep, DenseStep DEF IInv
<1>3. KeyIsHeld' /\ KeyIsOneRequest'
  BY KeyIsHeldStep, KeyIsOneRequestStep DEF IInv
<1>4. OwnersAreKnown' /\ ClientCapHolds' /\ CapIsShared' /\ PromisesArePaid'
  BY OwnersStep, ClientCapStep, CapStep, PromisesStep DEF IInv
<1> QED BY <1>1, <1>2, <1>3, <1>4 DEF IInv

\* The inductive invariant holds in every reachable state.
THEOREM IInvHolds == Spec => []IInv
BY InitIsSound, IInvStep, PTL DEF Spec

\* Every variable of the submission model keeps its type.
THEOREM TypeCorrect == Spec => []TypeOK
<1>1. IInv => TypeOK
  BY DEF IInv
<1> QED BY <1>1, IInvHolds, PTL

\* A service files an Idempotency-Key for two addresses only if at one of the two the key is
\* also on a job of another service, or on one that recovery published from an intent.
THEOREM OneRequestPerKey == Spec => []KeyIsOneRequest
<1>1. IInv => KeyIsOneRequest
  BY DEF IInv
<1> QED BY <1>1, IInvHolds, PTL

\* A client never has more open jobs with a service than its cap while the process lives.
THEOREM ClientsAreCapped == Spec => []ClientCapHolds
<1>1. IInv => ClientCapHolds
  BY DEF IInv
<1> QED BY <1>1, IInvHolds, PTL

\* A published or promised job always has its stored request.
THEOREM RequestsAreStored == Spec => []SpecIsThere
<1>1. IInv => SpecIsThere
  BY DEF IInv
<1> QED BY <1>1, IInvHolds, PTL

\* The ordinals of an address never have a gap.
THEOREM OrdinalsAreDense == Spec => []NamesAreDense
<1>1. IInv => NamesAreDense
  BY DEF IInv
<1> QED BY <1>1, IInvHolds, PTL

\* Capped services that count together pass the queue's cap by at most one job for each
\* of the others, and each interrupted submission adds at most one job beside the cap.
THEOREM QueueIsCapped == Spec => []QueueCapHolds
<1>1. IInv => QueueCapHolds
  <2> SUFFICES ASSUME IInv PROVE QueueCapHolds
    OBVIOUS
  <2>1. Cardinality(OpenFiledByCapped) \in Nat
    BY CountsAreNat DEF OpenFiledByCapped
  <2>2. Cardinality(Permitted) \in Nat /\ Cardinality(Capped) \in Nat
    BY CappedIsFinite DEF Permitted
  <2>3. /\ IsFiniteSet(Promised) /\ Cardinality(Promised) \in Nat /\ faults \in Nat
        /\ Cardinality(OpenUnfiled) \in Nat
    BY CountsAreNat DEF Promised, OpenUnfiled, IInv, TypeOK
  <2>4. OpenUnfiled \subseteq Promised
    BY DEF OpenUnfiled, Promised
  <2>5. Cardinality(OpenUnfiled) <= Cardinality(Promised)
    BY <2>3, <2>4, FS_Subset
  <2> QED BY <2>1, <2>2, <2>3, <2>5 DEF IInv, CapIsShared, PromisesArePaid, QueueCapHolds
<1> QED BY <1>1, IInvHolds, PTL

-------------------------------------------------------------------------------
\* The member's budget

\* Only a thread that files a job spends from an entry's bucket.
LEMMA SpentByFiling ==
    ASSUME TypeOK, HandlersAreSound, [Next]_vars, NEW p \in Process, NEW e \in Entry,
           used'[p][e] > used[p][e]
    PROVE  \E h \in Handler :
               /\ handler[h].pc = "named" /\ File(h)
               /\ p = ProcessOf[ServiceOf[h]] /\ e = EntryOf[handler[h].key]
<1>1. used \in [Process -> [Client \cup Entry -> 0..Budget]]
  BY DEF TypeOK
<1>2. used[p][e] \in 0..Budget
  BY <1>1
<1>3. used' # used
  BY <1>2
<1>4. ASSUME NEW h \in Handler, NEW b \in Client \cup Entry, Charge(h, b)
      PROVE  p = ProcessOf[ServiceOf[h]] /\ e = b
  BY <1>1, <1>2, <1>4 DEF Charge
<1>5. ASSUME NEW q \in Process, Dies(q)
      PROVE  FALSE
  <2>1. used' = [used EXCEPT ![q] = [b \in Client \cup Entry |-> 0]]
    BY <1>5 DEF Dies
  <2>2. CASE p = q
    <3>1. used'[p][e] = 0
      BY <1>1, <2>1, <2>2
    <3> QED BY <1>2, <3>1
  <2>3. CASE p # q
    <3>1. used'[p] = used[p]
      BY <1>1, <2>1, <2>3
    <3> QED BY <1>2, <3>1
  <2> QED BY <2>2, <2>3
<1>6. ASSUME NEW q \in Process, NEW b \in Client \cup Entry, WindowEnds(q, b)
      PROVE  FALSE
  BY <1>1, <1>2, <1>6 DEF WindowEnds
<1>7. ASSUME NEW h \in Handler, NEW k \in Key, NEW i \in Idem \cup {NoIdem}, NEW c \in Client,
             Ask(h, k, i, c) \/ PrepareInputs(h, k, i, c)
      PROVE  FALSE
  <2>1. Charge(h, c)
    BY <1>7 DEF Ask, PrepareInputs
  <2>2. e = c
    BY <2>1, <1>4
  <2> QED BY <2>2
<1>8. ASSUME NEW h \in Handler, Enqueue(h)
      PROVE  handler[h].pc = "named" /\ File(h)
  <2>1. ~(Join(h) \/ JoinIntent(h) \/ Refuse(h))
    BY <1>3 DEF Join, JoinIntent, Refuse
  <2>2. ProcessOf[ServiceOf[h]] \in Process
    OBVIOUS
  <2>3. ~FileInterrupted(h)
    BY <1>3, <1>5, <2>2 DEF FileInterrupted
  <2> QED BY <1>8, <2>1, <2>3 DEF Enqueue
<1>9. ASSUME NEW h \in Handler, Enqueue(h)
      PROVE  p = ProcessOf[ServiceOf[h]] /\ e = EntryOf[handler[h].key]
  <2>1. EntryOf[handler[h].key] \in Entry
    BY <1>8, <1>9, NamedFacts
  <2>2. Charge(h, EntryOf[handler[h].key])
    BY <1>8, <1>9 DEF File
  <2> QED BY <2>1, <2>2, <1>4
<1>10. ASSUME NEW h \in Handler, CountOpen(h) \/ ReadHistory(h) \/ Abandon(h)
       PROVE  FALSE
  BY <1>3, <1>10 DEF CountOpen, ReadHistory, Abandon
<1>11. CASE \E h \in Handler : HandlerStep(h)
  BY <1>11, <1>7, <1>8, <1>9, <1>10 DEF HandlerStep
<1>12. CASE \E q \in Process : ProcessStep(q)
  BY <1>12, <1>5, <1>6 DEF ProcessStep, Crash
<1>13. CASE QueueStep
  BY <1>3, <1>13 DEF QueueStep, Finish, FileAnswer, Recover
<1>14. CASE UNCHANGED vars
  BY <1>3, <1>14 DEF vars
<1> QED BY <1>11, <1>12, <1>13, <1>14 DEF Next

\* A member's budget is spent by a new job of theirs and by nothing else.
THEOREM BudgetIsSpentOnJobs == Spec => EntryChargedPerJob
<1>1. ASSUME IInv, [Next]_vars, NEW p \in Process, NEW e \in Entry
      PROVE  used'[p][e] > used[p][e]
                <=> \E j \in Job : EntryOf[KeyOf(j)] = e /\ IsNewlyFiled(j, p)
  <2>0. TypeOK /\ HandlersAreSound /\ UnpublishedIsNobodys
    BY <1>1 DEF IInv
  <2>1. ASSUME NEW h \in Handler, handler[h].pc = "named", File(h),
               p = ProcessOf[ServiceOf[h]], e = EntryOf[handler[h].key]
        PROVE  used'[p][e] > used[p][e]
    <3>1. Charge(h, e) /\ used \in [Process -> [Client \cup Entry -> 0..Budget]]
      BY <2>0, <2>1 DEF File, TypeOK
    <3>2. used'[p][e] = used[p][e] + 1 /\ used[p][e] \in 0..Budget
      BY <2>1, <3>1 DEF Charge
    <3> QED BY <3>2
  <2>2. ASSUME NEW h \in Handler, handler[h].pc = "named", File(h),
               p = ProcessOf[ServiceOf[h]], e = EntryOf[handler[h].key]
        PROVE  \E j \in Job : EntryOf[KeyOf(j)] = e /\ IsNewlyFiled(j, p)
    <3> DEFINE l == <<handler[h].key, handler[h].ordinal>>
    <3>1. l \in Job /\ KeyOf(l) = handler[h].key /\ ~IsPublished(l)
      BY <2>0, <2>2, NamedFacts DEF File, MayFile
    <3>2. filer'[l].service = ServiceOf[h]
      BY <2>0, <2>2, <3>1 DEF File, Publish, TypeOK
    <3> QED BY <2>2, <3>1, <3>2 DEF IsNewlyFiled
  <2>3. ASSUME NEW j \in Job, EntryOf[KeyOf(j)] = e, IsNewlyFiled(j, p)
        PROVE  \E h \in Handler :
                   /\ handler[h].pc = "named" /\ File(h)
                   /\ p = ProcessOf[ServiceOf[h]] /\ e = EntryOf[handler[h].key]
    <3>1. filer'[j].service \in Service /\ ProcessOf[filer'[j].service] = p
          /\ ~IsPublished(j)
      BY <2>3 DEF IsNewlyFiled
    <3>2. filer'[j] # Unfiled /\ filer'[j] # filer[j]
      BY <2>0, <3>1 DEF Unfiled, UnpublishedIsNobodys
    <3>3. PICK h \in Handler : handler[h].pc = "named" /\ File(h)
      BY <1>1, <2>0, <3>1, <3>2, Publication
    <3> DEFINE l == <<handler[h].key, handler[h].ordinal>>
    <3>4. l \in Job /\ KeyOf(l) = handler[h].key
          /\ filer' = [filer EXCEPT ![l] = [service |-> ServiceOf[h],
                                             client |-> handler[h].client]]
      BY <2>0, <3>3, NamedFacts DEF File, Publish
    <3>5. j = l
      BY <2>0, <3>2, <3>4 DEF TypeOK
    <3>6. filer'[j].service = ServiceOf[h]
      BY <2>0, <3>4, <3>5 DEF TypeOK
    <3> QED BY <2>3, <3>1, <3>3, <3>4, <3>5, <3>6
  <2> QED BY <1>1, <2>0, <2>1, <2>2, <2>3, SpentByFiling
<1>2. IInv /\ [Next]_vars =>
         [\A p \in Process, e \in Entry :
             used'[p][e] > used[p][e]
                <=> \E j \in Job : EntryOf[KeyOf(j)] = e /\ IsNewlyFiled(j, p)]_vars
  BY <1>1
<1> QED BY <1>2, IInvHolds, PTL DEF Spec, EntryChargedPerJob
-------------------------------------------------------------------------------
\* The store that submissions and workers share

LEMMA InitShares == Init => Queue!Init
BY DEF Init, Queue!Init

LEMMA SharedRecords ==
    /\ \A j \in Job : Queue!IsPublished(j) <=> IsPublished(j)
    /\ \A j \in Job : Queue!IsOpen(j) <=> IsOpen(j)
    /\ \A j \in Job : Queue!IsTerminal(j) <=> IsTerminal(j)
    /\ \A k \in Key : Queue!Reserved(k) <=> Reserved(k)
BY DEF Queue!IsPublished, Queue!IsOpen, Queue!IsTerminal, Queue!Reserved

\* A finished winner's reservation is taken back, or there was none.
LEMMA ReleaseShares ==
    ASSUME TypeOK, NEW k \in Key, IsNewWork(k), reservation' = [reservation EXCEPT ![k] = NoJob],
           UNCHANGED <<status, cached>>
    PROVE  [Queue!SharedStep]_Queue!vars
<1>1. CASE Reserved(k)
  <2>1. Queue!Release(k)
    <3>1. reservation[k] \in Job /\ IsTerminal(reservation[k])
      BY <1>1 DEF IsNewWork, TypeOK
    <3> QED BY <1>1, <3>1, SharedRecords DEF Queue!Release
  <2> QED BY <2>1 DEF Queue!SharedStep
<1>2. CASE ~Reserved(k)
  BY <1>2 DEF TypeOK, Queue!vars
<1> QED BY <1>1, <1>2

\* An intent is published, by the submission that joins it or by recovery.
LEMMA PublishShares ==
    ASSUME TypeOK, NEW k \in Key, Reserved(k), ~IsPublished(reservation[k]),
           \E who : Publish(reservation[k], who), UNCHANGED <<reservation, cached>>
    PROVE  Queue!SharedStep
<1>1. reservation[k] \in Job /\ status' = [status EXCEPT ![reservation[k]] = "open"]
  BY DEF TypeOK, Publish
<1>2. Queue!Publish(k)
  BY <1>1, SharedRecords DEF Queue!Publish
<1> QED BY <1>2 DEF Queue!SharedStep

\* Each write of a submission, interrupted ones included, is one of AdviceStore's steps of a
\* submission, or invisible there.
THEOREM HandlersShare ==
    ASSUME IInv, NEW h \in Handler, HandlerStep(h)
    PROVE  [Queue!SubmissionStep]_Queue!vars
<1>0. TypeOK /\ HandlersAreSound
  BY DEF IInv
<1>1. CASE UNCHANGED <<status, reservation, cached>>
  BY <1>1 DEF Queue!vars
<1>2. CASE ~Enqueue(h)
  BY <1>1, <1>2 DEF HandlerStep, Ask, PrepareInputs, CountOpen, ReadHistory, Abandon
<1>3. CASE Enqueue(h)
  <2>1. handler[h].pc = "named"
    BY <1>3 DEF Enqueue
  <2>2. PICK k \in Key : k = handler[h].key
    BY <1>0, <2>1, NamedFacts
  <2>3. PICK j \in Job : j = <<k, handler[h].ordinal>> /\ KeyOf(j) = k
    BY <1>0, <2>1, <2>2, NamedFacts
  <2>4. CASE Join(h)
    BY <1>1, <2>4 DEF Join
  <2>5. CASE JoinIntent(h)
    BY <1>0, <2>2, <2>5, PublishShares DEF JoinIntent, Queue!SubmissionStep
  <2>6. CASE Refuse(h)
    BY <1>0, <1>1, <2>2, <2>6, ReleaseShares DEF Refuse, Queue!SubmissionStep
  <2>7. ASSUME MayFile(h), UNCHANGED cached,
               reservation' = [reservation EXCEPT ![k] = j],
               status' = status \/ status' = [status EXCEPT ![j] = "open"]
        PROVE  Queue!SubmissionStep
    <3>1. ~Queue!IsPublished(j) /\ k \notin cached
      BY <2>2, <2>3, <2>7, SharedRecords DEF MayFile, IsNewWork
    <3>2. Queue!Reserved(k) => Queue!IsTerminal(reservation[k])
      BY <1>0, <2>2, <2>7, SharedRecords DEF MayFile, IsNewWork, TypeOK
    <3>3. Queue!File(j)
      BY <2>3, <2>7, <3>1, <3>2 DEF Queue!File
    <3> QED BY <3>3 DEF Queue!SubmissionStep
  <2>8. CASE File(h)
    BY <2>2, <2>3, <2>7, <2>8 DEF File, Publish
  <2>9. CASE FileInterrupted(h)
    <3>1. PICK n \in 1..3 : FilePart(h, n)
      BY <2>9 DEF FileInterrupted
    <3>2. MayFile(h) /\ UNCHANGED <<status, cached>>
      BY <3>1 DEF FilePart
    <3>3. CASE n = 1
      <4>1. reservation' = [reservation EXCEPT ![k] = reservation[k]]
        BY <2>2, <3>1, <3>3 DEF FilePart
      <4> QED BY <1>0, <1>1, <3>2, <4>1 DEF TypeOK
    <3>4. CASE n = 2
      <4>1. reservation' = [reservation EXCEPT ![k] = NoJob] /\ IsNewWork(k)
        BY <2>2, <3>1, <3>4 DEF FilePart, MayFile
      <4> QED BY <1>0, <3>2, <4>1, ReleaseShares DEF Queue!SubmissionStep
    <3>5. CASE n = 3
      <4>1. reservation' = [reservation EXCEPT ![k] = j]
        BY <2>2, <2>3, <3>1, <3>5 DEF FilePart
      <4> QED BY <2>7, <3>2, <4>1
    <3> QED BY <3>3, <3>4, <3>5
  <2> QED BY <1>3, <2>4, <2>5, <2>6, <2>8, <2>9 DEF Enqueue
<1> QED BY <1>2, <1>3

\* What a submission expects of the workers is what AdviceStore allows them.
LEMMA QueueShares ==
    ASSUME IInv, QueueStep
    PROVE  [Queue!WorkerStep]_Queue!vars
<1>0. TypeOK
  BY DEF IInv
<1>1. ASSUME NEW j \in Job, Finish(j)
      PROVE  Queue!WorkerStep
  <2>1. Queue!Finish(j)
    BY <1>1, SharedRecords DEF Finish, Queue!Finish
  <2> QED BY <2>1 DEF Queue!WorkerStep
<1>2. ASSUME NEW j \in Job, FileAnswer(j)
      PROVE  Queue!WorkerStep
  <2>1. Queue!FileAnswer(j)
    BY <1>2, SharedRecords DEF FileAnswer, Queue!FileAnswer
  <2> QED BY <2>1 DEF Queue!WorkerStep
<1>3. ASSUME NEW k \in Key, Recover(k)
      PROVE  Queue!WorkerStep
  <2>1. CASE ~IsPublished(reservation[k])
    BY <1>0, <1>3, <2>1, PublishShares DEF Recover, Queue!WorkerStep
  <2>2. CASE IsTerminal(reservation[k])
    <3>1. reservation[k] \in Job
      BY <1>0, <1>3 DEF Recover, TypeOK
    <3>2. Queue!Release(k)
      BY <1>3, <2>2, <3>1, SharedRecords DEF Recover, Queue!Release
    <3> QED BY <3>2 DEF Queue!SharedStep, Queue!WorkerStep
  <2> QED BY <1>3, <2>1, <2>2 DEF Recover
<1> QED BY <1>1, <1>2, <1>3 DEF QueueStep

LEMMA NextShares == IInv /\ [Next]_vars => [Queue!Next]_Queue!vars
<1> SUFFICES ASSUME IInv, [Next]_vars PROVE [Queue!Next]_Queue!vars
  OBVIOUS
<1>1. CASE UNCHANGED vars
  BY <1>1 DEF vars, Queue!vars
<1>2. CASE \E p \in Process : ProcessStep(p)
  BY <1>2 DEF ProcessStep, Crash, WindowEnds, Queue!vars
<1> QED BY <1>1, <1>2, HandlersShare, QueueShares DEF Next, Queue!Next

\* Submissions write the shared store only as AdviceStore allows them, and expect nothing of
\* the workers that AdviceStore does not.
THEOREM Refinement == Spec => Refines
<1> QED BY InitShares, NextShares, IInvHolds, PTL DEF Spec, Refines, Queue!Spec

-------------------------------------------------------------------------------
\* Submissions beside any worker

\* Whatever AdviceStore allows a worker to do to the records, the reservations and the
\* answers may happen at any time; what is the submissions' alone it leaves as it is.
AnyWorkerStep ==
    /\ Queue!WorkerStep
    /\ UNCHANGED <<idem, spec, prepared, owner, used, handler, history, faults>>

OpenNext ==
    \/ \E h \in Handler : HandlerStep(h)
    \/ \E p \in Process : ProcessStep(p)
    \/ AnyWorkerStep

OpenSpec == Init /\ [][OpenNext]_vars

LEMMA WorkerIsExpected ==
    ASSUME IInv, AnyWorkerStep
    PROVE  [QueueStep]_vars
<1>0. TypeOK /\ UnpublishedIsNobodys
  BY DEF IInv
<1>1. ASSUME NEW k \in Key, Queue!Publish(k)
      PROVE  Recover(k)
  <2>1. reservation[k] \in Job /\ Reserved(k) /\ ~IsPublished(reservation[k])
    BY <1>0, <1>1, SharedRecords DEF Queue!Publish, TypeOK
  <2>2. filer' = [filer EXCEPT ![reservation[k]] = Unfiled]
    <3>1. filer[reservation[k]] = Unfiled /\ filer' = filer
      BY <1>0, <2>1 DEF UnpublishedIsNobodys, AnyWorkerStep, history
    <3> QED BY <1>0, <3>1 DEF TypeOK
  <2> QED BY <1>1, <2>1, <2>2 DEF Queue!Publish, Recover, Publish, AnyWorkerStep, history
<1>2. ASSUME NEW k \in Key, Queue!Release(k)
      PROVE  Recover(k)
  <2>1. reservation[k] \in Job /\ Reserved(k) /\ IsTerminal(reservation[k])
    BY <1>0, <1>2, SharedRecords DEF Queue!Release, TypeOK
  <2> QED BY <1>2, <2>1 DEF Queue!Release, Recover, AnyWorkerStep, history
<1>3. ASSUME NEW j \in Job, Queue!Finish(j)
      PROVE  Finish(j)
  BY <1>3, SharedRecords DEF Queue!Finish, Finish, AnyWorkerStep, history
<1>4. ASSUME NEW j \in Job, Queue!FileAnswer(j)
      PROVE  FileAnswer(j) \/ UNCHANGED vars
  BY <1>4, SharedRecords
     DEF Queue!FileAnswer, FileAnswer, AnyWorkerStep, history, store, vars
<1> QED BY <1>1, <1>2, <1>3, <1>4
           DEF AnyWorkerStep, Queue!WorkerStep, Queue!SharedStep, QueueStep

\* A QueueStep leaves what is the submissions' alone as it is, filer included: the intent
\* that recovery publishes was nobody's.
LEMMA QueueIsAWorker ==
    ASSUME IInv, QueueStep
    PROVE  [AnyWorkerStep]_vars
<1>1. UNCHANGED <<idem, spec, prepared, owner, used, handler, history, faults>>
  <2>1. ASSUME NEW k \in Key, Recover(k)
        PROVE  UNCHANGED <<idem, spec, prepared, owner, used, handler, history, faults>>
    <3>1. reservation[k] \in Job
      BY <2>1 DEF IInv, TypeOK, Recover
    <3>2. UNCHANGED filer
      BY <2>1, <3>1 DEF IInv, TypeOK, UnpublishedIsNobodys, Recover, Publish
    <3> QED BY <2>1, <3>2 DEF Recover, history
  <2> QED BY <2>1 DEF QueueStep, Finish, FileAnswer
<1>2. [Queue!WorkerStep]_Queue!vars
  BY QueueShares
<1> QED BY <1>1, <1>2 DEF AnyWorkerStep, Queue!vars, vars, store, history

\* The submissions' model beside its QueueStep is their model beside any worker that keeps
\* to AdviceStore, whatever it does and however often it dies: what is proved of Spec holds
\* beside AdviceQueue's workers, which keep to AdviceStore (WorkersShare there).
THEOREM AnyWorkerIsExpected == OpenSpec <=> Spec
<1>1. IInv /\ [OpenNext]_vars => [Next]_vars
  BY WorkerIsExpected DEF OpenNext, Next
<1>2. IInv /\ [Next]_vars => [OpenNext]_vars
  BY QueueIsAWorker DEF OpenNext, Next
<1>3. OpenSpec => Spec
  BY <1>1, InitIsSound, IInvStep, PTL DEF OpenSpec, Spec
<1>4. Spec => OpenSpec
  BY <1>2, IInvHolds, PTL DEF OpenSpec, Spec
<1> QED BY <1>3, <1>4

-------------------------------------------------------------------------------
\* What the store's promises are here

Promises == INSTANCE AdviceStore_proofs WITH AddressOf <- [j \in Job |-> KeyOf(j)]

\* However many threads, services and processes submit, and wherever they are interrupted,
\* an address has at most one open job.
THEOREM OneOpenJob == Spec => []Queue!OneOpenJobPerKey
<1>1. Promises!JobsAreAddressed
  BY JobIds DEF Promises!JobsAreAddressed
<1>2. Queue!Init => Promises!Init
  BY DEF Queue!Init, Promises!Init
<1>3. [Queue!Next]_Queue!vars => [Promises!Next]_Promises!vars
  BY DEF Queue!vars, Queue!Next, Queue!SubmissionStep, Queue!WorkerStep, Queue!SharedStep,
         Queue!Publish, Queue!Release, Queue!File, Queue!Finish, Queue!FileAnswer,
         Queue!Reserved, Queue!IsPublished, Queue!IsOpen, Queue!IsTerminal,
         Promises!vars, Promises!Next, Promises!SubmissionStep, Promises!WorkerStep,
         Promises!SharedStep, Promises!Publish, Promises!Release, Promises!File,
         Promises!Finish, Promises!FileAnswer, Promises!Reserved, Promises!IsPublished,
         Promises!IsOpen, Promises!IsTerminal
<1>4. Promises!OneOpenJobPerKey => Queue!OneOpenJobPerKey
  BY DEF Promises!OneOpenJobPerKey, Queue!OneOpenJobPerKey, Promises!IsOpen, Queue!IsOpen
<1>5. Promises!Spec => []Promises!OneOpenJobPerKey
  BY <1>1, Promises!OneOpenJob
<1> QED BY <1>2, <1>3, <1>4, <1>5, Refinement, PTL DEF Refines, Queue!Spec, Promises!Spec

===============================================================================
