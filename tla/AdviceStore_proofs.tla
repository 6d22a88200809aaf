-------------------------- MODULE AdviceStore_proofs --------------------------
(***************************************************************************)
(* Proofs about AdviceStore: the promises that submissions and workers keep *)
(* together, whatever the order of their steps.  Both detailed              *)
(* specifications implement AdviceStore, so both inherit them.              *)
(***************************************************************************)
EXTENDS AdviceStore, TLAPS

\* Every job is for an address, and no job is called NoJob.
JobsAreAddressed == AddressOf \in [Job -> Key] /\ NoJob \notin Job

LEMMA InitIsSound ==
    ASSUME JobsAreAddressed, Init
    PROVE  IInv
BY DEF JobsAreAddressed, Init, IInv, TypeOK, Status, ReservationsAgree, CompletedIsAnswered,
       Reserved, IsOpen

LEMMA IInvStep ==
    ASSUME JobsAreAddressed, IInv, [Next]_vars
    PROVE  IInv'
<1> USE DEF JobsAreAddressed, IInv, TypeOK, Status, ReservationsAgree, CompletedIsAnswered,
            Reserved, IsOpen, IsPublished, IsTerminal
<1>1. ASSUME NEW k \in Key, Publish(k)
      PROVE  IInv'
  <2>1. reservation[k] \in Job /\ AddressOf[reservation[k]] = k
    BY <1>1 DEF Publish
  <2> QED BY <1>1, <2>1 DEF Publish
<1>2. ASSUME NEW k \in Key, Release(k)
      PROVE  IInv'
  BY <1>2 DEF Release
<1>3. ASSUME NEW j \in Job, File(j)
      PROVE  IInv'
  <2>1. \A i \in Job : IsOpen(i) => AddressOf[i] # AddressOf[j]
    BY <1>3 DEF File
  <2>2. TypeOK' /\ CompletedIsAnswered'
    BY <1>3 DEF File
  <2>3. ReservationsAgree'
    BY <1>3, <2>1 DEF File
  <2> QED BY <2>2, <2>3
<1>4. ASSUME NEW j \in Job, Finish(j)
      PROVE  IInv'
  <2>1. \A i \in Job : IsOpen(i) /\ i # j => AddressOf[i] # AddressOf[j]
    BY <1>4 DEF Finish
  <2>2. TypeOK' /\ CompletedIsAnswered'
    BY <1>4 DEF Finish
  <2>3. ReservationsAgree'
    BY <1>4, <2>1 DEF Finish
  <2> QED BY <2>2, <2>3
<1>5. ASSUME NEW j \in Job, FileAnswer(j)
      PROVE  IInv'
  BY <1>5 DEF FileAnswer
<1>6. CASE UNCHANGED vars
  BY <1>6 DEF vars
<1> QED BY <1>1, <1>2, <1>3, <1>4, <1>5, <1>6 DEF Next, SharedStep, SubmissionStep, WorkerStep

\* The inductive invariant of the shared store.
THEOREM IInvHolds == ASSUME JobsAreAddressed PROVE Spec => []IInv
BY InitIsSound, IInvStep, PTL DEF Spec

\* However submissions and workers interleave, an address has at most one open job.
THEOREM OneOpenJob == ASSUME JobsAreAddressed PROVE Spec => []OneOpenJobPerKey
<1>1. IInv => OneOpenJobPerKey
  BY DEF IInv, ReservationsAgree, OneOpenJobPerKey
<1> QED BY <1>1, IInvHolds, PTL

\* A job that is completed can be answered, and stays so.
THEOREM CompletedAreAnswered == ASSUME JobsAreAddressed PROVE Spec => []CompletedIsAnswered
<1>1. IInv => CompletedIsAnswered
  BY DEF IInv
<1> QED BY <1>1, IInvHolds, PTL
===============================================================================
