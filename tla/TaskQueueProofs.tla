-------------------------- MODULE TaskQueueProofs --------------------------
(***************************************************************************)
(* Proofs about TaskQueue for every capacity, every set of threads, every  *)
(* number of tasks, failures, stops and signals.                           *)
(***************************************************************************)
EXTENDS TaskQueue, Sequences, TLAPS

\* The steps that are not pure logic name the SMT solver.
USE Zenon
USE DEF ring, flags, efds, locals, mutexes, others, apps

\* The successor of an index, without the modulus.
LEMMA NextIndex ==
    ASSUME NEW i \in Idx
    PROVE  /\ Next1(i) \in Idx
           /\ Next1(i) = IF i = Capacity - 1 THEN 0 ELSE i + 1
BY SMT, CapacityAssumption DEF Next1, Idx

\* Init (InitRepo) is well typed.
LEMMA TypeInit == Init => TypeOK
<1> SUFFICES ASSUME Init PROVE TypeOK
  OBVIOUS
<1>1. /\ datas \in [Idx -> Nat] /\ read_idx \in Idx /\ write_idx \in Idx
      /\ head \in Nat /\ tail \in Nat /\ before \in [Threads -> Nat]
  BY SMT, CapacityAssumption DEF Init, Idx
<1>2. /\ readWorking \in BOOLEAN /\ writeWorking \in BOOLEAN /\ need_empty \in BOOLEAN
      /\ efd_read \in BOOLEAN /\ efd_write \in BOOLEAN /\ efd_empty \in BOOLEAN
  BY DEF Init
<1>3. /\ pc \in [Threads -> ThreadPC] /\ cpc \in ConsumerPC /\ repo_status \in RepoStatus
      /\ dpc \in {"d_idle", "d_wake", "d_join", "d_done"} /\ fault \in Failures \cup {"none"}
  BY DEF Init, ThreadPC, ConsumerPC, RepoStatus
<1>4. /\ mu_enqueue \in Threads \cup {NoThread} /\ mu_empty \in Threads \cup {NoThread}
      /\ first \in SUBSET Threads /\ left \in [Events -> Nat] /\ bad \in SUBSET Nat
  BY BudgetAssumption DEF Init
<1> QED
  BY <1>1, <1>2, <1>3, <1>4 DEF TypeOK

\* Every step of an application thread keeps the types.
LEMMA TypeThread ==
    ASSUME TypeOK, NEW t \in Threads, ThreadStep(t)
    PROVE  TypeOK'
<1> USE DEF TypeOK, Goto, Branch, ThreadPC, EnqueuePC, SyncPC
<1>1. CASE \E exempt \in BOOLEAN : WriteQueueLock(t, exempt)
  BY SMT, <1>1 DEF WriteQueueLock
<1>2. CASE EnqueueCatch(t)
  BY SMT, <1>2 DEF EnqueueCatch, RepoStatus
<1>3. CASE SetWriteWorking(t)
  <2>1. writeWorking' \in BOOLEAN
    BY <1>3 DEF SetWriteWorking
  <2> QED
    BY SMT, <1>3, <2>1 DEF SetWriteWorking
<1>4. CASE EnqueueTest(t)
  BY SMT, <1>4 DEF EnqueueTest
<1>5. CASE WriteQueueCopy(t)
  BY SMT, <1>5 DEF WriteQueueCopy
<1>6. CASE WriteQueuePublish(t)
  BY SMT, <1>6, NextIndex DEF WriteQueuePublish
<1>7. CASE EnqueueWake(t)
  <2>1. efd_read' \in BOOLEAN
    BY <1>7 DEF EnqueueWake
  <2> QED
    BY SMT, <1>7, <2>1 DEF EnqueueWake
<1>8. CASE EnqueueWait(t)
  <2>1. efd_write' \in BOOLEAN
    BY <1>8 DEF EnqueueWait
  <2> QED
    BY SMT, <1>8, <2>1 DEF EnqueueWait
<1>9. CASE EnqueueAfter(t)
  BY SMT, <1>9 DEF EnqueueAfter
<1>10. CASE SyncTest(t)
  BY SMT, <1>10 DEF SyncTest
<1>11. CASE SyncNeed(t)
  <2>1. need_empty' \in BOOLEAN
    BY <1>11 DEF SyncNeed
  <2> QED
    BY SMT, <1>11, <2>1 DEF SyncNeed
<1>12. CASE SyncWait(t)
  <2>1. efd_empty' \in BOOLEAN
    BY <1>12 DEF SyncWait
  <2> QED
    BY SMT, <1>12, <2>1 DEF SyncWait
<1>13. CASE SyncClear(t)
  <2>1. need_empty' \in BOOLEAN
    BY <1>13 DEF SyncClear
  <2> QED
    BY SMT, <1>13, <2>1 DEF SyncClear
<1>14. CASE SyncStatus(t)
  BY SMT, <1>14 DEF SyncStatus, Return
<1>15. CASE SyncCatch(t)
  BY SMT, <1>15 DEF SyncCatch, Return, RepoStatus
<1>16. CASE SyncChange(t)
  BY SMT, <1>16 DEF SyncChange, Return, RepoStatus
<1> QED
  BY <1>1, <1>2, <1>3, <1>4, <1>5, <1>6, <1>7, <1>8, <1>9, <1>10, <1>11, <1>12,
     <1>13, <1>14, <1>15, <1>16 DEF ThreadStep

\* While ReadQueue handles a failure it knows which one: without this the types
\* are not inductive, since CheckDeviceError stores the status of the failure.
HandledFault == cpc \in {"c_ignore", "c_error", "c_error2"} => fault \in Failures

\* Only Call enters the failure path, and only ClearQueueWake forgets the failure.
LEMMA FaultNext == HandledFault /\ [Next]_vars => HandledFault'
<1> SUFFICES ASSUME HandledFault, [Next]_vars PROVE HandledFault'
  OBVIOUS
<1> USE DEF HandledFault
<1>1. CASE ConsumerStep
  <2> USE DEF CGoto, CBranch
  <2>1. CASE Call
    BY <2>1, FaultAssumption DEF Call
  <2>2. CASE ConsumerStatus \/ ConsumerExit \/ SetReadWorking \/ ConsumerTest
    BY <2>2 DEF ConsumerStatus, ConsumerExit, SetReadWorking, ConsumerTest
  <2>3. CASE Release \/ IgnoreOtherTasks \/ CheckDeviceError
    BY <2>3 DEF Release, IgnoreOtherTasks, CheckDeviceError
  <2>4. CASE ClearQueue \/ ClearQueueWake \/ DequeueWake \/ DequeueWait
    BY <2>4 DEF ClearQueue, ClearQueueWake, DequeueWake, DequeueWait
  <2> QED
    BY <1>1, <2>1, <2>2, <2>3, <2>4 DEF ConsumerStep
<1>2. CASE DequeueInterrupt
  BY <1>2 DEF DequeueInterrupt, CGoto
<1>3. CASE StopDevice \/ RestartDevice \/ Destroy
  BY <1>3 DEF StopDevice, RestartDevice, Destroy
<1>4. ASSUME NEW t \in Threads,
             \/ \E exempt \in BOOLEAN : EnqueueCall(t, exempt)
             \/ SyncCall(t) \/ ThreadStep(t) \/ Interrupt(t)
      PROVE  HandledFault'
  BY <1>4 DEF EnqueueCall, SyncCall, Interrupt, ThreadStep, EnqueueCatch, SetWriteWorking,
     EnqueueTest, WriteQueueLock, WriteQueueCopy, WriteQueuePublish, EnqueueWake,
     EnqueueWait, EnqueueAfter, SyncTest, SyncNeed, SyncWait, SyncClear, SyncStatus,
     SyncCatch, SyncChange
<1>5. CASE UNCHANGED vars
  BY <1>5 DEF vars
<1> QED
  BY <1>1, <1>2, <1>3, <1>4, <1>5 DEF Next

\* Recording a loss keeps the type of the history variable.
LEMMA LoseType ==
    ASSUME bad \in SUBSET Nat, NEW n \in Nat, Lose(n)
    PROVE  bad' \in SUBSET Nat
<1>1. CASE bad = {}
  BY <1>1 DEF Lose
<1>2. CASE bad # {}
  BY <1>2 DEF Lose
<1> QED
  BY <1>1, <1>2

\* Every step of the consumer thread keeps the types.
LEMMA TypeConsumer ==
    ASSUME TypeOK, HandledFault, ConsumerStep
    PROVE  TypeOK'
<1> USE DEF TypeOK, CGoto, CBranch, ConsumerPC
<1>0. datas[read_idx] \in Nat
  OBVIOUS
<1>1. CASE ConsumerStatus
  BY SMT, <1>1 DEF ConsumerStatus
<1>2. CASE ConsumerExit
  BY SMT, <1>2 DEF ConsumerExit, RepoStatus
<1>3. CASE SetReadWorking
  <2>1. readWorking' \in BOOLEAN
    BY <1>3 DEF SetReadWorking
  <2> QED
    BY SMT, <1>3, <2>1 DEF SetReadWorking
<1>4. CASE ConsumerTest
  BY SMT, <1>4 DEF ConsumerTest
<1>5. CASE Call
  <2>1. bad' \in SUBSET Nat
    BY <1>5, <1>0, LoseType DEF Call
  <2>2. left' \in [Events -> Nat] /\ fault' \in Failures \cup {"none"}
    BY SMT, <1>5, FaultAssumption DEF Call, Spend, Events
  <2> QED
    BY SMT, <1>5, <2>1, <2>2 DEF Call
<1>6. CASE Release
  BY SMT, <1>6, NextIndex DEF Release, Pop
<1>7. CASE IgnoreOtherTasks
  <2>1. bad' \in SUBSET Nat
    BY <1>7, <1>0, LoseType DEF IgnoreOtherTasks
  <2> QED
    BY SMT, <1>7, <2>1, NextIndex DEF IgnoreOtherTasks, Pop
<1>8. CASE CheckDeviceError
  <2>1. repo_status' \in RepoStatus
    BY <1>8 DEF CheckDeviceError, FailureStatus, HandledFault, Failures, RepoStatus,
       DeviceErrors
  <2> QED
    BY SMT, <1>8, <2>1 DEF CheckDeviceError
<1>9. CASE ClearQueue
  <2>1. bad' \in SUBSET Nat
    BY <1>9, <1>0, LoseType DEF ClearQueue
  <2> QED
    BY SMT, <1>9, <2>1 DEF ClearQueue, ClearIndex
<1>10. CASE ClearQueueWake
  <2>1. efd_empty' \in BOOLEAN /\ efd_write' \in BOOLEAN
    BY <1>10 DEF ClearQueueWake
  <2> QED
    BY SMT, <1>10, <2>1 DEF ClearQueueWake
<1>11. CASE DequeueWake
  <2>1. efd_empty' \in BOOLEAN /\ efd_write' \in BOOLEAN
    BY <1>11 DEF DequeueWake
  <2> QED
    BY SMT, <1>11, <2>1 DEF DequeueWake
<1>12. CASE DequeueWait
  <2>1. efd_read' \in BOOLEAN
    BY <1>12 DEF DequeueWait
  <2> QED
    BY SMT, <1>12, <2>1 DEF DequeueWait
<1> QED
  BY <1>1, <1>2, <1>3, <1>4, <1>5, <1>6, <1>7, <1>8, <1>9, <1>10, <1>11, <1>12
     DEF ConsumerStep

\* Every step of the system keeps the types.
LEMMA TypeNext == TypeOK /\ HandledFault /\ [Next]_vars => TypeOK'
<1> SUFFICES ASSUME TypeOK, HandledFault, [Next]_vars PROVE TypeOK'
  OBVIOUS
<1> USE DEF TypeOK, Spend, Events
<1>1. ASSUME NEW t \in Threads, NEW exempt \in BOOLEAN, EnqueueCall(t, exempt)
      PROVE  TypeOK'
  BY SMT, <1>1 DEF EnqueueCall, Goto, ThreadPC, EnqueuePC
<1>2. ASSUME NEW t \in Threads, SyncCall(t)
      PROVE  TypeOK'
  BY SMT, <1>2 DEF SyncCall, Goto, ThreadPC, SyncPC
<1>3. ASSUME NEW t \in Threads, ThreadStep(t)
      PROVE  TypeOK'
  BY <1>3, TypeThread
<1>4. ASSUME NEW t \in Threads, Interrupt(t)
      PROVE  TypeOK'
  BY SMT, <1>4 DEF Interrupt, Goto, ThreadPC, EnqueuePC, SyncPC
<1>5. CASE ConsumerStep
  BY <1>5, TypeConsumer
<1>6. CASE DequeueInterrupt
  BY SMT, <1>6 DEF DequeueInterrupt, CGoto, ConsumerPC
<1>7. CASE StopDevice
  BY SMT, <1>7 DEF StopDevice, RepoStatus, DeviceErrors
<1>8. CASE RestartDevice
  BY SMT, <1>8 DEF RestartDevice, RepoStatus
<1>9. CASE Destroy
  <2>1. efd_empty' \in BOOLEAN /\ efd_write' \in BOOLEAN /\ efd_read' \in BOOLEAN
    BY <1>9 DEF Destroy, EscapeWait
  <2>2. dpc' \in {"d_idle", "d_wake", "d_join", "d_done"} /\ left' \in [Events -> Nat]
    BY SMT, <1>9 DEF Destroy
  <2>3. repo_status' \in RepoStatus
    BY <1>9 DEF Destroy, RepoStatus
  <2> QED
    BY <1>9, <2>1, <2>2, <2>3 DEF Destroy
<1>10. CASE UNCHANGED vars
  BY SMT, <1>10 DEF vars
<1> QED
  BY <1>1, <1>2, <1>3, <1>4, <1>5, <1>6, <1>7, <1>8, <1>9, <1>10 DEF Next

\* The type invariant of the queue: in particular both indices stay inside the
\* ring and the status stays one of RepoStatus, whatever the interleaving.
THEOREM TypeCorrect == Spec => []TypeOK
<1>1. Init => HandledFault
  BY DEF Init, HandledFault
<1> QED
  BY <1>1, TypeInit, TypeNext, FaultNext, PTL DEF Spec

(***************************************************************************)
(* The ring is a FIFO and no slot is overwritten.                          *)
(***************************************************************************)

\* NoOverwrite and RingIsFifo are not inductive: the step of write_idx adds a
\* slot to the queue, so what WriteQueue copied into it must be remembered.
Copied == \A t \in Threads : pc[t] = "e_publish" => datas[write_idx] = tail
RingInv == TypeOK /\ NoOverwrite /\ RingIsFifo /\ Copied

\* What the two tests of the ring mean in terms of its length.
LEMMA RingLength ==
    ASSUME TypeOK
    PROVE  /\ \A i \in Idx : Dist(i) \in 0 .. Capacity - 1
           /\ IsEmptyQueue <=> Dist(write_idx) = 0
           /\ IsFullQueue <=> Dist(write_idx) = Capacity - 1
<1>1. \A i \in Idx : Dist(i) \in 0 .. Capacity - 1
  BY SMT, CapacityAssumption DEF TypeOK, Idx, Dist
<1>2. IsEmptyQueue <=> Dist(write_idx) = 0
  BY SMT, CapacityAssumption DEF TypeOK, Idx, Dist, IsEmptyQueue
<1>3. Next1(write_idx) = IF write_idx = Capacity - 1 THEN 0 ELSE write_idx + 1
  BY NextIndex DEF TypeOK
<1>4. IsFullQueue <=> Dist(write_idx) = Capacity - 1
  BY SMT, <1>3, CapacityAssumption DEF TypeOK, Idx, Dist, IsFullQueue
<1> QED
  BY <1>1, <1>2, <1>4

\* Taking a task moves every remaining one a slot closer to the read index.
LEMMA PopDistance ==
    ASSUME TypeOK, ~IsEmptyQueue, read_idx' = Next1(read_idx), write_idx' = write_idx
    PROVE  /\ Dist(write_idx)' = Dist(write_idx) - 1
           /\ \A i \in Idx : Occupied(i)' => Occupied(i) /\ Dist(i)' = Dist(i) - 1
           /\ ~IsFullQueue'
<1>1. read_idx' = IF read_idx = Capacity - 1 THEN 0 ELSE read_idx + 1
  BY NextIndex DEF TypeOK
<1>2. Dist(write_idx)' = Dist(write_idx) - 1
  BY SMT, <1>1, CapacityAssumption DEF TypeOK, Idx, Dist, IsEmptyQueue
<1>3. ASSUME NEW i \in Idx, Occupied(i)'
      PROVE  Occupied(i) /\ Dist(i)' = Dist(i) - 1
  BY SMT, <1>1, <1>3, CapacityAssumption DEF TypeOK, Idx, Dist, Occupied, IsEmptyQueue
<1>4. ~IsFullQueue'
  <2>1. Next1(write_idx) = IF write_idx = Capacity - 1 THEN 0 ELSE write_idx + 1
    BY NextIndex DEF TypeOK
  <2>2. IsFullQueue' <=> Next1(write_idx) = read_idx'
    BY DEF IsFullQueue, Next1
  <2> QED
    BY SMT, <1>1, <2>1, <2>2, CapacityAssumption DEF TypeOK, Idx, IsEmptyQueue
<1> QED
  BY <1>2, <1>3, <1>4

\* Publishing a task puts it behind the others and moves none of them.
LEMMA PushDistance ==
    ASSUME TypeOK, ~IsFullQueue, write_idx' = Next1(write_idx), read_idx' = read_idx
    PROVE  /\ Dist(write_idx)' = Dist(write_idx) + 1
           /\ \A i \in Idx : Dist(i)' = Dist(i)
           /\ \A i \in Idx : Occupied(i)' => Occupied(i) \/ i = write_idx
           /\ ~IsEmptyQueue'
<1>1. write_idx' = IF write_idx = Capacity - 1 THEN 0 ELSE write_idx + 1
  BY NextIndex DEF TypeOK
<1>2. \A i \in Idx : Dist(i)' = Dist(i)
  BY DEF Dist
<1>3. Next1(write_idx) # read_idx
  BY DEF IsFullQueue
<1>4. Dist(write_idx)' = Dist(write_idx) + 1
  BY SMT, <1>1, <1>3, CapacityAssumption DEF TypeOK, Idx, Dist
<1>5. ASSUME NEW i \in Idx, Occupied(i)'
      PROVE  Occupied(i) \/ i = write_idx
  BY SMT, <1>1, <1>3, <1>5, CapacityAssumption DEF TypeOK, Idx, Dist, Occupied
<1>6. ~IsEmptyQueue'
  BY <1>3 DEF IsEmptyQueue
<1> QED
  BY <1>2, <1>4, <1>5, <1>6

\* A step that leaves the ring and mu_enqueue alone keeps RingInv, as long as no
\* thread enters the copy and the consumer only starts a launch on a queued task.
LEMMA RingStutter ==
    ASSUME RingInv, TypeOK', UNCHANGED <<ring, mu_enqueue>>,
           \A t \in Threads : pc'[t] \in {"e_copy", "e_publish"} => pc'[t] = pc[t],
           cpc' \in {"c_call", "c_release"} => cpc \in {"c_call", "c_release"} \/ ~IsEmptyQueue
    PROVE  RingInv'
<1>1. IsFullQueue' = IsFullQueue /\ IsEmptyQueue' = IsEmptyQueue
  BY DEF IsFullQueue, IsEmptyQueue
<1>2. NoOverwrite'
  BY <1>1 DEF RingInv, NoOverwrite
<1>3. RingIsFifo'
  BY DEF RingInv, RingIsFifo, Dist, Occupied
<1>4. Copied'
  BY DEF RingInv, Copied
<1> QED
  BY <1>2, <1>3, <1>4 DEF RingInv

\* Taking the oldest task keeps RingInv, also while a producer is in WriteQueue.
LEMMA RingPop ==
    ASSUME RingInv, TypeOK', ~IsEmptyQueue, Pop, UNCHANGED <<datas, write_idx, tail>>,
           UNCHANGED <<pc, mu_enqueue>>, cpc' \notin {"c_call", "c_release"}
    PROVE  RingInv'
<1> USE DEF RingInv
<1>1. /\ Dist(write_idx)' = Dist(write_idx) - 1
      /\ \A i \in Idx : Occupied(i)' => Occupied(i) /\ Dist(i)' = Dist(i) - 1
      /\ ~IsFullQueue'
  BY PopDistance DEF Pop
<1>2. NoOverwrite'
  BY <1>1 DEF NoOverwrite
<1>3. tail' = head' + Dist(write_idx)'
  <2>1. tail' = tail /\ head' = head + 1
    BY DEF Pop
  <2>2. tail = head + Dist(write_idx) /\ head \in Nat
    BY DEF RingIsFifo, TypeOK
  <2>3. Dist(write_idx) \in 0 .. Capacity - 1
    BY RingLength DEF TypeOK
  <2> QED
    BY SMT, <1>1, <2>1, <2>2, <2>3, CapacityAssumption
<1>4. ASSUME NEW i \in Idx, Occupied(i)'
      PROVE  datas'[i] = head' + Dist(i)'
  <2>1. datas'[i] = datas[i] /\ head' = head + 1 /\ head \in Nat
    BY DEF Pop, TypeOK
  <2>2. datas[i] = head + Dist(i)
    BY <1>1, <1>4 DEF RingIsFifo
  <2>3. Dist(i) \in 0 .. Capacity - 1
    BY RingLength
  <2> QED
    BY SMT, <1>1, <1>4, <2>1, <2>2, <2>3, CapacityAssumption
<1>5. Copied'
  BY DEF Copied
<1> QED
  BY <1>2, <1>3, <1>4, <1>5 DEF RingIsFifo

\* ClearQueue keeps RingInv: the ring becomes empty, so it cannot be full.
LEMMA RingClear ==
    ASSUME RingInv, TypeOK', ClearQueue
    PROVE  RingInv'
<1> USE DEF RingInv
<1>1. Dist(write_idx)' = 0 /\ \A i \in Idx : ~Occupied(i)'
  BY SMT, CapacityAssumption DEF ClearQueue, ClearIndex, Dist, Occupied, TypeOK, Idx
<1>2. ~IsFullQueue'
  <2>1. Next1(write_idx) # write_idx
    <3>1. Next1(write_idx) = IF write_idx = Capacity - 1 THEN 0 ELSE write_idx + 1
      BY NextIndex DEF TypeOK
    <3> QED
      BY SMT, <3>1, CapacityAssumption DEF TypeOK, Idx
  <2> QED
    BY <2>1 DEF ClearQueue, ClearIndex, IsFullQueue, Next1
<1>3. NoOverwrite'
  BY <1>2 DEF ClearQueue, ClearIndex, CGoto, NoOverwrite
<1>4. RingIsFifo'
  <2>1. head' = tail /\ tail' = tail /\ tail \in Nat
    BY DEF ClearQueue, TypeOK
  <2> QED
    BY SMT, <1>1, <2>1 DEF RingIsFifo
<1>5. Copied'
  BY DEF ClearQueue, ClearIndex, Copied
<1> QED
  BY <1>3, <1>4, <1>5

\* The three steps of WriteQueue keep RingInv: mu_enqueue keeps other producers
\* out between the room check and the step of write_idx.
LEMMA RingWrite ==
    ASSUME RingInv, TypeOK', NEW t \in Threads,
           \/ \E exempt \in BOOLEAN : WriteQueueLock(t, exempt)
           \/ WriteQueueCopy(t) \/ WriteQueuePublish(t)
    PROVE  RingInv'
<1> USE DEF RingInv, Goto
<1>1. ASSUME NEW u \in Threads, u # t
      PROVE  pc'[u] = pc[u]
  BY <1>1 DEF WriteQueueLock, WriteQueueCopy, WriteQueuePublish, TypeOK
<1>2. ASSUME mu_enqueue \in {NoThread, t}, NEW u \in Threads, u # t
      PROVE  pc[u] \notin {"e_copy", "e_publish"}
  BY <1>2, ThreadAssumption DEF NoOverwrite
<1>3. CASE \E exempt \in BOOLEAN : WriteQueueLock(t, exempt)
  <2>1. UNCHANGED <<ring, cpc>> /\ mu_enqueue = NoThread
    BY <1>3 DEF WriteQueueLock
  <2>2. pc'[t] \in {"e_copy", "e_publish"} => pc'[t] = "e_copy" /\ mu_enqueue' = t /\ ~IsFullQueue
    BY <1>3 DEF WriteQueueLock, TypeOK
  <2>3. NoOverwrite'
    BY <1>1, <1>2, <2>1, <2>2 DEF NoOverwrite, IsFullQueue, IsEmptyQueue
  <2>4. RingIsFifo'
    BY <2>1 DEF RingIsFifo, Dist, Occupied
  <2>5. Copied'
    BY <1>1, <2>1, <2>2 DEF Copied
  <2> QED
    BY <2>3, <2>4, <2>5
<1>4. CASE WriteQueueCopy(t)
  <2>1. pc[t] = "e_copy" /\ mu_enqueue = t /\ ~IsFullQueue
    BY <1>4 DEF WriteQueueCopy, NoOverwrite
  <2>2. NoOverwrite'
    BY <1>1, <1>2, <1>4, <2>1 DEF WriteQueueCopy, NoOverwrite, IsFullQueue, IsEmptyQueue, TypeOK
  <2>3. \A i \in Idx : Occupied(i) => datas'[i] = datas[i]
    <3>0. Dist(write_idx) \in 0 .. Capacity - 1
      BY RingLength DEF TypeOK
    <3>1. \A i \in Idx : Occupied(i) => i # write_idx
      BY SMT, <3>0, CapacityAssumption DEF Occupied
    <3> QED
      BY <1>4, <3>1 DEF WriteQueueCopy, TypeOK
  <2>4. RingIsFifo'
    BY <1>4, <2>3 DEF WriteQueueCopy, RingIsFifo, Dist, Occupied
  <2>5. Copied'
    BY <1>4 DEF WriteQueueCopy, Copied, TypeOK
  <2> QED
    BY <2>2, <2>4, <2>5
<1>5. CASE WriteQueuePublish(t)
  <2>1. pc[t] = "e_publish" /\ mu_enqueue = t /\ ~IsFullQueue /\ datas[write_idx] = tail
    BY <1>5 DEF WriteQueuePublish, NoOverwrite, Copied
  <2>2. /\ Dist(write_idx)' = Dist(write_idx) + 1
        /\ \A i \in Idx : Dist(i)' = Dist(i)
        /\ \A i \in Idx : Occupied(i)' => Occupied(i) \/ i = write_idx
        /\ ~IsEmptyQueue'
    BY <1>5, <2>1, PushDistance DEF WriteQueuePublish
  <2>3. \A u \in Threads : pc'[u] \notin {"e_copy", "e_publish"}
    BY <1>1, <1>2, <1>5, <2>1 DEF WriteQueuePublish, TypeOK
  <2>4. NoOverwrite' /\ Copied'
    BY <2>2, <2>3 DEF NoOverwrite, Copied
  <2>5. tail' = head' + Dist(write_idx)'
    <3>1. tail' = tail + 1 /\ head' = head
      BY <1>5 DEF WriteQueuePublish
    <3>2. tail = head + Dist(write_idx) /\ head \in Nat
      BY DEF RingIsFifo, TypeOK
    <3>3. Dist(write_idx) \in 0 .. Capacity - 1
      BY RingLength DEF TypeOK
    <3> QED
      BY SMT, <2>2, <3>1, <3>2, <3>3, CapacityAssumption
  <2>6. ASSUME NEW i \in Idx, Occupied(i)'
        PROVE  datas'[i] = head' + Dist(i)'
    BY <1>5, <2>1, <2>2, <2>6 DEF WriteQueuePublish, RingIsFifo, TypeOK
  <2> QED
    BY <2>4, <2>5, <2>6 DEF RingIsFifo
<1> QED
  BY <1>3, <1>4, <1>5

\* InitRepo establishes RingInv.
LEMMA RingInit == Init => RingInv /\ HandledFault
<1> SUFFICES ASSUME Init PROVE RingInv /\ HandledFault
  OBVIOUS
<1>1. TypeOK
  BY TypeInit
<1>2. NoOverwrite /\ Copied /\ HandledFault
  BY DEF Init, NoOverwrite, Copied, HandledFault
<1>3. Dist(write_idx) = 0 /\ \A i \in Idx : Dist(i) >= 0
  BY SMT, CapacityAssumption DEF Init, Dist, Idx
<1>4. RingIsFifo
  BY SMT, <1>3, <1>1, RingLength DEF Init, RingIsFifo, Occupied
<1> QED
  BY <1>1, <1>2, <1>4 DEF RingInv

\* Every step of the system keeps RingInv.
LEMMA RingNext == RingInv /\ HandledFault /\ [Next]_vars => RingInv'
<1> SUFFICES ASSUME RingInv, HandledFault, [Next]_vars PROVE RingInv'
  OBVIOUS
<1>0. TypeOK' /\ TypeOK
  BY TypeNext DEF RingInv
<1>1. ASSUME NEW t \in Threads, ThreadStep(t)
      PROVE  RingInv'
  <2>1. CASE \/ \E exempt \in BOOLEAN : WriteQueueLock(t, exempt)
             \/ WriteQueueCopy(t) \/ WriteQueuePublish(t)
    BY <1>0, <2>1, RingWrite
  <2>2. CASE EnqueueCatch(t) \/ SetWriteWorking(t) \/ EnqueueTest(t) \/ EnqueueWake(t)
    <3>1. UNCHANGED <<ring, mu_enqueue, cpc>>
      BY <2>2 DEF EnqueueCatch, SetWriteWorking, EnqueueTest, EnqueueWake
    <3>2. \A u \in Threads : pc'[u] \in {"e_copy", "e_publish"} => pc'[u] = pc[u]
      BY <1>0, <2>2 DEF EnqueueCatch, SetWriteWorking, EnqueueTest, EnqueueWake, Goto,
         Branch, TypeOK
    <3> QED
      BY <1>0, <3>1, <3>2, RingStutter
  <2>3. CASE EnqueueWait(t) \/ EnqueueAfter(t) \/ SyncTest(t) \/ SyncNeed(t)
    <3>1. UNCHANGED <<ring, mu_enqueue, cpc>>
      BY <2>3 DEF EnqueueWait, EnqueueAfter, SyncTest, SyncNeed
    <3>2. \A u \in Threads : pc'[u] \in {"e_copy", "e_publish"} => pc'[u] = pc[u]
      BY <1>0, <2>3 DEF EnqueueWait, EnqueueAfter, SyncTest, SyncNeed, Goto, Branch, TypeOK
    <3> QED
      BY <1>0, <3>1, <3>2, RingStutter
  <2>4. CASE SyncWait(t) \/ SyncClear(t) \/ SyncStatus(t) \/ SyncCatch(t) \/ SyncChange(t)
    <3>1. UNCHANGED <<ring, mu_enqueue, cpc>>
      BY ZenonT(60), <2>4 DEF SyncWait, SyncClear, SyncStatus, SyncCatch, SyncChange
    <3>2. \A u \in Threads : pc'[u] \in {"e_copy", "e_publish"} => pc'[u] = pc[u]
      BY <1>0, <2>4 DEF SyncWait, SyncClear, SyncStatus, SyncCatch, SyncChange, Return,
         Goto, TypeOK
    <3> QED
      BY <1>0, <3>1, <3>2, RingStutter
  <2> QED
    BY <1>1, <2>1, <2>2, <2>3, <2>4 DEF ThreadStep
<1>2. ASSUME NEW t \in Threads,
             \/ \E exempt \in BOOLEAN : EnqueueCall(t, exempt)
             \/ SyncCall(t) \/ Interrupt(t)
      PROVE  RingInv'
  <2>1. UNCHANGED <<ring, mu_enqueue, cpc>>
    BY <1>2 DEF EnqueueCall, SyncCall, Interrupt
  <2>2. \A u \in Threads : pc'[u] \in {"e_copy", "e_publish"} => pc'[u] = pc[u]
    BY <1>0, <1>2 DEF EnqueueCall, SyncCall, Interrupt, Goto, TypeOK
  <2> QED
    BY <1>0, <2>1, <2>2, RingStutter
<1>3. CASE ConsumerStep
  <2> USE DEF CGoto, CBranch
  <2>1. CASE \/ ConsumerStatus \/ ConsumerExit \/ SetReadWorking \/ ConsumerTest \/ Call
             \/ CheckDeviceError \/ ClearQueueWake \/ DequeueWake \/ DequeueWait
    <3>1. UNCHANGED <<ring, mu_enqueue, pc>>
      BY ZenonT(60), <2>1 DEF ConsumerStatus, ConsumerExit, SetReadWorking, ConsumerTest, Call,
         CheckDeviceError, ClearQueueWake, DequeueWake, DequeueWait
    <3>2. cpc' \in {"c_call", "c_release"} => cpc \in {"c_call", "c_release"} \/ ~IsEmptyQueue
      BY <2>1 DEF ConsumerStatus, ConsumerExit, SetReadWorking, ConsumerTest, Call,
         CheckDeviceError, ClearQueueWake, DequeueWake, DequeueWait
    <3> QED
      BY <1>0, <3>1, <3>2, RingStutter
  <2>2. CASE Release
    BY <1>0, <2>2, RingPop DEF Release, RingInv, NoOverwrite
  <2>3. CASE IgnoreOtherTasks
    <3>1. CASE IsEmptyQueue
      BY <1>0, <2>3, <3>1, RingStutter DEF IgnoreOtherTasks
    <3>2. CASE ~IsEmptyQueue
      BY <1>0, <2>3, <3>2, RingPop DEF IgnoreOtherTasks
    <3> QED
      BY <3>1, <3>2
  <2>4. CASE ClearQueue
    BY <1>0, <2>4, RingClear
  <2> QED
    BY <1>3, <2>1, <2>2, <2>3, <2>4 DEF ConsumerStep
<1>4. CASE DequeueInterrupt \/ StopDevice \/ RestartDevice \/ Destroy \/ UNCHANGED vars
  BY <1>0, <1>4, RingStutter DEF DequeueInterrupt, StopDevice, RestartDevice, Destroy, CGoto,
     vars
<1> QED
  BY <1>1, <1>2, <1>3, <1>4 DEF Next

\* No slot of the ring is overwritten before it was launched or dropped, and no
\* empty slot is launched: WriteQueue's room check stays valid without any lock
\* shared with the consumer.
THEOREM RingSafety == Spec => []NoOverwrite
<1>1. RingInv => NoOverwrite
  BY DEF RingInv
<1> QED
  BY <1>1, RingInit, RingNext, FaultNext, PTL DEF Spec

\* The ring delivers tasks in the order they were published, each at most once,
\* for every capacity and every interleaving of producers, failures and clears.
THEOREM FifoOrder == Spec => []RingIsFifo
<1>1. RingInv => RingIsFifo
  BY DEF RingInv
<1> QED
  BY <1>1, RingInit, RingNext, FaultNext, PTL DEF Spec

(***************************************************************************)
(* MakeSureQueueEmpty waits for everything submitted before it.            *)
(***************************************************************************)

\* What SyncCovers needs beyond itself: the mark lies in the past.
SyncInv == SyncCovers /\ \A t \in Threads : before[t] <= tail

\* Every step keeps SyncInv: head never decreases, and a thread passes the
\* waiting loop only when it sees the ring empty, that is head = tail.
LEMMA SyncNext == RingInv /\ RingInv' /\ SyncInv /\ [Next]_vars => SyncInv'
<1> SUFFICES ASSUME RingInv, RingInv', SyncInv, [Next]_vars PROVE SyncInv'
  OBVIOUS
<1> USE DEF SyncInv, SyncCovers
<1>0. /\ head \in Nat /\ tail \in Nat /\ head' \in Nat /\ tail' \in Nat
      /\ before \in [Threads -> Nat] /\ pc \in [Threads -> ThreadPC] /\ head <= tail
  <2>1. Dist(write_idx) \in 0 .. Capacity - 1
    BY RingLength DEF RingInv, TypeOK
  <2>2. tail = head + Dist(write_idx)
    BY DEF RingInv, RingIsFifo
  <2>3. /\ head \in Nat /\ tail \in Nat /\ head' \in Nat /\ tail' \in Nat
        /\ before \in [Threads -> Nat] /\ pc \in [Threads -> ThreadPC]
    BY DEF RingInv, TypeOK
  <2>4. head <= tail
    BY SMT, <2>1, <2>2, <2>3, CapacityAssumption
  <2> QED
    BY <2>3, <2>4
<1>1. IsEmptyQueue => head = tail
  <2>1. IsEmptyQueue => Dist(write_idx) = 0
    BY RingLength DEF RingInv
  <2>2. tail = head + Dist(write_idx)
    BY DEF RingInv, RingIsFifo
  <2> QED
    BY SMT, <1>0, <2>1, <2>2
<1>2. ASSUME NEW t \in Threads, ThreadStep(t)
      PROVE  SyncInv'
  <2> USE DEF Goto, Branch, Return
  <2>1. CASE WriteQueuePublish(t)
    BY SMT, <1>0, <2>1 DEF WriteQueuePublish
  <2>2. CASE EnqueueAfter(t)
    <3>1. UNCHANGED <<head, tail>>
      BY <2>2 DEF EnqueueAfter, ring
    <3>2. CASE Goto(t, "s_check") /\ before' = [before EXCEPT ![t] = tail]
      BY SMT, <1>0, <3>1, <3>2
    <3>3. CASE Goto(t, "idle") /\ UNCHANGED before
      BY <1>0, <3>1, <3>3
    <3> QED
      BY <2>2, <3>2, <3>3 DEF EnqueueAfter, locals
  <2>3. CASE SyncTest(t)
    BY <1>0, <1>1, <2>3 DEF SyncTest
  <2>4. CASE SyncStatus(t) \/ SyncCatch(t) \/ SyncChange(t)
    <3>1. UNCHANGED <<head, tail>> /\ pc[t] \in {"s_status", "s_catch", "s_change"}
      BY <2>4 DEF SyncStatus, SyncCatch, SyncChange, ring
    <3>2. CASE Return(t)
      BY SMT, <1>0, <3>1, <3>2
    <3>3. CASE UNCHANGED before /\ \A u \in Threads : u # t => pc'[u] = pc[u]
      BY <1>0, <3>1, <3>3
    <3>4. CASE SyncStatus(t) /\ ~Return(t)
      <4>1. UNCHANGED before /\ (Goto(t, "s_catch") \/ Goto(t, "s_change"))
        BY <3>4, ZenonT(60) DEF SyncStatus, locals
      <4> QED
        BY <1>0, <3>3, <4>1
    <3> QED
      BY <2>4, <3>2, <3>4 DEF SyncCatch, SyncChange
  <2>5. CASE SyncNeed(t) \/ SyncWait(t) \/ SyncClear(t)
    BY <1>0, <2>5 DEF SyncNeed, SyncWait, SyncClear
  <2>6. CASE \/ \E exempt \in BOOLEAN : WriteQueueLock(t, exempt)
             \/ EnqueueCatch(t) \/ SetWriteWorking(t) \/ EnqueueTest(t)
    BY <1>0, <2>6 DEF WriteQueueLock, EnqueueCatch, SetWriteWorking, EnqueueTest
  <2>7. CASE WriteQueueCopy(t) \/ EnqueueWake(t) \/ EnqueueWait(t)
    BY <1>0, <2>7 DEF WriteQueueCopy, EnqueueWake, EnqueueWait
  <2> QED
    BY ZenonT(60), <1>2, <2>1, <2>2, <2>3, <2>4, <2>5, <2>6, <2>7 DEF ThreadStep
<1>3. ASSUME NEW t \in Threads,
             \/ \E exempt \in BOOLEAN : EnqueueCall(t, exempt)
             \/ SyncCall(t) \/ Interrupt(t)
      PROVE  SyncInv'
  BY SMT, <1>0, <1>3 DEF EnqueueCall, SyncCall, Interrupt, Goto
<1>4. CASE ConsumerStep
  <2>1. UNCHANGED <<pc, before, tail>> /\ head' >= head
    <3>1. CASE Release \/ IgnoreOtherTasks
      BY SMT, <1>0, <3>1 DEF Release, IgnoreOtherTasks, Pop
    <3>2. CASE ClearQueue
      BY <1>0, <3>2 DEF ClearQueue
    <3>3. CASE \/ ConsumerStatus \/ ConsumerExit \/ SetReadWorking \/ ConsumerTest \/ Call
               \/ CheckDeviceError \/ ClearQueueWake \/ DequeueWake \/ DequeueWait
      <4>1. UNCHANGED <<ring, apps>>
        BY <3>3, ZenonT(60) DEF ConsumerStatus, ConsumerExit, SetReadWorking, ConsumerTest, Call,
           CheckDeviceError, ClearQueueWake, DequeueWake, DequeueWait
      <4> QED
        BY SMT, <1>0, <4>1 DEF ring, apps, locals
    <3> QED
      BY <1>4, <3>1, <3>2, <3>3 DEF ConsumerStep
  <2> QED
    BY SMT, <1>0, <2>1
<1>5. CASE DequeueInterrupt \/ StopDevice \/ RestartDevice \/ Destroy \/ UNCHANGED vars
  BY <1>5 DEF DequeueInterrupt, StopDevice, RestartDevice, Destroy, vars
<1> QED
  BY <1>2, <1>3, <1>4, <1>5 DEF Next

\* MakeSureQueueEmpty only gets past its waiting loop once every task published
\* before the call has left the ring, however many threads submit meanwhile.
THEOREM SyncWaitsForAll == Spec => []SyncCovers
<1>1. Init => SyncInv
  BY SMT DEF Init, SyncInv, SyncCovers
<1>2. SyncInv => SyncCovers
  BY DEF SyncInv
<1> QED
  BY <1>1, <1>2, RingInit, RingNext, FaultNext, SyncNext, PTL DEF Spec

(***************************************************************************)
(* The ring implements the bounded FIFO of TaskFifo.                       *)
(***************************************************************************)

\* A ring of consecutive numbers read from its first one: what RingContents is.
Numbers(from, n) == [k \in 1 .. n |-> from + k - 1]

\* Read from read_idx, the ring holds the numbers of the tasks head .. tail - 1.
Numbered ==
    /\ head \in Nat /\ tail \in Nat /\ tail - head \in 0 .. Capacity - 1
    /\ RingContents = Numbers(head, tail - head)

\* The slots between the indexes hold the numbers of the tasks that are pending.
LEMMA ContentsAreNumbers == RingInv => Numbered
<1> SUFFICES ASSUME RingInv PROVE Numbered
  OBVIOUS
<1>1. /\ Dist(write_idx) \in 0 .. Capacity - 1 /\ head \in Nat /\ tail \in Nat
      /\ tail = head + Dist(write_idx) /\ read_idx \in Idx /\ write_idx \in Idx
  BY RingLength DEF RingInv, RingIsFifo, TypeOK
<1>2. tail - head = Dist(write_idx) /\ Capacity \in Nat /\ Capacity >= 2
  BY SMT, <1>1, CapacityAssumption
<1>3. ASSUME NEW k \in 1 .. Dist(write_idx)
      PROVE  datas[(read_idx + k - 1) % Capacity] = head + k - 1
  <2> DEFINE n == read_idx + k - 1
             i == IF n < Capacity THEN n ELSE n - Capacity
  <2>1. k \in Nat /\ 1 <= k /\ k <= Capacity - 1 /\ read_idx \in 0 .. Capacity - 1
    BY SMT, <1>1, <1>2 DEF Idx
  <2>2. n \in 0 .. 2 * Capacity - 1 /\ i \in Idx
    BY SMT, <1>2, <2>1 DEF Idx
  <2>3. n % Capacity = i
    BY SMT, <1>2, <2>2
  <2>4. Dist(i) = k - 1
    BY SMT, <1>2, <2>1, <2>2 DEF Dist, Idx
  <2>5. Occupied(i)
    BY SMT, <1>1, <2>1, <2>4 DEF Occupied
  <2>6. datas[i] = head + Dist(i)
    BY <2>2, <2>5 DEF RingInv, RingIsFifo
  <2> QED
    BY <1>1, <2>1, <2>3, <2>4, <2>6
<1> QED
  BY <1>1, <1>2, <1>3 DEF Numbered, RingContents, Numbers

\* Every step leaves the numbers alone, adds one at the end, takes the first one or
\* takes them all: WriteQueue, Release and "ignore other tasks", ClearQueue.
LEMMA HeadAndTail ==
    ASSUME RingInv, [Next]_vars
    PROVE  \/ UNCHANGED <<head, tail>>
           \/ tail' = tail + 1 /\ head' = head /\ tail - head < Capacity - 1
           \/ head' = head + 1 /\ tail' = tail /\ head < tail
           \/ head' = tail /\ tail' = tail
<1>0. Numbered /\ Dist(write_idx) = tail - head
  <2>1. tail = head + Dist(write_idx) /\ Dist(write_idx) \in 0 .. Capacity - 1
    BY RingLength DEF RingInv, RingIsFifo, TypeOK
  <2> QED
    BY SMT, <2>1, ContentsAreNumbers, CapacityAssumption DEF Numbered
<1>1. ~IsEmptyQueue => head < tail
  BY SMT, <1>0, RingLength, CapacityAssumption DEF RingInv, Numbered
<1>2. ~IsFullQueue => tail - head < Capacity - 1
  BY SMT, <1>0, RingLength, CapacityAssumption DEF RingInv, Numbered
<1>3. ASSUME NEW t \in Threads, ThreadStep(t)
      PROVE  \/ UNCHANGED <<head, tail>>
             \/ tail' = tail + 1 /\ head' = head /\ tail - head < Capacity - 1
  <2>1. CASE WriteQueuePublish(t)
    BY <1>2, <2>1 DEF WriteQueuePublish, RingInv, NoOverwrite
  <2>2. CASE ~WriteQueuePublish(t)
    BY <1>3, <2>2 DEF ThreadStep, WriteQueueLock, EnqueueCatch, SetWriteWorking,
       EnqueueTest, WriteQueueCopy, EnqueueWake, EnqueueWait, EnqueueAfter, SyncTest,
       SyncNeed, SyncWait, SyncClear, SyncStatus, SyncCatch, SyncChange
  <2> QED
    BY <2>1, <2>2
<1>4. ASSUME NEW t \in Threads,
             \/ \E exempt \in BOOLEAN : EnqueueCall(t, exempt)
             \/ SyncCall(t) \/ Interrupt(t)
      PROVE  UNCHANGED <<head, tail>>
  BY <1>4 DEF EnqueueCall, SyncCall, Interrupt
<1>5. CASE ConsumerStep
  <2>1. CASE Release
    BY <1>1, <2>1 DEF Release, Pop, RingInv, NoOverwrite
  <2>2. CASE IgnoreOtherTasks
    BY <1>1, <2>2 DEF IgnoreOtherTasks, Pop
  <2>3. CASE ClearQueue
    BY <2>3 DEF ClearQueue
  <2>4. CASE \/ ConsumerStatus \/ ConsumerExit \/ SetReadWorking \/ ConsumerTest \/ Call
             \/ CheckDeviceError \/ ClearQueueWake \/ DequeueWake \/ DequeueWait
    BY <2>4, ZenonT(60) DEF ConsumerStatus, ConsumerExit, SetReadWorking, ConsumerTest, Call,
       CheckDeviceError, ClearQueueWake, DequeueWake, DequeueWait
  <2> QED
    BY <1>5, <2>1, <2>2, <2>3, <2>4 DEF ConsumerStep
<1>6. CASE DequeueInterrupt \/ StopDevice \/ RestartDevice \/ Destroy \/ UNCHANGED vars
  BY <1>6 DEF DequeueInterrupt, StopDevice, RestartDevice, Destroy, vars
<1> QED
  BY <1>3, <1>4, <1>5, <1>6 DEF Next

\* The sequence operators on a sequence of consecutive numbers.
LEMMA NumbersSequence ==
    ASSUME NEW a \in Nat, NEW n \in Nat
    PROVE  /\ Numbers(a, n) \in Seq(Nat) /\ Len(Numbers(a, n)) = n
           /\ Numbers(a, 0) = <<>>
           /\ Append(Numbers(a, n), a + n) = Numbers(a, n + 1)
           /\ n > 0 => Numbers(a, n) # <<>> /\ Tail(Numbers(a, n)) = Numbers(a + 1, n - 1)
<1>1. Numbers(a, n) \in Seq(Nat) /\ Len(Numbers(a, n)) = n
  BY SMT DEF Numbers
<1>2. Numbers(a, 0) = <<>>
  BY SMT DEF Numbers
<1>3. Append(Numbers(a, n), a + n) = Numbers(a, n + 1)
  BY SMT, <1>1 DEF Numbers
<1>4. ASSUME n > 0
      PROVE  Numbers(a, n) # <<>> /\ Tail(Numbers(a, n)) = Numbers(a + 1, n - 1)
  BY SMTT(30), <1>1, <1>4 DEF Numbers
<1> QED
  BY <1>1, <1>2, <1>3, <1>4

\* Every step of the task queue is a step of the FIFO, or leaves it as it is.
LEMMA FifoStep == RingInv /\ RingInv' /\ [Next]_vars => [Fifo!Next]_<<RingContents, tail>>
<1> SUFFICES ASSUME RingInv, RingInv', [Next]_vars
             PROVE  [Fifo!Next]_<<RingContents, tail>>
  OBVIOUS
<1>1. Numbered /\ Numbered'
  <2>1. Numbered
    BY ContentsAreNumbers
  <2>2. (RingInv => Numbered)'
    BY ContentsAreNumbers, PTL
  <2> QED
    BY <2>1, <2>2
<1> DEFINE n == tail - head
<1>2. /\ head \in Nat /\ tail \in Nat /\ head' \in Nat /\ n \in Nat /\ tail = head + n
      /\ RingContents = Numbers(head, n) /\ RingContents' = Numbers(head', tail' - head')
  BY SMT, <1>1, CapacityAssumption DEF Numbered, Numbers
<1> HIDE DEF n
<1>3. CASE UNCHANGED <<head, tail>>
  BY <1>1, <1>3 DEF Numbered, Numbers
<1>4. CASE tail' = tail + 1 /\ head' = head /\ tail - head < Capacity - 1
  <2>0. tail' - head' = n + 1 /\ head' = head
    BY SMT, <1>2, <1>4
  <2>1. RingContents' = Append(RingContents, tail)
    <3>1. Append(Numbers(head, n), head + n) = Numbers(head, n + 1)
      BY <1>2, NumbersSequence
    <3> QED
      BY <1>2, <2>0, <3>1
  <2>2. Len(RingContents) < Capacity - 1
    BY SMT, <1>2, <1>4, NumbersSequence, CapacityAssumption
  <2> QED
    BY <1>4, <2>1, <2>2 DEF Fifo!Next, Fifo!Submit
<1>5. CASE head' = head + 1 /\ tail' = tail /\ head < tail
  <2>0. tail' - head' = n - 1 /\ head' = head + 1 /\ n > 0
    BY SMT, <1>2, <1>5
  <2>1. RingContents # <<>> /\ RingContents' = Tail(RingContents)
    <3>1. Numbers(head, n) # <<>> /\ Tail(Numbers(head, n)) = Numbers(head + 1, n - 1)
      BY ZenonT(60), <1>2, <2>0, NumbersSequence
    <3> QED
      BY <1>2, <2>0, <3>1
  <2> QED
    BY <1>5, <2>1 DEF Fifo!Next, Fifo!Take
<1>6. CASE head' = tail /\ tail' = tail
  <2>1. RingContents' = <<>>
    BY SMT, <1>2, <1>6, NumbersSequence
  <2> QED
    BY <1>6, <2>1 DEF Fifo!Next, Fifo!Discard
<1> QED
  BY <1>3, <1>4, <1>5, <1>6, HeadAndTail

\* The ring of Repository implements the bounded FIFO queue of TaskFifo: a task is
\* accepted only when there is room, tasks leave in the order they were accepted or
\* are discarded together, for every capacity and every interleaving.
THEOREM RingImplementsFifo == Spec => ImplementsFifo
<1>1. Init => Fifo!Init
  <2> SUFFICES ASSUME Init PROVE Fifo!Init
    OBVIOUS
  <2>1. Numbered /\ head = 0 /\ tail = 0
    BY RingInit, ContentsAreNumbers DEF Init
  <2>2. RingContents = <<>>
    BY SMT, <2>1, NumbersSequence DEF Numbered
  <2> QED
    BY <2>1, <2>2 DEF Fifo!Init
<1> QED
  BY <1>1, RingInit, RingNext, FaultNext, FifoStep, PTL DEF Spec, ImplementsFifo, Fifo!Spec


(***************************************************************************)
(* Nothing is launched after a loss.                                       *)
(***************************************************************************)

\* The consumer leaves its failure path with a status that keeps it from launching,
\* and nobody takes that status back.  This is so while the device is neither stopped
\* nor restarted and the queue not destroyed, and when a memory error is always
\* confirmed: an error that checkUceErrAndRepair does not confirm leaves the status as
\* it was, and stop_device, restart_device and ~Repository overwrite it.
Undisturbed ==
    /\ "unconfirmed" \notin FaultKinds
    /\ \A b \in Budgets : b["stop"] = 0 /\ b["restart"] = 0 /\ b["destroy"] = 0

Failing == {"c_ignore", "c_error", "c_error2"}
\* Where the consumer may be under a device error after a loss: the loop of Dequeue
\* that only clears, and the path from a failed ReadQueue into that loop.
Clearing == {"c_clear", "c_cleared", "c_exit1", "c_exit3", "c_exit4", "c_idle", "c_sleep",
    "c_wait", "c_resume", "c_while", "c_device"}
\* Under ERROR_EXIT it is on its way out of StartConsume.
Leaving == {"c_exit1", "c_exit3", "c_end", "c_top", "c_top2", "c_gone"}
\* An application thread that turns ERROR_EXIT into CAN_EXIT may send it round once more.
Left == Leaving \cup {"c_begin", "c_while", "c_exit4", "c_idle", "c_sleep", "c_wait", "c_resume"}

LossInv ==
    /\ left["stop"] = 0 /\ left["restart"] = 0 /\ left["destroy"] = 0
    /\ dpc = "d_idle" /\ left \in [Events -> Nat]
    /\ repo_status \notin {"STOP_EXIT", "NEED_EXIT"}
    /\ cpc # "c_exit2" /\ pc \in [Threads -> ThreadPC]
    /\ cpc \in Failing => fault \in FaultKinds /\ bad # {}
    /\ \A t \in Threads : pc[t] \in {"e_catch", "s_catch"} =>
            repo_status \in {"ERROR_EXIT", "CAN_EXIT"}
    /\ repo_status \in {"ERROR_EXIT", "CAN_EXIT"} \cup DeviceErrors => bad # {}
    /\ cpc = "c_clear" => bad # {}
    /\ bad # {} =>
        \/ cpc \in Failing /\ repo_status \in {"INIT", "RUN"}
        \/ repo_status \in DeviceErrors /\ cpc \in Clearing
        \/ repo_status = "ERROR_EXIT" /\ cpc \in Leaving
        \/ repo_status = "CAN_EXIT" /\ cpc \in Left
        \/ /\ repo_status \in {"ERROR_EXIT", "CAN_EXIT"} /\ cpc \in {"c_clear", "c_cleared"}
           /\ fault # "none"

\* Every step keeps LossInv.
LEMMA LossNext ==
    ASSUME Undisturbed, TypeOK
    PROVE  LossInv /\ [Next]_vars => LossInv'
<1> SUFFICES ASSUME LossInv, [Next]_vars PROVE LossInv'
  OBVIOUS
<1>0. /\ FaultKinds \subseteq (DeviceErrors \ {"STOP_EXIT"}) \cup {"other"}
      /\ "none" \notin FaultKinds
  BY FaultAssumption DEF Undisturbed, Failures, DeviceErrors
<1> USE DEF LossInv, Failing, Clearing, Leaving, Left
<1>1. CASE ConsumerStep
  <2> USE DEF CGoto, CBranch
  <2>1. CASE ConsumerStatus
    BY <2>1 DEF ConsumerStatus, DeviceErrors
  <2>2. CASE ConsumerExit \/ SetReadWorking \/ ConsumerTest
    BY <2>2 DEF ConsumerExit, SetReadWorking, ConsumerTest, DeviceErrors
  <2>3. CASE Call
    BY SMT, <1>0, <2>3 DEF Call, Lose, Spend, Events, DeviceErrors, TypeOK, RepoStatus
  <2>4. CASE Release \/ DequeueWake \/ DequeueWait
    BY ZenonT(60), <2>4 DEF Release, DequeueWake, DequeueWait, DeviceErrors
  <2>5. CASE IgnoreOtherTasks
    BY <2>5 DEF IgnoreOtherTasks, Lose, DeviceErrors
  <2>6. CASE CheckDeviceError
    BY ZenonT(60), <1>0, <2>6 DEF CheckDeviceError, FailureStatus, DeviceErrors
  <2>7. CASE ClearQueue
    BY <2>7 DEF ClearQueue, Lose, DeviceErrors
  <2>8. CASE ClearQueueWake
    BY <2>8 DEF ClearQueueWake, DeviceErrors
  <2> QED
    BY ZenonT(60), <1>1, <2>1, <2>2, <2>3, <2>4, <2>5, <2>6, <2>7, <2>8 DEF ConsumerStep
<1>2. CASE DequeueInterrupt
  BY SMTT(30), <1>2 DEF DequeueInterrupt, CGoto, Spend, Events, DeviceErrors
<1>3. CASE StopDevice \/ RestartDevice \/ Destroy
  BY SMT, <1>3 DEF StopDevice, RestartDevice, Destroy, Spend
<1>4. ASSUME NEW t \in Threads, ThreadStep(t)
      PROVE  LossInv'
  <2> USE DEF Goto, Branch, ThreadPC, EnqueuePC, SyncPC
  <2>1. CASE EnqueueCatch(t)
    BY <2>1 DEF EnqueueCatch, DeviceErrors
  <2>2. CASE SyncCatch(t)
    BY <2>2 DEF SyncCatch, Return, DeviceErrors
  <2>3. CASE SyncChange(t)
    BY <2>3 DEF SyncChange, Return, DeviceErrors
  <2>4. CASE SyncStatus(t)
    BY ZenonT(30), <2>4 DEF SyncStatus, Return
  <2>5. CASE EnqueueAfter(t) \/ SyncTest(t) \/ SyncNeed(t) \/ SyncWait(t) \/ SyncClear(t)
    BY SMTT(30), <2>5 DEF EnqueueAfter, SyncTest, SyncNeed, SyncWait, SyncClear
  <2>6. CASE \/ \E exempt \in BOOLEAN : WriteQueueLock(t, exempt)
             \/ SetWriteWorking(t) \/ EnqueueTest(t)
    BY SMTT(30), <2>6 DEF WriteQueueLock, SetWriteWorking, EnqueueTest
  <2>7. CASE WriteQueueCopy(t) \/ WriteQueuePublish(t) \/ EnqueueWake(t) \/ EnqueueWait(t)
    BY ZenonT(60), <2>7 DEF WriteQueueCopy, WriteQueuePublish, EnqueueWake, EnqueueWait
  <2> QED
    BY <1>4, <2>1, <2>2, <2>3, <2>4, <2>5, <2>6, <2>7 DEF ThreadStep
<1>5. ASSUME NEW t \in Threads,
             \/ \E exempt \in BOOLEAN : EnqueueCall(t, exempt)
             \/ SyncCall(t) \/ Interrupt(t)
      PROVE  LossInv'
  BY SMT, <1>5 DEF EnqueueCall, SyncCall, Interrupt, Goto, Spend, Events, ThreadPC, EnqueuePC,
     SyncPC
<1>6. CASE UNCHANGED vars
  BY <1>6 DEF vars
<1> QED
  BY <1>1, <1>2, <1>3, <1>4, <1>5, <1>6 DEF Next

\* Once a task failed or was dropped, the consumer launches nothing any more, for every
\* number of failures, threads and tasks, in a process in which the device is neither
\* stopped nor restarted, the queue not destroyed and every memory error confirmed.
THEOREM NothingAfterLoss ==
    ASSUME Undisturbed
    PROVE  Spec => []NoLaunchAfterLoss
<1>1. Init => LossInv
  BY BudgetAssumption DEF Undisturbed, Init, LossInv, Failing, Clearing, Leaving, Left, Events,
     DeviceErrors, ThreadPC
<1>2. TypeOK /\ LossInv /\ [Next]_vars => LossInv'
  BY LossNext
<1>3. LossInv => NoLaunchAfterLoss
  BY DEF LossInv, NoLaunchAfterLoss, Failing, Clearing, Leaving, Left
<1> QED
  BY <1>1, <1>2, <1>3, TypeCorrect, PTL DEF Spec

=============================================================================
