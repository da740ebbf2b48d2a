---------------------------- MODULE ReleaseQueue ----------------------------
(***************************************************************************)
(* ReleaseQueue: the consumer thread of a task queue hands the parameters  *)
(* of launched tasks to a releaser thread, through a second ring.  Nobody  *)
(* sleeps: a full ring makes the consumer thread spin, an empty one makes  *)
(* the releaser poll.                                                      *)
(***************************************************************************)
EXTENDS Integers, TLAPS

CONSTANTS
    Capacity,      \* kReleaseQueueCapacity
    MaxTasks       \* bound on the tasks released

ASSUME CapacityAssumption == Capacity \in Nat /\ Capacity >= 2

VARIABLES
    datas, read_idx, write_idx, repo_status,
    wpc,           \* PushToReleaseQueue, in the consumer thread of the task queue
    rpc,           \* StartRelease and PopFromReleaseQueue, in the releaser thread
    dpc,           \* ~Repository, then ~ReleaseQueue
    pushed,        \* parameters pushed so far
    released       \* parameters released so far

vars == <<datas, read_idx, write_idx, repo_status, wpc, rpc, dpc, pushed, released>>
Idx == 0 .. Capacity - 1

Init ==
    /\ datas = [i \in Idx |-> 0] /\ read_idx = 0 /\ write_idx = 0 /\ repo_status = "INIT"
    /\ wpc = "run" /\ rpc = "start" /\ dpc = "live" /\ pushed = 0 /\ released = 0

IsEmptyQueue == read_idx = write_idx
Next1(i) == (i + 1) % Capacity
NeverFull == FALSE
IsFullQueue == Next1(write_idx) = read_idx

\* The consumer thread calls PushToReleaseQueue after a launch.
PushToReleaseQueue ==
    /\ wpc = "run" /\ pushed < MaxTasks
    /\ wpc' = "push"
    /\ UNCHANGED <<datas, read_idx, write_idx, repo_status, rpc, dpc, pushed, released>>

\* WriteToReleaseQueue; a full ring is tried again.
WriteTest ==
    /\ wpc = "push"
    /\ wpc' = IF IsFullQueue THEN "push" ELSE "copy"
    /\ UNCHANGED <<datas, read_idx, write_idx, repo_status, rpc, dpc, pushed, released>>

CopyReleaseParam ==
    /\ wpc = "copy"
    /\ datas' = [datas EXCEPT ![write_idx] = pushed]
    /\ wpc' = "publish"
    /\ UNCHANGED <<read_idx, write_idx, repo_status, rpc, dpc, pushed, released>>

WritePublish ==
    /\ wpc = "publish"
    /\ write_idx' = Next1(write_idx)
    /\ pushed' = pushed + 1
    /\ wpc' = "run"
    /\ UNCHANGED <<datas, read_idx, repo_status, rpc, dpc, released>>

-----------------------------------------------------------------------------
\* The loop conditions of StartRelease and PopFromReleaseQueue.
PopLoop ==
    /\ rpc = "start"
    /\ rpc' = IF repo_status = "CAN_EXIT" THEN "exit" ELSE "test"
    /\ UNCHANGED <<datas, read_idx, write_idx, repo_status, wpc, dpc, pushed, released>>

ReadTest ==
    /\ rpc = "test"
    /\ rpc' = IF IsEmptyQueue THEN "empty" ELSE "release"
    /\ UNCHANGED <<datas, read_idx, write_idx, repo_status, wpc, dpc, pushed, released>>

ReleaseParam ==
    /\ rpc = "release"
    /\ released' = released + 1
    /\ rpc' = "next"
    /\ UNCHANGED <<datas, read_idx, write_idx, repo_status, wpc, dpc, pushed>>

ReadNext ==
    /\ rpc = "next"
    /\ read_idx' = Next1(read_idx)
    /\ rpc' = "start"
    /\ UNCHANGED <<datas, write_idx, repo_status, wpc, dpc, pushed, released>>

LeaveWithoutStatus ==
    /\ rpc = "empty"
    /\ rpc' = "start"
    /\ UNCHANGED <<datas, read_idx, write_idx, repo_status, wpc, dpc, pushed, released>>
\* Nothing was found: leave if asked to, otherwise sleep a microsecond.
ReadNothing ==
    /\ rpc = "empty"
    /\ repo_status' = IF repo_status = "NEED_EXIT" THEN "CAN_EXIT" ELSE repo_status
    /\ rpc' = "start"
    /\ UNCHANGED <<datas, read_idx, write_idx, wpc, dpc, pushed, released>>

-----------------------------------------------------------------------------
\* The consumer thread of the task queue ends (see TaskQueue).
ConsumerExit ==
    /\ wpc = "run"
    /\ wpc' = "exit"
    /\ UNCHANGED <<datas, read_idx, write_idx, repo_status, rpc, dpc, pushed, released>>

NoJoin == TRUE
\* ~Repository joins the consumer thread before its member releaseQueue dies.
ConsumerJoined == wpc = "exit"
DestroyReleaseQueue ==
    /\ dpc = "live" /\ ConsumerJoined
    /\ repo_status' = "NEED_EXIT" /\ dpc' = "join"
    /\ UNCHANGED <<datas, read_idx, write_idx, wpc, rpc, pushed, released>>

\* releaser.join(), then DeInit frees datas.
DeInit ==
    /\ dpc = "join" /\ rpc = "exit"
    /\ dpc' = "freed"
    /\ UNCHANGED <<datas, read_idx, write_idx, repo_status, wpc, rpc, pushed, released>>

Pusher == WriteTest \/ CopyReleaseParam \/ WritePublish
Releaser == PopLoop \/ ReadTest \/ ReleaseParam \/ ReadNext \/ ReadNothing
Next == PushToReleaseQueue \/ Pusher \/ ConsumerExit \/ Releaser \/ DestroyReleaseQueue \/ DeInit

Spec == Init /\ [][Next]_vars
FairSpec == Spec /\ WF_vars(Pusher) /\ WF_vars(Releaser) /\ WF_vars(DeInit)

-----------------------------------------------------------------------------
TypeOK ==
    /\ datas \in [Idx -> Nat] /\ read_idx \in Idx /\ write_idx \in Idx
    /\ repo_status \in {"INIT", "NEED_EXIT", "CAN_EXIT"}
    /\ wpc \in {"run", "push", "copy", "publish", "exit"}
    /\ rpc \in {"start", "test", "empty", "release", "next", "exit"}
    /\ dpc \in {"live", "join", "freed"}
    /\ pushed \in Nat /\ released \in Nat

\* Every parameter block is released once, in the order of the launches: no slot is
\* overwritten before its block was released (WriteToReleaseQueue's full check).
ReleasedInOrder == rpc = "release" => datas[read_idx] = released

\* No thread touches the ring once ~ReleaseQueue has freed it.
NoUseAfterFree == dpc = "freed" => wpc = "exit" /\ rpc = "exit"

Dist(i) == IF i >= read_idx THEN i - read_idx ELSE i + Capacity - read_idx
Popped == IF rpc = "next" THEN released - 1 ELSE released
\* Why the release order holds: the slots between the indexes hold the blocks pushed
\* and not yet popped, in order; a test made by either thread stays true until it acts.
RingInv ==
    /\ pushed = Popped + Dist(write_idx)
    /\ \A i \in Idx : Dist(i) < Dist(write_idx) => datas[i] = Popped + Dist(i)
    /\ rpc \in {"release", "next"} => ~IsEmptyQueue
    /\ wpc \in {"copy", "publish"} => ~IsFullQueue
    /\ wpc = "publish" => datas[write_idx] = pushed

(***************************************************************************)
(* Proofs for every capacity and number of tasks.                          *)
(***************************************************************************)

\* The successor of an index, without the modulus.
LEMMA NextIndex ==
    ASSUME NEW i \in Idx
    PROVE  /\ Next1(i) \in Idx
           /\ Next1(i) = IF i = Capacity - 1 THEN 0 ELSE i + 1
BY CapacityAssumption DEF Next1, Idx

\* Steps of the pusher, the releaser and the destructor keep the types.
LEMMA TypeNext == TypeOK /\ [Next]_vars => TypeOK'
<1> SUFFICES ASSUME TypeOK, [Next]_vars PROVE TypeOK'
  OBVIOUS
<1> USE DEF TypeOK
<1>1. CASE PushToReleaseQueue \/ WriteTest \/ CopyReleaseParam \/ ConsumerExit
  BY <1>1 DEF PushToReleaseQueue, WriteTest, CopyReleaseParam, ConsumerExit
<1>2. CASE WritePublish
  BY <1>2, NextIndex DEF WritePublish
<1>3. CASE PopLoop \/ ReadTest \/ ReleaseParam \/ ReadNothing
  BY <1>3 DEF PopLoop, ReadTest, ReleaseParam, ReadNothing
<1>4. CASE ReadNext
  BY <1>4, NextIndex DEF ReadNext
<1>5. CASE DestroyReleaseQueue \/ DeInit
  BY <1>5 DEF DestroyReleaseQueue, DeInit
<1>6. CASE UNCHANGED vars
  BY <1>6 DEF vars
<1> QED
  BY <1>1, <1>2, <1>3, <1>4, <1>5, <1>6 DEF Next, Pusher, Releaser

\* Types are kept by every step of the release queue.
THEOREM TypeCorrect == Spec => []TypeOK
<1>1. Init => TypeOK
  BY CapacityAssumption DEF Init, TypeOK, Idx
<1> QED
  BY <1>1, TypeNext, PTL DEF Spec

\* The distance covered by the slots in use, before and after a publication.
LEMMA PublishDist ==
    ASSUME NEW r \in Idx, NEW w \in Idx, Next1(w) # r, NEW i \in Idx,
           read_idx = r, write_idx = w
    PROVE  /\ Dist(Next1(w)) = Dist(w) + 1
           /\ Dist(i) < Dist(w) + 1 => Dist(i) < Dist(w) \/ i = w
BY NextIndex, CapacityAssumption DEF Dist, Idx

\* Each action of the two threads and of the destructor keeps the ring invariant.
LEMMA RingNext == TypeOK /\ RingInv /\ [Next]_vars => RingInv'
<1> SUFFICES ASSUME TypeOK, RingInv, [Next]_vars PROVE RingInv'
  OBVIOUS
<1>0. TypeOK'
  BY TypeNext
<1> USE CapacityAssumption
<1>1. CASE PushToReleaseQueue \/ WriteTest \/ ConsumerExit
  BY <1>1 DEF PushToReleaseQueue, WriteTest, ConsumerExit, RingInv, Dist, Popped, IsEmptyQueue, IsFullQueue, Next1
<1>2. CASE CopyReleaseParam
  <2>1. ASSUME NEW i \in Idx, Dist(i) < Dist(write_idx) PROVE i # write_idx
    BY <2>1 DEF Dist, TypeOK, Idx
  <2>2. /\ UNCHANGED <<read_idx, write_idx, rpc, pushed, released>>
        /\ datas' = [datas EXCEPT ![write_idx] = pushed]
    BY <1>2 DEF CopyReleaseParam
  <2>3. \A i \in Idx : Dist(i) < Dist(write_idx) => datas'[i] = datas[i]
    BY <2>1, <2>2 DEF TypeOK
  <2>4. datas'[write_idx] = pushed
    BY <2>2 DEF TypeOK
  <2> QED
    BY <1>2, <2>2, <2>3, <2>4 DEF CopyReleaseParam, RingInv, Dist, Popped, IsEmptyQueue, IsFullQueue, Next1
<1>3. CASE WritePublish
  <2> USE DEF TypeOK
  <2>1. /\ UNCHANGED <<read_idx, datas, rpc, released>> /\ wpc = "publish" /\ wpc' = "run"
        /\ write_idx' = Next1(write_idx) /\ pushed' = pushed + 1
    BY <1>3 DEF WritePublish
  <2>2. Next1(write_idx) # read_idx /\ datas[write_idx] = pushed
    BY <2>1 DEF RingInv, IsFullQueue
  <2>3. Popped' = Popped
    BY <2>1 DEF Popped
  <2>4. Dist(write_idx)' = Dist(write_idx) + 1
    BY <2>1, <2>2, PublishDist DEF Dist
  <2>5. \A i \in Idx : Dist(i)' = Dist(i)
    BY <2>1 DEF Dist
  <2>6. ASSUME NEW i \in Idx, Dist(i) < Dist(write_idx) + 1
        PROVE  datas[i] = Popped + Dist(i)
    BY <2>2, <2>6, PublishDist DEF RingInv
  <2>7. read_idx # write_idx'
    BY <2>1, <2>2
  <2>8. pushed' = Popped' + Dist(write_idx)'
    <3>1. Dist(write_idx) \in Int /\ Popped \in Int
      BY DEF Dist, Popped, Idx
    <3> QED
      BY <2>1, <2>3, <2>4, <3>1 DEF RingInv
  <2>9. \A i \in Idx : Dist(i)' < Dist(write_idx)' => datas'[i] = Popped' + Dist(i)'
    BY <2>1, <2>3, <2>4, <2>5, <2>6
  <2> QED
    BY <2>1, <2>7, <2>8, <2>9 DEF RingInv, IsEmptyQueue
<1>4. CASE PopLoop \/ ReadTest \/ ReadNothing
  BY <1>4 DEF PopLoop, ReadTest, ReadNothing, RingInv, Dist, Popped, IsEmptyQueue, IsFullQueue, Next1
<1>5. CASE ReleaseParam
  <2>1. /\ UNCHANGED <<datas, read_idx, write_idx, wpc, pushed>>
        /\ rpc = "release" /\ rpc' = "next" /\ released' = released + 1
    BY <1>5 DEF ReleaseParam
  <2>2. Popped' = Popped
    BY <2>1 DEF Popped, TypeOK
  <2> QED
    BY <2>1, <2>2 DEF RingInv, Dist, IsEmptyQueue, IsFullQueue, Next1
<1>6. CASE ReadNext
  <2>1. /\ UNCHANGED <<datas, write_idx, wpc, pushed, released>>
        /\ rpc = "next" /\ rpc' = "start" /\ read_idx' = Next1(read_idx)
    BY <1>6 DEF ReadNext
  <2>2. /\ read_idx \in Idx /\ write_idx \in Idx /\ read_idx' \in Idx /\ read_idx # write_idx
        /\ read_idx' = IF read_idx = Capacity - 1 THEN 0 ELSE read_idx + 1
    BY <2>1, <1>0, NextIndex DEF TypeOK, RingInv, IsEmptyQueue
  <2>3. Popped' = Popped + 1 /\ Popped \in Int
    BY <2>1 DEF Popped, TypeOK
  <2>4. ASSUME NEW i \in Idx, i # read_idx PROVE Dist(i)' = Dist(i) - 1
    BY <2>2, <2>4 DEF Dist, Idx
  <2>5. \A i \in Idx : Dist(i) \in Int
    BY <2>2 DEF Dist, Idx
  <2>6. Dist(write_idx)' = Dist(write_idx) - 1
    BY <2>1, <2>2 DEF Dist, Idx
  <2>7. pushed' = Popped' + Dist(write_idx)'
    <3>1. Dist(write_idx) \in Int
      BY <2>2, <2>5
    <3> QED
      BY <2>1, <2>3, <2>6, <3>1 DEF RingInv
  <2>8. ASSUME NEW i \in Idx, Dist(i)' < Dist(write_idx)'
        PROVE  datas'[i] = Popped' + Dist(i)'
    <3>1. i # read_idx
      BY <2>1, <2>2, <2>8 DEF Dist, Idx
    <3>2. Dist(i)' = Dist(i) - 1
      BY <3>1, <2>4
    <3>3. Dist(i) \in Int /\ Dist(write_idx) \in Int
      BY <2>2, <2>5
    <3>4. datas[i] = Popped + Dist(i)
      BY <2>6, <2>8, <3>2, <3>3 DEF RingInv
    <3> QED
      BY <2>1, <2>3, <3>2, <3>3, <3>4
  <2>9. wpc' \in {"copy", "publish"} => Next1(write_idx) # read_idx'
    BY <2>2, NextIndex DEF Idx
  <2> QED
    BY <2>1, <2>7, <2>8, <2>9 DEF RingInv, IsFullQueue, Next1
<1>7. CASE DestroyReleaseQueue \/ DeInit \/ UNCHANGED vars
  BY <1>7 DEF DestroyReleaseQueue, DeInit, vars, RingInv, Dist, Popped, IsEmptyQueue, IsFullQueue, Next1
<1> QED
  BY <1>1, <1>2, <1>3, <1>4, <1>5, <1>6, <1>7 DEF Next, Pusher, Releaser

\* The ring invariant holds throughout.
THEOREM RingCorrect == Spec => []RingInv
<1>1. Init => RingInv
  BY CapacityAssumption DEF Init, RingInv, Dist, Popped, IsEmptyQueue, IsFullQueue, Next1, Idx
<1> QED
  BY <1>1, TypeCorrect, RingNext, PTL DEF Spec

\* WriteToReleaseQueue never overwrites a block that was not released, and
\* ReadFromReleaseQueue releases each block once, in the order of the launches.
THEOREM ReleaseOrder == Spec => []ReleasedInOrder
<1>1. TypeOK /\ RingInv => ReleasedInOrder
  BY CapacityAssumption DEF TypeOK, RingInv, ReleasedInOrder, Dist, Popped, IsEmptyQueue, Idx
<1> QED
  BY <1>1, TypeCorrect, RingCorrect, PTL

\* Once the destructor started the consumer thread is gone, and DeInit comes last.
LifeInv == (dpc # "live" => wpc = "exit") /\ (dpc = "freed" => rpc = "exit")

\* ~Repository and ~ReleaseQueue free the ring only after both threads were joined.
THEOREM FreedLast == Spec => []NoUseAfterFree
<1>1. Init => LifeInv
  BY DEF Init, LifeInv
<1>2. LifeInv /\ [Next]_vars => LifeInv'
  BY DEF LifeInv, Next, Pusher, Releaser, PushToReleaseQueue, WriteTest, CopyReleaseParam, WritePublish,
     ConsumerExit, PopLoop, ReadTest, ReleaseParam, ReadNext, ReadNothing, ConsumerJoined,
     DestroyReleaseQueue, DeInit, vars
<1>3. LifeInv => NoUseAfterFree
  BY DEF LifeInv, NoUseAfterFree
<1> QED
  BY <1>1, <1>2, <1>3, PTL DEF Spec
=============================================================================
