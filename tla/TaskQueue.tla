----------------------------- MODULE TaskQueue -----------------------------
(***************************************************************************)
(* The NPU task queue: class Repository of core/npu/NPUQueue.{h,cpp}, the  *)
(* submission path enCurrentNPUStream of NPUStream.cpp and the stop and    *)
(* restart entry points of csrc/npu/Module.cpp.                            *)
(*                                                                         *)
(* Application threads put tasks into a ring; one consumer thread takes    *)
(* them out and launches them.  Both sides sleep on eventfds and decide    *)
(* whether the other one needs a wake-up from the two "working" flags and  *)
(* from need_empty.  Every access to a shared word is a step of its own;   *)
(* the reads of IsFullQueue and IsEmptyQueue are taken together, because   *)
(* telling them apart needs a whole lap of the ring between two loads.     *)
(*                                                                         *)
(* An eventfd counter is only ever read-and-zeroed, so it is a Boolean:    *)
(* TRUE when a read would not block.                                       *)
(***************************************************************************)
EXTENDS Naturals

CONSTANTS
    Producers,     \* threads that submit tasks
    Waiters,       \* threads that only synchronize
    NoThread,      \* mutex not held
    Capacity,      \* kQueueCapacity; the ring holds one task less
    FaultKinds,    \* ways a launched task may fail
    Budgets        \* how often each environment event may happen: one is chosen

DeviceErrors == {"UCE_EXIT", "HBM_ECC_EXIT", "STOP_EXIT", "SUSPECT_MEM_EXIT",
    "HCCS_LINK_EXIT", "HCCL_OP_RETRY_EXIT", "SUSPECT_REMOTE_EXIT"}
RepoStatus == {"INIT", "RUN", "NEED_EXIT", "CAN_EXIT", "ERROR_EXIT"} \cup DeviceErrors

\* A failure is named by the status CheckDeviceError gives it: "other" is any
\* error it does not recognise, "unconfirmed" a memory error for which
\* checkUceErrAndRepair finds no UCE record.
Failures == (DeviceErrors \ {"STOP_EXIT"}) \cup {"other", "unconfirmed"}

Events == {"task", "sync", "fault", "stop", "restart", "signal", "destroy"}
Threads == Producers \cup Waiters

ASSUME CapacityAssumption == Capacity \in Nat /\ Capacity >= 2
ASSUME ThreadAssumption == NoThread \notin Threads
ASSUME FaultAssumption == FaultKinds \subseteq Failures
ASSUME BudgetAssumption == Budgets \subseteq [Events -> Nat]

VARIABLES
    datas, read_idx, write_idx,          \* the ring
    repo_status,
    readWorking, writeWorking,           \* read_idx.working, write_idx.working
    need_empty,
    efd_read, efd_write, efd_empty,
    mu_enqueue, mu_empty,                \* holder of each mutex
    pc, cpc, dpc,                        \* threads, consumer, destructor
    first,                               \* threads synchronizing inside enCurrentNPUStream
    fault,                               \* failure ReadQueue is handling, or "none"
    left,                                \* environment events still allowed
    \* History: tasks are numbered in the order they are published.
    head, tail,                          \* tasks that have left / entered the ring
    bad,                                 \* first task lost since the last restart, if any
    before                               \* value of tail when t began to synchronize

ring   == <<datas, read_idx, write_idx, head, tail>>
flags  == <<readWorking, writeWorking, need_empty>>
efds   == <<efd_read, efd_write, efd_empty>>
locals == <<first, before>>
mutexes == <<mu_enqueue, mu_empty>>
others == <<cpc, dpc, fault, bad>>       \* what no application thread changes
apps   == <<pc, locals, mutexes>>        \* what only application threads change
vars   == <<ring, repo_status, flags, efds, apps, others, left>>

(***************************************************************************)
(* The ring.                                                               *)
(***************************************************************************)
Idx == 0 .. Capacity - 1
NoMask(i) == i + 1
Next1(i) == (i + 1) % Capacity
NoWrapEmpty == read_idx >= write_idx
IsEmptyQueue == read_idx = write_idx
NoRoomCheck == FALSE
IsFullQueue == Next1(write_idx) = read_idx

\* The second look each side takes after it announced that it may sleep.
NoDoubleCheck == TRUE
ProducerSleeps == IsFullQueue
ConsumerSleeps == IsEmptyQueue
SyncSleeps == ~IsEmptyQueue

\* Distance from the read index, going forward.
Dist(i) == IF i >= read_idx THEN i - read_idx ELSE i + Capacity - read_idx
Occupied(i) == Dist(i) < Dist(write_idx)

EnqueuePC == {"e_catch", "e_begin", "e_run", "e_init", "e_write", "e_copy", "e_publish",
    "e_notify", "e_wake", "e_idle", "e_full", "e_wait", "e_resume", "e_end", "e_after"}
SyncPC == {"s_check", "s_need", "s_double", "s_wait", "s_clear", "s_status",
    "s_catch", "s_change"}
ThreadPC == {"idle"} \cup EnqueuePC \cup SyncPC
ConsumerPC == {"c_top", "c_top2", "c_begin", "c_while", "c_device", "c_read", "c_call",
    "c_release", "c_ignore", "c_error", "c_error2", "c_clear", "c_cleared", "c_need",
    "c_empty", "c_wakeempty", "c_write", "c_wakewrite", "c_exit1", "c_exit2", "c_exit3",
    "c_exit4", "c_idle", "c_sleep", "c_wait", "c_resume", "c_end", "c_gone"}

Init ==
    /\ datas = [i \in Idx |-> 0] /\ read_idx = 0 /\ write_idx = 0
    /\ head = 0 /\ tail = 0
    /\ repo_status = "INIT"
    /\ readWorking = FALSE /\ writeWorking = FALSE /\ need_empty = FALSE
    /\ efd_read = FALSE /\ efd_write = FALSE /\ efd_empty = FALSE
    /\ mu_enqueue = NoThread /\ mu_empty = NoThread
    /\ pc = [t \in Threads |-> "idle"] /\ cpc = "c_top" /\ dpc = "d_idle"
    /\ first = {} /\ before = [t \in Threads |-> 0]
    /\ fault = "none" /\ left \in Budgets
    /\ bad = {}

Goto(t, l) == pc' = [pc EXCEPT ![t] = l]
Branch(t, c, yes, no) == Goto(t, IF c THEN yes ELSE no)
Spend(e) == left[e] > 0 /\ left' = [left EXCEPT ![e] = @ - 1]

\* The task is of a type that does not throw: LAZY_DESTROY_EVENT or RECORD_EVENT.
ThrowDeviceError(exempt) == repo_status \in DeviceErrors /\ ~exempt

(***************************************************************************)
(* Enqueue, called by enCurrentNPUStream.                                  *)
(***************************************************************************)
EnqueueCall(t, exempt) ==
    /\ t \in Producers /\ pc[t] = "idle" /\ dpc = "d_idle" /\ Spend("task")
    /\ Goto(t, CASE ThrowDeviceError(exempt)        -> "idle"
                 [] repo_status = "ERROR_EXIT"      -> "e_catch"
                 [] repo_status \in {"RUN", "INIT"} -> "e_begin"
                 [] OTHER                           -> "e_after") \* refused, logged
    /\ UNCHANGED <<ring, repo_status, flags, efds, locals, mutexes, others>>

\* SetStatus(CAN_EXIT) and throw the inner error.
EnqueueCatch(t) ==
    /\ pc[t] = "e_catch" /\ Goto(t, "idle")
    /\ repo_status' = "CAN_EXIT"
    /\ UNCHANGED <<ring, flags, efds, locals, mutexes, others, left>>

SetWriteWorking(t) ==
    /\ \/ pc[t] \in {"e_begin", "e_resume"} /\ writeWorking' = TRUE /\ Goto(t, "e_run")
       \/ pc[t] = "e_idle" /\ writeWorking' = FALSE /\ Goto(t, "e_full")
       \/ pc[t] = "e_end" /\ writeWorking' = FALSE /\ Goto(t, "e_after")
    /\ UNCHANGED <<ring, repo_status, readWorking, need_empty, efds, locals, mutexes,
                   others, left>>

\* while (!ret && (GetStatus() == RUN || GetStatus() == INIT)): two loads.
\* The other tests of shared words in Enqueue and in enCurrentNPUStream.
EnqueueTest(t) ==
    /\ \/ pc[t] = "e_run" /\ Branch(t, repo_status = "RUN", "e_write", "e_init")
       \/ pc[t] = "e_init" /\ Branch(t, repo_status = "INIT", "e_write", "e_end")
       \/ pc[t] = "e_full" /\ Branch(t, ProducerSleeps, "e_wait", "e_run")
       \/ pc[t] = "e_notify" /\ Branch(t, readWorking, "e_end", "e_wake")
    /\ UNCHANGED <<ring, repo_status, flags, efds, locals, mutexes, others, left>>

\* WriteQueue up to the copy: lock mu_enqueue, check the status, check for room.
\* The exception leaves writeWorking set.
WriteQueueLock(t, exempt) ==
    /\ pc[t] = "e_write" /\ mu_enqueue = NoThread
    /\ \/ ThrowDeviceError(exempt) /\ Goto(t, "idle") /\ UNCHANGED mu_enqueue
       \/ /\ ~ThrowDeviceError(exempt) /\ IsFullQueue
          /\ Goto(t, "e_idle") /\ UNCHANGED mu_enqueue
       \/ ~ThrowDeviceError(exempt) /\ ~IsFullQueue /\ Goto(t, "e_copy") /\ mu_enqueue' = t
    /\ UNCHANGED <<ring, repo_status, flags, efds, locals, mu_empty, others, left>>

WriteQueueCopy(t) ==
    /\ pc[t] = "e_copy" /\ Goto(t, "e_publish")
    /\ datas' = [datas EXCEPT ![write_idx] = tail]
    /\ UNCHANGED <<read_idx, write_idx, head, tail, repo_status, flags, efds, locals,
                   mutexes, others, left>>

WriteQueuePublish(t) ==
    /\ pc[t] = "e_publish" /\ Goto(t, "e_notify")
    /\ write_idx' = Next1(write_idx) /\ tail' = tail + 1
    /\ mu_enqueue' = NoThread
    /\ UNCHANGED <<datas, read_idx, head, repo_status, flags, efds, locals, mu_empty,
                   others, left>>

\* eventfd_write(efd_read).
EnqueueWake(t) ==
    /\ pc[t] = "e_wake" /\ Goto(t, "e_end") /\ efd_read' = TRUE
    /\ UNCHANGED <<ring, repo_status, flags, efd_write, efd_empty, locals, mutexes,
                   others, left>>

\* eventfd_read(efd_write) returns.
EnqueueWait(t) ==
    /\ pc[t] = "e_wait" /\ efd_write /\ Goto(t, "e_resume")
    /\ efd_write' = FALSE
    /\ UNCHANGED <<ring, repo_status, flags, efd_read, efd_empty, locals, mutexes,
                   others, left>>

\* Back in enCurrentNPUStream: the first tasks are waited for.
EnqueueAfter(t) ==
    /\ pc[t] = "e_after"
    /\ \/ /\ repo_status = "INIT" /\ Goto(t, "s_check")
          /\ first' = first \cup {t}
          /\ before' = [before EXCEPT ![t] = tail]
       \/ repo_status # "INIT" /\ Goto(t, "idle") /\ UNCHANGED locals
    /\ UNCHANGED <<ring, repo_status, flags, efds, mutexes, others, left>>

(***************************************************************************)
(* MakeSureQueueEmpty.                                                     *)
(***************************************************************************)
Return(t) ==
    /\ Goto(t, "idle")
    /\ first' = first \ {t} /\ before' = [before EXCEPT ![t] = 0]

SyncCall(t) ==
    /\ pc[t] = "idle" /\ dpc = "d_idle" /\ Spend("sync") /\ Goto(t, "s_check")
    /\ before' = [before EXCEPT ![t] = tail]
    /\ UNCHANGED <<ring, repo_status, flags, efds, first, mutexes, others>>

SyncTest(t) ==
    /\ \/ pc[t] = "s_check" /\ Branch(t, IsEmptyQueue, "s_status", "s_need")
       \/ pc[t] = "s_double" /\ Branch(t, SyncSleeps, "s_wait", "s_clear")
    /\ UNCHANGED <<ring, repo_status, flags, efds, locals, mutexes, others, left>>

\* Lock mu_empty, need_empty = true.
SyncNeed(t) ==
    /\ pc[t] = "s_need" /\ mu_empty = NoThread /\ Goto(t, "s_double")
    /\ mu_empty' = t /\ need_empty' = TRUE
    /\ UNCHANGED <<ring, repo_status, readWorking, writeWorking, efds, locals,
                   mu_enqueue, others, left>>

SyncWait(t) ==
    /\ pc[t] = "s_wait" /\ efd_empty /\ Goto(t, "s_clear")
    /\ efd_empty' = FALSE
    /\ UNCHANGED <<ring, repo_status, flags, efd_read, efd_write, locals, mutexes,
                   others, left>>

SyncClear(t) ==
    /\ pc[t] = "s_clear" /\ Goto(t, "s_check")
    /\ need_empty' = FALSE /\ mu_empty' = NoThread
    /\ UNCHANGED <<ring, repo_status, readWorking, writeWorking, efds, locals,
                   mu_enqueue, others, left>>

\* The one load of the status decides: a device error throws, ERROR_EXIT is
\* handled in the next step, anything else is success.
SyncStatus(t) ==
    /\ pc[t] = "s_status"
    /\ \/ repo_status \in DeviceErrors /\ Return(t)
       \/ repo_status = "ERROR_EXIT" /\ Goto(t, "s_catch") /\ UNCHANGED locals
       \/ /\ repo_status \notin DeviceErrors \cup {"ERROR_EXIT"}
          /\ IF t \in first THEN Goto(t, "s_change") /\ UNCHANGED locals ELSE Return(t)
    /\ UNCHANGED <<ring, repo_status, flags, efds, mutexes, others, left>>

\* SetStatus(CAN_EXIT) and return, by an exception when check_error is true.
SyncCatch(t) ==
    /\ pc[t] = "s_catch" /\ Return(t)
    /\ repo_status' = "CAN_EXIT"
    /\ UNCHANGED <<ring, flags, efds, mutexes, others, left>>

\* ChangeStatus(INIT, RUN) of enCurrentNPUStream.
SyncChange(t) ==
    /\ pc[t] = "s_change" /\ Return(t)
    /\ repo_status' = IF repo_status = "INIT" THEN "RUN" ELSE repo_status
    /\ UNCHANGED <<ring, flags, efds, mutexes, others, left>>

\* EINTR: the two blocking reads go back to the top of their loop.
Interrupt(t) ==
    /\ Spend("signal")
    /\ \/ pc[t] = "e_wait" /\ Goto(t, "e_run") /\ UNCHANGED mu_empty
       \/ pc[t] = "s_wait" /\ Goto(t, "s_check") /\ mu_empty' = NoThread
    /\ UNCHANGED <<ring, repo_status, flags, efds, locals, mu_enqueue, others>>

(***************************************************************************)
(* The consumer: StartConsume, Dequeue, ReadQueue, CheckDeviceError.       *)
(***************************************************************************)
CGoto(l) == cpc' = l
CBranch(c, yes, no) == CGoto(IF c THEN yes ELSE no)

\* StartConsume's loop condition (two loads), Dequeue's loop condition, the
\* test for a device error, and the tests after ReadQueue returned false.
ConsumerStatus ==
    /\ \/ cpc = "c_top" /\ CBranch(repo_status = "CAN_EXIT", "c_gone", "c_top2")
       \/ cpc = "c_top2" /\ CBranch(repo_status = "ERROR_EXIT", "c_gone", "c_begin")
       \/ cpc = "c_while" /\ CBranch(repo_status = "CAN_EXIT", "c_end", "c_device")
       \/ cpc = "c_device" /\ CBranch(repo_status \in DeviceErrors, "c_clear", "c_read")
       \/ cpc = "c_exit1" /\ CBranch(repo_status = "NEED_EXIT", "c_exit2", "c_exit3")
       \/ cpc = "c_exit3" /\ CBranch(repo_status = "ERROR_EXIT", "c_end", "c_exit4")
       \/ cpc = "c_exit4" /\ CBranch(repo_status = "STOP_EXIT", "c_while", "c_idle")
    /\ UNCHANGED <<ring, repo_status, flags, efds, apps, dpc, fault, bad, left>>

\* ChangeStatus(NEED_EXIT, CAN_EXIT), then leave the loop.
ConsumerExit ==
    /\ cpc = "c_exit2" /\ CGoto("c_end")
    /\ repo_status' = IF repo_status = "NEED_EXIT" THEN "CAN_EXIT" ELSE repo_status
    /\ UNCHANGED <<ring, flags, efds, apps, dpc, fault, bad, left>>

SetReadWorking ==
    /\ \/ cpc \in {"c_begin", "c_resume"} /\ readWorking' = TRUE /\ CGoto("c_while")
       \/ cpc = "c_idle" /\ readWorking' = FALSE /\ CGoto("c_sleep")
       \/ cpc = "c_end" /\ readWorking' = FALSE /\ CGoto("c_top")
    /\ UNCHANGED <<ring, repo_status, writeWorking, need_empty, efds, apps, dpc, fault,
                   bad, left>>

\* Tests of the ring and of the flags in ReadQueue and Dequeue.
ConsumerTest ==
    /\ \/ cpc = "c_read" /\ CBranch(IsEmptyQueue, "c_exit1", "c_call")
       \/ cpc = "c_sleep" /\ CBranch(ConsumerSleeps, "c_wait", "c_while")
       \/ cpc = "c_need" /\ CBranch(need_empty, "c_empty", "c_write")
       \/ cpc = "c_empty" /\ CBranch(IsEmptyQueue, "c_wakeempty", "c_write")
       \/ cpc = "c_write" /\ CBranch(writeWorking, "c_end", "c_wakewrite")
    /\ UNCHANGED <<ring, repo_status, flags, efds, apps, dpc, fault, bad, left>>

\* Only the first loss matters: later tasks are lost with it.
Lose(n) == bad' = IF bad = {} THEN {n} ELSE bad
Pop == read_idx' = Next1(read_idx) /\ head' = head + 1

\* manager().Call: the launch succeeds or fails.
Call ==
    /\ cpc = "c_call"
    /\ \/ CGoto("c_release") /\ UNCHANGED <<fault, left, bad>>
       \/ /\ Spend("fault") /\ fault' \in FaultKinds /\ CGoto("c_ignore")
          /\ Lose(datas[read_idx])
    /\ UNCHANGED <<ring, repo_status, flags, efds, apps, dpc>>

\* manager().Release and the step of the read index.
Release ==
    /\ cpc = "c_release" /\ CGoto("c_need") /\ Pop
    /\ UNCHANGED <<datas, write_idx, tail, repo_status, flags, efds, apps, dpc, fault,
                   bad, left>>

\* while (!IsEmptyQueue()) "ignore other tasks".
IgnoreOtherTasks ==
    /\ cpc = "c_ignore"
    /\ IF IsEmptyQueue
         THEN CGoto("c_error") /\ UNCHANGED <<read_idx, head, bad>>
         ELSE Pop /\ Lose(datas[read_idx]) /\ UNCHANGED cpc
    /\ UNCHANGED <<datas, write_idx, tail, repo_status, flags, efds, apps, dpc, fault,
                   left>>

\* The status a recognised failure leads to.
ForgetStatus == repo_status
FailureStatus == IF fault = "unconfirmed" THEN repo_status ELSE fault

\* For an unrecognised error the test of STOP_EXIT and the store are two steps.
CheckDeviceError ==
    /\ \/ /\ cpc = "c_error" /\ fault = "other"
          /\ CBranch(repo_status = "STOP_EXIT", "c_clear", "c_error2")
          /\ UNCHANGED repo_status
       \/ cpc = "c_error2" /\ CGoto("c_clear") /\ repo_status' = "ERROR_EXIT"
       \/ /\ cpc = "c_error" /\ fault # "other" /\ CGoto("c_clear")
          /\ repo_status' = FailureStatus
    /\ UNCHANGED <<ring, flags, efds, apps, dpc, fault, bad, left>>

ResetIndex == read_idx' = 0
ClearIndex == read_idx' = write_idx

\* ClearQueue, from the device-error branch of Dequeue and from ReadQueue:
\* drop what is queued, then wake everyone.
ClearQueue ==
    /\ cpc = "c_clear" /\ CGoto("c_cleared")
    /\ ClearIndex /\ head' = tail
    /\ IF IsEmptyQueue THEN UNCHANGED bad ELSE Lose(datas[read_idx])
    /\ UNCHANGED <<datas, write_idx, tail, repo_status, flags, efds, apps, dpc, fault,
                   left>>

ClearQueueWake ==
    /\ cpc = "c_cleared" /\ CBranch(fault = "none", "c_while", "c_exit1")
    /\ efd_empty' = TRUE /\ efd_write' = TRUE /\ fault' = "none"
    /\ UNCHANGED <<ring, repo_status, flags, efd_read, apps, dpc, bad, left>>

\* eventfd_write(efd_empty) and eventfd_write(efd_write) after a launched task.
DequeueWake ==
    /\ \/ cpc = "c_wakeempty" /\ efd_empty' = TRUE /\ CGoto("c_write") /\ UNCHANGED efd_write
       \/ cpc = "c_wakewrite" /\ efd_write' = TRUE /\ CGoto("c_end") /\ UNCHANGED efd_empty
    /\ UNCHANGED <<ring, repo_status, flags, efd_read, apps, dpc, fault, bad, left>>

\* eventfd_read(efd_read) returns.
DequeueWait ==
    /\ cpc = "c_wait" /\ efd_read /\ CGoto("c_resume")
    /\ efd_read' = FALSE
    /\ UNCHANGED <<ring, repo_status, flags, efd_write, efd_empty, apps, dpc, fault,
                   bad, left>>

\* EINTR.
DequeueInterrupt ==
    /\ cpc = "c_wait" /\ Spend("signal") /\ CGoto("c_while")
    /\ UNCHANGED <<ring, repo_status, flags, efds, apps, dpc, fault, bad>>

(***************************************************************************)
(* Recovery and destruction.                                               *)
(***************************************************************************)
\* stop_device: the status changes whatever it was.
StopDevice ==
    /\ dpc = "d_idle" /\ Spend("stop") /\ repo_status' = "STOP_EXIT"
    /\ UNCHANGED <<ring, flags, efds, apps, others>>

\* restart_device: back to INIT, whatever the status was.  What was lost before
\* it is forgotten: training resumes from a checkpoint.
RestartDevice ==
    /\ dpc = "d_idle" /\ Spend("restart") /\ repo_status' = "INIT" /\ bad' = {}
    /\ UNCHANGED <<ring, flags, efds, apps, cpc, dpc, fault>>

\* eventfd_write(efd_read, 1): "escape wait".
EscapeWait == efd_read' = TRUE

\* ~Repository, when no thread uses the queue any more.
Destroy ==
    /\ \/ /\ dpc = "d_idle" /\ \A t \in Threads : pc[t] = "idle"
          /\ Spend("destroy") /\ dpc' = "d_wake" /\ repo_status' = "NEED_EXIT"
          /\ UNCHANGED efds
       \/ /\ dpc = "d_wake" /\ dpc' = "d_join" /\ EscapeWait
          /\ UNCHANGED <<repo_status, efd_write, efd_empty, left>>
       \/ /\ dpc = "d_join" /\ cpc = "c_gone" /\ dpc' = "d_done" /\ efd_empty' = TRUE
          /\ UNCHANGED <<repo_status, efd_read, efd_write, left>>
    /\ UNCHANGED <<ring, flags, apps, cpc, fault, bad>>

(***************************************************************************)
(* Specification.                                                          *)
(***************************************************************************)
\* What a thread does by itself once it is inside a call.
ThreadStep(t) ==
    \/ \E exempt \in BOOLEAN : WriteQueueLock(t, exempt)
    \/ EnqueueCatch(t) \/ SetWriteWorking(t) \/ EnqueueTest(t) \/ WriteQueueCopy(t)
    \/ WriteQueuePublish(t) \/ EnqueueWake(t) \/ EnqueueWait(t) \/ EnqueueAfter(t)
    \/ SyncTest(t) \/ SyncNeed(t) \/ SyncWait(t) \/ SyncClear(t)
    \/ SyncStatus(t) \/ SyncCatch(t) \/ SyncChange(t)

ConsumerStep ==
    \/ ConsumerStatus \/ ConsumerExit \/ SetReadWorking \/ ConsumerTest \/ Call \/ Release
    \/ IgnoreOtherTasks \/ CheckDeviceError \/ ClearQueue \/ ClearQueueWake
    \/ DequeueWake \/ DequeueWait

Next ==
    \/ \E t \in Threads :
        \/ \E exempt \in BOOLEAN : EnqueueCall(t, exempt)
        \/ SyncCall(t)
        \/ ThreadStep(t)
        \/ Interrupt(t)
    \/ ConsumerStep
    \/ DequeueInterrupt
    \/ StopDevice
    \/ RestartDevice
    \/ Destroy

Spec == Init /\ [][Next]_vars

\* The threads of the process are scheduled.  Whether a call is made, an interrupt
\* arrives or the device is stopped or restarted is left open.
Fairness ==
    /\ \A t \in Threads : WF_vars(ThreadStep(t))
    /\ WF_vars(ConsumerStep)
    /\ WF_vars(dpc # "d_idle" /\ Destroy)

FairSpec == Spec /\ Fairness

(***************************************************************************)
(* Properties.                                                             *)
(***************************************************************************)
\* Every variable keeps its type.
TypeOK ==
    /\ datas \in [Idx -> Nat] /\ read_idx \in Idx /\ write_idx \in Idx
    /\ head \in Nat /\ tail \in Nat
    /\ repo_status \in RepoStatus
    /\ readWorking \in BOOLEAN /\ writeWorking \in BOOLEAN /\ need_empty \in BOOLEAN
    /\ efd_read \in BOOLEAN /\ efd_write \in BOOLEAN /\ efd_empty \in BOOLEAN
    /\ mu_enqueue \in Threads \cup {NoThread} /\ mu_empty \in Threads \cup {NoThread}
    /\ pc \in [Threads -> ThreadPC] /\ cpc \in ConsumerPC
    /\ dpc \in {"d_idle", "d_wake", "d_join", "d_done"}
    /\ first \in SUBSET Threads /\ before \in [Threads -> Nat]
    /\ fault \in Failures \cup {"none"} /\ left \in [Events -> Nat]
    /\ bad \in SUBSET Nat

\* A producer only ever writes a free slot (WriteQueue's room check, made before
\* the copy, still holds at the copy and at the step of write_idx, whatever the
\* consumer does meanwhile), and the consumer only launches an occupied one.
NoOverwrite ==
    /\ \A t \in Threads : pc[t] \in {"e_copy", "e_publish"} =>
            mu_enqueue = t /\ ~IsFullQueue
    /\ cpc \in {"c_call", "c_release"} => ~IsEmptyQueue

\* The ring is a FIFO: its occupied slots hold, in order, exactly the tasks that
\* were published and have not left, through wrap-around, the discarding loop of
\* ReadQueue and ClearQueue.  So each task is launched at most once, in order.
RingIsFifo ==
    /\ tail = head + Dist(write_idx)
    /\ \A i \in Idx : Occupied(i) => datas[i] = head + Dist(i)

\* MakeSureQueueEmpty gets past its waiting loop only when every task published
\* before the call has left the ring, even if other threads keep submitting.
SyncCovers ==
    \A t \in Threads : pc[t] \in {"s_status", "s_catch", "s_change"} => head >= before[t]

\* Once a task failed or was dropped, nothing is launched until the device is
\* restarted: neither the tasks queued behind it nor later ones.
NoLaunchAfterLoss == cpc \in {"c_call", "c_release"} => bad = {}

\* Enqueue only gives up on a task when the queue is no longer accepting tasks.
NoSilentDrop ==
    [][\A t \in Threads : pc[t] = "e_init" /\ pc'[t] = "e_end" =>
          repo_status \notin {"INIT", "RUN"}]_vars

\* A call to Enqueue returns: no producer sleeps on efd_write for ever.
EnqueueReturns == \A t \in Producers : pc[t] \in EnqueuePC ~> pc[t] \notin EnqueuePC

\* A call to MakeSureQueueEmpty returns: no lost wake-up on efd_empty.
SyncReturns == \A t \in Threads : pc[t] \in SyncPC ~> pc[t] = "idle"

\* ~Repository returns: the consumer thread can always be joined.
DestroyReturns == (dpc = "d_wake") ~> (dpc = "d_done")

\* Whoever calls the queue gets back: Enqueue, MakeSureQueueEmpty and
\* ~Repository, whose wake-ups come from three eventfds and four flags.
CallsReturn == EnqueueReturns /\ SyncReturns /\ DestroyReturns

\* The consumer does not sleep on efd_read while tasks are queued.  (A queue that
\* is destroyed may be left with a task: the consumer that found the ring empty
\* and then sees NEED_EXIT does not look again.)
TasksLeave == (head < tail) ~> (head = tail \/ dpc # "d_idle")

RingContents == [k \in 1 .. Dist(write_idx) |-> datas[(read_idx + k - 1) % Capacity]]
Fifo == INSTANCE TaskFifo WITH Room <- Capacity - 1, queue <- RingContents, next <- tail
\* The ring of Repository, read from read_idx to write_idx, implements a bounded
\* FIFO queue: tasks leave in the order they were accepted, or are discarded.
ImplementsFifo == Fifo!Spec
=============================================================================
