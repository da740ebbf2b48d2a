------------------------------ MODULE NPUEvent ------------------------------
(***************************************************************************)
(* Events: class NPUEvent, the event tasks of AsyncTaskQueueInterface.cpp, *)
(* their launch functions in OpParamMaker.cpp and NPUEventManager.         *)
(*                                                                         *)
(* Recording an event or making a stream wait for it is itself a task: it  *)
(* goes through a task queue and reaches the device when the consumer      *)
(* thread launches it.  NPUEventManager counts, per event, the records and *)
(* waits that are still on their way, so that query, synchronize, block    *)
(* and the lazy destruction do not look at the device too early.           *)
(*                                                                         *)
(* A task queue appears here as the FIFO that module TaskQueue is shown to *)
(* implement.  There is one for the device, or one per stream when         *)
(* PER_STREAM_QUEUE is set.                                                *)
(***************************************************************************)
EXTENDS Naturals, Sequences

CONSTANTS
    Threads, Events, Streams,
    DefaultStream,
    Modes,             \* settings of the process, see below
    FailStatus,        \* statuses a failed launch may lead to
    MaxCalls,          \* bound on the calls of the application
    MaxFaults          \* bound on failed launches

\* SyncLaunch: streams that bypass the task queue; Ipc: events with flag
\* ACL_EVENT_IPC; PerStreamQueue: OptionsManager::GetPerStreamQueue; ExWithFlag:
\* acl::IsExistCreateEventExWithFlag.
ASSUME ModeAssumption ==
    /\ DefaultStream \in Streams
    /\ Modes \subseteq [SyncLaunch : SUBSET (Streams \ {DefaultStream}), Ipc : SUBSET Events,
                       PerStreamQueue : BOOLEAN, ExWithFlag : BOOLEAN]
ASSUME StatusAssumption == FailStatus \subseteq {"DEVICE", "ERROR"}

VARIABLES
    mode,             \* chosen when the process starts
    obj,              \* the NPUEvent object: "new", "live" or "dead"
    unrecorded,       \* event_unrecorded_count_
    unwaited,         \* event_unwaited_count_
    npu_events,       \* npu_events_
    pool,             \* events handed to thread_pool_
    destroyed,        \* aclrtDestroyEvent was called
    tasks, status,    \* per queue
    consumer,         \* per queue: what the thread in Dequeue does
    pc, call,         \* per thread: where it is, and the call it is in
    issued, launched, done,   \* records of an event: returned, launched, completed
    devwaits,         \* waits the device has not completed
    missed,           \* events for which a wait overtook an earlier record
    calls, faults     \* remaining budget

counts == <<unrecorded, unwaited>>
manager == <<npu_events, pool, destroyed>>
queues == <<tasks, status, consumer>>
device == <<launched, done, devwaits, missed>>
budget == <<calls, faults>>
vars == <<mode, obj, counts, manager, queues, pc, call, issued, device, budget>>

SyncLaunch == mode.SyncLaunch
Ipc == mode.Ipc
PerStreamQueue == mode.PerStreamQueue
ExWithFlag == mode.ExWithFlag

Task(type, e, s, seen) == [type |-> type, event |-> e, stream |-> s, seen |-> seen]

Init ==
    /\ mode \in Modes
    /\ obj = [e \in Events |-> "new"]
    /\ unrecorded = [e \in Events |-> 0] /\ unwaited = [e \in Events |-> 0]
    /\ npu_events = <<>> /\ pool = {} /\ destroyed = {}
    /\ tasks = [s \in Streams |-> <<>>] /\ status = [s \in Streams |-> "RUN"]
    /\ consumer = [s \in Streams |-> "read"]
    /\ pc = [t \in Threads |-> "idle"] /\ call = [t \in Threads |-> <<>>]
    /\ issued = [e \in Events |-> 0] /\ launched = [e \in Events |-> 0]
    /\ done = [e \in Events |-> 0] /\ devwaits = [e \in Events |-> 0] /\ missed = {}
    /\ calls = MaxCalls /\ faults = MaxFaults

Goto(t, l) == pc' = [pc EXCEPT ![t] = l]
\* A thread that returns forgets its call.
Return(t) == Goto(t, "idle") /\ call' = [call EXCEPT ![t] = <<>>]
Begin(t, l, k) == calls > 0 /\ calls' = calls - 1 /\ Goto(t, l) /\ call' = [call EXCEPT ![t] = k]

\* The queue enCurrentNPUStream puts a task of stream s into.
QueueOf(s) == IF PerStreamQueue THEN s ELSE DefaultStream

NoIncrease(e) == UNCHANGED unrecorded
IncreaseUnrecordedCount(e) == unrecorded' = [unrecorded EXCEPT ![e] = @ + 1]
IncreaseUnwaitedCount(e) == unwaited' = [unwaited EXCEPT ![e] = @ + 1]
\* Both check "event must enqueue before dequeue" first: see EnqueueBeforeDequeue.
NoDecrease(e) == UNCHANGED unrecorded
DecreaseUnrecordedCount(e) == unrecorded[e] > 0 /\ unrecorded' = [unrecorded EXCEPT ![e] = @ - 1]
DecreaseUnwaitedCount(e) == unwaited[e] > 0 /\ unwaited' = [unwaited EXCEPT ![e] = @ - 1]
AlwaysRecorded(e) == TRUE
IsEventRecorded(e) == unrecorded[e] = 0
IsEventWaited(e) == unwaited[e] = 0
ClearUnrecordedCount == unrecorded' = [e \in Events |-> 0]

\* aclrtRecordEvent and aclrtStreamWaitEvent reach the device.
AclRecord(e) == launched' = [launched EXCEPT ![e] = @ + 1] /\ UNCHANGED <<done, devwaits, missed>>
AclWait(e, seen) ==
    /\ devwaits' = [devwaits EXCEPT ![e] = @ + 1]
    /\ missed' = IF launched[e] < seen THEN missed \cup {e} ELSE missed
    /\ UNCHANGED <<launched, done>>

(***************************************************************************)
(* NPUEvent::record, block, query, synchronize and the destructor.         *)
(***************************************************************************)
Issued(e) == issued' = [issued EXCEPT ![e] = @ + 1]

\* record() up to IncreaseUnrecordedCount; on a sync-launch stream all of it.
Record(t, e, s) ==
    /\ pc[t] = "idle" /\ obj[e] # "dead" /\ obj' = [obj EXCEPT ![e] = "live"]
    /\ \/ /\ s \notin SyncLaunch /\ IncreaseUnrecordedCount(e)
          /\ Begin(t, "enqueue", Task("RECORD", e, s, 0)) /\ UNCHANGED <<issued, device>>
       \/ /\ s \in SyncLaunch /\ AclRecord(e) /\ Begin(t, "idle", <<>>)
          /\ Issued(e) /\ UNCHANGED unrecorded
    /\ UNCHANGED <<unwaited, manager, queues, faults>>

Block(t, e, s) ==
    /\ pc[t] = "idle" /\ obj[e] = "live"
    /\ Begin(t, "block", Task("WAIT", e, s, issued[e]))
    /\ UNCHANGED <<obj, counts, manager, queues, issued, device, faults>>

\* block() spins "to ensure that the enqueued record is dequeued before wait".
NoSpin(e) == TRUE
BlockMayGo(e) == (PerStreamQueue \/ e \in Ipc) => IsEventRecorded(e)

LaunchWaitTask(t) ==
    /\ pc[t] = "block" /\ BlockMayGo(call[t].event)
    /\ \/ /\ call[t].stream \notin SyncLaunch /\ IncreaseUnwaitedCount(call[t].event)
          /\ Goto(t, "enqueue") /\ UNCHANGED <<call, device>>
       \/ /\ call[t].stream \in SyncLaunch /\ AclWait(call[t].event, call[t].seen)
          /\ Return(t) /\ UNCHANGED unwaited
    /\ UNCHANGED <<obj, unrecorded, manager, queues, issued, budget>>

\* Enqueue: a queue that is not running drops the task; the first caller to see
\* ERROR_EXIT gets the exception, which skips the rest of the destructor.
Enqueue(t) ==
    LET k == call[t]
        q == QueueOf(k.stream)
        query == k.type = "DESTROY" /\ status[q] # "ERROR"
                 /\ (~ExWithFlag \/ PerStreamQueue \/ k.event \in Ipc)
    IN  /\ pc[t] = "enqueue"
        /\ tasks' = IF status[q] = "RUN" THEN [tasks EXCEPT ![q] = Append(@, k)] ELSE tasks
        /\ status' = IF status[q] = "ERROR" THEN [status EXCEPT ![q] = "EXIT"] ELSE status
        /\ IF query THEN Goto(t, "query") /\ UNCHANGED call ELSE Return(t)
        /\ IF k.type = "RECORD" /\ status[q] # "ERROR" THEN Issued(k.event) ELSE UNCHANGED issued
        /\ UNCHANGED <<obj, counts, manager, consumer, device, budget>>

\* query() and synchronize(): first the count, then the device.
Look(t, op, e) ==
    /\ pc[t] = "idle" /\ obj[e] = "live" /\ op \in {"query", "synchronize"}
    /\ Begin(t, "look", Task(op, e, DefaultStream, issued[e]))
    /\ UNCHANGED <<obj, counts, manager, queues, issued, device, faults>>

LookCount(t) ==
    /\ pc[t] = "look"
    /\ \/ IsEventRecorded(call[t].event) /\ Goto(t, "status") /\ UNCHANGED call
       \/ ~IsEventRecorded(call[t].event) /\ call[t].type = "query" /\ Return(t)
    /\ UNCHANGED <<obj, counts, manager, queues, issued, device, budget>>

Complete(e) == done[e] = launched[e]

\* "true" is the moment query returns true or synchronize returns.
LookStatus(t) ==
    /\ \/ pc[t] = "status" /\ Complete(call[t].event) /\ Goto(t, "true") /\ UNCHANGED call
       \/ /\ pc[t] = "status" /\ ~Complete(call[t].event) /\ call[t].type = "query"
          /\ Return(t)
       \/ pc[t] = "true" /\ Return(t)
    /\ UNCHANGED <<obj, counts, manager, queues, issued, device, budget>>

(***************************************************************************)
(* Lazy destruction.                                                       *)
(***************************************************************************)
DestroyAtOnce(e) == ExWithFlag /\ ~PerStreamQueue /\ e \notin Ipc

LazyDestroy(e) ==
    IF DestroyAtOnce(e)
      THEN destroyed' = destroyed \cup {e} /\ UNCHANGED <<npu_events, pool>>
      ELSE npu_events' = Append(npu_events, e) /\ UNCHANGED <<pool, destroyed>>

\* ~NPUEvent, run by the last owner while s is its current stream.
Destruct(t, e, s) ==
    /\ pc[t] = "idle" /\ obj[e] = "live" /\ obj' = [obj EXCEPT ![e] = "dead"]
    /\ \A u \in Threads : pc[u] # "idle" => call[u].event # e
    /\ \/ /\ s \notin SyncLaunch /\ UNCHANGED manager
          /\ Begin(t, "enqueue", Task("DESTROY", e, s, 0))
       \/ /\ s \in SyncLaunch /\ LazyDestroy(e)
          /\ IF DestroyAtOnce(e) THEN Begin(t, "idle", <<>>)
             ELSE Begin(t, "query", Task("DESTROY", e, s, 0))
    /\ UNCHANGED <<counts, queues, issued, device, faults>>

\* May the event be destroyed?  With several queues, and for IPC events, the
\* counts decide; otherwise the device does.
RecordedOnly(e) == IF PerStreamQueue \/ e \in Ipc THEN IsEventRecorded(e) ELSE Complete(e)
Destroyable(e) ==
    IF PerStreamQueue \/ e \in Ipc
      THEN IsEventRecorded(e) /\ IsEventWaited(e)
      ELSE Complete(e) /\ devwaits[e] = 0

\* The events at the front that may be destroyed go to the thread pool.
QueryAndDestroyEvent(t) ==
    /\ pc[t] = "query" /\ Return(t)
    /\ \E n \in 0 .. Len(npu_events) :
        /\ \A i \in 1 .. n : Destroyable(npu_events[i])
        /\ n < Len(npu_events) => ~Destroyable(npu_events[n + 1])
        /\ pool' = pool \cup {npu_events[i] : i \in 1 .. n}
        /\ npu_events' = SubSeq(npu_events, n + 1, Len(npu_events))
    /\ UNCHANGED <<obj, counts, destroyed, queues, issued, device, budget>>

\* NPUEventManager::run, in the thread pool.
Run(e) ==
    /\ e \in pool /\ pool' = pool \ {e} /\ destroyed' = destroyed \cup {e}
    /\ UNCHANGED <<obj, counts, npu_events, queues, pc, call, issued, device, budget>>

(***************************************************************************)
(* The consumer of queue q and the device.                                 *)
(***************************************************************************)
RecordEventFunc(q, e) ==
    /\ Head(tasks[q]).type = "RECORD" /\ AclRecord(e) /\ DecreaseUnrecordedCount(e)
    /\ UNCHANGED <<unwaited, manager>>

WaitEventFunc(q, e) ==
    /\ Head(tasks[q]).type = "WAIT" /\ AclWait(e, Head(tasks[q]).seen)
    /\ DecreaseUnwaitedCount(e) /\ UNCHANGED <<unrecorded, manager>>

LazyDestroyEventFunc(q, e) ==
    /\ Head(tasks[q]).type = "DESTROY" /\ LazyDestroy(e) /\ UNCHANGED <<counts, device>>

Launch(q) ==
    /\ consumer[q] = "read" /\ tasks[q] # <<>> /\ tasks' = [tasks EXCEPT ![q] = Tail(@)]
    /\ LET e == Head(tasks[q]).event IN
        \/ RecordEventFunc(q, e) \/ WaitEventFunc(q, e) \/ LazyDestroyEventFunc(q, e)
    /\ UNCHANGED <<obj, status, consumer, pc, call, issued, budget>>

Drop(q) == tasks' = [tasks EXCEPT ![q] = <<>>]
Consumer(q, c) == consumer' = [consumer EXCEPT ![q] = c]

\* A launch fails, and ReadQueue drops everything queued while the status still
\* is RUN.  A record or a wait that fails is no longer counted; the third case
\* is any other task, an operator queued before the events included.
LaunchFails(q) ==
    /\ consumer[q] = "read" /\ faults > 0 /\ faults' = faults - 1
    /\ \/ /\ tasks[q] # <<>> /\ Head(tasks[q]).type = "RECORD"
          /\ DecreaseUnrecordedCount(Head(tasks[q]).event) /\ UNCHANGED unwaited
       \/ /\ tasks[q] # <<>> /\ Head(tasks[q]).type = "WAIT"
          /\ DecreaseUnwaitedCount(Head(tasks[q]).event) /\ UNCHANGED unrecorded
       \/ UNCHANGED counts
    /\ Drop(q) /\ Consumer(q, "check")
    /\ UNCHANGED <<obj, manager, status, pc, call, issued, device, calls>>

CheckDeviceError(q) ==
    /\ consumer[q] = "check" /\ Consumer(q, "clear")
    /\ \E s \in FailStatus : status' = [status EXCEPT ![q] = s]
    /\ UNCHANGED <<obj, counts, manager, tasks, pc, call, issued, device, budget>>

\* The end of ReadQueue: the counts of all events go, whichever queue they are
\* in.  Dequeue then sleeps on efd_read, which nobody writes once the status
\* refuses tasks, or it finds efd_read written already and enters its loop.
KeepCounts(q) ==
    /\ consumer[q] = "clear" /\ Drop(q) /\ Consumer(q, "asleep") /\ UNCHANGED counts
    /\ UNCHANGED <<obj, manager, status, pc, call, issued, device, budget>>
ClearAfterError(q) ==
    /\ consumer[q] = "clear" /\ Drop(q) /\ ClearUnrecordedCount
    /\ \/ Consumer(q, "asleep")
       \/ status[q] = "DEVICE" /\ Consumer(q, "loop")
    /\ UNCHANGED <<obj, unwaited, manager, status, pc, call, issued, device, budget>>

\* Dequeue under a device error, once a millisecond.
DeviceErrorLoop(q) ==
    /\ consumer[q] = "loop" /\ Drop(q) /\ ClearUnrecordedCount
    /\ UNCHANGED <<obj, unwaited, manager, status, consumer, pc, call, issued, device, budget>>

FailureStep(q) ==
    LaunchFails(q) \/ CheckDeviceError(q) \/ ClearAfterError(q) \/ DeviceErrorLoop(q)

DeviceRecord(e) ==
    /\ done[e] # launched[e] /\ done' = [done EXCEPT ![e] = launched[e]]
    /\ UNCHANGED <<obj, counts, manager, queues, pc, call, issued, launched, devwaits, missed, budget>>

DeviceWait(e) ==
    /\ devwaits[e] > 0 /\ Complete(e) /\ devwaits' = [devwaits EXCEPT ![e] = @ - 1]
    /\ UNCHANGED <<obj, counts, manager, queues, pc, call, issued, launched, done, missed, budget>>

ThreadStep(t) ==
    \/ LaunchWaitTask(t) \/ Enqueue(t) \/ LookCount(t) \/ LookStatus(t)
    \/ QueryAndDestroyEvent(t)

Next ==
    /\ \/ \E t \in Threads, e \in Events :
            \/ \E s \in Streams : Record(t, e, s) \/ Block(t, e, s) \/ Destruct(t, e, s)
            \/ \E op \in {"query", "synchronize"} : Look(t, op, e)
       \/ \E t \in Threads : ThreadStep(t)
       \/ \E q \in Streams : Launch(q) \/ FailureStep(q)
       \/ \E e \in Events : Run(e) \/ DeviceRecord(e) \/ DeviceWait(e)
    /\ UNCHANGED mode

Spec == Init /\ [][Next]_vars

\* Threads are scheduled, those of the queues too, and the device makes progress.
FairSpec ==
    /\ Spec
    /\ \A t \in Threads : WF_vars(UNCHANGED mode /\ ThreadStep(t))
    /\ \A q \in Streams : WF_vars(UNCHANGED mode /\ (Launch(q) \/ FailureStep(q)))
    /\ \A e \in Events : WF_vars(UNCHANGED mode /\ (DeviceRecord(e) \/ DeviceWait(e)))

(***************************************************************************)
(* Properties.                                                             *)
(***************************************************************************)
TaskType == {"RECORD", "WAIT", "DESTROY", "query", "synchronize"}
Tasks == [type : TaskType, event : Events, stream : Streams, seen : Nat]

\* Types; the counts never go below zero and tasks sit in the queue of their stream.
TypeOK ==
    /\ mode \in Modes /\ obj \in [Events -> {"new", "live", "dead"}]
    /\ unrecorded \in [Events -> Nat] /\ unwaited \in [Events -> Nat]
    /\ npu_events \in Seq(Events) /\ pool \subseteq Events /\ destroyed \subseteq Events
    /\ tasks \in [Streams -> Seq(Tasks)]
    /\ \A q \in Streams : \A i \in DOMAIN tasks[q] : q = QueueOf(tasks[q][i].stream)
    /\ status \in [Streams -> {"RUN", "DEVICE", "ERROR", "EXIT"}]
    /\ consumer \in [Streams -> {"read", "check", "clear", "asleep", "loop"}]
    /\ pc \in [Threads -> {"idle", "enqueue", "block", "look", "status", "true", "query"}]
    /\ call \in [Threads -> Tasks \cup {<<>>}]
    /\ \A t \in Threads : pc[t] # "idle" => call[t] \in Tasks
    /\ issued \in [Events -> Nat] /\ launched \in [Events -> Nat] /\ done \in [Events -> Nat]
    /\ devwaits \in [Events -> Nat] /\ missed \subseteq Events

\* TORCH_CHECK of DecreaseUnrecordedCount and DecreaseUnwaitedCount: when the
\* consumer launches a record or a wait, the event is still counted.
EnqueueBeforeDequeue ==
    \A q \in Streams : consumer[q] = "read" /\ tasks[q] # <<>> =>
        /\ Head(tasks[q]).type = "RECORD" => unrecorded[Head(tasks[q]).event] > 0
        /\ Head(tasks[q]).type = "WAIT" => unwaited[Head(tasks[q]).event] > 0

\* An event is not destroyed in advance: no queued record or wait refers to a
\* destroyed event, and where the device decides it is done with the event.
NoUseAfterDestroy ==
    /\ \A q \in Streams : \A i \in DOMAIN tasks[q] :
        tasks[q][i].type \in {"RECORD", "WAIT"} => tasks[q][i].event \notin destroyed \cup pool
    /\ \A e \in destroyed : ~ExWithFlag /\ ~PerStreamQueue /\ e \notin Ipc =>
        Complete(e) /\ devwaits[e] = 0

\* "Makes all future work submitted to the given stream wait for this event":
\* the wait reaches the device after every record made before it, whichever
\* queues the two go through.
WaitSeesRecord == missed = {}

\* query() is true, and synchronize() returns, only when every record made
\* before has been launched and has completed.
QueryHonest ==
    \A t \in Threads : pc[t] = "true" => done[call[t].event] >= call[t].seen

\* A record of e was counted after the counts were cleared, and its queue refuses it.
RefusedLate(e) ==
    unrecorded[e] > 0 /\ \E t \in Threads :
        /\ pc[t] = "enqueue" /\ call[t].type = "RECORD" /\ call[t].event = e
        /\ consumer[QueueOf(call[t].stream)] = "asleep"

\* The spins of synchronize() and block() end, with a failing queue too: every
\* record is launched, or discarded and its count cleared with it.  The one case
\* without a way out is an event recorded on a queue that has stopped already.
EventSyncReturns ==
    \A e \in Events :
        \/ <>RefusedLate(e)
        \/ \A t \in Threads :
            pc[t] \in {"look", "block"} /\ call[t].event = e ~> pc[t] \notin {"look", "block"}
=============================================================================
