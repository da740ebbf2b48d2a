--------------------------- MODULE NPUEventProofs ---------------------------
(***************************************************************************)
(* Proofs about NPUEvent for every set of threads, events and streams and  *)
(* every number of calls, when no launch fails and streams that bypass the *)
(* task queue are only used with a queue per stream.                       *)
(***************************************************************************)
EXTENDS NPUEventCounts, TLAPS

\* The steps that are not pure logic name the SMT solver.
USE Zenon
USE DEF counts, manager, queues, device, budget

(***************************************************************************)
(* Destruction comes after every record and wait of the event.             *)
(***************************************************************************)
Uses == {"RECORD", "WAIT"}

\* No queued record or wait concerns event e.
NoUse(ts, e) ==
    \A q \in Streams : \A j \in 1 .. Len(ts[q]) : ts[q][j].type \in Uses => ts[q][j].event # e

\* In a queue, the records and waits of an event come before its destruction.
UsesFirst(ts) ==
    \A q \in Streams : \A i, j \in 1 .. Len(ts[q]) :
        ts[q][i].type = "DESTROY" /\ ts[q][j].type \in Uses /\ ts[q][i].event = ts[q][j].event => j < i

\* Calls and tasks that destroy an event are the ones of dead objects, and a dead
\* object is in no other call.
CallsFit(p, c, o) ==
    \A u \in Threads : p[u] # "idle" => (o[c[u].event] = "dead" <=> c[u].type = "DESTROY")
TasksFit(ts, o) ==
    \A q \in Streams : \A i \in 1 .. Len(ts[q]) : ts[q][i].type = "DESTROY" => o[ts[q][i].event] = "dead"

Listed(n) == {n[i] : i \in 1 .. Len(n)}
AllDead(E, o) == \A e \in E : o[e] = "dead"
Unused(E, ts) == \A e \in E : NoUse(ts, e)

\* Where the device decides, it has completed every record and wait.
DeviceDone(E, m, l, d, w) ==
    \A e \in E : ~m.ExWithFlag /\ ~m.PerStreamQueue /\ e \notin m.Ipc => d[e] = l[e] /\ w[e] = 0

DeadInv ==
    /\ CallsFit(pc, call, obj) /\ TasksFit(tasks, obj) /\ UsesFirst(tasks)
    /\ AllDead(Listed(npu_events) \cup pool \cup destroyed, obj)
    /\ Unused(pool \cup destroyed, tasks)
    /\ ~mode.PerStreamQueue => Unused(Listed(npu_events), tasks)
    /\ DeviceDone(pool \cup destroyed, mode, launched, done, devwaits)

\* Putting a task of another event does not use this event.
LEMMA NoUsePut ==
    ASSUME NEW ts \in [Streams -> Seq(Tasks)], NEW q \in Streams, NEW k \in Tasks, NEW e,
           NoUse(ts, e), k.type \in Uses => k.event # e
    PROVE  NoUse(Put(ts, q, k), e)
<1> DEFINE us == Put(ts, q, k)
<1>1. ASSUME NEW r \in Streams, NEW j \in 1 .. Len(us[r])
      PROVE  us[r][j] = k \/ (j \in 1 .. Len(ts[r]) /\ us[r][j] = ts[r][j])
  BY PutItems
<1> HIDE DEF us
<1> QED
  BY <1>1 DEF NoUse, us

\* Taking a task does not add a use of an event.
LEMMA NoUseTake ==
    ASSUME NEW ts \in [Streams -> Seq(Tasks)], NEW q \in Streams, ts[q] # <<>>, NEW e, NoUse(ts, e)
    PROVE  NoUse(Take(ts, q), e)
<1> DEFINE us == Take(ts, q)
<1>1. ASSUME NEW r \in Streams, NEW j \in 1 .. Len(us[r])
      PROVE  \E i \in 1 .. Len(ts[r]) : us[r][j] = ts[r][i]
  BY SMTT(30), TakeItems
<1> HIDE DEF us
<1> QED
  BY SMT, <1>1 DEF NoUse, us

\* A task is enqueued: a use only while its event is not being destroyed.
LEMMA UsesFirstPut ==
    ASSUME NEW ts \in [Streams -> Seq(Tasks)], NEW q \in Streams, NEW k \in Tasks, NEW o,
           UsesFirst(ts), TasksFit(ts, o), k.type \in Uses => o[k.event] # "dead",
           k.type = "DESTROY" => o[k.event] = "dead"
    PROVE  UsesFirst(Put(ts, q, k)) /\ TasksFit(Put(ts, q, k), o)
<1> DEFINE us == Put(ts, q, k)
<1>1. ASSUME NEW r \in Streams, NEW j \in 1 .. Len(us[r])
      PROVE  \/ r = q /\ j = Len(ts[q]) + 1 /\ us[r][j] = k
             \/ j \in 1 .. Len(ts[r]) /\ us[r][j] = ts[r][j]
  BY PutItems
<1>2. \A r \in Streams : Len(ts[r]) \in Nat
  BY SMT
<1> HIDE DEF us
<1>3. TasksFit(us, o)
  BY SMTT(30), <1>1 DEF TasksFit
<1>4. ASSUME NEW r \in Streams, NEW i \in 1 .. Len(us[r]), NEW j \in 1 .. Len(us[r]),
             us[r][i].type = "DESTROY", us[r][j].type \in Uses, us[r][i].event = us[r][j].event
      PROVE  j < i
  <2>1. CASE r = q /\ j = Len(ts[q]) + 1 /\ us[r][j] = k
    <3>1. o[us[r][i].event] = "dead"
      BY <1>3, <1>4 DEF TasksFit
    <3> QED
      BY <1>4, <2>1, <3>1
  <2>2. CASE j \in 1 .. Len(ts[r]) /\ us[r][j] = ts[r][j]
    <3>1. CASE r = q /\ i = Len(ts[q]) + 1
      BY SMT, <1>2, <2>2, <3>1
    <3>2. CASE i \in 1 .. Len(ts[r]) /\ us[r][i] = ts[r][i]
      BY <1>4, <2>2, <3>2 DEF UsesFirst
    <3> QED
      BY <1>1, <3>1, <3>2
  <2> QED
    BY <1>1, <2>1, <2>2
<1> QED
  BY <1>3, <1>4 DEF UsesFirst, us

\* The first task is taken.
LEMMA UsesFirstTake ==
    ASSUME NEW ts \in [Streams -> Seq(Tasks)], NEW q \in Streams, ts[q] # <<>>, NEW o,
           UsesFirst(ts), TasksFit(ts, o)
    PROVE  UsesFirst(Take(ts, q)) /\ TasksFit(Take(ts, q), o)
<1> DEFINE us == Take(ts, q)
<1>1. ASSUME NEW r \in Streams, NEW j \in 1 .. Len(us[r])
      PROVE  /\ (IF r = q THEN j + 1 ELSE j) \in 1 .. Len(ts[r]) /\ j \in Nat
             /\ us[r][j] = ts[r][IF r = q THEN j + 1 ELSE j]
  BY SMT, TakeItems
<1> HIDE DEF us
<1>2. TasksFit(us, o)
  BY SMT, <1>1 DEF TasksFit
<1>3. ASSUME NEW r \in Streams, NEW i \in 1 .. Len(us[r]), NEW j \in 1 .. Len(us[r]),
             us[r][i].type = "DESTROY", us[r][j].type \in Uses, us[r][i].event = us[r][j].event
      PROVE  j < i
  <2>1. PICK a \in 1 .. Len(ts[r]), b \in 1 .. Len(ts[r]) :
            /\ a = (IF r = q THEN i + 1 ELSE i) /\ us[r][i] = ts[r][a]
            /\ b = (IF r = q THEN j + 1 ELSE j) /\ us[r][j] = ts[r][b]
    BY <1>1
  <2>2. b < a
    BY <1>3, <2>1 DEF UsesFirst
  <2>3. i \in Nat /\ j \in Nat
    BY <1>1
  <2> QED
    BY SMT, <2>1, <2>2, <2>3
<1> QED
  BY <1>2, <1>3 DEF UsesFirst, us

\* With one queue, nothing uses an event when its destruction comes to the front.
LEMMA DestroyLast ==
    ASSUME NEW ts, NEW m, QueuesOK(ts, m), ~m.PerStreamQueue, UsesFirst(ts),
           NEW q \in Streams, ts[q] # <<>>, Head(ts[q]).type = "DESTROY"
    PROVE  NoUse(ts, Head(ts[q]).event)
<1>1. ts \in [Streams -> Seq(Tasks)]
  BY DEF QueuesOK
<1>2. 1 \in 1 .. Len(ts[q]) /\ Head(ts[q]) = ts[q][1] /\ 1 \in DOMAIN ts[q]
  BY SMT, <1>1
<1>3. q = DefaultStream
  BY <1>2 DEF QueuesOK
<1> SUFFICES ASSUME NEW r \in Streams, NEW j \in 1 .. Len(ts[r]), ts[r][j].type \in Uses,
                    ts[r][j].event = ts[q][1].event
             PROVE  FALSE
  BY <1>2 DEF NoUse
<1>4. j \in DOMAIN ts[r]
  BY SMT, <1>1
<1>5. r = q
  BY <1>3, <1>4 DEF QueuesOK
<1>6. j < 1
  BY <1>2, <1>5 DEF UsesFirst
<1> QED
  BY SMT, <1>6

\* Both counts are zero: no task on its way uses the event.
LEMMA CountedOut ==
    ASSUME FiniteFacts, TypeOK, CountInv, NEW e \in Events, IsEventRecorded(e), IsEventWaited(e)
    PROVE  NoUse(tasks, e)
<1>1. /\ Counted(0, tasks, pc, call, "RECORD", e)
      /\ Counted(0, tasks, pc, call, "WAIT", e)
  BY DEF CountInv, IsEventRecorded, IsEventWaited
<1>2. ASSUME NEW type, Counted(0, tasks, pc, call, type, e)
      PROVE  Queued(tasks, type, e) = {}
  <2>1. /\ IsFiniteSet(Queued(tasks, type, e))
        /\ Cardinality(Queued(tasks, type, e)) \in Nat
        /\ Cardinality(Submitting(pc, call, type, e)) \in Nat
        /\ 0 = Cardinality(Queued(tasks, type, e)) + Cardinality(Submitting(pc, call, type, e))
    BY <1>2 DEF Counted, FiniteFacts
  <2>2. Cardinality(Queued(tasks, type, e)) = 0
    BY SMT, <2>1
  <2>3. SUFFICES ASSUME NEW x \in Queued(tasks, type, e) PROVE FALSE
    OBVIOUS
  <2>4. /\ IsFiniteSet(Queued(tasks, type, e) \ {x})
        /\ Cardinality(Queued(tasks, type, e) \ {x}) = Cardinality(Queued(tasks, type, e)) - 1
        /\ Cardinality(Queued(tasks, type, e) \ {x}) \in Nat
    BY <2>1, <2>3 DEF FiniteFacts
  <2> QED
    BY SMT, <2>2, <2>4
<1>3. Queued(tasks, "RECORD", e) = {} /\ Queued(tasks, "WAIT", e) = {}
  BY <1>1, <1>2
<1> SUFFICES ASSUME NEW q \in Streams, NEW j \in 1 .. Len(tasks[q]), tasks[q][j].type \in Uses,
                    tasks[q][j].event = e
             PROVE  FALSE
  BY DEF NoUse
<1>4. <<q, j>> \in Positions /\ <<q, j>>[1] = q /\ <<q, j>>[2] = j /\ j <= Len(tasks[q])
  <2>1. Len(tasks[q]) \in Nat
    BY SMT DEF TypeOK
  <2> QED
    BY SMT, <2>1 DEF Positions
<1>5. <<q, j>> \in Queued(tasks, tasks[q][j].type, e)
  BY <1>4 DEF Queued
<1> QED
  BY <1>3, <1>5 DEF Uses

\* Thread t moves, to a call that fits its object.
LEMMA CallsFitMove ==
    ASSUME NEW p, NEW c, NEW p2, NEW c2, NEW o, NEW o2, NEW t \in Threads,
           CallsFit(p, c, o), OthersRest(p, c, p2, c2, t),
           \A u \in Threads : u # t /\ p[u] # "idle" =>
               (o2[c[u].event] = "dead" <=> o[c[u].event] = "dead"),
           p2[t] # "idle" => (o2[c2[t].event] = "dead" <=> c2[t].type = "DESTROY")
    PROVE  CallsFit(p2, c2, o2)
<1> SUFFICES ASSUME NEW u \in Threads, p2[u] # "idle"
             PROVE  o2[c2[u].event] = "dead" <=> c2[u].type = "DESTROY"
  BY DEF CallsFit
<1>1. CASE u = t
  BY <1>1
<1>2. CASE u # t
  BY <1>2 DEF CallsFit, OthersRest
<1> QED
  BY <1>1, <1>2

\* The same for the step at hand.
LEMMA CallsFitStep ==
    ASSUME NEW t \in Threads, DeadInv, OthersRest(pc, call, pc', call', t),
           \A u \in Threads : u # t /\ pc[u] # "idle" =>
               (obj'[call[u].event] = "dead" <=> obj[call[u].event] = "dead"),
           pc'[t] # "idle" => (obj'[call'[t].event] = "dead" <=> call'[t].type = "DESTROY")
    PROVE  CallsFit(pc', call', obj')
<1>1. CallsFit(pc, call, obj)
  BY DEF DeadInv
<1> QED
  BY SMT, <1>1, CallsFitMove

\* The same for a step that leaves the objects alone.
LEMMA CallsFitSame ==
    ASSUME NEW t \in Threads, DeadInv, OthersRest(pc, call, pc', call', t),
           pc'[t] # "idle" => (obj[call'[t].event] = "dead" <=> call'[t].type = "DESTROY")
    PROVE  CallsFit(pc', call', obj)
<1>1. CallsFit(pc, call, obj)
  BY DEF DeadInv
<1> QED
  BY SMT, <1>1, CallsFitMove

StillDead(o, o2) == \A e \in Events : o[e] = "dead" => o2[e] = "dead"

\* Events that were destroyed stay so, and so do the queues that respect it.
LEMMA StillFit ==
    ASSUME NEW ts \in [Streams -> Seq(Tasks)], NEW E \in SUBSET Events, NEW o, NEW o2,
           StillDead(o, o2), TasksFit(ts, o), AllDead(E, o)
    PROVE  TasksFit(ts, o2) /\ AllDead(E, o2)
<1>1. \A q \in Streams : \A i \in 1 .. Len(ts[q]) : ts[q][i] \in Tasks
  BY SMT
<1>2. \A k \in Tasks : k.event \in Events
  BY DEF Tasks
<1> QED
  BY <1>1, <1>2 DEF TasksFit, AllDead, StillDead

\* The events the manager knows are events.
LEMMA KnownEvents == ManagerOK => Listed(npu_events) \cup pool \cup destroyed \in SUBSET Events
BY SMT DEF ManagerOK, Listed

\* A step of a thread that changes neither the queues nor the manager nor the device.
LEMMA DeadQuiet ==
    ASSUME TypeOK, DeadInv, UNCHANGED <<mode, tasks, manager, launched, done, devwaits>>,
           CallsFit(pc', call', obj'), StillDead(obj, obj')
    PROVE  DeadInv'
<1>1. tasks \in [Streams -> Seq(Tasks)] /\ ManagerOK
  BY TypeParts DEF QueuesOK
<1>2. /\ TasksFit(tasks, obj')
      /\ AllDead(Listed(npu_events) \cup pool \cup destroyed, obj')
  BY <1>1, StillFit, KnownEvents DEF DeadInv
<1> QED
  BY <1>2 DEF DeadInv

\* A record or a wait reaches the device: the manager does not know its event.
LEMMA DeviceUse ==
    ASSUME NEW E \in SUBSET Events, NEW m, NEW l, NEW d, NEW w, NEW l2, NEW w2, NEW e,
           DeviceDone(E, m, l, d, w), e \notin E,
           \A f \in Events : f # e => l2[f] = l[f] /\ w2[f] = w[f]
    PROVE  DeviceDone(E, m, l2, d, w2)
BY DEF DeviceDone

\* A task leaves the queue.
LEMMA UnusedTake ==
    ASSUME NEW ts \in [Streams -> Seq(Tasks)], NEW q \in Streams, ts[q] # <<>>, NEW E, Unused(E, ts)
    PROVE  Unused(E, Take(ts, q))
BY NoUseTake DEF Unused

\* What is appended to the list is in it, and nothing else.
LEMMA ListedAppend ==
    ASSUME NEW n \in Seq(Events), NEW e \in Events
    PROVE  Listed(Append(n, e)) = Listed(n) \cup {e}
<1>1. Len(Append(n, e)) = Len(n) + 1 /\ Len(n) \in Nat
  BY SMT
<1>2. \A i \in 1 .. Len(n) : Append(n, e)[i] = n[i] /\ i \in 1 .. Len(n) + 1
  BY SMT, <1>1
<1>3. Append(n, e)[Len(n) + 1] = e /\ Len(n) + 1 \in 1 .. Len(n) + 1
  BY SMT, <1>1
<1>4. ASSUME NEW x PROVE x \in Listed(Append(n, e)) <=> x \in Listed(n) \cup {e}
  <2>1. ASSUME x \in Listed(Append(n, e)) PROVE x \in Listed(n) \cup {e}
    <3>1. PICK i \in 1 .. Len(n) + 1 : x = Append(n, e)[i]
      BY <1>1, <2>1 DEF Listed
    <3>2. CASE i = Len(n) + 1
      BY <1>3, <3>1, <3>2
    <3>3. CASE i \in 1 .. Len(n)
      BY <1>2, <3>1, <3>3 DEF Listed
    <3> QED
      BY SMT, <1>1, <3>2, <3>3
  <2>2. ASSUME x \in Listed(n) PROVE x \in Listed(Append(n, e))
    BY <1>1, <1>2, <2>2 DEF Listed
  <2>3. e \in Listed(Append(n, e))
    BY <1>1, <1>3 DEF Listed
  <2> QED
    BY <2>1, <2>2, <2>3
<1> QED
  BY <1>4

\* The consumer destroys the event, or leaves it to be destroyed.
LEMMA DeadLazy ==
    ASSUME TypeOK, DeadInv, UNCHANGED <<mode, launched, done, devwaits>>,
           NEW e \in Events, StillDead(obj, obj'), obj'[e] = "dead", LazyDestroy(e),
           ~mode.PerStreamQueue => NoUse(tasks, e)
    PROVE  /\ AllDead(Listed(npu_events') \cup pool' \cup destroyed', obj')
           /\ Unused(pool' \cup destroyed', tasks)
           /\ ~mode'.PerStreamQueue => Unused(Listed(npu_events'), tasks)
           /\ DeviceDone(pool' \cup destroyed', mode', launched', done', devwaits')
<1>0. npu_events \in Seq(Events)
  BY DEF TypeOK
<1>a. AllDead(Listed(npu_events) \cup pool \cup destroyed, obj')
  BY KnownEvents, TypeParts DEF DeadInv, AllDead, StillDead
<1>1. CASE DestroyAtOnce(e)
  <2>1. destroyed' = destroyed \cup {e} /\ UNCHANGED <<npu_events, pool>>
    BY <1>1 DEF LazyDestroy
  <2>2. mode.ExWithFlag /\ ~mode.PerStreamQueue
    BY <1>1 DEF DestroyAtOnce, ExWithFlag, PerStreamQueue
  <2> QED
    BY <1>a, <2>1, <2>2 DEF DeadInv, AllDead, Unused, DeviceDone
<1>2. CASE ~DestroyAtOnce(e)
  <2>1. npu_events' = Append(npu_events, e) /\ UNCHANGED <<pool, destroyed>>
    BY <1>2 DEF LazyDestroy
  <2>2. Listed(npu_events') = Listed(npu_events) \cup {e}
    BY <1>0, <2>1, ListedAppend
  <2> QED
    BY <1>a, <2>1, <2>2 DEF DeadInv, AllDead, Unused, DeviceDone
<1> QED
  BY <1>1, <1>2

\* A thread enqueues a use of a live object or the destruction of a dead one.
LEMMA DeadEnqueue ==
    ASSUME TypeOK, Healthy, DeadInv, UNCHANGED mode, NEW t \in Threads, Enqueue(t)
    PROVE  DeadInv'
<1>0. ThreadsOK /\ tasks \in [Streams -> Seq(Tasks)] /\ ManagerOK
  BY TypeParts DEF QueuesOK
<1>1. call[t] \in Tasks /\ call[t].event \in Events /\ call[t].stream \in Streams /\ pc[t] = "enqueue"
  BY <1>0 DEF Enqueue, ThreadsOK, Tasks
<1>2. PICK q \in Streams : q = QueueOf(call[t].stream) /\ status[q] = "RUN"
  BY <1>1, QueueType DEF Healthy
<1>3. tasks' = Put(tasks, q, call[t]) /\ UNCHANGED <<obj, manager, launched, done, devwaits>>
  BY <1>2 DEF Enqueue, Put
<1>4. call[t].type = "DESTROY" <=> obj[call[t].event] = "dead"
  BY <1>1 DEF DeadInv, CallsFit
<1>5. UsesFirst(Put(tasks, q, call[t])) /\ TasksFit(Put(tasks, q, call[t]), obj)
  BY <1>0, <1>1, <1>4, UsesFirstPut DEF DeadInv, Uses
<1>6. CallsFit(pc', call', obj)
  <2>1. CASE Return(t)
    <3>1. OthersRest(pc, call, pc', call', t) /\ pc'[t] = "idle"
      BY <1>0, <2>1, Returns
    <3> QED
      BY <3>1, CallsFitSame
  <2>2. CASE Goto(t, "query") /\ UNCHANGED call
    <3>1. OthersRest(pc, call, pc', call', t) /\ call'[t] = call[t]
      BY <1>0, <1>1, <2>2, Moves DEF Labels
    <3> QED
      BY <1>4, <3>1, CallsFitSame
  <2> QED
    BY <2>1, <2>2 DEF Enqueue
<1>7. ASSUME NEW E, E \subseteq Listed(npu_events) \cup pool \cup destroyed, Unused(E, tasks)
      PROVE  Unused(E, Put(tasks, q, call[t]))
  <2> SUFFICES ASSUME NEW e \in E PROVE NoUse(Put(tasks, q, call[t]), e)
    BY DEF Unused
  <2>1. obj[e] = "dead" /\ NoUse(tasks, e)
    BY <1>7 DEF DeadInv, AllDead, Unused
  <2>2. call[t].type \in Uses => call[t].event # e
    BY <1>4, <2>1 DEF Uses
  <2> QED
    BY <1>0, <1>1, <2>1, <2>2, NoUsePut
<1>8. /\ Unused(pool \cup destroyed, tasks')
      /\ ~mode.PerStreamQueue => Unused(Listed(npu_events), tasks')
  BY <1>3, <1>7 DEF DeadInv
<1> QED
  BY <1>3, <1>5, <1>6, <1>8 DEF DeadInv

\* The consumer launches a use of an event the manager does not destroy, or starts a
\* destruction that nothing in the one queue comes behind.
LEMMA DeadLaunch ==
    ASSUME TypeOK, DeadInv, UNCHANGED mode, NEW q \in Streams, Launch(q)
    PROVE  DeadInv'
<1>0. tasks \in [Streams -> Seq(Tasks)] /\ QueuesOK(tasks, mode) /\ ManagerOK /\ CountersOK
  BY TypeParts DEF QueuesOK
<1>1. /\ tasks[q] # <<>> /\ tasks' = Take(tasks, q) /\ UNCHANGED <<obj, pc, call>>
      /\ Head(tasks[q]) \in Tasks
  BY SMT, <1>0 DEF Launch, Take
<1>2. PICK e \in Events : e = Head(tasks[q]).event
  BY <1>1 DEF Tasks
<1>3. UsesFirst(Take(tasks, q)) /\ TasksFit(Take(tasks, q), obj)
  BY <1>0, <1>1, UsesFirstTake DEF DeadInv
<1>4. CallsFit(pc', call', obj')
  BY <1>1 DEF DeadInv
<1>5. /\ Unused(pool \cup destroyed, Take(tasks, q))
      /\ ~mode.PerStreamQueue => Unused(Listed(npu_events), Take(tasks, q))
  BY <1>0, <1>1, UnusedTake DEF DeadInv
<1>6. 1 \in 1 .. Len(tasks[q]) /\ Head(tasks[q]) = tasks[q][1]
  BY SMT, <1>0, <1>1
<1>7. CASE Head(tasks[q]).type \in Uses
  <2>1. e \notin pool \cup destroyed
    BY <1>2, <1>6, <1>7 DEF DeadInv, Unused, NoUse
  <2>2. UNCHANGED <<manager, done>> /\ \A f \in Events : f # e => launched'[f] = launched[f] /\ devwaits'[f] = devwaits[f]
    BY <1>0, <1>2, <1>7 DEF Launch, RecordEventFunc, WaitEventFunc, LazyDestroyEventFunc, AclRecord,
                            AclWait, Uses, CountersOK
  <2>3. pool \cup destroyed \in SUBSET Events
    BY <1>0 DEF ManagerOK
  <2>4. DeviceDone(pool \cup destroyed, mode, launched', done, devwaits')
    BY SMTT(30), <2>1, <2>2, <2>3, DeviceUse DEF DeadInv
  <2> QED
    BY <1>1, <1>3, <1>4, <1>5, <2>2, <2>4 DEF DeadInv
<1>8. CASE Head(tasks[q]).type = "DESTROY"
  <2>1. LazyDestroy(e) /\ UNCHANGED <<launched, done, devwaits>>
    BY <1>2, <1>8 DEF Launch, RecordEventFunc, WaitEventFunc, LazyDestroyEventFunc
  <2>2. obj[e] = "dead"
    BY <1>2, <1>6, <1>8 DEF DeadInv, TasksFit
  <2>3. ~mode.PerStreamQueue => NoUse(tasks, e)
    BY <1>0, <1>1, <1>2, <1>8, DestroyLast DEF DeadInv
  <2>4. /\ AllDead(Listed(npu_events') \cup pool' \cup destroyed', obj')
        /\ Unused(pool' \cup destroyed', tasks)
        /\ ~mode'.PerStreamQueue => Unused(Listed(npu_events'), tasks)
        /\ DeviceDone(pool' \cup destroyed', mode', launched', done', devwaits')
    BY <1>1, <2>1, <2>2, <2>3, DeadLazy DEF StillDead
  <2>5. /\ Unused(pool' \cup destroyed', Take(tasks, q))
        /\ ~mode'.PerStreamQueue => Unused(Listed(npu_events'), Take(tasks, q))
    BY <1>0, <1>1, <2>4, UnusedTake
  <2> QED
    BY <1>1, <1>3, <1>4, <2>4, <2>5 DEF DeadInv
<1> QED
  BY <1>7, <1>8 DEF Launch, RecordEventFunc, WaitEventFunc, LazyDestroyEventFunc, Uses

\* The events that may be destroyed go from the list to the pool: no task on its way
\* uses them, or the device is done with them.
LEMMA DeadQuery ==
    ASSUME FiniteFacts, TypeOK, CountInv, DeadInv, UNCHANGED mode, NEW t \in Threads, QueryAndDestroyEvent(t)
    PROVE  DeadInv'
<1>0. ThreadsOK /\ npu_events \in Seq(Events) /\ ManagerOK
  BY TypeParts DEF ManagerOK
<1>1. UNCHANGED <<obj, tasks, destroyed, launched, done, devwaits>> /\ Return(t)
  BY DEF QueryAndDestroyEvent
<1>2. CallsFit(pc', call', obj')
  <2>1. OthersRest(pc, call, pc', call', t) /\ pc'[t] = "idle"
    BY <1>0, <1>1, Returns
  <2> QED
    BY <1>1, <2>1, CallsFitStep
<1>3. PICK n \in 0 .. Len(npu_events) :
        /\ \A i \in 1 .. n : Destroyable(npu_events[i])
        /\ pool' = pool \cup {npu_events[i] : i \in 1 .. n}
        /\ npu_events' = SubSeq(npu_events, n + 1, Len(npu_events))
  BY DEF QueryAndDestroyEvent
<1>4. Listed(npu_events') \subseteq Listed(npu_events)
  <2>1. Len(npu_events) \in Nat /\ n \in Nat /\ n <= Len(npu_events)
    BY SMT, <1>0
  <2>2. Len(npu_events') = Len(npu_events) - n
    BY SMTT(30), <1>0, <1>3, <2>1
  <2>3. \A i \in 1 .. Len(npu_events) - n : npu_events'[i] = npu_events[i + n] /\ i + n \in 1 .. Len(npu_events)
    BY SMT, <1>0, <1>3, <2>1
  <2> QED
    BY <2>2, <2>3 DEF Listed
<1>5. ASSUME NEW e \in pool' \ pool
      PROVE  e \in Listed(npu_events) /\ e \in Events /\ Destroyable(e)
  <2>1. PICK i \in 1 .. n : e = npu_events[i]
    BY <1>3, <1>5
  <2>2. i \in 1 .. Len(npu_events) /\ npu_events[i] \in Events
    BY SMT, <1>0
  <2> QED
    BY <1>3, <2>1, <2>2 DEF Listed
<1>6. AllDead(Listed(npu_events') \cup pool' \cup destroyed', obj')
  BY <1>1, <1>4, <1>5 DEF DeadInv, AllDead
<1>7. Unused(pool' \cup destroyed', tasks')
  <2> SUFFICES ASSUME NEW e \in pool' \cup destroyed' PROVE NoUse(tasks, e)
    BY <1>1 DEF Unused
  <2>1. CASE e \in pool \cup destroyed
    BY <2>1 DEF DeadInv, Unused
  <2>2. CASE e \in pool' \ pool
    <3>1. CASE mode.PerStreamQueue
      BY <1>5, <2>2, <3>1, CountedOut DEF Destroyable, PerStreamQueue
    <3>2. CASE ~mode.PerStreamQueue
      BY <1>5, <2>2, <3>2 DEF DeadInv, Unused
    <3> QED
      BY <3>1, <3>2
  <2> QED
    BY <1>1, <2>1, <2>2
<1>8. ~mode'.PerStreamQueue => Unused(Listed(npu_events'), tasks')
  BY <1>1, <1>4 DEF DeadInv, Unused
<1>9. DeviceDone(pool' \cup destroyed', mode', launched', done', devwaits')
  BY <1>1, <1>5 DEF DeadInv, DeviceDone, Destroyable, Complete, PerStreamQueue, Ipc
<1> QED
  BY <1>1, <1>2, <1>6, <1>7, <1>8, <1>9 DEF DeadInv

\* No object is dead at the start.
LEMMA DeadInit == Init => DeadInv
<1> SUFFICES ASSUME Init PROVE DeadInv
  OBVIOUS
<1>1. /\ \A t \in Threads : pc[t] = "idle"
      /\ \A q \in Streams : Len(tasks[q]) = 0
      /\ pool = {} /\ destroyed = {} /\ Len(npu_events) = 0
  BY DEF Init
<1>2. Listed(npu_events) = {}
  BY SMT, <1>1 DEF Listed
<1> QED
  BY SMT, <1>1, <1>2 DEF DeadInv, CallsFit, TasksFit, UsesFirst, AllDead, Unused, DeviceDone

\* Every step keeps it.
LEMMA DeadNext ==
    ASSUME FiniteFacts, Ordered
    PROVE  TypeOK /\ Healthy /\ CountInv /\ DeadInv /\ [Next]_vars => DeadInv'
<1> SUFFICES ASSUME TypeOK, Healthy, CountInv, DeadInv, [Next]_vars PROVE DeadInv'
  OBVIOUS
<1>0. ThreadsOK /\ CountersOK /\ ManagerOK /\ SettingsOK /\ mode \in Modes
  BY TypeParts DEF SettingsOK
<1>a. UNCHANGED mode
  BY DEF Next, vars
<1>b. pool \cup destroyed \in SUBSET Events
  BY <1>0 DEF ManagerOK
<1>1. ASSUME NEW t \in Threads, NEW e \in Events, NEW s \in Streams, Record(t, e, s)
      PROVE  DeadInv'
  <2>1. /\ obj[e] # "dead" /\ pc[t] = "idle" /\ UNCHANGED <<tasks, manager, done, devwaits>>
        /\ obj' = [obj EXCEPT ![e] = "live"]
    BY <1>1 DEF Record, AclRecord
  <2>2. \A f \in Events : obj'[f] = "dead" <=> obj[f] = "dead"
    BY <1>0, <2>1 DEF SettingsOK
  <2>3. \A u \in Threads : u # t /\ pc[u] # "idle" =>
            (obj'[call[u].event] = "dead" <=> obj[call[u].event] = "dead")
    BY <1>0, <2>2 DEF ThreadsOK, Tasks
  <2>4. StillDead(obj, obj')
    BY <2>2 DEF StillDead
  <2>5. CASE s \notin SyncLaunch
    <3> DEFINE k == Task("RECORD", e, s, 0)
    <3>1. k \in Tasks /\ k.type = "RECORD" /\ k.event = e
      BY SMT, TaskFields DEF TaskType
    <3>2. Goto(t, "enqueue") /\ call' = [call EXCEPT ![t] = k] /\ UNCHANGED launched
      BY <1>1, <2>5 DEF Record, Begin
    <3> HIDE DEF k
    <3>3. OthersRest(pc, call, pc', call', t) /\ call'[t] = k
      BY <1>0, <3>1, <3>2, Moves DEF Labels
    <3>4. CallsFit(pc', call', obj')
      <4>1. obj'[call'[t].event] = "dead" <=> call'[t].type = "DESTROY"
        BY <2>1, <2>2, <3>1, <3>3
      <4> QED
        BY <2>3, <3>3, <4>1, CallsFitStep
    <3> QED
      BY <1>a, <2>1, <2>4, <3>2, <3>4, DeadQuiet
  <2>6. CASE s \in SyncLaunch
    <3>1. /\ Goto(t, "idle") /\ call' = [call EXCEPT ![t] = <<>>]
          /\ launched' = [launched EXCEPT ![e] = @ + 1]
      BY <1>1, <2>6 DEF Record, Begin, AclRecord
    <3>2. OthersRest(pc, call, pc', call', t) /\ pc'[t] = "idle"
      BY <1>0, <3>1, Moves DEF Labels
    <3>3. CallsFit(pc', call', obj')
      BY <2>3, <3>2, CallsFitStep
    <3>4. e \notin pool \cup destroyed
      BY <2>1 DEF DeadInv, AllDead
    <3>5. \A f \in Events : f # e => launched'[f] = launched[f] /\ devwaits[f] = devwaits[f]
      BY <1>0, <3>1 DEF CountersOK
    <3>6. DeviceDone(pool \cup destroyed, mode, launched', done, devwaits)
      BY <1>b, <3>4, <3>5, DeviceUse DEF DeadInv
    <3>7. TasksFit(tasks, obj') /\ AllDead(Listed(npu_events) \cup pool \cup destroyed, obj')
      BY <1>0, <2>4, StillFit, KnownEvents, TypeParts DEF DeadInv, QueuesOK
    <3> QED
      BY <1>a, <2>1, <3>3, <3>6, <3>7 DEF DeadInv
  <2> QED
    BY <2>5, <2>6
<1>2. ASSUME NEW t \in Threads, NEW e \in Events,
             \/ \E s \in Streams : Block(t, e, s)
             \/ \E op \in {"query", "synchronize"} : Look(t, op, e)
      PROVE  DeadInv'
  <2>1. /\ obj[e] = "live" /\ UNCHANGED <<obj, tasks, manager, launched, done, devwaits>>
        /\ \E l \in {"block", "look"}, type \in {"WAIT", "query", "synchronize"}, s \in Streams :
              Goto(t, l) /\ call' = [call EXCEPT ![t] = Task(type, e, s, issued[e])]
    BY <1>2, ModeAssumption DEF Block, Look, Begin
  <2>2. PICK l \in {"block", "look"}, type \in {"WAIT", "query", "synchronize"}, s \in Streams :
            Goto(t, l) /\ call' = [call EXCEPT ![t] = Task(type, e, s, issued[e])]
    BY <2>1
  <2>3. PICK k \in Tasks : k = Task(type, e, s, issued[e]) /\ k.event = e /\ k.type = type
    <3>1. issued[e] \in Nat
      BY <1>0 DEF CountersOK
    <3> QED
      BY SMT, <3>1, TaskFields DEF TaskType
  <2>4. OthersRest(pc, call, pc', call', t) /\ call'[t] = k
    BY <1>0, <2>2, <2>3, Moves DEF Labels
  <2>5. obj[call'[t].event] = "dead" <=> call'[t].type = "DESTROY"
    BY <2>1, <2>3, <2>4
  <2>6. CallsFit(pc', call', obj)
    BY <2>4, <2>5, CallsFitSame
  <2> QED
    BY <1>a, <2>1, <2>6, DeadQuiet DEF StillDead
<1>3. ASSUME NEW t \in Threads, NEW e \in Events, NEW s \in Streams, Destruct(t, e, s)
      PROVE  DeadInv'
  <2>1. /\ obj' = [obj EXCEPT ![e] = "dead"] /\ UNCHANGED <<tasks, launched, done, devwaits>>
        /\ \A u \in Threads : pc[u] # "idle" => call[u].event # e
    BY <1>3 DEF Destruct
  <2>2. \A f \in Events : obj'[f] = IF f = e THEN "dead" ELSE obj[f]
    BY <1>0, <2>1 DEF SettingsOK
  <2>3. \A u \in Threads : u # t /\ pc[u] # "idle" =>
            (obj'[call[u].event] = "dead" <=> obj[call[u].event] = "dead")
    BY <1>0, <2>1, <2>2 DEF ThreadsOK, Tasks
  <2>4. StillDead(obj, obj') /\ obj'[e] = "dead"
    BY <2>2 DEF StillDead
  <2> DEFINE k == Task("DESTROY", e, s, 0)
  <2>5. k \in Tasks /\ k.type = "DESTROY" /\ k.event = e
    BY SMT, TaskFields DEF TaskType
  <2>6. \/ \E l \in {"enqueue", "query"} : Goto(t, l) /\ call' = [call EXCEPT ![t] = k]
        \/ Goto(t, "idle") /\ call' = [call EXCEPT ![t] = <<>>]
    BY <1>3 DEF Destruct, Begin
  <2> HIDE DEF k
  <2>7. CallsFit(pc', call', obj')
    <3>1. CASE Goto(t, "idle") /\ call' = [call EXCEPT ![t] = <<>>]
      <4>1. OthersRest(pc, call, pc', call', t) /\ pc'[t] = "idle"
        BY <1>0, <3>1, Moves DEF Labels
      <4> QED
        BY <2>3, <4>1, CallsFitStep
    <3>2. ASSUME NEW l \in {"enqueue", "query"}, Goto(t, l), call' = [call EXCEPT ![t] = k]
          PROVE  CallsFit(pc', call', obj')
      <4>1. OthersRest(pc, call, pc', call', t) /\ call'[t] = k
        BY <1>0, <2>5, <3>2, Moves DEF Labels
      <4>2. obj'[call'[t].event] = "dead" <=> call'[t].type = "DESTROY"
        BY <2>4, <2>5, <4>1
      <4> QED
        BY <2>3, <4>1, <4>2, CallsFitStep
    <3> QED
      BY <2>6, <3>1, <3>2
  <2>8. CASE UNCHANGED manager
    BY <1>a, <2>1, <2>4, <2>7, <2>8, DeadQuiet
  <2>9. CASE s \in SyncLaunch /\ LazyDestroy(e)
    <3>1. mode.PerStreamQueue
      BY <1>0, <2>9 DEF Ordered, SyncLaunch
    <3>2. /\ AllDead(Listed(npu_events') \cup pool' \cup destroyed', obj')
          /\ Unused(pool' \cup destroyed', tasks)
          /\ ~mode'.PerStreamQueue => Unused(Listed(npu_events'), tasks)
          /\ DeviceDone(pool' \cup destroyed', mode', launched', done', devwaits')
      BY <1>a, <2>1, <2>4, <2>9, <3>1, DeadLazy
    <3>3. TasksFit(tasks, obj')
      BY <1>0, <2>4, StillFit, KnownEvents, TypeParts DEF DeadInv, QueuesOK
    <3> QED
      BY <2>1, <2>7, <3>2, <3>3 DEF DeadInv
  <2> QED
    BY <1>3, <2>8, <2>9 DEF Destruct
<1>4. ASSUME NEW t \in Threads, LaunchWaitTask(t)
      PROVE  DeadInv'
  <2>1. /\ call[t] \in Tasks /\ call[t].type = "WAIT" /\ pc[t] = "block"
        /\ UNCHANGED <<obj, tasks, manager, launched, done>>
    BY <1>0, <1>4 DEF LaunchWaitTask, ThreadsOK, Healthy, AclWait
  <2>2. call[t].event \in Events /\ obj[call[t].event] # "dead"
    BY <2>1 DEF Tasks, DeadInv, CallsFit
  <2>3. CASE call[t].stream \notin SyncLaunch
    <3>1. Goto(t, "enqueue") /\ UNCHANGED <<call, devwaits>>
      BY <1>4, <2>3 DEF LaunchWaitTask
    <3>2. OthersRest(pc, call, pc', call', t) /\ call'[t] = call[t]
      BY <1>0, <2>1, <3>1, Moves DEF Labels
    <3>3. obj[call'[t].event] = "dead" <=> call'[t].type = "DESTROY"
      BY <2>1, <2>2, <3>2
    <3>4. CallsFit(pc', call', obj)
      BY <3>2, <3>3, CallsFitSame
    <3> QED
      BY <1>a, <2>1, <3>1, <3>4, DeadQuiet DEF StillDead
  <2>4. CASE call[t].stream \in SyncLaunch
    <3>1. Return(t) /\ devwaits' = [devwaits EXCEPT ![call[t].event] = @ + 1]
      BY <1>4, <2>4 DEF LaunchWaitTask, AclWait
    <3>2. OthersRest(pc, call, pc', call', t) /\ pc'[t] = "idle"
      BY <1>0, <3>1, Returns
    <3>3. CallsFit(pc', call', obj)
      BY <3>2, CallsFitSame
    <3>4. PICK e \in Events : e = call[t].event /\ e \notin pool \cup destroyed
      BY <2>2 DEF DeadInv, AllDead
    <3>5. \A f \in Events : f # e => launched[f] = launched[f] /\ devwaits'[f] = devwaits[f]
      BY <1>0, <3>1, <3>4 DEF CountersOK
    <3>6. DeviceDone(pool \cup destroyed, mode, launched, done, devwaits')
      BY <1>b, <3>4, <3>5, DeviceUse DEF DeadInv
    <3> QED
      BY <1>a, <2>1, <3>3, <3>6 DEF DeadInv
  <2> QED
    BY <2>3, <2>4
<1>5. ASSUME NEW t \in Threads, Enqueue(t)
      PROVE  DeadInv'
  BY <1>a, <1>5, DeadEnqueue
<1>6. ASSUME NEW t \in Threads, LookCount(t) \/ LookStatus(t)
      PROVE  DeadInv'
  <2>1. UNCHANGED <<obj, tasks, manager, launched, done, devwaits>> /\ pc[t] # "idle"
    BY <1>6 DEF LookCount, LookStatus
  <2>2. \/ Return(t)
        \/ \E l \in {"status", "true"} : Goto(t, l) /\ UNCHANGED call
    BY <1>6 DEF LookCount, LookStatus
  <2>3. CASE Return(t)
    <3>1. OthersRest(pc, call, pc', call', t) /\ pc'[t] = "idle"
      BY <1>0, <2>3, Returns
    <3>2. CallsFit(pc', call', obj)
      BY <3>1, CallsFitSame
    <3> QED
      BY <1>a, <2>1, <3>2, DeadQuiet DEF StillDead
  <2>4. ASSUME NEW l \in {"status", "true"}, Goto(t, l), UNCHANGED call
        PROVE  DeadInv'
    <3>1. call[t] \in Tasks /\ (obj[call[t].event] = "dead" <=> call[t].type = "DESTROY")
      BY <1>0, <2>1 DEF ThreadsOK, DeadInv, CallsFit
    <3>2. OthersRest(pc, call, pc', call', t) /\ call'[t] = call[t]
      BY SMT, <1>0, <2>4, <3>1, Moves DEF Labels
    <3>3. obj[call'[t].event] = "dead" <=> call'[t].type = "DESTROY"
      BY <3>1, <3>2
    <3>4. CallsFit(pc', call', obj)
      BY <3>2, <3>3, CallsFitSame
    <3> QED
      BY <1>a, <2>1, <3>4, DeadQuiet DEF StillDead
  <2> QED
    BY <2>2, <2>3, <2>4
<1>7. ASSUME NEW t \in Threads, QueryAndDestroyEvent(t)
      PROVE  DeadInv'
  BY <1>a, <1>7, DeadQuery
<1>8. ASSUME NEW q \in Streams, Launch(q)
      PROVE  DeadInv'
  BY <1>a, <1>8, DeadLaunch
<1>9. ASSUME NEW q \in Streams, FailureStep(q)
      PROVE  DeadInv'
  BY SMT, <1>9 DEF FailureStep, LaunchFails, CheckDeviceError, ClearAfterError, DeviceErrorLoop, Healthy
<1>10. ASSUME NEW e \in Events, Run(e)
       PROVE  DeadInv'
  <2>1. /\ pool' \cup destroyed' = pool \cup destroyed
        /\ UNCHANGED <<obj, tasks, npu_events, pc, call, launched, done, devwaits>>
    BY <1>10 DEF Run
  <2>2. Listed(npu_events') \cup pool' \cup destroyed' = Listed(npu_events) \cup pool \cup destroyed
    BY <2>1
  <2> QED
    BY <1>a, <2>1, <2>2 DEF DeadInv
<1>11. ASSUME NEW e \in Events, DeviceRecord(e) \/ DeviceWait(e)
       PROVE  DeadInv'
  <2>1. UNCHANGED <<obj, tasks, manager, pc, call, launched>>
    BY <1>11 DEF DeviceRecord, DeviceWait
  <2>2. DeviceDone(pool \cup destroyed, mode, launched, done', devwaits')
    <3> SUFFICES ASSUME NEW f \in pool \cup destroyed,
                        ~mode.ExWithFlag /\ ~mode.PerStreamQueue /\ f \notin mode.Ipc
                 PROVE  done'[f] = launched[f] /\ devwaits'[f] = 0
      BY DEF DeviceDone
    <3>1. done[f] = launched[f] /\ devwaits[f] = 0 /\ f \in Events
      BY <1>b DEF DeadInv, DeviceDone
    <3>2. CASE DeviceRecord(e)
      BY <1>0, <3>1, <3>2 DEF DeviceRecord, CountersOK
    <3>3. CASE DeviceWait(e)
      <4>1. f # e
        BY SMT, <3>1, <3>3 DEF DeviceWait
      <4> QED
        BY <1>0, <3>1, <3>3, <4>1 DEF DeviceWait, CountersOK
    <3> QED
      BY <1>11, <3>2, <3>3
  <2> QED
    BY <1>a, <2>1, <2>2 DEF DeadInv
<1>12. CASE UNCHANGED vars
  BY <1>12 DEF vars, DeadInv
<1> QED
  BY <1>1, <1>2, <1>3, <1>4, <1>5, <1>6, <1>7, <1>8, <1>9, <1>10, <1>11, <1>12 DEF Next, ThreadStep

\* The invariant says what NoUseAfterDestroy asks.
LEMMA DeadUnused == TypeOK /\ DeadInv => NoUseAfterDestroy
<1> SUFFICES ASSUME TypeOK, DeadInv PROVE NoUseAfterDestroy
  OBVIOUS
<1>1. ASSUME NEW q \in Streams, NEW i \in DOMAIN tasks[q], tasks[q][i].type \in {"RECORD", "WAIT"}
      PROVE  tasks[q][i].event \notin destroyed \cup pool
  <2>1. i \in 1 .. Len(tasks[q])
    BY SMT DEF TypeOK
  <2> QED
    BY <1>1, <2>1 DEF DeadInv, Unused, NoUse, Uses
<1>2. ASSUME NEW e \in destroyed, ~ExWithFlag /\ ~PerStreamQueue /\ e \notin Ipc
      PROVE  Complete(e) /\ devwaits[e] = 0
  BY <1>2 DEF DeadInv, DeviceDone, ExWithFlag, PerStreamQueue, Ipc, Complete
<1> QED
  BY <1>1, <1>2 DEF NoUseAfterDestroy

(***************************************************************************)
(* The theorems.                                                           *)
(***************************************************************************)

\* Types; the counts of NPUEventManager never go below zero, whatever fails.
THEOREM TypeCorrect == Spec => []TypeOK
BY TypeInit, TypeNext, PTL DEF Spec

\* The invariants of the counts and of what calls saw are inductive together.
LEMMA SeenInductive ==
    ASSUME FiniteFacts, MaxFaults = 0
    PROVE  /\ Init => TypeOK /\ Healthy /\ CountInv /\ SeenInv
           /\ TypeOK /\ Healthy /\ CountInv /\ SeenInv /\ [Next]_vars
                  => (TypeOK /\ Healthy /\ CountInv /\ SeenInv)'
<1>1. Init => TypeOK /\ Healthy /\ CountInv /\ SeenInv
  BY TypeInit, HealthyInit, CountInit, SeenInit
<1>2. TypeOK /\ Healthy /\ CountInv /\ SeenInv /\ [Next]_vars
          => (TypeOK /\ Healthy /\ CountInv /\ SeenInv)'
  BY TypeNext, HealthyNext, CountNext, SeenNext
<1> QED
  BY <1>1, <1>2

\* And so is the invariant of destruction.
LEMMA DeadInductive ==
    ASSUME FiniteFacts, Ordered
    PROVE  /\ Init => TypeOK /\ Healthy /\ CountInv /\ DeadInv
           /\ TypeOK /\ Healthy /\ CountInv /\ DeadInv /\ [Next]_vars
                  => (TypeOK /\ Healthy /\ CountInv /\ DeadInv)'
<1>1. Init => TypeOK /\ Healthy /\ CountInv /\ DeadInv
  BY TypeInit, HealthyInit, CountInit, DeadInit DEF Ordered
<1>2. TypeOK /\ Healthy /\ CountInv /\ DeadInv /\ [Next]_vars
          => (TypeOK /\ Healthy /\ CountInv /\ DeadInv)'
  BY TypeNext, HealthyNext, CountNext, DeadNext
<1> QED
  BY <1>1, <1>2

INSTANCE FiniteSetTheorems

\* Subsets of finite sets, one element more or less, and sets of the same size.
LEMMA FiniteHolds == FiniteFacts
<1>1. IsFiniteSet({}) /\ Cardinality({}) = 0
  BY FS_EmptySet
<1>2. \A S : IsFiniteSet(S) => Cardinality(S) \in Nat
  BY FS_CardinalityType
<1>3. \A S : IsFiniteSet(S) => \A T \in SUBSET S : IsFiniteSet(T) /\ Cardinality(T) <= Cardinality(S)
  BY FS_Subset
<1>4. ASSUME NEW S, NEW x, IsFiniteSet(S)
      PROVE  /\ IsFiniteSet(S \cup {x}) /\ IsFiniteSet(S \ {x})
             /\ Cardinality(S \cup {x}) = IF x \in S THEN Cardinality(S) ELSE Cardinality(S) + 1
             /\ Cardinality(S \ {x}) = IF x \in S THEN Cardinality(S) - 1 ELSE Cardinality(S)
  BY <1>4, FS_AddElement, FS_RemoveElement
<1>5. SameSize
  <2> SUFFICES ASSUME NEW S, NEW T, NEW f, IsFiniteSet(T), f \in [S -> T],
                      \A x, y \in S : f[x] = f[y] => x = y, \A y \in T : \E x \in S : f[x] = y
               PROVE  IsFiniteSet(S) /\ Cardinality(S) = Cardinality(T)
    BY SMT DEF SameSize
  <2>1. f \in Injection(S, T) /\ f \in Surjection(S, T)
    BY DEF Injection, IsInjective, Surjection
  <2> QED
    BY <2>1, FS_Injection
<1> QED
  BY <1>1, <1>2, <1>3, <1>4, <1>5 DEF FiniteFacts

\* While no launch fails, the counts of NPUEventManager are the records and waits on
\* their way, so TORCH_CHECK(... > 0, "event must enqueue before dequeue") of
\* DecreaseUnrecordedCount and DecreaseUnwaitedCount holds.
THEOREM CountsSuffice == ASSUME MaxFaults = 0 PROVE Spec => []EnqueueBeforeDequeue
<1>1. Init => TypeOK /\ Healthy /\ CountInv
  BY FiniteHolds, TypeInit, HealthyInit, CountInit
<1>2. TypeOK /\ Healthy /\ CountInv /\ [Next]_vars => (TypeOK /\ Healthy /\ CountInv)'
  BY FiniteHolds, TypeNext, HealthyNext, CountNext
<1>3. TypeOK /\ CountInv => EnqueueBeforeDequeue
  BY FiniteHolds, CountedFirst
<1> QED
  BY <1>1, <1>2, <1>3, PTL DEF Spec

\* While no launch fails, NPUEvent::query is true and NPUEvent::synchronize returns
\* only after every record made before the call has completed on the device.
THEOREM QueriesHonest == ASSUME MaxFaults = 0 PROVE Spec => []QueryHonest
<1>1. Init => TypeOK /\ Healthy /\ CountInv /\ SeenInv
  BY FiniteHolds, SeenInductive
<1>2. TypeOK /\ Healthy /\ CountInv /\ SeenInv /\ [Next]_vars
          => (TypeOK /\ Healthy /\ CountInv /\ SeenInv)'
  BY FiniteHolds, SeenInductive
<1>3. TypeOK /\ SeenInv => QueryHonest
  BY SeenHonest
<1> QED
  BY <1>1, <1>2, <1>3, PTL DEF Spec

\* A wait made by NPUEvent::block reaches the device after every record made before
\* it, with one queue and with one per stream.
THEOREM WaitsOrdered == ASSUME Ordered PROVE Spec => []WaitSeesRecord
<1>1. Init => TypeOK /\ Healthy /\ CountInv /\ SeenInv
  BY FiniteHolds, SeenInductive DEF Ordered
<1>2. TypeOK /\ Healthy /\ CountInv /\ SeenInv /\ [Next]_vars
          => (TypeOK /\ Healthy /\ CountInv /\ SeenInv)'
  BY FiniteHolds, SeenInductive DEF Ordered
<1>3. TypeOK /\ SeenInv => WaitSeesRecord
  BY SeenHonest
<1> QED
  BY <1>1, <1>2, <1>3, PTL DEF Spec

\* No queued record or wait refers to an event that LazyDestroy, QueryAndDestroyEvent
\* or the thread pool destroys, and the device is done with it where it decides.
THEOREM DestroyedLast == ASSUME Ordered PROVE Spec => []NoUseAfterDestroy
<1>1. Init => TypeOK /\ Healthy /\ CountInv /\ DeadInv
  BY FiniteHolds, DeadInductive
<1>2. TypeOK /\ Healthy /\ CountInv /\ DeadInv /\ [Next]_vars
          => (TypeOK /\ Healthy /\ CountInv /\ DeadInv)'
  BY FiniteHolds, DeadInductive
<1>3. TypeOK /\ DeadInv => NoUseAfterDestroy
  BY DeadUnused
<1> QED
  BY <1>1, <1>2, <1>3, PTL DEF Spec
=============================================================================
