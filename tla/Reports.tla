------------------------------ MODULE Reports ------------------------------
(***************************************************************************)
(* What the parsers of the profiler compute from a finished profile        *)
(* (torch_npu/profiler/analysis): the tree of torch operators and the      *)
(* kernels each one launched, with and without the task queue; the same    *)
(* attribution in the database; operator and component memory; the times   *)
(* of a step; communication by step; replayed python calls.                *)
(*                                                                         *)
(* Times are integers.  An operator is [name, tid, ts, end, seq, fwd], a   *)
(* mark of the task queue <<category, tid, time, corr, name>>, an entry of *)
(* the CANN timeline <<"s", flow, ts>>, <<"f", flow, ts>> or               *)
(* <<"X", ts, dur, aicore>>, and a launch of the CANN api [ts, end, tid,   *)
(* id].  Which parser runs when is the subject of AnalysisPipeline; here   *)
(* every parser is one step on one input.                                  *)
(***************************************************************************)
EXTENDS Integers, SequencesExt, FiniteSetsExt

CONSTANTS OpTraces,    \* profiles of operators, task queue marks and kernels
          MemTraces,   \* memory records of a profile of OpTraces
          StepTraces,  \* device tasks of one device and the steps
          CommTraces,  \* communication operators, their links and the steps
          PyTraces     \* call and return events of one thread

VARIABLES trace, report

vars == <<trace, report>>

RECURSIVE Ordered(_, _)
Ordered(I, key) ==
  IF I = {} THEN <<>>
  ELSE LET i == CHOOSE x \in I : \A y \in I : key[x] < key[y] \/ (key[x] = key[y] /\ x <= y)
       IN <<i>> \o Ordered(I \ {i}, key)

\* list.sort(key=...): stable, ascending.
SortBy(s, Key(_)) ==
  LET o == Ordered(DOMAIN s, [i \in DOMAIN s |-> Key(s[i])]) IN [i \in DOMAIN s |-> s[o[i]]]

Map(s, Op(_)) == [i \in DOMAIN s |-> Op(s[i])]
RECURSIVE Concat(_)
Concat(ss) == IF ss = <<>> THEN <<>> ELSE Head(ss) \o Concat(Tail(ss))
RECURSIVE SumOf(_)
SumOf(s) == IF s = <<>> THEN 0 ELSE Head(s) + SumOf(Tail(s))
RECURSIVE ListOf(_)
ListOf(S) == IF S = {} THEN <<>> ELSE LET x == Min(S) IN <<x>> \o ListOf(S \ {x})
Get(f, k) == IF k \in DOMAIN f THEN f[k] ELSE <<>>
At(f, k) == IF k \in DOMAIN f THEN f[k] ELSE 0
Put(f, k, v) == (k :> v) @@ f

-----------------------------------------------------------------------------
(* The marks of the task queue and the tree of operators. *)

\* Start and end marks of one direction on one thread are paired; the last
\* open start wins and the others are dropped.
RECURSIVE QueueData(_, _, _)
QueueData(marks, open, out) ==
  IF marks = <<>> THEN out
  ELSE LET m == Head(marks)
           k == <<m[1] \in {"enqueue_start", "enqueue_end"}, m[2], m[5]>>
           x == [corr |-> m[4], tid |-> m[2], ts |-> Get(open, k)[1], end |-> m[3],
                 name |-> m[5], op |-> FALSE]
       IN IF m[1] \in {"enqueue_start", "dequeue_start"} THEN QueueData(Tail(marks), Put(open, k, <<m[3]>>), out)
          ELSE IF Get(open, k) = <<>> THEN QueueData(Tail(marks), open, out)
          ELSE QueueData(Tail(marks), Put(open, k, <<>>),
                         IF k[1] THEN [out EXCEPT !.enq = Append(@, x)] ELSE [out EXCEPT !.deq = Append(@, x)])

GetTaskQueueData(marks) == QueueData(SortBy(marks, LAMBDA m : m[3]), <<>>, [enq |-> <<>>, deq |-> <<>>])

\* A node is an index into tree.node; 0 is the root.
RECURSIVE Ancestry(_, _)
Ancestry(tree, n) == IF n = 0 THEN {} ELSE {n} \cup Ancestry(tree, tree.parent[n])

Children(tree, n) == SelectSeq([i \in DOMAIN tree.node |-> i], LAMBDA i : tree.parent[i] = n)

AppendTo(lists, N, x) == [i \in DOMAIN lists |-> IF i \in N THEN Append(lists[i], x) ELSE lists[i]]

UpdateCorrId(tree, n, corr) ==
  [tree EXCEPT !.self = AppendTo(@, {n}, corr), !.total = AppendTo(@, Ancestry(tree, n), corr)]

RECURSIVE Enclosing(_, _, _)
Enclosing(tree, n, ts) ==
  IF n # 0 /\ ts > tree.node[n].end THEN Enclosing(tree, tree.parent[n], ts) ELSE n

RECURSIVE Grow(_, _, _)
Grow(events, tree, last) ==
  IF events = <<>> THEN tree
  ELSE LET e == Head(events)
           n == Enclosing(tree, last, e.ts)
       IN IF e.op
          THEN Grow(Tail(events),
                    [node |-> Append(tree.node, e), parent |-> Append(tree.parent, n),
                     self |-> Append(tree.self, <<>>), total |-> Append(tree.total, <<>>)],
                    Len(tree.node) + 1)
          ELSE Grow(Tail(events), UpdateCorrId(tree, n, e.corr), n)

BuildTree(ops, enq) ==
  Grow(SortBy(ops \o enq, LAMBDA e : e.ts),
       [node |-> <<>>, parent |-> <<>>, self |-> <<>>, total |-> <<>>], 0)

RECURSIVE Bisect(_, _, _, _, _)
Bisect(tree, c, ts, left, right) ==
  IF right <= left THEN left
  ELSE LET mid == left + (right - left + 1) \div 2
       IN IF ts >= tree.node[c[mid]].ts THEN Bisect(tree, c, ts, mid, right)
          ELSE Bisect(tree, c, ts, left, mid - 1)

ChildBefore(tree, c, ts) == IF c = <<>> THEN 0 ELSE c[Bisect(tree, c, ts, 1, Len(c))]
IfRunning(tree, n, ts) == IF n # 0 /\ tree.node[n].end > ts THEN n ELSE 0

\* A mutant: the end of the child is not looked at.
MatchChildNodeEnded(tree, n, ts) == ChildBefore(tree, Children(tree, n), ts)

MatchChildNode(tree, n, ts) == IfRunning(tree, ChildBefore(tree, Children(tree, n), ts), ts)

\* The operators running at ts, outermost first; c is the next, 0 for none.
RECURSIVE MatchFrom(_, _, _)
MatchFrom(tree, c, ts) == IF c = 0 THEN <<>> ELSE <<c>> \o MatchFrom(tree, MatchChildNode(tree, c, ts), ts)
MatchPath(tree, ts) == MatchFrom(tree, MatchChildNode(tree, 0, ts), ts)

\* The operator that was running at ts, 0 for none.
LastOr0(p) == IF p = <<>> THEN 0 ELSE Last(p)
MatchSelfTorchOp(tree, ts) == LastOr0(MatchPath(tree, ts))

AddAlong(tree, p, ts) ==
  IF p = <<>> THEN tree
  ELSE [tree EXCEPT !.total = AppendTo(@, ToSet(p), ts), !.self = AppendTo(@, {Last(p)}, ts)]
UpdateTreeNodeInfo(tree, ts) == AddAlong(tree, MatchPath(tree, ts), ts)

RECURSIVE UpdateTree(_, _)
UpdateTree(tree, times) ==
  IF times = <<>> THEN tree ELSE UpdateTree(UpdateTreeNodeInfo(tree, Head(times)), Tail(times))

-----------------------------------------------------------------------------
(* Kernels and the operators that launched them. *)

\* Flow events of the CANN timeline: launch time |-> the kernels it started.
ByTime(pairs) ==
  [t \in {p[1] : p \in ToSet(pairs)} |-> Map(SelectSeq(pairs, LAMBDA p : p[1] = t), LAMBDA p : p[2])]
LastKernel(timeline, ends) ==
  IF ends = <<>> THEN <<>>
  ELSE LET k == SelectSeq(timeline, LAMBDA d : d[1] = "X" /\ d[2] = ends[1][3])
       IN IF k = <<>> THEN <<>> ELSE <<Last(k)>>
CombineAclToNpu(timeline) ==
  LET of(s) == LastKernel(timeline, SelectSeq(timeline, LAMBDA d : d[1] = "f" /\ d[2] = s[2]))
  IN ByTime(Concat(Map(SelectSeq(timeline, LAMBDA d : d[1] = "s"),
                       LAMBDA s : Map(of(s), LAMBDA x : <<s[3], x>>))))

RECURSIVE KernelsByTask(_, _, _, _, _)
KernelsByTask(acl, times, deq, i, out) ==
  IF times = <<>> \/ i > Len(deq) THEN out
  ELSE LET t == Head(times)
       IN IF deq[i].ts > t THEN KernelsByTask(acl, Tail(times), deq, i, out)
          ELSE IF t <= deq[i].end
          THEN KernelsByTask(acl, Tail(times), deq, i, Put(out, deq[i].corr, Get(out, deq[i].corr) \o acl[t]))
          ELSE KernelsByTask(acl, times, deq, i + 1, out)

CombineKernelDict(acl, deq) ==
  IF deq = <<>> THEN acl ELSE KernelsByTask(acl, ListOf(DOMAIN acl), deq, 1, <<>>)

IsStep(op) == op.name = "step"
Dur(kernels) == SumOf(Map(kernels, LAMBDA k : k[3]))
AiCore(kernels) == SelectSeq(kernels, LAMBDA k : k[4])
HostSelfDur(tree, n) ==
  LET d(i) == tree.node[i].end - tree.node[i].ts IN d(n) - SumOf(Map(Children(tree, n), d))

OperatorView(tree, kd) ==
  LET of(corrs) == Concat(Map(corrs, LAMBDA c : Get(kd, c)))
      row(n)    == LET s == of(tree.self[n])
                       t == of(tree.total[n])
                   IN <<tree.node[n].name, HostSelfDur(tree, n), tree.node[n].end - tree.node[n].ts,
                        Dur(s), Dur(t), Dur(AiCore(s)), Dur(AiCore(t))>>
      shown     == SelectSeq([n \in DOMAIN tree.node |-> n], LAMBDA n : ~IsStep(tree.node[n]))
  IN Map(shown, row)

\* The flow arrows of trace_view.json, as operator and kernel.
GetFlowEvent(tree, acl, deq, queue) ==
  IF ~queue
  THEN UNION {{<<MatchSelfTorchOp(tree, t), k>> : k \in ToSet(acl[t])} :
                t \in {u \in DOMAIN acl : MatchSelfTorchOp(tree, u) # 0}}
  ELSE LET kd == CombineKernelDict(acl, deq)
       IN UNION {{<<n, k>> : k \in UNION {ToSet(Get(kd, c)) : c \in ToSet(tree.self[n])}} : n \in DOMAIN tree.node}

\* Operators with a call stack and the time they used, by the chosen metric.
StackView(tree, kd, metric) ==
  LET dur(n) == IF metric = "cpu" THEN HostSelfDur(tree, n)
                ELSE Dur(Concat(Map(tree.self[n], LAMBDA c : Get(kd, c))))
      shown  == SelectSeq([n \in DOMAIN tree.node |-> n], LAMBDA n : tree.node[n].stack /\ dur(n) > 0)
  IN Map(shown, LAMBDA n : <<n, dur(n)>>)

\* Without the task queue the launches are first handed to the steps.
RECURSIVE UpdateStepNodeInfo(_, _, _, _)
UpdateStepNodeInfo(tree, steps, times, i) ==
  IF times = <<>> \/ i > Len(steps) THEN tree
  ELSE LET s == tree.node[steps[i]]
           t == Head(times)
       IN IF s.ts <= t /\ t <= s.end
          THEN UpdateStepNodeInfo([tree EXCEPT !.total = AppendTo(@, {steps[i]}, t)], steps, Tail(times), i)
          ELSE IF t < s.ts THEN UpdateStepNodeInfo(tree, steps, Tail(times), i)
          ELSE UpdateStepNodeInfo(tree, steps, times, i + 1)

\* [start, end) of every step on the device, from its first and last tasks.
RangeOf(n, node, kd, with) ==
  [id |-> n, start |-> IF with = {} THEN node.ts ELSE Min({k[2] : k \in ToSet(kd[Min(with)])}),
   end |-> Max({node.end} \cup (IF with = {} THEN {} ELSE {k[2] + k[3] : k \in ToSet(kd[Max(with)])})),
   fwk |-> node.ts]
StepRanges(tree, kd, steps) ==
  Map(SelectSeq(steps, LAMBDA n : tree.total[n] # <<>>),
      LAMBDA n : RangeOf(n, tree.node[n], kd, {c \in ToSet(tree.total[n]) : Get(kd, c) # <<>>}))
StepsOf(tree) == SelectSeq(Children(tree, 0), LAMBDA n : IsStep(tree.node[n]))
GetStepRange(tree, kd, queue) ==
  IF DOMAIN kd = {} THEN <<>>
  ELSE StepRanges(IF queue THEN tree ELSE UpdateStepNodeInfo(tree, StepsOf(tree), ListOf(DOMAIN kd), 1),
                  kd, StepsOf(tree))

\* The step a time belongs to: the first range that holds it, else 0.
StepOf(ranges, t) ==
  LET in == {i \in DOMAIN ranges : ranges[i].start <= t /\ t <= ranges[i].end}
  IN IF in = {} THEN 0 ELSE ranges[Min(in)].id

KernelView(kernels, ranges) == {<<StepOf(ranges, k[2]), k>> : k \in kernels}

-----------------------------------------------------------------------------
(* The same attribution in the database: connection ids of the operators,  *)
(* which are sorted by their start.                                        *)

Inside(x, op) == x.ts > op.ts /\ x.end < op.end

\* The innermost operator around an enqueue, found from index i on:
\* <<found, where the next search starts>>.
RECURSIVE ScanOps(_, _, _, _, _)
ScanOps(ops, e, i, found, last) ==
  IF i > Len(ops) THEN <<found, last>>
  ELSE IF e.ts > ops[i].end THEN ScanOps(ops, e, i + 1, found, last)
  ELSE IF Inside(e, ops[i]) THEN ScanOps(ops, e, i + 1, TRUE, i)
  ELSE IF found THEN <<TRUE, last>>
  ELSE IF e.end < ops[i].ts THEN <<FALSE, i>>
  ELSE ScanOps(ops, e, i + 1, FALSE, last)

ConnectEnqueue(ops, e, s, id) ==
  LET r == ScanOps(ops, e, s.op, FALSE, s.op)
  IN [s EXCEPT !.op = r[2], !.conn = IF r[1] THEN AppendTo(@, {r[2]}, id) ELSE @]

\* A launch belongs to the dequeue around it, which is paired with the
\* enqueue at the same place of its list.
RECURSIVE ConnectLaunches(_, _, _, _, _)
ConnectLaunches(ops, enq, deq, launches, s) ==
  IF launches = <<>> THEN s.conn
  ELSE LET l == Head(launches)
           stop == {i \in s.deq..Len(deq) : Inside(l, deq[i]) \/ deq[i].ts > l.end}
           i == Min(stop)
           at == IF stop = {} THEN s ELSE [s EXCEPT !.deq = i]
       IN ConnectLaunches(ops, enq, deq, Tail(launches),
            IF stop # {} /\ Inside(l, deq[i]) THEN ConnectEnqueue(ops, enq[i], at, l.id) ELSE at)

ConnectionsWithTaskQueue(ops, enq, deq, launches) ==
  LET corrs(s)  == {x.corr : x \in ToSet(s)}
      both      == corrs(enq) \cap corrs(deq)
      matched(s) == SelectSeq(s, LAMBDA x : x.corr \in both)
  IN ConnectLaunches(ops, matched(enq), matched(deq), launches,
                     [deq |-> 1, op |-> 1, conn |-> Map(ops, LAMBDA o : <<>>)])

RECURSIVE ScanLaunch(_, _, _, _)
ScanLaunch(ops, l, i, s) ==
  IF i > Len(ops) THEN s
  ELSE IF ops[i].tid # l.tid \/ l.ts > ops[i].end THEN ScanLaunch(ops, l, i + 1, s)
  ELSE IF Inside(l, ops[i]) THEN ScanLaunch(ops, l, i + 1, [s EXCEPT !.found = TRUE, !.op = i])
  ELSE IF s.found THEN [s EXCEPT !.found = FALSE, !.conn = AppendTo(@, {s.op}, l.id)]
  ELSE IF l.end < ops[i].ts THEN [s EXCEPT !.op = i]
  ELSE ScanLaunch(ops, l, i + 1, s)

RECURSIVE ConnectionsWithoutTaskQueue(_, _, _)
ConnectionsWithoutTaskQueue(ops, launches, s) ==
  IF launches = <<>> THEN s.conn
  ELSE ConnectionsWithoutTaskQueue(ops, Tail(launches), ScanLaunch(ops, Head(launches), s.op, s))

TorchOpConnections(ops, enq, deq, launches) ==
  IF enq # <<>> /\ deq # <<>> THEN ConnectionsWithTaskQueue(ops, enq, deq, launches)
  ELSE ConnectionsWithoutTaskQueue(ops, launches,
         [found |-> FALSE, op |-> 1, conn |-> Map(ops, LAMBDA o : <<>>)])

\* Forward and backward operators of one sequence number.  The trace keeps
\* the latest of each; the database the last one read.
LatestIn(ops, I) ==
  CHOOSE i \in I : \A j \in I : ops[j].ts < ops[i].ts \/ (ops[j].ts = ops[i].ts /\ i <= j)

FwdBwd(ops, latest) ==
  LET mode(q, f) == {i \in DOMAIN ops : ops[i].seq = q /\ (ops[i].fwd = 0) = f}
      pick(I) == IF latest THEN LatestIn(ops, I) ELSE Max(I)
  IN {<<ops[pick(mode(q, TRUE))], ops[pick(mode(q, FALSE))]>> :
        q \in {ops[i].seq : i \in {j \in DOMAIN ops : /\ ops[j].seq >= 0
                                                      /\ mode(ops[j].seq, TRUE) # {}
                                                      /\ mode(ops[j].seq, FALSE) # {}}}}

FwdFlow(ops) == {p \in FwdBwd(ops, TRUE) : p[1].tid # p[2].tid}
FwdBwdApi(ops) == FwdBwd(ops, FALSE)

\* Names of the queue events in the trace: an enqueue carries the name of
\* the dequeue with its correlation id.
EnqueueNames(enq, deq) ==
  Map(enq, LAMBDA e : LET d == SelectSeq(deq, LAMBDA x : x.corr = e.corr)
                      IN <<e.corr, IF d = <<>> THEN "none" ELSE Last(d).name>>)

FwkTraceData(ops, q) == [fwd |-> FwdFlow(ops), names |-> EnqueueNames(q.enq, q.deq)]

\* Marks of mstx are rows of their own, and not counted among the operators.
FwkApi(ops, q) ==
  [fwd |-> FwdBwdApi(SelectSeq(ops, LAMBDA o : o.name # "mstx_mark_op")), names |-> EnqueueNames(q.enq, q.deq)]

-----------------------------------------------------------------------------
(* Memory.  A record is [time, tid, ptr, type, comp, npu, inner, size,     *)
(* alloc, resv, act]; a record of GE [time, alloc, resv, dev].             *)

\* The records of one address, cut into allocations with their releases.
RECURSIVE ValidRecordEntry(_, _)
ValidRecordEntry(rs, buf) ==
  IF rs = <<>> THEN IF buf = <<>> THEN <<>> ELSE <<buf>>
  ELSE LET r == Head(rs)
       IN IF buf = <<>>
          THEN ValidRecordEntry(Tail(rs), IF r.type = "malloc" THEN <<r>> ELSE <<>>)
          ELSE IF Len(buf) < 3 /\ r.type \notin {x.type : x \in ToSet(buf)}
          THEN ValidRecordEntry(Tail(rs), Append(buf, r))
          ELSE <<buf>> \o ValidRecordEntry(rs, <<>>)

MemoryEntries(records) ==
  LET rs   == SelectSeq(SortBy(records, LAMBDA r : r.time), LAMBDA r : r.npu /\ r.inner)
      ptrs == ListOf({r.ptr : r \in ToSet(rs)})
      of(p) == ValidRecordEntry(SelectSeq(rs, LAMBDA r : r.ptr = p), <<>>)
  IN SortBy(Concat(Map(ptrs, of)), LAMBDA e : e[1].time)

\* The operators a record may belong to, by thread.
TorchOpsOf(tree, tid) ==
  SelectSeq([n \in DOMAIN tree.node |-> n],
            LAMBDA n : tree.node[n].tid = tid /\ tree.node[n].name \notin {"empty_tensor", "malloc_workspace"})

\* How far the search for key has got when it is asked for time ts.
Advance(list, start, ts, from) ==
  LET late == {i \in (from + 1)..Len(list) : start[list[i]] > ts}
  IN IF late = {} THEN Len(list) ELSE Min(late) - 1

RECURSIVE Climb(_, _, _)
Climb(tree, n, ts) == IF n # 0 /\ tree.node[n].end < ts THEN Climb(tree, tree.parent[n], ts) ELSE n

RECURSIVE ClimbToAten(_, _)
ClimbToAten(tree, n) ==
  IF n # 0 /\ tree.node[n].name \notin {"aten", "npu"} THEN ClimbToAten(tree, tree.parent[n]) ELSE n

\* The operator on top of the i-th of a thread (0 for none), and how far the search got.
Reached(i, top, at, k) == <<IF i = 0 THEN 0 ELSE top, Put(at, k, i)>>
OpRunning(tree, r, list, at) ==
  LET i == Advance(list, Map(tree.node, LAMBDA o : o.ts), r.time, At(at, <<"op", r.tid>>))
  IN Reached(i, Climb(tree, list[i], r.time), at, <<"op", r.tid>>)
OpEnqueuing(tree, e, list, at) ==
  LET i == Advance(list, Map(tree.node, LAMBDA o : o.ts), e.end, At(at, <<"enq", e.tid>>))
  IN Reached(i, ClimbToAten(tree, list[i]), at, <<"enq", e.tid>>)
OpOfEnqueue(tree, enq, at) ==
  IF enq = <<>> THEN <<0, at>> ELSE OpEnqueuing(tree, Last(enq), TorchOpsOf(tree, Last(enq).tid), at)
OpAt(tree, q, r, deq, i, at) ==
  IF deq # <<>> /\ i > 0 /\ r.time < deq[i].end
  THEN OpOfEnqueue(tree, SelectSeq(q.enq, LAMBDA e : e.corr = deq[i].corr), at)
  ELSE OpRunning(tree, r, TorchOpsOf(tree, r.tid), at)
OpOn(tree, q, r, deq, i, at) ==
  OpAt(tree, q, r, deq, i, IF deq = <<>> THEN at ELSE Put(at, <<"deq", r.tid>>, i))
OpFrom(tree, q, r, deq, at) ==
  OpOn(tree, q, r, deq, Advance([i \in DOMAIN deq |-> i], Map(deq, LAMBDA d : d.ts), r.time,
                                At(at, <<"deq", r.tid>>)), at)

\* The operator a record is shown under (0 for none), the searches moved on.
OpOfRecord(tree, q, r, at) == OpFrom(tree, q, r, SelectSeq(q.deq, LAMBDA d : d.tid = r.tid), at)

\* done is <<operators found, the searches>>.
NameRecord(tree, q, e, done) ==
  LET r == OpOfRecord(tree, q, e[1], done[2]) IN <<Append(done[1], r[1]), r[2]>>
NameRecords(tree, q, entries) == FoldLeft(LAMBDA d, e : NameRecord(tree, q, e, d), <<<<>>, <<>>>>, entries)[1]

\* A row of operator_memory.csv: operator, size, time and totals at the
\* allocation, release, active release, their durations, totals at release.
CompleteRecordEntry(e, op) ==
  LET r    == e[1]
      of(type) == SelectSeq(Tail(e), LAMBDA x : x.type = type)
      time(type) == IF of(type) = <<>> THEN <<>> ELSE <<of(type)[1].time>>
      dur(type)  == IF of(type) = <<>> THEN <<>> ELSE <<of(type)[1].time - r.time>>
      freed == IF Len(e) = 1 THEN <<>>
               ELSE LET x == IF of("free") # <<>> THEN of("free")[1] ELSE e[2] IN <<x.alloc, x.resv, x.act>>
  IN [op |-> op, size |-> r.size, time |-> r.time, release |-> time("free"), active |-> time("block_free"),
      dur |-> dur("free"), activeDur |-> dur("block_free"), totals |-> <<r.alloc, r.resv, r.act>>, freed |-> freed]

\* A row of the table, by position: the second of three records is the release
\* or the active release, the third the other.
CompleteRecordEntryForDb(e, op) ==
  LET first == e[1]
      at(i) == e[i].time
      since(i) == e[i].time - first.time
      only(type, x) == IF e[2].type = type THEN <<x>> ELSE <<>>
      freeIdx == IF e[2].type = "free" THEN 2 ELSE 3
      activeIdx == IF freeIdx = 3 THEN 2 ELSE 3
      row(release, active, dur, activeDur, freed) ==
        [op |-> op, size |-> first.size, time |-> first.time, release |-> release, active |-> active, dur |-> dur,
         activeDur |-> activeDur, totals |-> <<first.alloc, first.resv, first.act>>, freed |-> freed]
      sums(i) == <<e[i].alloc, e[i].resv, e[i].act>>
  IN CASE Len(e) = 1 -> row(<<>>, <<>>, <<>>, <<>>, <<>>)
       [] Len(e) = 2 -> row(only("free", at(2)), only("block_free", at(2)), only("free", since(2)),
                            only("block_free", since(2)), sums(2))
       [] Len(e) = 3 -> row(<<at(freeIdx)>>, <<at(activeIdx)>>, <<since(freeIdx)>>, <<since(activeIdx)>>,
                            sums(freeIdx))

OperatorMemory(es, ops) == [i \in DOMAIN es |-> CompleteRecordEntry(es[i], ops[i])]
OperatorMemoryForDb(es, ops) == [i \in DOMAIN es |-> CompleteRecordEntryForDb(es[i], ops[i])]

\* GE's allocations in the database, paired by operator, address and device.
RECURSIVE GeOpMemData(_, _)
GeOpMemData(rs, open) ==
  IF rs = <<>> THEN {<<k, open[k], <<>>>> : k \in DOMAIN open}
  ELSE LET r == Head(rs)
           k == <<r.name, r.addr, r.dev>>
       IN IF r.type = "allocate" THEN GeOpMemData(Tail(rs), Put(open, k, <<r.size, r.time, r.alloc, r.resv>>))
          ELSE IF k \in DOMAIN open
          THEN {<<k, open[k], <<r.time, r.time - open[k][2], r.alloc, r.resv>>>>}
                 \cup GeOpMemData(Tail(rs), [x \in DOMAIN open \ {k} |-> open[x]])
          ELSE GeOpMemData(Tail(rs), open)

\* A record and, unless it is of the workspace, its sum with the other
\* component's last record on its device.
CombineRecord(last, r, comp) ==
  LET t == <<r.alloc, r.resv, r.act>>
      o == Get(last, r.dev)
      row(c, x) == <<c, r.time, r.dev, x>>
  IN IF r.comp = "workspace" THEN <<row("WORKSPACE", t)>>
     ELSE <<row(comp, t),
            row("PTA+GE", IF o = <<>> THEN t ELSE <<t[1] + o.alloc, t[2] + o.resv, t[3] + o.act>>)>>

RECURSIVE MergeRecords(_, _, _, _)
MergeRecords(ge, pta, lastGe, lastPta) ==
  IF ge = <<>> /\ pta = <<>> THEN <<>>
  ELSE IF pta # <<>> /\ (ge # <<>> => ge[1].time >= pta[1].time)
  THEN CombineRecord(lastGe, pta[1], "PTA")
         \o MergeRecords(ge, Tail(pta), lastGe,
                         IF pta[1].comp = "workspace" THEN lastPta ELSE Put(lastPta, pta[1].dev, pta[1]))
  ELSE CombineRecord(lastPta, ge[1], "GE")
         \o MergeRecords(Tail(ge), pta, Put(lastGe, ge[1].dev, ge[1]), lastPta)

\* memory_record.csv.
AddPtaGeRecordData(ge, pta) == MergeRecords(SortBy(ge, LAMBDA r : r.time), pta, <<>>, <<>>)

\* The table of the database: rows <<component, time, device, totals>>, of both
\* components first, GE without an active size.
GetGeRecordList(ge) == Map(ge, LAMBDA r : <<"GE", r.time, r.dev, <<r.alloc, r.resv, 0>>>>)
GetPtaMemoryRecordList(pta) ==
  Map(pta, LAMBDA r : <<IF r.comp = "workspace" THEN "WORKSPACE" ELSE "PTA", r.time, r.dev,
                        <<r.alloc, r.resv, r.act>>>>)

\* A row, and a copy of it with the other component's last row of its device added.
CombineRecordForDb(last, row) ==
  IF row[1] = "WORKSPACE" THEN <<row>>
  ELSE <<row, [row EXCEPT ![1] = "PTA+GE",
                          ![4] = IF row[3] \in DOMAIN last THEN [i \in 1..3 |-> last[row[3]][4][i] + row[4][i]] ELSE @]>>

\* s is [ge, pta, lastGe, lastPta, out]: the rows not yet taken, each component's
\* last row by device, the list.  While both have rows the earlier is taken, then
\* the rest of one, against what the other left last.
TakePta(s) == [s EXCEPT !.pta = Tail(@), !.out = @ \o CombineRecordForDb(s.lastGe, s.pta[1])]
TakeGe(s) == [s EXCEPT !.ge = Tail(@), !.out = @ \o CombineRecordForDb(s.lastPta, s.ge[1])]
TakeEarlier(s) ==
  IF s.ge[1][2] >= s.pta[1][2]
  THEN [TakePta(s) EXCEPT !.lastPta = IF s.pta[1][1] = "WORKSPACE" THEN @ ELSE Put(@, s.pta[1][3], s.pta[1])]
  ELSE [TakeGe(s) EXCEPT !.lastGe = Put(@, s.ge[1][3], s.ge[1])]
RECURSIVE TakeRows(_)
TakeRows(s) ==
  CASE s.ge # <<>> /\ s.pta # <<>> -> TakeRows(TakeEarlier(s))
    [] s.ge # <<>> /\ s.pta = <<>> -> TakeRows(TakeGe(s))
    [] s.ge = <<>> /\ s.pta # <<>> -> TakeRows(TakePta(s))
    [] s.ge = <<>> /\ s.pta = <<>> -> s.out
GetPtaGeRecordList(ge, pta) ==
  TakeRows([ge |-> SortBy(GetGeRecordList(ge), LAMBDA r : r[2]), pta |-> GetPtaMemoryRecordList(pta),
            lastGe |-> <<>>, lastPta |-> <<>>, out |-> <<>>])

-----------------------------------------------------------------------------
(* Step times.  A device task is <<start, end, kind>>, kind one of         *)
(* "compute", "comm" and "recv"; a step [id, start, end, fwk].             *)

Cells(tasks) == UNION {t[1]..(t[2] - 1) : t \in tasks}
Runs(C) == {<<a, b>> \in C \X {c + 1 : c \in C} :
              a < b /\ a..(b - 1) \subseteq C /\ a - 1 \notin C /\ b \notin C}

\* The overlap analysis of the CANN timeline: maximal intervals by name.
TimelineRows(tasks) ==
  LET comp == Cells({t \in tasks : t[3] = "compute"})
      comm == Cells({t \in tasks : t[3] # "compute"})
      all  == comp \cup comm
      rows(name, C) == {<<name, r[1], r[2] - r[1]>> : r \in Runs(C)}
  IN rows("Computing", comp) \cup rows("Communication", comm)
       \cup rows("Communication(Not Overlapped)", comm \ comp)
       \cup rows("Free", IF all = {} THEN {} ELSE Min(all)..Max(all) \ all)
       \cup {<<"hcom_receive", t[1], t[2] - t[1]>> : t \in {x \in tasks : x[3] = "recv"}}

\* The rows counted for a step: those that start in it, in the first step
\* that holds them; without steps, all of them.
RowsIn(rows, steps, i) ==
  {r \in rows : /\ steps[i].start <= r[2] /\ r[2] < steps[i].end
                /\ \A j \in 1..(i - 1) : ~(steps[j].start <= r[2] /\ r[2] < steps[j].end)}

\* Columns that follow from the others.
StepRow(compute, comun, pure, free, bubble, e2e, prepare) ==
  [compute |-> compute, comun |-> comun, comunNotOverlp |-> pure, Overlp |-> comun - pure, free |-> free,
   bubble |-> bubble, stage |-> e2e - bubble, comunNotOverlpRec |-> Max({pure - bubble, 0}), prepare |-> prepare]

CountTime(in, fwk) ==
  LET sum(name) == SumOf(Map(SetToSeq({r \in in : r[1] = name}), LAMBDA r : r[3]))
      e2e   == Max({r[2] + r[3] : r \in in}) - Min({r[2] : r \in in})
      first == {r[2] : r \in {x \in in : x[1] \in {"Communication", "Computing"}}}
  IN StepRow(sum("Computing"), sum("Communication"), sum("Communication(Not Overlapped)"), sum("Free"),
             sum("hcom_receive"), e2e, (IF first = {} THEN -1 ELSE Min(first)) - fwk)

\* step_trace_time.csv: steps without rows are left out.
CreateStepFile(rows, steps, firstOp) ==
  IF {r \in rows : r[1] # "hcom_receive"} = {} THEN <<>>
  ELSE IF steps = <<>> THEN <<<<0, CountTime(rows, firstOp)>>>>
  ELSE LET used == SelectSeq([i \in DOMAIN steps |-> i], LAMBDA i : RowsIn(rows, steps, i) # {})
       IN Map(used, LAMBDA i : <<steps[i].id, CountTime(RowsIn(rows, steps, i), steps[i].fwk)>>)

\* RangeCaculator.merge_continuous_intervals on a list sorted by start.
RECURSIVE MergeContinuousIntervals(_, _)
MergeContinuousIntervals(list, cur) ==
  IF list = <<>> THEN <<cur>>
  ELSE LET t == Head(list)
       IN IF t[1] <= cur[2] THEN MergeContinuousIntervals(Tail(list), <<cur[1], Max({cur[2], t[2]}), cur[3]>>)
          ELSE <<cur>> \o MergeContinuousIntervals(Tail(list), t)

Merged(tasks) ==
  LET s == SortBy(tasks, LAMBDA t : t[1]) IN IF s = <<>> THEN <<>> ELSE MergeContinuousIntervals(s, s[1])

\* The merge moves the end of the interval a run starts with, and the list
\* of receives holds the same objects.
SpanAfterMerge(tasks, t) ==
  LET led == SelectSeq(Merged(tasks), LAMBDA m : m[1] = t[1])
  IN (IF led = <<>> THEN t[2] ELSE led[1][2]) - t[1]

\* RangeCaculator.compute_pipeline_overlap: communication alone and free
\* time; cur is what is left of the interval being compared.
RECURSIVE ComputePipelineOverlap(_, _)
ComputePipelineOverlap(list, cur) ==
  LET comm(t) == t[3] # "compute"
      plus(p, f, r) == [pure |-> (IF comm(cur) THEN p ELSE 0) + r.pure, free |-> f + r.free]
  IN IF list = <<>> THEN [pure |-> IF comm(cur) THEN cur[2] - cur[1] ELSE 0, free |-> 0]
     ELSE LET t == Head(list)
              left == IF comm(cur) THEN <<t[2], cur[2], cur[3]>> ELSE cur
              over == IF comm(cur) THEN <<cur[2], t[2], "compute">> ELSE cur
          IN IF cur[2] < t[1]
             THEN plus(cur[2] - cur[1], t[1] - cur[2], ComputePipelineOverlap(Tail(list), t))
             ELSE plus(t[1] - cur[1], 0,
                    ComputePipelineOverlap(Tail(list),
                      IF cur[2] < t[2] THEN IF comm(t) THEN <<over[2], t[2], t[3]>> ELSE over
                      ELSE IF comm(t) THEN <<t[2], left[2], "compute">> ELSE left))

FirstDeviceTask(comp, comms) ==
  IF comp = <<>> THEN 0 ELSE IF comms # <<>> /\ comms[1][1] < comp[1][1] THEN comms[1][1] ELSE comp[1][1]

\* The table of the database, for every step.
Span(x) == SumOf(Map(x, LAMBDA t : t[2] - t[1]))
Overlap(both) ==
  IF both = <<>> THEN [pure |-> 0, free |-> 0] ELSE ComputePipelineOverlap(Tail(both), both[1])
End2End(both) == IF both = <<>> THEN 0 ELSE Max({t[2] : t \in ToSet(both)}) - both[1][1]
Bubble(comm) == SumOf(Map(SelectSeq(comm, LAMBDA t : t[3] = "recv"), LAMBDA t : SpanAfterMerge(comm, t)))
Prepare(first, fwk) == IF first = 0 THEN 0 ELSE first - fwk
StepTime(comm, comms, comp, both, over, fwk) ==
  StepRow(Span(comp), Span(comms), over.pure, over.free, Bubble(comm), End2End(both),
          Prepare(FirstDeviceTask(comp, comms), fwk))
StepTimeOf(comm, comms, comp, both, fwk) == StepTime(comm, comms, comp, both, Overlap(both), fwk)
StepTimeIn(comm, comms, comp, fwk) ==
  StepTimeOf(comm, comms, comp, SortBy(comms \o comp, LAMBDA t : t[1]), fwk)
StepTasks(in, fwk) ==
  LET comm == SelectSeq(in, LAMBDA t : t[3] # "compute")
  IN StepTimeIn(comm, Merged(comm), Merged(SelectSeq(in, LAMBDA t : t[3] = "compute")), fwk)
StepTimeTable(tasks, steps, firstOp) ==
  Map(steps, LAMBDA s : <<s.id, StepTasks(SelectSeq(tasks, LAMBDA t : s.start <= t[1] /\ t[1] < s.end),
                                         IF s.id = 0 THEN firstOp ELSE s.fwk)>>)

\* StepInfoDbParser: the steps on the device, from the tasks their calls
\* started; without steps one that takes all.  A task's api call is
\* <<ts, end>>; Forever is the end of time.
StepInfo(steps, apis, tasks, Forever) ==
  LET range(id, start, end, dflt) ==
        LET of == {i \in DOMAIN tasks : start <= apis[i][1] /\ apis[i][2] <= end}
        IN [id |-> id, start |-> IF of = {} THEN dflt ELSE Min({tasks[i][1] : i \in of}),
            end |-> Max({end} \cup {tasks[i][2] : i \in of}), fwk |-> dflt]
  IN IF steps = <<>> THEN <<range(0, 0, Forever, 0)>>
     ELSE [i \in DOMAIN steps |-> range(i, steps[i][1], steps[i][2], steps[i][1])]

-----------------------------------------------------------------------------
(* Communication.  An operator of analysis.db is [name, mode, type, group, *)
(* start, time, bands, links]: mode "p2p", "collective" or "total", time   *)
(* the times [elapse, transit, wait, sync], bands and links functions from *)
(* transports and links to [kind, time, size, bw].                         *)

\* round(a / b, 4) as the fraction it rounds.
Ratio(a, b) == IF b = 0 THEN 0 ELSE <<a, b>>

\* The operators of a step; a lone step takes every operator.
SplitCommOpByStep(ops, steps, i) ==
  SelectSeq(ops, LAMBDA o : IF Len(steps) = 1 THEN TRUE
                            ELSE /\ steps[i].start <= o.start /\ o.start <= steps[i].end
                                 /\ \A j \in 1..(i - 1) : ~(steps[j].start <= o.start /\ o.start <= steps[j].end))

SplitCommunicationP2pOps(ops, mode) == SelectSeq(ops, LAMBDA o : o.mode = mode)

CombineTimeInfo(ops) == [f \in {"elapse", "transit", "wait", "sync"} |-> SumOf(Map(ops, LAMBDA o : o.time[f]))]

CombineBandwidthInfo(ops) ==
  LET of(t) == SelectSeq(ops, LAMBDA o : t \in DOMAIN o.bands)
  IN [t \in UNION {DOMAIN o.bands : o \in ToSet(ops)} |->
        <<SumOf(Map(of(t), LAMBDA o : o.bands[t].time)), SumOf(Map(of(t), LAMBDA o : o.bands[t].size))>>]

\* The line of totals of communication.json; there is none for no operators.
ComputeTotalInfo(ops) ==
  LET t == CombineTimeInfo(ops)
  IN IF ops = <<>> THEN <<>>
     ELSE <<[time |-> t, wait |-> Ratio(t.wait, t.wait + t.transit), sync |-> Ratio(t.sync, t.transit + t.sync),
             bands |-> CombineBandwidthInfo(ops)]>>

GenerateCommunication(ops, steps) ==
  [i \in DOMAIN steps |->
     [m \in {"p2p", "collective"} |->
        ComputeTotalInfo(SplitCommunicationP2pOps(SplitCommOpByStep(ops, steps, i), m))]]

\* The links of operators of one type and group: link |-> its entries, in
\* the order of the operators.
GetCommType(ops) ==
  LET keys == UNION {{<<o.type, o.group, l>> : l \in DOMAIN o.links} : o \in ToSet(ops)}
      of(k) == SelectSeq(ops, LAMBDA o : o.type = k[1] /\ o.group = k[2] /\ k[3] \in DOMAIN o.links)
  IN [k \in keys |-> Map(of(k), LAMBDA o : o.links[k[3]])]

IntegrateMatrixData(by) ==
  [k \in DOMAIN by |->
     LET d == SortBy(by[k], LAMBDA x : -x.bw)
         n == Len(d)
         size == SumOf(Map(d, LAMBDA x : x.size))
         time == SumOf(Map(d, LAMBDA x : x.time))
     IN [top1 |-> d[1], middle |-> d[n \div 2 + 1],
         bottom |-> [i \in 1..Min({n, 3}) |-> d[n + 1 - i]],
         total |-> [kind |-> d[1].kind, size |-> size, time |-> time, bw |-> Ratio(size, time)]]]

\* communication_matrix.json: the operators communication.json has placed.
GenerateMatrix(ops, matrix, steps) ==
  LET placed(i) == {o.name : o \in ToSet(SplitCommOpByStep(ops, steps, i))}
      of(i) == SelectSeq(matrix, LAMBDA o : o.name \in placed(i))
      row(x) == [m \in {"p2p", "collective"} |-> IntegrateMatrixData(GetCommType(SplitCommunicationP2pOps(x, m)))]
  IN IF \A i \in DOMAIN steps : placed(i) = {} THEN <<row(matrix)>>
     ELSE Map(SelectSeq([i \in DOMAIN steps |-> i], LAMBDA i : of(i) # <<>>), LAMBDA i : row(of(i)))

\* The database: rows of the operators in the first step that holds them.
SetStepAndTypeInfo(ops, matrix, steps, i) ==
  LET in == SelectSeq(ops, LAMBDA o :
              /\ steps[i].start <= o.start /\ o.start <= steps[i].end
              /\ \A j \in 1..(i - 1) : ~(steps[j].start <= o.start /\ o.start <= steps[j].end))
  IN Concat(Map(in, LAMBDA o : SelectSeq(matrix, LAMBDA m : m.name = o.name)))

ReformatMatrixDbData(ops, matrix, steps) ==
  LET of(i) == SetStepAndTypeInfo(ops, matrix, steps, i)
      row(x) == [m \in {"p2p", "collective"} |-> IntegrateMatrixData(GetCommType(SplitCommunicationP2pOps(x, m)))]
  IN Map(SelectSeq([i \in DOMAIN steps |-> i], LAMBDA i : of(i) # <<>>), LAMBDA i : row(of(i)))

-----------------------------------------------------------------------------
(* Python calls.  An event of a thread is <<tag, name, uid, time>>, tag    *)
(* "call", "c" or "return", uid the module called or 0 for a function.     *)

\* Modules of one name are numbered in the order they are first called.
ModuleInfo(events, i) ==
  LET name == events[i][2]
      uids == {events[j][3] : j \in {x \in 1..i : events[x][1] = "call" /\ events[x][3] # 0 /\ events[x][2] = name}}
      first(u) == Min({j \in 1..i : events[j][1] = "call" /\ events[j][3] = u})
  IN IF events[i][1] # "call" \/ events[i][3] = 0 THEN 0
     ELSE Cardinality({u \in uids : first(u) < first(events[i][3])})

ReplayFrame(events, i, parent, end) ==
  [id |-> i, name |-> events[i][2], module |-> ModuleInfo(events, i), ts |-> events[i][4], end |-> end, parent |-> parent]

\* stack holds <<event, parent>>, the top first.  No parent is written as the
\* id of the first event.
RECURSIVE ReplayStack(_, _, _)
ReplayStack(events, i, stack) ==
  IF i > Len(events)
  THEN IF stack = <<>> THEN <<>>
       ELSE <<ReplayFrame(events, stack[1][1], stack[1][2], Max({e[4] : e \in ToSet(events)}))>>
              \o ReplayStack(events, i, Tail(stack))
  ELSE IF events[i][1] # "return"
  THEN ReplayStack(events, i + 1, <<<<i, IF stack = <<>> THEN 1 ELSE stack[1][1]>>>> \o stack)
  ELSE IF stack = <<>> THEN ReplayStack(events, i + 1, stack)
  ELSE <<ReplayFrame(events, stack[1][1], stack[1][2], events[i][4])>> \o ReplayStack(events, i + 1, Tail(stack))

-----------------------------------------------------------------------------
(* The parsers: each reads its input and writes its report. *)

ByStart(ops) == SortBy(ops, LAMBDA o : o.ts)

OpViews(t, q, acl, kd, built, tree) ==
  [rows |-> OperatorView(tree, kd), flow |-> GetFlowEvent(built, acl, q.deq, t.marks # <<>>),
   stacks |-> StackView(tree, kd, "npu"), cpu |-> StackView(tree, kd, "cpu"),
   kernels |-> KernelView({c[1] : c \in t.cause}, GetStepRange(built, kd, t.marks # <<>>)),
   conn |-> TorchOpConnections(ByStart(t.ops), q.enq, q.deq, t.launches),
   fwk |-> FwkTraceData(t.ops, q), api |-> FwkApi(t.ops, q)]
OpTree(t, q, acl, built) ==
  OpViews(t, q, acl, CombineKernelDict(acl, q.deq), built,
          IF t.marks # <<>> THEN built ELSE UpdateTree(built, ListOf(DOMAIN acl)))
OpKernels(t, q) == OpTree(t, q, CombineAclToNpu(t.timeline), BuildTree(t.ops, q.enq))
OpReport(t) == OpKernels(t, GetTaskQueueData(t.marks))

MemViews(t, es, ops, pta) ==
  [csv |-> OperatorMemory(es, ops), db |-> OperatorMemoryForDb(es, ops),
   ge |-> GeOpMemData(t.ge, <<>>),
   csvTotals |-> AddPtaGeRecordData(t.ge, pta), dbTotals |-> GetPtaGeRecordList(t.ge, pta)]
MemNamed(t, tree, q, es, pta) == MemViews(t, es, NameRecords(tree, q, es), pta)
MemReport(t) ==
  MemNamed(t, BuildTree(t.ops, <<>>), GetTaskQueueData(t.marks), MemoryEntries(t.records),
           SelectSeq(SortBy(t.records, LAMBDA r : r.time), LAMBDA r : r.npu))

\* Host steps, tasks and the api calls that started them; the csv takes its
\* steps from the relation parser, which sees the same tasks.
StepReport(t) ==
  LET steps == StepInfo(t.steps, t.apis, t.tasks, t.end)
  IN [csv |-> CreateStepFile(TimelineRows(ToSet(t.tasks)), IF t.steps = <<>> THEN <<>> ELSE steps, t.first),
      db |-> StepTimeTable(t.tasks, steps, t.first)]

CommReport(t) ==
  [totals |-> GenerateCommunication(t.ops, t.steps), csv |-> GenerateMatrix(t.ops, t.matrix, t.steps),
   db |-> ReformatMatrixDbData(t.ops, t.matrix, t.steps)]

Init == trace = <<>> /\ report = <<>>

Parse(kind, Traces, Report(_)) ==
  /\ trace = <<>>
  /\ \E t \in Traces : trace' = <<kind, t>> /\ report' = Report(t)

ParseOps == Parse("ops", OpTraces, OpReport)
ParseMemory == Parse("memory", MemTraces, MemReport)
ParseSteps == Parse("steps", StepTraces, StepReport)
ParseCommunication == Parse("comm", CommTraces, CommReport)
ParsePython ==
  /\ trace = <<>>
  /\ \E t \in PyTraces : trace' = <<"python", t>> /\ report' = ReplayStack(t, 1, <<>>)

Next == ParseOps \/ ParseMemory \/ ParseSteps \/ ParseCommunication \/ ParsePython

Spec == Init /\ [][Next]_vars

-----------------------------------------------------------------------------
(* What the reports ought to say.  trace.cause is the set of <<kernel, time *)
(* its work was issued, thread, connection>>.                              *)

Holds(op, tid, ts) == op.tid = tid /\ op.ts < ts /\ ts < op.end
Owner(ops, tid, ts) ==
  LET in == {n \in DOMAIN ops : Holds(ops[n], tid, ts)} IN IF in = {} THEN 0 ELSE Max(in)
LastStarted(ops, tid, ts) == Max({0} \cup {n \in DOMAIN ops : ops[n].tid = tid /\ ops[n].ts < ts})
Before(ops, n, ts) ==
  LET in == {m \in DOMAIN ops : ops[n].ts < ops[m].ts /\ ops[m].end < ops[n].end}
  IN in # {} /\ \A m \in in : ts < ops[m].ts

OpsExact(t, r) ==
  LET ops   == ByStart(t.ops)
      queue == t.marks # <<>>
      own(c) == Owner(ops, c[3], c[2])
      kernels(C) == {c[1] : c \in C}
      dur(C) == SumOf(Map(SetToSeq(kernels(C)), LAMBDA k : k[3]))
      of(n)  == {c \in t.cause : own(c) = n}
      under(n) == {c \in t.cause : Holds(ops[n], c[3], c[2])}
      matched == queue \/ \A c \in t.cause : own(c) # 0 => ~Before(ops, own(c), c[2])
      direct  == \A c \in t.cause : own(c) # 0 => /\ own(c) = LastStarted(ops, c[3], c[2])
                                                  /\ ~queue => \E m \in DOMAIN ops : m > own(c) /\ ops[m].tid = c[3]
      shown  == SelectSeq([n \in DOMAIN ops |-> n], LAMBDA n : ~IsStep(ops[n]))
  IN /\ matched => /\ r.flow = {<<own(c), c[1]>> : c \in {x \in t.cause : own(x) # 0}}
                   /\ \A i \in DOMAIN shown :
                        /\ r.rows[i][4] = dur(of(shown[i])) /\ r.rows[i][5] = dur(under(shown[i]))
                   /\ \A i \in DOMAIN r.stacks : r.stacks[i][2] = dur(of(r.stacks[i][1]))
     /\ direct => \A n \in DOMAIN ops : ToSet(r.conn[n]) = {c[4] : c \in of(n)}
     /\ r.kernels = {<<Max({0} \cup {n \in DOMAIN ops : IsStep(ops[n]) /\ ops[n].ts < c[2]}), c[1]>> : c \in t.cause}
     /\ r.fwk.fwd = {p \in r.api.fwd : p[1].tid # p[2].tid} /\ r.fwk.names = r.api.names

MemoryAgrees(t, r, ops, q) ==
  LET task(x) == {d \in ToSet(q.deq) : d.tid = x.tid /\ d.ts <= x.time /\ x.time < d.end}
      issued(x) == IF task(x) = {} THEN <<x.tid, x.time>>
                   ELSE LET e == CHOOSE e \in ToSet(q.enq) : \E d \in task(x) : d.corr = e.corr
                        IN <<e.tid, e.end>>
      owner(x) == Max({0} \cup {n \in DOMAIN ops : /\ Holds(ops[n], issued(x)[1], issued(x)[2])
                                                   /\ task(x) # {} => ops[n].name \in {"aten", "npu"}})
      direct == \A x \in ToSet(t.records) :
                  task(x) # {} => Owner(ops, issued(x)[1], issued(x)[2]) = LastStarted(ops, issued(x)[1], issued(x)[2])
      mallocs == {x \in ToSet(t.records) : x.npu /\ x.inner /\ x.type = "malloc"}
      after(x, type) == {y \in ToSet(t.records) : /\ y.ptr = x.ptr /\ y.type = type /\ y.time > x.time
                                                  /\ ~\E z \in mallocs : z.ptr = x.ptr /\ x.time < z.time /\ z.time < y.time}
      upTo(S, dev, time) == {x \in S : x.dev = dev /\ x.time <= time /\ x.comp # "workspace"}
      level(S, dev, time) == LET b == upTo(S, dev, time)
                             IN IF b = {} THEN 0 ELSE (CHOOSE x \in b : \A y \in b : y.time <= x.time).alloc
      pta == {x \in ToSet(t.records) : x.npu}
  IN /\ direct => {<<row.op, row.time>> : row \in ToSet(r.csv)} = {<<owner(x), x.time>> : x \in mallocs}
     /\ \A row \in ToSet(r.csv) : \A x \in mallocs :
          x.time = row.time => /\ ToSet(row.release) = {y.time : y \in after(x, "free")}
                               /\ ToSet(row.active) = {y.time : y \in after(x, "block_free")}
     /\ \A row \in ToSet(r.csvTotals) :
          row[1] = "PTA+GE" => row[4][1] = level(pta, row[3], row[2]) + level(ToSet(t.ge), row[3], row[2])
     /\ r.csv = r.db /\ r.csvTotals = r.dbTotals
MemoryExact(t, r) == MemoryAgrees(t, r, ByStart(t.ops), GetTaskQueueData(t.marks))

StepsAgree(t, r, steps) ==
  LET of(i)  == {x \in ToSet(t.tasks) : steps[i].start <= x[1] /\ x[1] < steps[i].end}
      comp(i) == Cells({x \in of(i) : x[3] = "compute"})
      comm(i) == Cells({x \in of(i) : x[3] # "compute"})
      all(i)  == comp(i) \cup comm(i)
      alone(x) == \A y \in ToSet(t.tasks) : y # x /\ y[3] # "compute" => y[2] < x[1] \/ x[2] < y[1]
      recv(i) == {x \in of(i) : x[3] = "recv"}
      bubble(i) == SumOf(Map(SetToSeq(recv(i)), LAMBDA x : x[2] - x[1]))
      prepared(i) == Min(all(i)) - (IF t.steps = <<>> THEN t.first ELSE steps[i].fwk)
      ref(i) == StepRow(Cardinality(comp(i)), Cardinality(comm(i)), Cardinality(comm(i) \ comp(i)),
                        Cardinality((Min(all(i))..Max(all(i))) \ all(i)), bubble(i), Max(all(i)) + 1 - Min(all(i)),
                        prepared(i))
      sound(i) == comp(i) # {} /\ \A x \in recv(i) : alone(x)
      kept    == \A i \in DOMAIN steps : all(i) # {} /\ all(i) \subseteq steps[i].start..(steps[i].end - 1)
                                        /\ (t.steps # <<>> => steps[i].end = Max(all(i)) + 1)
      apart   == \A i, j \in DOMAIN steps : i < j => steps[i].end <= steps[j].start
  IN kept /\ apart =>
             /\ \A i \in DOMAIN steps : sound(i) => r.db[i][2] = ref(i)
             /\ \A i \in DOMAIN steps : r.csv[i][2] = ref(i)
StepsExact(t, r) == StepsAgree(t, r, StepInfo(t.steps, t.apis, t.tasks, t.end))

CommExact(t, r) ==
  LET in(o, i) == /\ t.steps[i].start <= o.start /\ o.start <= t.steps[i].end
                  /\ \A j \in 1..(i - 1) : o.start > t.steps[j].end
      placed == \A o \in ToSet(t.ops) : \E i \in DOMAIN t.steps : in(o, i)
      moved(m, key) == SumOf(Map(SelectSeq(t.matrix, LAMBDA o : /\ o.mode = m /\ o.type = key[1] /\ o.group = key[2]
                                                                /\ key[3] \in DOMAIN o.links),
                                 LAMBDA o : o.links[key[3]].size))
      told(m, key) == SumOf(Map(r.db, LAMBDA x : IF key \in DOMAIN x[m] THEN x[m][key].total.size ELSE 0))
      keys(m) == UNION {DOMAIN x[m] : x \in ToSet(r.db)}
  IN placed => /\ t.ops # <<>> => r.csv = r.db
               /\ \A m \in {"p2p", "collective"} : \A k \in keys(m) :
                    /\ (\A o \in ToSet(t.matrix) : \E p \in ToSet(t.ops) : p.name = o.name) => told(m, k) = moved(m, k)
                    /\ \A x \in ToSet(r.db) : k \in DOMAIN x[m] =>
                         \A i \in DOMAIN x[m][k].bottom : /\ x[m][k].top1.bw >= x[m][k].middle.bw
                                                          /\ x[m][k].middle.bw >= x[m][k].bottom[1].bw

ReplayExact(t, r) ==
  LET calls == {i \in DOMAIN t : t[i][1] # "return"}
      depth(i, j) == Cardinality(calls \cap i..j) - Cardinality((i..j) \ calls)
      end(i) == LET back == {j \in i..Len(t) : depth(i, j) = 0}
                IN IF back = {} THEN t[Len(t)][4] ELSE t[Min(back)][4]
      open(i) == {k \in calls : k < i /\ \A j \in k..(i - 1) : depth(k, j) > 0}
  IN {<<f.id, f.ts, f.end, f.parent>> : f \in ToSet(r)}
       = {<<i, t[i][4], end(i), Max({1} \cup open(i))>> : i \in calls}

\* Every report says of the profile what happened: kernels are shown under
\* the innermost operator that issued their work, in the csv, in the trace
\* and in the database, and in the step that issued it; a block of memory
\* under the operator that allocated it, with its own release, and component
\* totals that add the last known levels; the times of a step are the cells
\* of the device timeline; every message is counted in one step; python
\* calls nest as they were made.
ReportsExact ==
  trace # <<>> =>
    LET t == trace[2]
    IN /\ trace[1] = "ops" => OpsExact(t, report)
       /\ trace[1] = "memory" => MemoryExact(t, report)
       /\ trace[1] = "steps" => StepsExact(t, report)
       /\ trace[1] = "comm" => CommExact(t, report)
       /\ trace[1] = "python" => ReplayExact(t, report)

=============================================================================
