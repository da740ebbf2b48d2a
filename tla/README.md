# torch_npu: TLA+ models of the Ascend back end

torch_npu is the Ascend NPU back end of PyTorch. Operators do not run when Python calls
them: they become tasks in a queue, a consumer thread launches them, the device runs them
later, and memory, events and profiling data are given back later still. Around that core
stand graph capture, a training layer (loss scaling, fused optimizers, sharding, silent fault
detection), a profiler with its own processes, and a compiler. This directory models these
parts, checks the models with TLC and proves the central invariants of the concurrent ones
with TLAPS. Paths are relative to `src/torch_npu/`.

## 1. The parts and how they meet

* **Runtime core.** Application threads submit to a *task queue* (`csrc/core/npu/NPUQueue.*`),
  one consumer thread per queue launches; what a task used is handed to the *release queue*.
  *Events* (`NPUEvent*.cpp`) travel through the same queues as tasks. The two *caching
  allocators* reuse memory once events say a stream is done with it. `npu/` is the Python
  front: lazy initialisation, device and stream contexts, random state.
* **Graphs.** Captured operators are replayed at the addresses of the capture; graph trees
  (`npu/_graph_tree.py`), the update of captured operators and graphed callables
  (`npu/graphs.py`) manage whose memory that is.
* **Training.** `npu/amp`, `optim`, `distributed`, `asd`: every rank runs the same program and
  the ranks must take the same decisions.
* **Profiler.** Threads report into a ring that a dumper thread writes out; schedules and a
  monitor process decide when; an analysis in several processes reads the files.
* **Compiler.** Operators are lowered to loops (and, beside them, to recorded graphs), tiled,
  compiled in several processes, cached and tuned; sharded operators choose a placement.

`PROJECT.json` lists every part with its files, including those left out, and under `hazards`
the places where steps of several actors, failures or boundaries make the code hard to test.

## 2. Modules

| Module | Models | Shape |
|---|---|---|
| `TaskQueue` | class Repository, `enCurrentNPUStream`, `stop_device`, `restart_device` | a program counter per thread (`pc`), for the consumer (`cpc`) and the destructor (`dpc`); every access to a shared word is a step |
| `TaskFifo` | what a task queue promises | submit, take the oldest, discard everything |
| `ReleaseQueue` | class ReleaseQueue, with its proofs | writer, releaser, destructors |
| `NPUEvent` | NPUEvent, NPUEventManager, the event tasks | threads inside calls, one FIFO per queue, device |
| `DataDumper` | RingBuffer, Thread, DataDumper, the receivers of ProfilerMgr, with its proofs | reporters, dumper thread, control thread |
| `HostAllocator` | NPUExpandableHostAllocatorImpl, ExpandableSegment | the holder of the mutex cut at its loops, `record_event`, device |
| `CachingAllocator` | the device allocator and `npu/memory.py` | one call per step; the flush of a failed allocation is two |
| `Runtime` | `npu/__init__.py`, `utils.py`, `streams.py`, `random.py` | Python threads, contexts as stacks, fork |
| `GraphTree` | NPUGraphTreeManager, its nodes and paths | the manager between two calls, the program that keeps or drops outputs |
| `GraphUpdate`, `GraphedCallables` | `npu/graphs.py`, `_npugraph_handlers` | capture, update and replay on two device streams |
| `ChecksumRounds`, `SilentCheck`, `ModuleHooks` | `asd/asd.py`, `utils/_step.py` | a checksum thread per rank and a store; sampling hooks, ring and checking thread; calls of module trees |
| `GradScaler` | `npu/amp` | ranks of a job over restarts |
| `FusedOptim` | `optim` | calls on one optimizer, beside an optimizer without combined tensors |
| `FsdpCache` | `distributed/fsdp` | host thread and three device streams |
| `Rendezvous`, `Collectives` | `distributed/rendezvous.py`, `distributed_c10d.py`, `rpc` | agents, workers and a store; ranks and a back end that matches primitives |
| `Sharding` | `distributed/tensor` | a call, the strategy chosen, the placements |
| `ProfilerSession`, `PlainProfile`, `DynamicProfile` | `profiler/profiler.py`, `dynamic_profile` | the state of one process as a record; programs; ranks, monitor and shared memory |
| `TaskManager`, `AnalysisPipeline` | `prof_common_func/_task_manager.py` and the parsers' configuration | the manager, its threads and processes, one pipe per task |
| `EventTree`, `MemoryTimeline`, `Reports`, `FlightRecorder` | the analysis of profiles and dumps | a program that makes a trace, then the parser |
| `Lowering`, `Pooling`, `Reductions`, `FxTrace` | `_inductor` lowerings of both compiler back ends | one lowering per step over small tensors, beside the eager result |
| `TracedGraph`, `Tiling`, `KernelCompile` | recorded graphs and fusion, tiling, compilation and caching | a program under construction; stages of one kernel; processes that may crash |
| `TaskQueueProofs`, `NPUEventProofs` (its lemmas on counts in `NPUEventCounts`), `ChecksumRoundsProofs`, `TaskManagerProofs` | proofs about the module of that name | |
| `MCTaskQueue`, `MCNPUEvent`, `MCDevice`, `MCTraining`, `MCCompiler` | instances for TLC | |

`MCDevice`, `MCTraining` and `MCCompiler` each hold several components. A behaviour is a
behaviour of one of them: `part` says of which, and `v1`, `v2`, ... are its variables in the
order of the `INSTANCE`. So one run asks one question of several components that do not
interact, and no product of their states is explored.

Variables keep the names of the members they stand for. What the code does not store is
history and only read by properties: in `TaskQueue` `head` and `tail` number the tasks that
left and entered the ring, `bad` is the first task lost since the last restart, `before` is
`tail` when a thread began to synchronize; in `NPUEvent` `issued`, `launched`, `done` and
`missed` follow the records of an event; in `DataDumper` `accepted`, `file`, `unwritten` and
`late` follow a report; `want`, `eager`, `ref` are the results of the plain program.

Abstractions worth knowing:

* An eventfd counter is a Boolean, since its reader takes the whole count. The loads inside
  one `IsFullQueue` or `IsEmptyQueue` are one step: they could disagree only after a whole lap
  of the ring. Loads of the status in different parts of a condition are separate steps.
* `NPUEvent` uses a task queue only as the FIFO that `TaskQueue` is proved to implement. What
  the consumer does after a failed launch is in three steps; whether `efd_read` was written
  before it goes to sleep is left open (`ClearAfterError`).
* `HostAllocator` derives `prev`, `next` and both pools from addresses and flags; the code
  keeps them in step in every function. A device event may count as complete at any time:
  `process_events` also takes a query that throws as completion.
* `ChecksumRounds` takes the ten seconds that rank 0 sleeps after a round to outlast the
  other ranks' last reads, as the code does, and stops looking once a thread was stopped
  inside a barrier or rank 0 was restarted (`skewed`).
* A tensor is the sequence of its elements, an element the set or term of what went into it;
  a scale is its exponent; a gradient is the set of passes in it; a time is an integer.
* Lowerings are compared with what the eager operator returns, computed by a separate
  definition; the loops and the recorded graph are each translated from their own code.

## 3. Runs

Deadlock checking is off everywhere because each system may rest: an idle queue sleeps, an
application may stop calling, a profile is analysed once. Lost wake-ups and calls that do not
return are caught by the liveness properties instead.

| Run | Instance | Checks |
|---|---|---|
| `queue_safety` | 2 producers, ring of 4, 5 tasks, 1 failed launch | `TypeOK`, `NoOverwrite`, `RingIsFifo`, `SyncCovers`, `NoLaunchAfterLoss`, `ImplementsFifo` |
| `queue_liveness` | 1 producer, 1 synchronizing thread, ring of 2, 2 tasks with a synchronization, a destruction, a device error with stop and restart, or an interrupted read | `CallsReturn`, `TasksLeave` |
| `queue_drop` | 2 producers, first tasks | violates `NoSilentDrop` |
| `events` | 2 threads, 2 events, 2 streams, 12 settings, 4 calls | `EnqueueBeforeDequeue`, `NoUseAfterDestroy`, `WaitSeesRecord`, `QueryHonest` |
| `events_device_error` | 2 threads, 1 event, 2 streams on one queue, 3 calls, 1 failed launch of either kind | `EventSyncReturns` |
| `threads` | release ring of 3 with 6 parameters; dumper ring of 2, 3 reports of 2 threads, 2 sessions; checksum rounds of 2 ranks, 1 stop; 4 task graphs, 1 fault | `RingInv`, `ReleasedInOrder`, `NoUseAfterFree`, `RingBounded`, `DumperSafe`, `RoundsAgree`, `SuccessIsReal`, `AnalysisSound`, `CallsEnd` |
| `memory` | host: 2 segments of 3 granules, 5 handles, 5 calls; device: 20 units, 2 streams, 1 pool, 5 calls; runtime: 2 threads, 4 families of calls; tree: 2 functions, 3 addresses, 3 nodes; update: 2 operators, 2 steps; graphed: 2 callables, 2 iterations | `HostSound`, `CachingSound`, `TreeSound`, `GraphsExact`, `RuntimeSound` |
| `profiler` | 2 plain sessions of 5 steps; 2 ranks with 1 edit or 1 rank with 2, 2 steps under a monitor; traces of 3 to 5 events; 3 ranks of like or mixed versions in a dump; 5 samples of the silent check | `SessionsSound`, `TraceExact`, `ReportsExact`, `SilentSound` |
| `training` | 2 ranks, 2 optimizers, 2 iterations, 1 restart; the nine fused optimizers; 3 sharded layers, 5 passes; 2 workers, 2 restarts; 3 ranks of collectives | `RanksAgree`, `OptimizerSound`, `CommSound`, `ScalerSound` |
| `scaler_offload` | the sharded scaler with flags on the host | violates `RanksAgree` |
| `lowerings` | chains of 2 lowerings over up to 8 elements, traced or not; pools; tiles of fused kernels | `LoweredExact`, `PoolsExact` |
| `kernels` | chains of 2 reductions; 1 or 2 processes, 2 configurations, 1 crash; graphs of 3 operators; sharded calls on 3 ranks | `ReductionsExact`, `KernelsSound`, `ShardingExact` |

Why the bounds are enough. A ring of four slots with five tasks fills, wraps and is refilled
behind the consumer; a ring of two is full with one task, so both sides sleep and wake within
two tasks. Four event calls allow a record, a wait or a query on it, the destruction, and a
second record that races with any of them. The dumper's first session fills and wraps its
ring, the second starts from what the first left. In the host allocator a granule holds two
minimal blocks, so blocks share granules; sizes are below a block, across a granule and more
than a segment; five handles for six granules make mapping fail halfway and the retry run. In
the device allocator every size class is met (small, small buffer, large, rounded) and the
capacity is too small for two large buffers, so flush and retry run. The task graphs hold a
task in each mode and the parsers of three analyses, among them the largest; two may run at
once. A graph tree needs three addresses for a generation to overlap the one before. Two
iterations with a growth interval of two let the scale shrink, stay and grow; a rank may be a
whole iteration ahead. A chain of two lowerings is where a view, a mutation or a broadcast of
the first meets the index arithmetic of the second. `MaxAccumulate`, `MaxEdits`, `MaxNumel` and
the other bounds are constants, each described where it is declared.

Each passing property is shown to depend on the code: `PROJECT.json` names for each a mutated
definition (kept beside the original) under which TLC finds it violated.

### The two violations

* `queue_drop`: `while (!ret && (GetStatus() == RUN || GetStatus() == INIT))` loads the
  status twice. If another thread changes INIT to RUN between the loads, both comparisons
  fail and Enqueue returns without having written the task, without exception or log.
* `scaler_offload`: `unscale_` copies a host flag back from its device copy before the sum
  over the ranks, started with `async_op=True`, has been waited for; one rank may step while
  another skips.

### Fairness

`TaskQueue`: weak fairness of each thread's steps inside a call, of the consumer's steps and
of the destructor once it began. They are ordinary threads with no priorities; a blocked
eventfd read is not enabled, so fairness never supplies a wake-up. Calls, failures, signals,
stop and restart are not fair. `NPUEvent`: threads inside calls, consumers, and the device,
which completes what was launched; a consumer asleep after a failure has no step to take.
`ReleaseQueue`: both loops and the destructor.
`DataDumper`: reporters inside a report, the dumper thread and the control thread inside a
call. `ChecksumRounds`: each rank's thread, which loops until it is stopped. `TaskManager`:
the manager's loop and each child's own code. No strong fairness is assumed. The mutexes
`mu_enqueue` and `mu_empty` are never contended in the liveness run by a thread that could
take them infinitely often.

## 4. Proofs

| Theorem | Property | For every | Assuming |
|---|---|---|---|
| `TaskQueueProofs!TypeCorrect`, `RingSafety`, `FifoOrder`, `SyncWaitsForAll` | `TypeOK`, `NoOverwrite`, `RingIsFifo`, `SyncCovers` | capacity of at least two, set of threads, set of failures, budget | - |
| `RingImplementsFifo` | `ImplementsFifo` (refinement of `TaskFifo`) | the same | - |
| `NothingAfterLoss` | `NoLaunchAfterLoss` | the same | `Undisturbed`: no stop, restart or destruction, memory errors confirmed |
| `ReleaseQueue!TypeCorrect`, `RingCorrect`, `ReleaseOrder`, `FreedLast` | `RingInv`, `ReleasedInOrder`, `NoUseAfterFree` | capacity of at least two, number of tasks | - |
| `NPUEventProofs!TypeCorrect` | `TypeOK` | set of threads, events, streams, settings, failures | - |
| `CountsSuffice`, `QueriesHonest` | `EnqueueBeforeDequeue`, `QueryHonest` | the same | no launch fails |
| `WaitsOrdered`, `DestroyedLast` | `WaitSeesRecord`, `NoUseAfterDestroy` | the same | `Ordered`: also, a stream bypasses the queue only if each has its own |
| `DataDumper!RingNeverOverrun` | `RingBounded` | set of reporters, capacity, number of reports and sessions | `Distinct`, `Sized`, reports under the lock |
| `OneThreadPops` | `OneConsumer` (part of `DumperSafe`) | the same, with or without the lock | `Distinct` |
| `ChecksumRoundsProofs!RoundsInStep` | `RoundsAgree` | number of ranks | `Populated`: at least one rank |
| `TaskManagerProofs!SuccessReported`, `InputsComplete`, `ConcurrencyBounded` | `SuccessIsReal`, `InputsDelivered`, `ChildrenBounded` (parts of `AnalysisSound`) | task graph, mode of its tasks, number of faults | `WellFormed`, `MaxConcurrent \in Nat` |

The assumptions on constants of `TaskQueue` and `ReleaseQueue` are `ASSUME`s of those modules;
`Distinct`, `Sized`, `Populated` and `WellFormed` are stated in the components and evaluated by
TLC for the checked instances (`ThreadHypotheses` in `MCDevice`). They say that the names of
threads and of missing values differ, that a ring has a slot, and that a task graph is closed
and acyclic in the order its tasks were added. `Undisturbed` and `Ordered` are not technical:
section 5 says what happens without them.

How the proof modules are laid out. `USE Zenon` makes the first-order prover the default and
the leaves that need arithmetic, sequences or records name SMT: tlapm's encoding for SMT grows
with the facts in scope. For the same reason the lemmas of `NPUEventCounts` and
`TaskManagerProofs` take what they need of finite sets as a hypothesis (`FiniteFacts`), and the
library's theorems, from which `FiniteHolds` derives it, are brought in just before the final
theorems, which cite it: the hypothesis is not left open.

The arguments:

* **Task queue.** `TypeOK` needs `HandledFault`: while ReadQueue handles a failure, `fault` is
  a real failure, so the status derived from it is one. `NoOverwrite` and `RingIsFifo` come
  from `RingInv == TypeOK /\ NoOverwrite /\ RingIsFifo /\ Copied`; neither is inductive alone.
  That a slot is still free at the copy rests on `mu_enqueue` being held and on the consumer
  only ever making room; that a published slot holds the right task rests on `Copied`: the
  thread about to publish has stored task `tail` at `write_idx`. The modulus appears in one
  lemma (`NextIndex`). `SyncCovers` follows from `SyncInv`: `before` never exceeds `tail`,
  `head` never decreases, and a thread leaves the waiting loop only when it saw `head = tail`.
* **Refinement.** The queue of `TaskFifo` is the tasks from `head + 1` to `tail`, which by
  `RingInv` are the slots from `read_idx` to `write_idx`. Publishing appends, reading takes the
  first, a clear empties, and every other step stutters; `RingInv` supplies the room.
* **Nothing after a loss.** `LossInv` says that once `bad` is set the consumer is on the path
  that stores a failure status, or the status is one, or it has left its loop; each step of
  ReadQueue's error path keeps it, and nobody takes the status back.
* **Release queue.** `RingInv` is inductive with `TypeOK`; `LifeInv` orders the three program
  counters around the two joins.
* **Events.** `CountInv` equates, for every event, the count of NPUEventManager with the
  records (waits) that are queued plus those of threads between the increment and the
  submission; the queued ones are counted as a finite set of positions, and `Queued`-lemmas
  say what a push and a pop do to it. `SeenInv` says, per event and per thread inside `query`,
  `synchronize` or `block`, that what it has not seen completed is still counted. `DeadInv`
  says that an event handed to LazyDestroy has no record or wait behind its destruction in any
  queue.
* **Dumper.** `RingIInv`: the claimed but not popped slots are at most the capacity even when
  compared with a `read_index` loaded earlier, which only lags; a report that outlasts its
  session keeps its session's indices until UnInit resets them. `DumperIInv` relates the
  control thread's position to whether the dumper thread exists, so that two threads never
  gather.
* **Checksum rounds.** `RoundsIInv` fixes, for each position of each rank in the loop, its lap
  relative to rank 0, and expresses the two counters and the sum of the store as the
  cardinality (or sum) over the ranks that have contributed in this lap; the barrier's
  counters are thereby full exactly when all ranks have arrived.
* **Analysis.** `ManagerIInv` describes each pipe with its buffer as one of five forms
  (nothing, half an output, an output, an output and a return code, a return code) tied to
  where the child is (`Streams`), ties `pre` and `post` to the status of tasks (`Followed`),
  the queue of ready tasks to tasks that may start and occur once (`Lined`), and bounds the
  listened channels with the batch still to be started (`Held`).

### What stays with TLC

* Liveness (`CallsReturn`, `TasksLeave`, `EventSyncReturns`, `CallsEnd`): TLAPS has neither
  fairness nor ENABLED.
* `FileInOrder` and `NoSilentLoss` of the dumper: they compare the file with the reports
  through `SelectSeq`, and what a recursive definition computes needs induction over data.
* `RunnableRan` of the task manager: that nothing runnable is left needs an induction along
  the task graph.
* The remaining invariants (allocators, graphs, scaler, optimizers, profiler, compiler). Their
  models compute whole results with folds and recursive functions and compare them with a
  reference; the bounded instances are where that comparison is made.

## 5. Where the properties stop

Passing properties hold under conditions. These are the sequences that the code does not
exclude and under which they fail; each is a hazard of `PROJECT.json`, or a constant of the
model that a reader may change.

* **Task queue.** Two producers share `write_idx.working`: one may clear it while the other
  sleeps, so `CallsReturn` is checked with one producer. After an unrecognised error the
  consumer leaves its loop, and a synchronization that began before does not return. A device
  error after NEED_EXIT overwrites that status and the join in ~Repository waits for good; a
  destroyed queue may keep a task. stop_device with restart_device, a destruction or a memory
  error that was not confirmed may let a launch follow a loss (hence `Undisturbed`).
  `SyncCovers` says that tasks have left the ring, not that they were launched; one inner error
  may be thrown in two threads.
* **Events.** A stream that launches synchronously beside a shared queue overtakes queued
  records and waits (hence `Ordered`). A failed launch on one queue clears the counts of all
  events, so `EnqueueBeforeDequeue` is checked and proved without failures, and
  `EventSyncReturns` with one queue. An event recorded after its queue has stopped stays counted:
  Enqueue refuses the record without waking the consumer, which sleeps in `eventfd_read`
  (`NPUQueue.cpp:701`), so nobody clears the count and `synchronize` spins for good.
  `EventSyncReturns` excepts exactly these events (`RefusedLate`).
* **Dumper.** `Upload` takes no lock: two reporters may publish each other's slot and lose a
  report. A report that overlaps Stop may be dropped after `Push` returned true.
* **Checksum rounds.** A thread stopped inside a barrier, or a restarted rank 0, puts the
  ranks out of step for good (`skewed`).
* **Task manager.** The ready list that a task of the main process extends is overwritten at
  `_task_manager.py:190`, so its dependents would never run; no configured pipeline has such a
  task. The comment at line 26 on non-blocking tasks is not what 336-339 do. A signal handler
  with the wrong number of arguments, write ends inherited by later processes and a parser that
  raises before its try block are outside the model.
* **Allocators.** `free_expandable_block` erases a key after the merge that changed it
  (`CachingHostAllocator.cpp:884`). In the device allocator record_stream after a free during a
  capture (`NPUCachingAllocator.cpp:3015`), nested use of one pool (`memory.py:816`) and
  empty_cache during a capture are left out. A pool that is entered again raises but stays
  counted.
* **Runtime.** A call that found the runtime uninitialised and is appended after the replay
  loop has ended is lost (`npu/__init__.py:222`): it happens in the run, and `SeedsHonoured`
  counts it out. A child of `os.fork`, which does not run `_after_fork` (298), takes itself for
  initialised. Left out: a fork while another thread is inside `_lazy_init`, and one `device`
  object nested in itself, which restores the wrong device.
* **Graphs.** `GraphUpdate` is checked when the caller synchronizes between steps and captures
  do not fail; an unknown update key is ignored, and a replay without its update waits for
  good. `GraphedCallables`: parameters replaced after the capture, two forward passes before a
  backward pass. `GraphTree`: a mutation of an output of an earlier generation reaches a copy
  (`_graph_tree.py:2143-2171`).
* **Training.** `FusedOptim`: a parameter without a gradient at the first step is never
  updated, `zero_grad(set_to_none)` unlinks the combined gradient, loaded states are ignored,
  BertAdam does not count its steps, LAMB calls a function that does not exist
  (`npu_fused_lamb.py:177`). `FsdpCache`: gathered and reduced buffers of one type race
  (`_add_fsdp_patch.py:213-221`). `Collectives`: the compatible gather passes a global rank as
  root (`distributed_c10d.py:144`). `Rendezvous`: dynamic RPC groups use an undefined name.
  `SilentCheck`: a full ring looks empty (`asd.py:477`). `ModuleHooks`: a checkpointed last
  block, a call that raises, two roots with equal leaf names (`asd.py:809`).
* **Profiler.** `PlainProfile`: a callback that raises skips the next cycle's start; a custom
  schedule from RECORD to WARMUP; a directory for exports only is never deleted.
  `DynamicProfile`: a rank that reads the shared block while the monitor writes to it loses the
  configuration or runs a mixture of the old and the new one
  (`_dynamic_profiler_monitor_shm.py:323`), and an edit that ends in the second in which the
  monitor met the half-written file is never seen. Both happen in the run; `SessionsComplete`
  and `StartTogether` speak of the ranks that read undisturbed.
  `FlightRecorder`: a mismatch raises, since `log` has no `errors` (`types.py:202-208`).
  `EventTree`: events that touch (`_event_tree_parser.py:420`), backward events under a finished
  frame (409). `Reports`: a flow may start at an operator that has not started
  (`_torch_op_node.py:76-87`).
* **Compiler.** `Pooling`: in ceil mode the gradient divides by the whole kernel
  (`lowering.py:5727`); `fractional_max_pool2d` with one output divides by zero (5292).
  `Reductions`: `should_not_sum` with unsorted axes or mixed signs (6046); loops reduced only
  over dimensions of size one without keepdim; `prepare_softmax_online` over an axis other than
  the first one that is split or shorter than the unrolling threshold (the members of `Flawed`,
  empty in the run). `FxTrace`: squeeze
  without a dimension (1066), reductions with a dtype (892), lists of constants (1501).
  `TracedGraph`: reads recorded before a mutation (`ir.py:717`). `KernelCompile`: a cached
  fallback is never reused (`mlir_compiler.py:319`), a worker stops at the first configuration
  that fails, `launchers[0]` is read before the test for an empty list; a kernel without
  outputs (`codecache.py:137`) and a compilation in one process without autotuning (265) raise
  where the others fall back, which happens in the run and which `FallsBack` lets off. `Tiling`:
  `calcu_last_split_blocks` may divide by zero, axes that are rotated or split two ways.
* **Sharding** (`distributed/tensor`). Left out because the outputs are not what their
  placements say: the bias of grouped_matmul (`_matrix_ops.py:399-429`), the mask of the
  attention gradient (`_attention.py:555`), a mean cross entropy over uneven shards;
  `matmul_backward` of a vector and a matrix (`_matrix_ops.py:188-191`) or of operands of three
  and more dimensions and unequal rank (216-233), which places a gradient along a dimension it
  does not have; `npu_add_rms_norm` over all dimensions, whose rstd is left without placements
  (`_math_ops.py:235`); `repeat_interleave` along a dimension that the mesh does not divide, when
  it is given as a negative number, when the tensor is a sum of the ranks' or in the backward
  operator (`_math_ops.py:633`, 674). The strategy raises for an unbound variable (`Unbound`) for
  an unevenly split tensor repeated along dimension 0 and a mean `kl_div` whose first dimension
  the mesh does not divide: both happen in the run, and nothing is claimed of them.

## 6. Not modelled

Whole parts: the C++ process group and its watchdog, the TCP store, the stream pool, the
workspace and swapped-memory allocators, device start-up and shut-down, code generators, the
operators themselves, file formats and command-line tools. `PROJECT.json` gives the reason for
each.

Inside modelled parts: the double-checked initialisation of a repository, eventfd calls that
fail, the polling mode (`TASK_QUEUE_ENABLE=2`) and the interpreter lock; external events, IPC
handles and the event pool; the encodings and side tables of the profiler; torn reads in
`record_event` and a failing `new`; expandable segments and the garbage-collection threshold of
the device allocator; aliases among outputs of a graph tree; boolean masks, `as_strided`,
upsampling, `searchsorted` and complex numbers among the lowerings; which nodes are fused and
which tilings are tried first; the remote cache and the default mode of the kernel compiler;
the dynolog front end and the msprof configuration.
