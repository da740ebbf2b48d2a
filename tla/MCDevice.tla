----------------------------- MODULE MCDevice ------------------------------
(***************************************************************************)
(* The device-side components for TLC.  A behaviour of this module is a    *)
(* behaviour of one of the components in Parts, which share the variables  *)
(* of the module.                                                          *)
(***************************************************************************)
EXTENDS ReleaseQueue, AnalysisPipeline

CONSTANTS
    Parts,     \* the components of a run
    r1, r2, null

\* One thread reports twice, the other once.
ReportsMade == [r \in {r1, r2} |-> IF r = r1 THEN 2 ELSE 1]

\* A graph with a task in each of the three modes, and the parsers of three analyses.
MixedTasks == {"here", "proc", "thr", "last"}
MixedGraph ==
    [order |-> <<"here", "proc", "thr", "last">>,
     deps |-> [here |-> {}, proc |-> {}, thr |-> {}, last |-> {"proc", "thr"}],
     mode |-> [here |-> {}, proc |-> S, thr |-> P, last |-> S],
     reads |-> [here |-> {}, proc |-> {}, thr |-> {}, last |-> {"proc", "thr"}],
     gives |-> [here |-> TRUE, proc |-> TRUE, thr |-> TRUE, last |-> FALSE],
     waits |-> [t \in MixedTasks |-> {}], makes |-> [t \in MixedTasks |-> {}], raises |-> {}]
AnalysisGraphs ==
    {MixedGraph, GraphOf(OnlyFwkConfig, OnlyFwkDeps, <<"db">>, "tensorboard"),
     GraphOf(OnlyFwkConfig, OnlyFwkDeps, <<"text">>, "stack"),
     GraphOf(CommonConfig, CommonDeps, <<"text">>, "stack")}
AnalysisTasks == UNION {ToSet(g.order) : g \in AnalysisGraphs}

\* A program makes calls of one of these families.
RuntimePrograms == {{"rng", "fork"}, {"ctx"}, {"count"}, {"det"}}

\* Values of ASCEND_RT_VISIBLE_DEVICES: 10 is a comma, 11 a character that is
\* neither digit nor comma.
VisibleDevices ==
    {<<>>, <<0>>, <<1>>, <<2>>, <<0, 10, 1>>, <<1, 10, 0>>, <<0, 10, 2>>,
     <<0, 10, 1, 10, 2>>, <<0, 10>>, <<0, 11, 1>>, <<0, 10, 11>>, <<1, 0>>,
     <<0, 10, 1, 11>>, <<10, 0>>, <<0, 10, 10, 1>>, <<11>>, <<0, 10, 0>>}

\* A forward function, and a backward one that writes to the activation it takes.
TreeTakes == [fwd |-> {"outside"}, bwd |-> {"pool"}]
TreeMode == [fwd |-> "FORWARD", bwd |-> "BACKWARD"]

\* Callables with up to two inputs, a parameter and two outputs.
GraphedShapes ==
    [args : {<<TRUE>>, <<FALSE>>, <<TRUE, FALSE>>}, params : {<<>>, <<TRUE>>},
     outs : {<<TRUE>>, <<TRUE, FALSE>>, <<FALSE>>},
     used : {<<TRUE, TRUE, TRUE>>, <<FALSE, TRUE, TRUE>>}]

VARIABLES
    part,     \* the component that this behaviour is one of
    v1, v2, v3, v4, v5, v6, v7, v8, v9, v10, v11, v12, v13, v14, v15, v16, v17, v18,
    v19, v20, v21     \* its variables, in their order

Dumper == INSTANCE DataDumper WITH
    Reporters <- {r1, r2}, Null <- null, Locked <- TRUE, Capacity <- 2,
    NotifyInterval <- 0, BatchLen <- 2, CycleLimit <- 2, MaxReports <- ReportsMade,
    MaxSessions <- 2, LateReports <- FALSE, is_inited <- v1, read_index <- v2,
    write_index <- v3, idle_write_index <- v4, data_queue <- v5, start <- v6,
    report_enable <- v7, enable_warmup <- v8, warmup <- v9, mutex <- v10, pc <- v11,
    sent <- v12, cycles <- v13, at <- v14, batch <- v15, accepted <- v16, late <- v17,
    file <- v18, unwritten <- v19, sessions <- v20
Checksum == INSTANCE ChecksumRounds WITH
    World <- 2, MaxStops <- 1, store <- v1, pc <- v2, running <- v3, bf16 <- v4,
    state <- v5, global <- v6, checked <- v7, lap <- v8, cleared <- v9, posted <- v10,
    skewed <- v11, stops <- v12
Analysis == INSTANCE TaskManager WITH
    Graphs <- AnalysisGraphs, MaxConcurrent <- 2, MaxFaults <- 1, graph <- v1,
    status <- v2, output <- v3, pre <- v4, post <- v5, ready <- v6, batch <- v7,
    waiting <- v8, listening <- v9, pipe <- v10, buffer <- v11, writers <- v12,
    child <- v13, result <- v14, input <- v15, files <- v16, pc <- v17, faults <- v18
Host == INSTANCE HostAllocator WITH
    Sizes <- {480, 1500, 3200}, Streams <- {"s1", "s2"}, kMinBlockSize <- 512,
    Granule <- 1024, Reserve <- 3072, MaxSegments <- 2, MaxHandles <- 5, MaxCalls <- 5,
    blocks <- v1, handles <- v2, ptr_to_block_ <- v3, events_ <- v4,
    active_bytes <- v5, allocated_bytes <- v6, pc <- v7, req <- v8, cand <- v9,
    to_unmap <- v10, live <- v11, calls <- v12
Caching == INSTANCE CachingAllocator WITH
    Streams <- {"s1", "s2"}, Pools <- {1}, Requests <- {1, 5}, Fractions <- {12},
    Capacity <- 20, MinBlock <- 2, Pad <- 1, SmallSize <- 4, SmallBuffer <- 6,
    MinLargeAlloc <- 10, LargeBuffer <- 12, RoundLarge <- 4, MaxBlocks <- 6,
    MaxUses <- 2, MaxCalls <- 5, CaptureRecords <- FALSE, EraseDeferred <- FALSE,
    NestPools <- FALSE, heap <- v1, waiting <- v2, contexts <- v3, calls <- v4,
    landed <- v5
Runtime == INSTANCE Runtime WITH
    Threads <- {"a", "b"}, Devices <- {0, 1}, StreamIds <- {0, 1}, Seeds <- {1},
    Programs <- RuntimePrograms, MaxCalls <- 3, MaxNest <- 2, ForkAnywhere <- FALSE,
    Texts <- VisibleDevices, uses <- v1, init <- v2, pend <- v3, gen <- v4,
    asked <- v5, saved <- v6, dev <- v7, active <- v8, strm <- v9, ctx <- v10,
    count <- v11, det <- v12, alive <- v13, calls <- v14
Tree == INSTANCE GraphTree WITH
    Fns <- {"fwd", "bwd"}, Mode <- TreeMode, Takes <- TreeTakes, Mutates <- {"bwd"},
    Addrs <- {1, 2, 3}, MaxNodes <- 3, MaxEvents <- 1, RerecordLimit <- 0, nodes <- v1,
    cur <- v2, state <- v3, warmed <- v4, rootKeys <- v5, hint <- v6, rerecord <- v7,
    curGen <- v8, pending <- v9, alloc <- v10, held <- v11, owned <- v12, dead <- v13,
    compileGen <- v14, marks <- v15, param <- v16, call <- v17, pc <- v18,
    inline <- v19, released <- v20, lost <- v21
Update == INSTANCE GraphUpdate WITH
    Values <- {1, 2}, MaxOps <- 2, MaxSteps <- 2, SyncEachStep <- TRUE,
    CaptureFails <- FALSE, scope <- v1, nodes <- v2, records <- v3, want <- v4,
    tasks <- v5, event <- v6, mainQ <- v7, updQ <- v8, ran <- v9, steps <- v10
Graphed == INSTANCE GraphedCallables WITH
    N <- 2, MaxIters <- 2, Shapes <- GraphedShapes, conf <- v1, phase <- v2, at <- v3,
    plan <- v4, free <- v5, mem <- v6, inputs <- v7, gradOut <- v8, params <- v9,
    training <- v10, iter <- v11, live <- v12, lastGrad <- v13, eager <- v14

\* The variables that a component does not need rest.
After0 ==
    <<v1, v2, v3, v4, v5, v6, v7, v8, v9, v10, v11, v12, v13, v14, v15, v16, v17, v18,
      v19, v20, v21>>
After5 ==
    <<v6, v7, v8, v9, v10, v11, v12, v13, v14, v15, v16, v17, v18, v19, v20, v21>>
After10 ==
    <<v11, v12, v13, v14, v15, v16, v17, v18, v19, v20, v21>>
After12 ==
    <<v13, v14, v15, v16, v17, v18, v19, v20, v21>>
After14 ==
    <<v15, v16, v17, v18, v19, v20, v21>>
After18 ==
    <<v19, v20, v21>>
After20 ==
    <<v21>>
Rest20 ==
    /\ v21 = 0
Rest18 ==
    /\ v19 = 0 /\ v20 = 0 /\ Rest20
Rest14 ==
    /\ v15 = 0 /\ v16 = 0 /\ v17 = 0 /\ v18 = 0 /\ Rest18
Rest12 ==
    /\ v13 = 0 /\ v14 = 0 /\ Rest14
Rest10 ==
    /\ v11 = 0 /\ v12 = 0 /\ Rest12
Rest5 ==
    /\ v6 = 0 /\ v7 = 0 /\ v8 = 0 /\ v9 = 0 /\ v10 = 0 /\ Rest10
Rest0 ==
    /\ v1 = 0 /\ v2 = 0 /\ v3 = 0 /\ v4 = 0 /\ v5 = 0 /\ Rest5

MCInit ==
    /\ part \in Parts
    /\ Init
    /\ \/ part = "release" /\ Rest0
       \/ part = "dumper" /\ Dumper!Init /\ Rest20
       \/ part = "checksum" /\ Checksum!Init /\ Rest12
       \/ part = "analysis" /\ Analysis!Init /\ Rest18
       \/ part = "host" /\ Host!Init /\ Rest12
       \/ part = "caching" /\ Caching!Init /\ Rest5
       \/ part = "runtime" /\ Runtime!Init /\ Rest14
       \/ part = "tree" /\ Tree!Init
       \/ part = "update" /\ Update!Init /\ Rest10
       \/ part = "graphed" /\ Graphed!Init /\ Rest14

MCNext ==
    \/ part = "release" /\ Next /\ UNCHANGED <<part, After0>>
    \/ part = "dumper" /\ Dumper!Next /\ UNCHANGED <<part, vars, After20>>
    \/ part = "checksum" /\ Checksum!Next /\ UNCHANGED <<part, vars, After12>>
    \/ part = "analysis" /\ Analysis!Next /\ UNCHANGED <<part, vars, After18>>
    \/ part = "host" /\ Host!Next /\ UNCHANGED <<part, vars, After12>>
    \/ part = "caching" /\ Caching!Next /\ UNCHANGED <<part, vars, After5>>
    \/ part = "runtime" /\ Runtime!Next /\ UNCHANGED <<part, vars, After14>>
    \/ part = "tree" /\ Tree!Next /\ UNCHANGED <<part, vars>>
    \/ part = "update" /\ Update!Next /\ UNCHANGED <<part, vars, After10>>
    \/ part = "graphed" /\ Graphed!Next /\ UNCHANGED <<part, vars, After14>>

mcvars ==
    <<part, vars, v1, v2, v3, v4, v5, v6, v7, v8, v9, v10, v11, v12, v13, v14, v15,
      v16, v17, v18, v19, v20, v21>>
dumper_vars ==
    <<v1, v2, v3, v4, v5, v6, v7, v8, v9, v10, v11, v12, v13, v14, v15, v16, v17, v18,
      v19, v20>>
checksum_vars ==
    <<v1, v2, v3, v4, v5, v6, v7, v8, v9, v10, v11, v12>>
analysis_vars ==
    <<v1, v2, v3, v4, v5, v6, v7, v8, v9, v10, v11, v12, v13, v14, v15, v16, v17, v18>>

MCSpec == MCInit /\ [][MCNext]_mcvars

\* The fairness that each component states for its own threads.
MCFairSpec ==
    /\ MCSpec
    /\ WF_vars(part = "release" /\ Pusher)
    /\ WF_vars(part = "release" /\ Releaser)
    /\ WF_vars(part = "release" /\ DeInit)
    /\ \A r \in {r1, r2} : WF_dumper_vars(part = "dumper" /\ (Dumper!Report(r) \/ Dumper!Push(r)))
    /\ \A c \in {"dumper", "control"} :
        WF_dumper_vars(part = "dumper" /\ Dumper!GatherAndDumpData(c))
    /\ WF_dumper_vars(part = "dumper" /\ Dumper!Run)
    /\ WF_dumper_vars(part = "dumper" /\ Dumper!Control)
    /\ \A r \in {0, 1} :
        /\ WF_checksum_vars(part = "checksum" /\ Checksum!GoesOn(r))
        /\ WF_checksum_vars(part = "checksum" /\ Checksum!PassesAgain(r))
    /\ WF_analysis_vars(part = "analysis" /\ Analysis!Manager)
    /\ \A t \in AnalysisTasks :
        WF_analysis_vars(part = "analysis" /\ t \in Analysis!Tasks /\ Analysis!Child(t))

\* What HostAllocator takes for granted about the sizes holds of those above.
ASSUME HostSizes == Host!SizesOK
\* The hypotheses of the theorems about the threads.
ASSUME ThreadHypotheses ==
    /\ Dumper!Distinct /\ Dumper!Sized
    /\ Checksum!Populated
    /\ Analysis!WellFormed

-----------------------------------------------------------------------------
(* The threads (DataDumper, ChecksumRounds, TaskManager).  The properties  *)
(* of ReleaseQueue are its own: its variables rest in the other parts.     *)

\* Push claims no slot of the ring whose report has not been popped, although it
\* compares with a read_index_ that it loaded earlier.
RingBounded == part = "dumper" => Dumper!RingBounded

\* Stop's Flush runs only when the dumper thread no longer pops; reports reach the
\* file in the order Push accepted them, and none is lost without an error log.
DumperSafe ==
    part = "dumper" =>
        Dumper!TypeOK /\ Dumper!OneConsumer /\ Dumper!FileInOrder /\ Dumper!NoSilentLoss

\* All ranks of a round of _tcp_comm_checksum_state read the same sum.
RoundsAgree == part = "checksum" => Checksum!RoundsAgree

\* A parser counts as succeeded only if its code returned success.
SuccessIsReal == part = "analysis" => Analysis!SuccessIsReal

\* A parser starts after its prerequisites and is handed all their outputs; no more
\* than max_concurrent_num run; at the end every parser that could run has run.
AnalysisSound ==
    part = "analysis" =>
        /\ Analysis!TypeOK /\ Analysis!InputsDelivered
        /\ Analysis!ChildrenBounded /\ Analysis!RunnableRan

CallPending ==
    \/ part = "release" /\ (wpc = "push" \/ dpc = "join")
    \/ part = "dumper" /\ Dumper!Stopping
    \/ part = "checksum" /\ Checksum!StrikePending
    \/ part = "analysis"
CallOver ==
    \/ part = "release" /\ wpc \in {"run", "exit"} /\ dpc # "join"
    \/ part = "dumper" /\ Dumper!Stopped
    \/ part = "checksum" /\ Checksum!StrikeAnswered
    \/ part = "analysis" /\ Analysis!Over

\* What is called returns: PushToReleaseQueue although it spins on a full ring,
\* ~ReleaseQueue and ProfilerMgr::Stop, which join a thread, and the run of the
\* analysis, whatever fails in it.  Once every rank has bfloat16 parameters, a strike
\* leads to a round whose sum is not zero.
CallsEnd == CallPending ~> CallOver

-----------------------------------------------------------------------------
(* Memory, devices and graphs.                                             *)

\* Blocks tile their segments, are coalesced and backed by pages; what the
\* application or a stream holds is neither reused nor unmapped; the statistics
\* are exact (HostAllocator).
HostSound ==
    part = "host" =>
        /\ Host!TypeOK /\ Host!BlocksTile /\ Host!Coalesced /\ Host!PagesMatch
        /\ Host!LiveBacked /\ Host!EventsHoldBlock /\ Host!MapGoesOn /\ Host!StatsExact

\* memory_stats equals a walk over memory_snapshot, no block is reused while a
\* stream recorded on it uses it, and private pools are kept apart (CachingAllocator).
CachingSound ==
    part = "caching" => Caching!StatsExact /\ Caching!NoEarlyReuse /\ Caching!PoolsSound

\* Calls deferred until _lazy_init are neither lost nor overtaken, nobody waits for a
\* lock that is gone, and the device count is exact; leaving a device or stream
\* context restores what was current when it was entered (Runtime).
RuntimeSound ==
    /\ [](part = "runtime" => Runtime!SeedsHonoured /\ Runtime!InitSound /\ Runtime!CountExact)
    /\ [][part = "runtime" => Runtime!LeaveRestores /\ Runtime!LevelFollowsFlag]_mcvars

\* A graph tree overwrites no output that is still needed, and its pool's live
\* blocks are those of the live outputs (GraphTree).
TreeSound == part = "tree" => Tree!TypeOK /\ Tree!NothingLost /\ Tree!PoolAccounted

\* Captured operators run with the arguments of their step and no replay waits for
\* good (GraphUpdate); graphed callables return what the originals would
\* (GraphedCallables).
GraphsExact ==
    /\ part = "update" => Update!UpdatesTakeEffect
    /\ part = "graphed" => Graphed!GraphedLikeEager
=============================================================================
