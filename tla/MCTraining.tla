---------------------------- MODULE MCTraining -----------------------------
(***************************************************************************)
(* The profiler and the training loop for TLC.  A behaviour of this module *)
(* is a behaviour of one of the components in Parts, which share the       *)
(* variables of the module.                                                *)
(***************************************************************************)
EXTENDS Integers, FiniteSetsExt, SequencesExt, TLC

CONSTANTS
    Parts,     \* the components of a run
    OpTraces, MemTraces, StepTraces, CommTraces, PyTraces, Variants

(* Profiler sessions, profiles and traces *)
MCSchedules ==
    [wait : {-1, 1}, warmup : {0, 1}, active : {0, 2}, repeat : {0, 1}, skip : {0, 1}]
MCConfigs ==
    {[valid |-> TRUE, start |-> -1, warmup |-> 1, active |-> 1, isRank |-> TRUE, ranks |-> {1}],
     [valid |-> TRUE, start |-> 2, warmup |-> -1, active |-> 0, isRank |-> FALSE, ranks |-> {}]}
\* Two ranks and an edit; one rank, whose program calls start, and two edits.
MCJobs ==
    {[ranks |-> {1, 2}, starters |-> {}, edits |-> 1, clock |-> 2],
     [ranks |-> {1}, starters |-> {1}, edits |-> 2, clock |-> 3]}


Op(name, tid, ts, end, seq, fwd) ==
  [name |-> name, tid |-> tid, ts |-> ts, end |-> end, seq |-> seq, fwd |-> fwd, stack |-> name # "step", op |-> TRUE]

MCOps(bwd) == <<Op("other", 1, 20, 30, 2, 0), Op("aten", 1, 36, 46, -1, 0), Op("aten", 1, 10, 60, 1, 0),
                Op("step", 1, 0, 66, -1, 0), Op("npu", bwd, 70, 90, 1, 1), Op("step", 1, 67, 100, -1, 0)>>

\* Before B, in B, after B, in C, after C, outside A, in D.
Places == <<12, 22, 31, 38, 50, 62, 74>>

MCWork ==
  UNION {[I -> 0..2] : I \in {J \in SUBSET (1..7) : Cardinality(J) \in 1..3}}

RECURSIVE Tasks(_, _, _, _)
Tasks(w, lag, queue, s) ==
  IF DOMAIN w = {} THEN s
  ELSE LET i  == Min(DOMAIN w)
           p  == Places[i]
           on == IF i = 7 THEN s.bwd ELSE 1
           d  == Max({p + lag, s.host + 1})
           issued(k) == IF queue THEN d + 2 * k ELSE p + 2 * (k - 1)
           dev(k) == Max({s.dev + 1, issued(k) + 2}) + 4 * (k - 1)
           K  == [k \in 1..w[i] |-> <<"X", dev(k), 2 + (k % 2), k = 1>>]
           id(k) == 10 * i + k
           n  == IF w[i] = 0 THEN s.dev ELSE dev(w[i]) + 3
       IN Tasks([j \in DOMAIN w \ {i} |-> w[j]], lag, queue,
            [s EXCEPT !.host = d + 8, !.dev = n,
              !.marks = IF queue THEN @ \o << <<"enqueue_start", on, p, i, "q">>, <<"enqueue_end", on, p + 1, i, "q">>,
                                             <<"dequeue_start", 9, d, i, "k">>, <<"dequeue_end", 9, d + 8, i, "k">> >>
                        ELSE @,
              !.timeline = @ \o FlattenSeq([k \in 1..w[i] |-> <<K[k], <<"s", id(k), issued(k)>>, <<"f", id(k), dev(k)>>>>]),
              !.launches = @ \o [k \in 1..w[i] |->
                                  [ts |-> issued(k), end |-> issued(k) + 1, tid |-> IF queue THEN 9 ELSE on, id |-> id(k)]],
              !.cause = @ \cup {<<K[k], IF queue THEN p ELSE issued(k), on, id(k)>> : k \in 1..w[i]}])

MCTrace(w, lag, queue, bwd) ==
  Tasks(w, lag, queue, [ops |-> MCOps(bwd), marks |-> <<>>, timeline |-> <<>>, launches |-> <<>>, cause |-> {},
                        host |-> 0, dev |-> 0, bwd |-> bwd])

MCOpTraces == {MCTrace(w, lag, queue, bwd) : w \in MCWork, lag \in {2, 25}, queue \in BOOLEAN, bwd \in {1, 2}}

\* Memory: allocations in an operator or in a task, released or not.
MCRecord(time, tid, ptr, type, comp, alloc) ==
  [time |-> time, tid |-> tid, ptr |-> ptr, type |-> type, comp |-> comp, npu |-> TRUE, inner |-> comp = "pta",
   size |-> 1, alloc |-> alloc, resv |-> 4, act |-> alloc, dev |-> 0]

MCGe(time, type, alloc) ==
  [time |-> time, type |-> type, name |-> "g", addr |-> 1, size |-> 2, alloc |-> alloc, resv |-> 8, act |-> 0,
   dev |-> 0, comp |-> "ge"]

MCRecordSets ==
  LET first == {<<>>, <<MCRecord(13, 1, 1, "free", "pta", 0)>>}
      alloc == {<<MCRecord(a, IF a \in {28, 39} THEN 9 ELSE 1, 1, "malloc", "pta", 1)>> : a \in {14, 25, 28, 33, 39, 64, 75}}
      freed == {<<>>, <<MCRecord(80, 1, 1, "free", "pta", 0)>>, <<MCRecord(79, 1, 1, "block_free", "pta", 0)>>,
                <<MCRecord(79, 1, 1, "block_free", "pta", 1), MCRecord(82, 1, 1, "free", "pta", 0)>>,
                <<MCRecord(80, 1, 1, "free", "pta", 0), MCRecord(83, 1, 1, "block_free", "pta", 0)>>}
      again == {<<>>, <<MCRecord(85, 1, 1, "malloc", "pta", 2)>>,
                <<MCRecord(86, 1, 2, "malloc", "pta", 3), MCRecord(88, 9, 3, "malloc", "workspace", 5)>>}
  IN {f \o a \o r \o g : f \in first, a \in alloc, r \in freed, g \in again}

MCGeSets == {<<>>, <<MCGe(20, "allocate", 2)>>, <<MCGe(81, "release", 0), MCGe(20, "allocate", 2)>>,
             <<MCGe(5, "allocate", 2), MCGe(77, "release", 0), MCGe(87, "allocate", 2)>>}

MCMemTraces ==
  {[ops |-> MCOps(1), marks |-> MCTrace(w, 2, TRUE, 1).marks, records |-> r, ge |-> g] :
     w \in {[i \in I |-> 1] : I \in {{}, {2}, {2, 3}, {2, 4}, {2, 4, 5}}}, r \in MCRecordSets, g \in MCGeSets}

\* Step times: tasks of two steps on one device.
MCTasks ==
  {SetToSeq(S) : S \in UNION {kSubset(n, {<<2, 4, "compute">>, <<4, 6, "compute">>, <<3, 7, "comm">>, <<5, 6, "comm">>,
                                          <<8, 9, "recv">>, <<9, 11, "comm">>, <<13, 15, "compute">>, <<14, 17, "comm">>,
                                          <<18, 19, "recv">>, <<17, 20, "compute">>}) : n \in 1..6}}

MCStepTraces ==
  {[tasks |-> x, steps |-> s, first |-> 0, end |-> 99,
    apis |-> [i \in DOMAIN x |-> IF x[i][1] < 12 THEN <<0, 1>> ELSE <<1, 2>>]] :
     x \in MCTasks, s \in {<<>>, <<<<0, 1>>, <<1, 2>>>>, <<<<0, 2>>>>}}

\* Communication.
MCLink(size, bw) == [kind |-> "hccs", time |-> 2, size |-> size, bw |-> bw]
MCComm(name, mode, type, start, links) ==
  [name |-> name, mode |-> mode, type |-> type, group |-> 1, start |-> start, links |-> links,
   time |-> [elapse |-> 3, transit |-> 2, wait |-> IF mode = "p2p" THEN 0 ELSE 1, sync |-> 0],
   bands |-> ("hccs" :> [time |-> 2, size |-> name])]

MCCommOps ==
  {MCComm(1, "collective", "allreduce", 5, (12 :> MCLink(1, 3)) @@ (13 :> MCLink(2, 1))),
   MCComm(2, "collective", "allreduce", 10, (12 :> MCLink(4, 5))),
   MCComm(3, "collective", "allreduce", 15, (12 :> MCLink(8, 2))),
   MCComm(4, "p2p", "send", 10, (12 :> MCLink(16, 4))),
   MCComm(5, "total", "total", 5, <<>>), MCComm(6, "collective", "allgather", 30, (21 :> MCLink(32, 3)))}

MCCommTraces ==
  {[ops |-> SelectSeq(SetToSeq(S), LAMBDA o : ~(drop /\ o.name = 3)), matrix |-> SetToSeq(S), steps |-> s] :
     S \in SUBSET MCCommOps, drop \in BOOLEAN,
     s \in {<<[start |-> 0, end |-> 99]>>, <<[start |-> 0, end |-> 20]>>,
            <<[start |-> 0, end |-> 10], [start |-> 10, end |-> 40]>>}}

\* Python calls.
MCPyTraces ==
  UNION {{[i \in 1..n |-> <<f[i][1], f[i][2], f[i][3], i>>] :
            f \in [1..n -> {<<"call", "f", 0>>, <<"call", "Net", 7>>, <<"call", "Net", 8>>, <<"c", "g", 0>>, <<"return", "f", 0>>}]} :
          n \in 1..4}

-----------------------------------------------------------------------------
(* The training loop *)
MCGroups == <<<<"p", "q">>, <<"r">>>>
MCDtype == [p |-> "fp32", q |-> "fp16", r |-> "fp32"]
MCSize == [p |-> 1, q |-> 1, r |-> 2]
MCPassSets == {{"p", "q", "r"}, {"p", "q"}, {"r"}}
MCKinds ==
    {"adam", "adamw", "adamp", "lamb", "adadelta", "rmsprop", "rmsproptf", "sgd", "bertadam"}

W(id, dt, matrix, sampled, grad) == [id |-> id, dt |-> dt, matrix |-> matrix, sampled |-> sampled, grad |-> grad]
M(name, kids, params) == [name |-> name, kids |-> kids, params |-> params, loss |-> FALSE, training |-> TRUE]
MCTree ==
    [net |-> M("net", <<"embed", "block">>, <<>>), block |-> M("block", <<"norm", "head">>, <<>>),
     embed |-> M("embed", <<>>, <<W(1, "full", TRUE, TRUE, TRUE)>>),
     norm |-> M("norm", <<>>, <<W(2, "full", FALSE, TRUE, TRUE), W(3, "full", FALSE, FALSE, FALSE)>>),
     head |-> M("head", <<>>, <<W(4, "full", TRUE, FALSE, TRUE), W(5, "full", TRUE, FALSE, TRUE)>>),
     critic |-> M("critic", <<"left", "right">>, <<>>),
     left |-> M("left", <<>>, <<W(6, "full", TRUE, FALSE, TRUE)>>),
     right |-> M("right", <<>>, <<W(7, "full", TRUE, FALSE, TRUE)>>),
     single |-> M("single", <<>>, <<W(8, "full", TRUE, FALSE, TRUE)>>),
     mixed |-> M("mixed", <<"wide", "narrow">>, <<>>),
     wide |-> M("wide", <<>>, <<W(9, "full", TRUE, FALSE, TRUE)>>),
     narrow |-> M("narrow", <<>>, <<W(10, "half", TRUE, FALSE, TRUE)>>),
     loss |-> [M("loss", <<>>, <<>>) EXCEPT !.loss = TRUE],
     frozen |-> [M("frozen", <<"left">>, <<>>) EXCEPT !.training = FALSE]]
MCRoots == {"net", "critic", "single", "mixed", "loss", "frozen"}
E(p, asd, enable, version) == [perf |-> p, asd |-> asd, enable |-> enable, version |-> version]
C(enable, items) == <<[enable |-> enable, items |-> items]>>
MCSettings == {E(FALSE, <<>>, 0, 2), E(TRUE, <<>>, 0, 2), E(FALSE, <<>>, 1, 1), E(TRUE, <<>>, 2, 2), E(FALSE, <<>>, 2, 1),
               E(FALSE, <<>>, 4, 2), E(FALSE, C("maybe", <<>>), 0, 2),
               E(TRUE, C("false", <<>>), 3, 2),
               E(FALSE, C("true", << <<"grad_sample_interval", 3>>, <<"cooldown">>, <<"grad_sample_interval", 2>> >>), 0, 2),
               E(TRUE, C("true", << <<"grad_sample_interval", -1>>, <<"with_checksum", 1>> >>), 0, 2),
               E(TRUE, C("true", << <<"with_checksum", -1>> >>), 0, 2),
               E(TRUE, C("false", << <<"with_checksum", -1>> >>), 0, 2)}

-----------------------------------------------------------------------------
(* Groups of ranks *)
MCMembers == [w |-> {0, 1, 2}, s |-> {0, 1}]
\* Dumps without the sizes of an all_to_all, with them, and some of each.
MCVersions == {[r \in 0..2 |-> <<2, 3>>], [r \in 0..2 |-> <<2, 4>>], [r \in 0..2 |-> <<2, IF r = 0 THEN 3 ELSE 4>>]}
MCCollectives == {"gather", "gather_object", "batch", "all_gather_uneven", "reduce_scatter_uneven"}
N(k) == <<"npu", k>>
Cpu == <<"cpu", 0>>
O(count, maps, devices) == [count |-> count, maps |-> maps, devices |-> devices]
MCOptionsOf == {O(2, <<>>, <<>>), O(2, <<>>, <<N(0), N(1)>>), O(2, 1 :> (N(0) :> N(1)), <<>>),
                O(2, 1 :> (N(0) :> N(1) @@ N(1) :> N(0)), <<N(0), N(1)>>),
                O(2, 1 :> (N(0) :> N(2)), <<>>), O(2, 1 :> (N(0) :> N(0) @@ N(1) :> N(0)), <<>>),
                O(2, 0 :> (N(0) :> N(1)), <<>>), O(2, 0 :> (Cpu :> N(0) @@ N(1) :> Cpu), <<>>),
                O(2, 0 :> (N(1) :> N(1)), <<N(0)>>), O(2, 5 :> (N(0) :> N(0)), <<>>), O(2, <<>>, <<N(1), N(1)>>)}
MCOptions == [0..1 -> MCOptionsOf]

VARIABLES
    part,     \* the component that this behaviour is one of
    v1, v2, v3, v4, v5, v6, v7, v8, v9, v10, v11, v12, v13, v14, v15, v16, v17, v18,
    v19, v20     \* its variables, in their order

Plain == INSTANCE PlainProfile WITH
    Schedules <- MCSchedules, MaxSessions <- 2, MaxSteps <- 5, MaxRaises <- 1,
    proc <- v1, prof <- v2, started <- v3, used <- v4, sessions <- v5, raises <- v6
Dynamic == INSTANCE DynamicProfile WITH
    Jobs <- MCJobs, Configs <- MCConfigs, MaxSteps <- 3, job <- v1, clock <- v2,
    file <- v3, edits <- v4, shm <- v5, mon <- v6, rank <- v7
Events == INSTANCE EventTree WITH
    Threads <- {"main", "backward"}, Fwd <- "main", MaxEvents <- 4, clock <- v1,
    events <- v2, stack <- v3, within <- v4, mode <- v5, next <- v6, threadEvent <- v7,
    unfinished <- v8, parent <- v9, finished <- v10
Timeline == INSTANCE MemoryTimeline WITH
    Ptrs <- {"a", "b"}, Size <- [a |-> 1, b |-> 2], Existing <- {"a"}, MaxEvents <- 3,
    trace <- v1, live <- v2, flow <- v3, category <- v4
Reports == INSTANCE Reports WITH
    trace <- v1, report <- v2
Scaler == INSTANCE GradScaler WITH
    Ranks <- {1, 2}, Opts <- {"a", "b"}, Dynamics <- {TRUE}, NewScales <- {0},
    InitScale <- 1, MaxScale <- 1, GrowthInterval <- 2, MaxIters <- 2,
    MaxAccumulate <- 2, MaxRestarts <- 1, variant <- v1, dynamic <- v2, sc <- v3,
    flag <- v4, grads <- v5, prog <- v6, at <- v7, iter <- v8, did <- v9, saved <- v10,
    restarts <- v11
Fused == INSTANCE FusedOptim WITH
    Groups <- MCGroups, DtypeOf <- MCDtype, SizeOf <- MCSize, Kinds <- MCKinds,
    PassSets <- MCPassSets, MaxPasses <- 2, MaxSteps <- 2, MaxEvents <- 2, kind <- v1,
    has <- v2, grad <- v3, linked <- v4, slot <- v5, comb <- v6, isComb <- v7,
    isStates <- v8, isMasks <- v9, inState <- v10, st <- v11, cst <- v12, ref <- v13,
    wrong <- v14, odd <- v15, disk <- v16, passes <- v17, steps <- v18, events <- v19,
    raised <- v20
Silent == INSTANCE SilentCheck WITH
    QueueLen <- 3, StrikesNums <- {1, 2, 3}, Cooldown <- 1, StrikesWindow <- 3,
    MaxSamples <- 5, MaxClock <- 7, num <- v1, ring <- v2, head <- v3, tail <- v4,
    copies <- v5, hook <- v6, lock <- v7, running <- v8, hist <- v9, clock <- v10,
    sent <- v11, got <- v12, overran <- v13, strikes <- v14
Hooks == INSTANCE ModuleHooks WITH
    Tree <- MCTree, Roots <- MCRoots, Checkpointed <- {"embed", "norm", "left"},
    Settings <- MCSettings, MinStep <- 1, MaxCalls <- 4, env <- v1, perf <- v2,
    v1 <- v3, v2 <- v4, v3 <- v5, inBackward <- v6, stack <- v7, back <- v8,
    calls <- v9, checks <- v10, done <- v11
Fsdp == INSTANCE FsdpCache WITH
    Layers <- 3, Numel <- <<2, 1, 3>>, Gathered <- "bf16", Reduced <- "fp32",
    MaxPasses <- 5, mode <- v1, pc <- v2, group <- v3, cache <- v4, gather <- v5,
    reduce <- v6, after <- v7, races <- v8, gathers <- v9, passes <- v10
Flight == INSTANCE FlightRecorder WITH
    Ranks <- {0, 1, 2}, Members <- MCMembers, Types <- {"all_reduce", "all_to_all"},
    Kept <- {1, 2}, Sizes <- {1, 2}, Versions <- MCVersions, MismatchTail <- 1,
    MaxCalls <- 2, dump <- v1, version <- v2, order <- v3, incomplete <- v4,
    outcome <- v5, entries <- v6, mismatch <- v7, collectives <- v8, calls <- v9
Meeting == INSTANCE Rendezvous WITH
    World <- 2, MaxRestarts <- 2, Options <- MCOptions, options <- v1, elastic <- v2,
    agent <- v3, servers <- v4, attempt <- v5, worker <- v6, keys <- v7
Collectives == INSTANCE Collectives WITH
    Ranks <- {0, 1, 2}, MaxSize <- 2, Kinds <- MCCollectives, CompatSubgroups <- FALSE,
    job <- v1, world <- v2, made <- v3, handle <- v4, pc <- v5, posted <- v6,
    got <- v7, learnt <- v8, out <- v9, failed <- v10

\* The variables that a component does not need rest.
After2 ==
    <<v3, v4, v5, v6, v7, v8, v9, v10, v11, v12, v13, v14, v15, v16, v17, v18, v19, v20>>
After4 ==
    <<v5, v6, v7, v8, v9, v10, v11, v12, v13, v14, v15, v16, v17, v18, v19, v20>>
After6 ==
    <<v7, v8, v9, v10, v11, v12, v13, v14, v15, v16, v17, v18, v19, v20>>
After7 ==
    <<v8, v9, v10, v11, v12, v13, v14, v15, v16, v17, v18, v19, v20>>
After9 ==
    <<v10, v11, v12, v13, v14, v15, v16, v17, v18, v19, v20>>
After10 ==
    <<v11, v12, v13, v14, v15, v16, v17, v18, v19, v20>>
After11 ==
    <<v12, v13, v14, v15, v16, v17, v18, v19, v20>>
After14 ==
    <<v15, v16, v17, v18, v19, v20>>
Rest14 ==
    /\ v15 = 0 /\ v16 = 0 /\ v17 = 0 /\ v18 = 0 /\ v19 = 0 /\ v20 = 0
Rest11 ==
    /\ v12 = 0 /\ v13 = 0 /\ v14 = 0 /\ Rest14
Rest10 ==
    /\ v11 = 0 /\ Rest11
Rest9 ==
    /\ v10 = 0 /\ Rest10
Rest7 ==
    /\ v8 = 0 /\ v9 = 0 /\ Rest9
Rest6 ==
    /\ v7 = 0 /\ Rest7
Rest4 ==
    /\ v5 = 0 /\ v6 = 0 /\ Rest6
Rest2 ==
    /\ v3 = 0 /\ v4 = 0 /\ Rest4

MCInit ==
    /\ part \in Parts
    /\ \/ part = "plain" /\ Plain!Init /\ Rest6
       \/ part = "dynamic" /\ Dynamic!Init /\ Rest7
       \/ part = "events" /\ Events!Init /\ Rest10
       \/ part = "timeline" /\ Timeline!Init /\ Rest4
       \/ part = "reports" /\ Reports!Init /\ Rest2
       \/ part = "scaler" /\ Scaler!Init /\ Rest11
       \/ part = "fused" /\ Fused!Init
       \/ part = "silent" /\ Silent!Init /\ Rest14
       \/ part = "hooks" /\ Hooks!Init /\ Rest11
       \/ part = "fsdp" /\ Fsdp!Init /\ Rest10
       \/ part = "flight" /\ Flight!Init /\ Rest9
       \/ part = "meeting" /\ Meeting!Init /\ Rest7
       \/ part = "collectives" /\ Collectives!Init /\ Rest10

MCNext ==
    \/ part = "plain" /\ Plain!Next /\ UNCHANGED <<part, After6>>
    \/ part = "dynamic" /\ Dynamic!Next /\ UNCHANGED <<part, After7>>
    \/ part = "events" /\ Events!Next /\ UNCHANGED <<part, After10>>
    \/ part = "timeline" /\ Timeline!Next /\ UNCHANGED <<part, After4>>
    \/ part = "reports" /\ Reports!Next /\ UNCHANGED <<part, After2>>
    \/ part = "scaler" /\ Scaler!Next /\ UNCHANGED <<part, After11>>
    \/ part = "fused" /\ Fused!Next /\ UNCHANGED part
    \/ part = "silent" /\ Silent!Next /\ UNCHANGED <<part, After14>>
    \/ part = "hooks" /\ Hooks!Next /\ UNCHANGED <<part, After11>>
    \/ part = "fsdp" /\ Fsdp!Next /\ UNCHANGED <<part, After10>>
    \/ part = "flight" /\ Flight!Next /\ UNCHANGED <<part, After9>>
    \/ part = "meeting" /\ Meeting!Next /\ UNCHANGED <<part, After7>>
    \/ part = "collectives" /\ Collectives!Next /\ UNCHANGED <<part, After10>>

mcvars ==
    <<part, v1, v2, v3, v4, v5, v6, v7, v8, v9, v10, v11, v12, v13, v14, v15, v16, v17,
      v18, v19, v20>>

MCSpec == MCInit /\ [][MCNext]_mcvars

-----------------------------------------------------------------------------
(* The profiler                                                            *)

\* Profiler sessions record the steps of their schedule, nothing runs after they
\* are stopped, and every trace is saved once (PlainProfile); dynamic profiling has
\* one monitor, complete sessions, and ranks that start on the same step
\* (DynamicProfile).
SessionsSound ==
    /\ part = "plain" => Plain!RecordsAsScheduled /\ Plain!QuietWhenStopped /\ Plain!SavedOnce
    /\ part = "dynamic" =>
          Dynamic!OneMonitor /\ Dynamic!SessionsComplete /\ Dynamic!StartTogether

\* The tree of events is the nesting of the program's calls (EventTree); the memory
\* timeline and the categories are those of the program (MemoryTimeline).
TraceExact ==
    /\ part = "events" => Events!TreeExact
    /\ part = "timeline" => Timeline!TimelineExact /\ Timeline!CategoriesSound

\* The reports of an analysis agree with the profile they are computed from
\* (Reports), and those of the flight recorder with the job (FlightRecorder).
ReportsExact ==
    /\ part = "reports" => Reports!ReportsExact
    /\ part = "flight" => Flight!MatchesSound /\ Flight!ReportsTrue

-----------------------------------------------------------------------------
(* The training loop                                                       *)

\* All ranks scale alike, an optimizer steps if and only if its gradients are
\* finite, and a skipped step does not let the scale grow (GradScaler).
ScalerSound ==
    /\ [](part = "scaler" => Scaler!StepsIffClean)
    /\ [][part = "scaler" => Scaler!UpdateBacksOff]_mcvars

\* All ranks have the same scale and take the same decisions (GradScaler).
RanksAgree == part = "scaler" => Scaler!RanksAgree

\* The slices of the combined tensors partition them, and a fused step updates what
\* the plain one does (FusedOptim).
OptimizerSound == part = "fused" => Fused!SlicesPartition /\ Fused!SameUpdates

\* Samples are checked once and in order, strikes are raised when they should be
\* (SilentCheck); the hooks run at the two ends of the outermost call (ModuleHooks).
SilentSound ==
    /\ part = "silent" => Silent!SamplesInOrder /\ Silent!StrikesSound
    /\ part = "hooks" => Hooks!HooksSound

\* No buffer of the cache is reused while a stream still works on it (FsdpCache); the
\* workers of an attempt meet on one store (Rendezvous); the collectives that are
\* built from others deliver what they promise (Collectives).
CommSound ==
    /\ part = "fsdp" => Fsdp!CacheSafe
    /\ part = "meeting" => Meeting!MeetingSound
    /\ part = "collectives" => Collectives!CollectivesExact
=============================================================================
