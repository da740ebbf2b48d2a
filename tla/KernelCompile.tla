--------------------------- MODULE KernelCompile ---------------------------
(***************************************************************************)
(* Compiling, caching, tuning and running one kernel of a compiled graph.  *)
(* Several processes (the ranks of a job) share the cache directory; each  *)
(* looks for the kernel chosen by an earlier run, compiles the candidate   *)
(* configurations in its own process, in one worker or in a pool, loads    *)
(* what compiled, tunes on the first call and falls back to the traced     *)
(* graph.  backend "mlir" is NpuMlirCompiler with CustomAsyncCompile       *)
(* (_inductor/ascend_npu_ir), backend "triton" is NPUCachingAutotuner      *)
(* (_inductor/npu_triton_heuristics.py).  A process may die at any step    *)
(* and start again on the cache as it is.                                  *)
(***************************************************************************)
EXTENDS Integers, SequencesExt, FiniteSetsExt

CONSTANTS
    Procs,          \* processes sharing the cache directory
    MaxConfigs,     \* candidate configurations of the kernel
    MaxCalls,       \* bound: runs of the kernel in one life of a process
    MaxCrashes,     \* bound: processes that die
    Settings,       \* the values of anir_config / npu_config to explore
    AliasedOutputs, \* an output may be a contiguous slice of a larger buffer
    StridedDynamic  \* a dynamic kernel may have a non-contiguous output

VARIABLES
    cfg,            \* the settings and the shape of the kernel, fixed
    build,          \* what the toolchain makes of each configuration, fixed
    disk,           \* the cache directory: [kernels, best]
    proc,           \* the state of each process
    crashes

vars == <<cfg, build, disk, proc, crashes>>

Configs == 1 .. MaxConfigs
Fx == 0                 \* the traced graph, as a launcher and as a "best_kernel"
ErrTime == 9            \* anir_config.tune_error_time; bench times are smaller

\* A configuration fails to compile, to load or to launch, or computes something else.
Builds == {"good", "wrong", "nocompile", "noload", "nolaunch"}

Fresh == [st |-> "new", ls |-> <<>>, todo |-> <<>>, work |-> "idle", wtodo |-> <<>>,
          fut |-> [c \in Configs |-> "none"], noMore |-> FALSE, tuned |-> FALSE,
          calls |-> 0, applied |-> 0, out |-> "none"]

\* An aliased output is one that is contiguous; a dynamic one takes the flag.
Init ==
    /\ cfg \in Settings
    /\ cfg.alias => AliasedOutputs /\ ~cfg.strided
    /\ cfg.dynamic /\ cfg.strided => StridedDynamic
    /\ build \in [Configs -> Builds]
    /\ disk = [kernels |-> {}, best |-> <<>>]
    /\ proc = [p \in Procs |-> Fresh]
    /\ crashes = 0

(***************************************************************************)
(* The cache: a file is written in a directory of its own and renamed, so  *)
(* that a reader sees all of it or nothing.                                *)
(***************************************************************************)
has_file(d, c) == c \in d.kernels
PutKernel(d, c) == [d EXCEPT !.kernels = @ \cup {c}]
PutBest(d, c) == [d EXCEPT !.best = <<c>>]

(***************************************************************************)
(* NpuMlirCompiler.                                                        *)
(***************************************************************************)
get_autotune_config == [i \in Configs |-> i]
CompileArgs == IF cfg.autotune THEN get_autotune_config ELSE <<1>>

\* bisheng_compile: the compiler returns an error, or is killed at its timeout.
bisheng_compile(c) == build[c] # "nocompile"

\* get_launch_func: the binary is loaded, or that raises.
Loads(c) == build[c] # "noload"
register_launcher(ls, c) == Append(ls, c)
register_fx_fallback(ls) == Append(ls, Fx)

\* The launcher of the kernel an earlier run chose, or <<>> where the code
\* raises: there is no choice, the file it names is not in the cache, or it does
\* not load.  The hash that stands for the traced graph is no file of the cache either.
get_best_kernel(d) ==
    IF d.best = <<>> THEN <<>>
    ELSE IF has_file(d, d.best[1]) /\ Loads(d.best[1]) THEN register_launcher(<<>>, d.best[1])
    ELSE <<>>

\* compile_mlir: take the cached file, refuse to compile, or compile and put.  With
\* always_compile a file that this process has not put is compiled over; a process
\* comes to a configuration once, so that it never has.
compile_mlir(d, c, noMore) ==
    CASE has_file(d, c) /\ ~cfg.always -> [ok |-> TRUE, disk |-> d]
      [] ~has_file(d, c) /\ noMore -> [ok |-> FALSE, disk |-> d]
      [] OTHER -> [ok |-> bisheng_compile(c),
                   disk |-> IF bisheng_compile(c) THEN PutKernel(d, c) ELSE d]

\* bench: the time of a launcher, or tune_error_time when a launch raises.
bench(l, t) == IF l # Fx /\ build[l] = "nolaunch" THEN ErrTime ELSE t

\* The launchers that are timed.
Timed(ls) == {i \in DOMAIN ls : ls[i] \notin cfg.skip /\ (ls[i] = Fx => cfg.fxtune)}

\* accuracy_pass compares what is in the outputs after launcher i was timed, the
\* result of the last launch that did not raise, with what the traced graph computes.
accuracy_pass(ls, i) ==
    LET wrote == {j \in Timed(ls) : j <= i /\ (ls[j] = Fx \/ build[ls[j]] # "nolaunch")}
    IN /\ wrote # {}
       /\ ls[Max(wrote)] = Fx \/ build[ls[Max(wrote)]] # "wrong"

\* Mutant: the launchers are timed on the caller's arguments.
BenchArgsShared == "caller"

\* The arguments the launchers are timed on: a buffer the kernel mutates is cloned.
BenchArgs == IF cfg.inplace THEN "clone" ELSE "caller"

\* benchmark_all_configs: the launchers that pass, as <<time, index>>; if there are
\* none the last launcher, the traced graph, is taken.
benchmark_all_configs(ls, time) ==
    LET valid == {i \in Timed(ls) : cfg.acc => accuracy_pass(ls, i)}
    IN IF valid = {} THEN {<<1, Len(ls)>>} ELSE {<<bench(ls[i], time[i]), i>> : i \in valid}

Fastest(timings) ==
    CHOOSE t \in timings : \A u \in timings : t[1] < u[1] \/ (t[1] = u[1] /\ t[2] <= u[2])

\* autotune_to_one_config: the launchers that stay, and the cache.
autotune_to_one_config(ls, d, time) ==
    LET best == Fastest(benchmark_all_configs(ls, time))
    IN IF best[1] >= ErrTime THEN [ls |-> register_fx_fallback(<<>>), disk |-> d]
       ELSE [ls |-> <<ls[best[2]]>>, disk |-> PutBest(d, ls[best[2]])]

\* What a launcher leaves in the caller's output, or "raise".  The traced graph does
\* not write the output, it makes the tensor point to its own result; without outputs
\* it is given args[:-0], no inputs.
Launch(l) ==
    CASE l = Fx /\ ~cfg.outputs -> "raise"
      [] l = Fx /\ cfg.outputs -> IF cfg.alias THEN "lost" ELSE "exact"
      [] l # Fx -> CASE build[l] = "wrong" -> "wrong"
                     [] build[l] = "nolaunch" -> "raise"
                     [] OTHER -> "exact"

\* acc_compare_and_dump runs the kernel on the arguments, and the traced graph on
\* copies taken before; outputs that differ are overwritten by the graph's.
acc_compare_and_dump(l) == IF Launch(l) = "wrong" THEN "exact" ELSE Launch(l)

\* The output of a run with launcher l; "raise" where the copy back to the
\* non-contiguous output takes an element of the flattened argument tuple.
RunOnce(l) ==
    IF cfg.online /\ l # Fx THEN acc_compare_and_dump(l)
    ELSE IF cfg.dynamic /\ cfg.strided /\ l # Fx THEN "raise"
    ELSE Launch(l)

(***************************************************************************)
(* The operations of a process.  S(p, r): process p goes on as r.          *)
(***************************************************************************)
S(p, r) == proc' = [proc EXCEPT ![p] = r]
At(p, st) == proc[p].st = st

\* A launcher list to run with; or the process goes on to obtain one.
Ready(r, ls) == [r EXCEPT !.st = "ready", !.ls = ls]

\* _load_fx_graph; import_fx does the same for a graph that is never compiled.
_load_fx_graph(r) == Ready(r, register_fx_fallback(<<>>))

import_fx(p) ==
    /\ At(p, "new") /\ cfg.backend = "mlir" /\ cfg.threads = "fx"
    /\ S(p, [_load_fx_graph(proc[p]) EXCEPT !.tuned = TRUE])
    /\ UNCHANGED <<cfg, build, disk, crashes>>

\* All compiles failed: a kernel with outputs falls back, another raises the error.
Failed(r) == IF cfg.outputs THEN _load_fx_graph(r) ELSE [r EXCEPT !.st = "raised"]

\* mlir_auto_fallback: take the chosen kernel, or compile in this process, in one
\* worker, or in a pool with a future for each configuration.
mlir_auto_fallback(p) ==
    /\ At(p, "new") /\ cfg.backend = "mlir" /\ cfg.threads # "fx"
    /\ LET best == get_best_kernel(disk)
           r == proc[p]
       IN S(p, CASE best # <<>> -> Ready(r, best)
                 [] best = <<>> /\ cfg.threads = "none" ->
                        [r EXCEPT !.st = "precompile", !.todo = CompileArgs]
                 [] best = <<>> /\ cfg.threads = "worker" ->
                        [r EXCEPT !.st = "wait", !.work = "queued"]
                 [] OTHER -> [r EXCEPT !.st = "wait", !.fut = [c \in Configs |-> "queued"]])
    /\ UNCHANGED <<cfg, build, disk, crashes>>

\* precompile in the process that will run the kernel: register what is cached or
\* compiles, and loads; an error ends it unless it is suppressed.
Suppressed(p) == cfg.autotune /\ (proc[p].noMore => cfg.threads = "pool")

precompile(p) ==
    /\ At(p, "precompile") /\ proc[p].todo # <<>>
    /\ LET c == Head(proc[p].todo)
           done == compile_mlir(disk, c, proc[p].noMore)
           ok == done.ok /\ Loads(c)
           r == [proc[p] EXCEPT !.todo = Tail(@)]
       IN /\ disk' = done.disk
          /\ S(p, CASE ok -> [r EXCEPT !.ls = register_launcher(@, c)]
                    [] ~ok /\ Suppressed(p) -> r
                    [] ~ok /\ ~Suppressed(p) /\ r.noMore -> Failed(r)
                    [] OTHER -> [r EXCEPT !.st = "raised"])
    /\ UNCHANGED <<cfg, build, crashes>>

\* The end of _load_kernel: a kernel without launchers becomes the traced graph
\* at once (in this process) or on its first run (after a pool).
Loaded(p) ==
    /\ At(p, "precompile") /\ proc[p].todo = <<>>
    /\ S(p, IF proc[p].ls = <<>> /\ cfg.threads = "none" THEN _load_fx_graph(proc[p])
            ELSE Ready(proc[p], proc[p].ls))
    /\ UNCHANGED <<cfg, build, disk, crashes>>

\* _worker_compile: the worker looks for the chosen kernel itself, then compiles
\* every configuration; the first error is the future's exception.
_worker_compile(p) ==
    /\ proc[p].work = "queued"
    /\ S(p, IF get_best_kernel(disk) # <<>> THEN [proc[p] EXCEPT !.work = "ok"]
            ELSE [proc[p] EXCEPT !.work = "compile", !.wtodo = CompileArgs])
    /\ UNCHANGED <<cfg, build, disk, crashes>>

WorkerStep(p) ==
    /\ proc[p].work = "compile"
    /\ LET done == compile_mlir(disk, Head(proc[p].wtodo), FALSE)
           rest == Tail(proc[p].wtodo)
       IN /\ disk' = done.disk
          /\ S(p, [proc[p] EXCEPT !.wtodo = rest,
                                  !.work = IF ~done.ok THEN "err"
                                           ELSE IF rest = <<>> THEN "ok" ELSE "compile"])
    /\ UNCHANGED <<cfg, build, crashes>>

\* A worker of the pool compiles one configuration.
PoolStep(p) ==
    \E c \in Configs :
        /\ proc[p].fut[c] = "queued"
        /\ LET done == compile_mlir(disk, c, FALSE)
           IN /\ disk' = done.disk
              /\ S(p, [proc[p] EXCEPT !.fut[c] = IF done.ok THEN "ok" ELSE "err"])
        /\ UNCHANGED <<cfg, build, crashes>>

\* _load_kernel(no_more_compile = True): the chosen kernel, or what is cached.
_load_kernel(r) ==
    LET best == get_best_kernel(disk)
    IN IF best # <<>> THEN Ready(r, best)
       ELSE [r EXCEPT !.st = "precompile", !.todo = CompileArgs, !.noMore = TRUE]

\* NPUTritonFuture.result and MulitprocessCompileFuture.result.
WorkerResult(p) ==
    /\ At(p, "wait") /\ proc[p].work \in {"ok", "err"}
    /\ S(p, IF proc[p].work = "ok" THEN _load_kernel(proc[p]) ELSE Failed(proc[p]))
    /\ UNCHANGED <<cfg, build, disk, crashes>>

PoolResult(p) ==
    /\ At(p, "wait") /\ cfg.threads = "pool" /\ \A c \in Configs : proc[p].fut[c] \in {"ok", "err"}
    /\ S(p, IF \E c \in Configs : proc[p].fut[c] = "ok" THEN _load_kernel(proc[p])
            ELSE Failed(proc[p]))
    /\ UNCHANGED <<cfg, build, disk, crashes>>

\* The run of a kernel with the launchers left after tuning; n is the number of
\* timing launches that reached the caller's buffers.
Executed(r, ls, n) ==
    IF Len(ls) # 1 THEN [r EXCEPT !.st = "broken", !.ls = ls]
    ELSE IF RunOnce(ls[1]) = "raise" THEN [r EXCEPT !.st = "raised", !.ls = ls]
    ELSE [r EXCEPT !.ls = ls, !.tuned = TRUE, !.calls = @ + 1, !.applied = @ + n + 1,
                   !.out = RunOnce(ls[1])]

run(p) ==
    /\ At(p, "ready") /\ cfg.backend = "mlir" /\ proc[p].calls < MaxCalls
    /\ IF proc[p].tuned
       THEN disk' = disk /\ S(p, Executed(proc[p], proc[p].ls, 0))
       ELSE LET ls == register_fx_fallback(proc[p].ls)
            IN \E time \in [DOMAIN ls -> 1 .. 2] :
                   LET best == autotune_to_one_config(ls, disk, time)
                   IN /\ disk' = best.disk
                      /\ S(p, Executed(proc[p], best.ls,
                                       IF BenchArgs = "caller" /\ cfg.inplace THEN Len(ls) ELSE 0))
    /\ UNCHANGED <<cfg, build, crashes>>

(***************************************************************************)
(* NPUCachingAutotuner.                                                    *)
(***************************************************************************)
\* _load_cached_autotuning: the configuration an earlier run saved, if any.
_load_cached_autotuning(d) == d.best

\* _precompile_config: whether a configuration compiles.
_precompile_config(c) == build[c] # "nocompile"

\* cached_autotune: the configurations, or the saved one alone.
cached_autotune(p) ==
    /\ At(p, "new") /\ cfg.backend = "triton"
    /\ S(p, [proc[p] EXCEPT !.st = "tcompile",
                            !.todo = IF _load_cached_autotuning(disk) # <<>>
                                     THEN _load_cached_autotuning(disk) ELSE get_autotune_config])
    /\ UNCHANGED <<cfg, build, disk, crashes>>

\* _precompile_worker: a configuration that does not compile is left out, unless
\* none does.
_precompile_worker(p) ==
    /\ At(p, "tcompile")
    /\ LET results == SelectSeq(proc[p].todo, _precompile_config)
       IN S(p, IF results = <<>> THEN [proc[p] EXCEPT !.st = "raised"]
               ELSE [proc[p] EXCEPT !.st = "tload", !.todo = results])
    /\ UNCHANGED <<cfg, build, disk, crashes>>

\* _make_launchers: likewise for a binary that does not load.
_make_launchers(p) ==
    /\ At(p, "tload")
    /\ LET ls == SelectSeq(proc[p].todo, Loads)
       IN S(p, IF ls = <<>> THEN [proc[p] EXCEPT !.st = "raised"] ELSE Ready(proc[p], ls))
    /\ UNCHANGED <<cfg, build, disk, crashes>>

\* NPUCachingAutotuner.autotune_to_one_config: the fastest, saved for later runs.
TuneTriton(ls, d, time) ==
    LET best == ls[Fastest({<<time[i], i>> : i \in DOMAIN ls})[2]]
    IN [ls |-> <<best>>, disk |-> PutBest(d, best)]

\* check_accuracy runs the graph on copies and then the kernel, and overwrites the
\* outputs that differ; fallback_to_fx runs the graph only and copies its outputs.
check_accuracy(l) == IF Launch(l) = "wrong" THEN "exact" ELSE Launch(l)
fallback_to_fx == "exact"

\* maybe_run_debug, then the launcher: without a dumped graph there is no debug run.
RunTriton(l) ==
    CASE cfg.debug = "check" /\ cfg.graph -> check_accuracy(l)
      [] cfg.debug = "force" /\ cfg.graph -> fallback_to_fx
      [] OTHER -> Launch(l)

\* A launch that raises ends the timing of several launchers, or the run of one.
RaisesNow(p) ==
    IF Len(proc[p].ls) > 1 THEN \E c \in ToSet(proc[p].ls) : Launch(c) = "raise"
    ELSE RunTriton(proc[p].ls[1]) = "raise"

TritonRaises(p) ==
    /\ At(p, "ready") /\ cfg.backend = "triton" /\ proc[p].calls < MaxCalls
    /\ RaisesNow(p)
    /\ S(p, [proc[p] EXCEPT !.st = "raised"])
    /\ UNCHANGED <<cfg, build, disk, crashes>>

TritonRun(p) ==
    /\ At(p, "ready") /\ cfg.backend = "triton" /\ proc[p].calls < MaxCalls
    /\ ~RaisesNow(p)
    /\ \E time \in [DOMAIN proc[p].ls -> 1 .. 2] :
           LET tuned == IF Len(proc[p].ls) > 1 THEN TuneTriton(proc[p].ls, disk, time)
                        ELSE [ls |-> proc[p].ls, disk |-> disk]
               n == IF BenchArgs = "caller" /\ cfg.inplace THEN Len(proc[p].ls) ELSE 0
           IN /\ disk' = tuned.disk
              /\ S(p, [proc[p] EXCEPT !.ls = tuned.ls, !.calls = @ + 1, !.tuned = TRUE,
                                      !.applied = @ + n + 1, !.out = RunTriton(tuned.ls[1])])
    /\ UNCHANGED <<cfg, build, crashes>>

\* A process dies, with its workers, and is started again.
Crash(p) ==
    /\ crashes < MaxCrashes /\ proc[p].st \notin {"new", "raised"}
    /\ crashes' = crashes + 1
    /\ S(p, Fresh)
    /\ UNCHANGED <<cfg, build, disk>>

Next ==
    \E p \in Procs :
        \/ import_fx(p) \/ mlir_auto_fallback(p) \/ precompile(p) \/ Loaded(p)
        \/ _worker_compile(p) \/ WorkerStep(p) \/ PoolStep(p)
        \/ WorkerResult(p) \/ PoolResult(p) \/ run(p)
        \/ cached_autotune(p) \/ _precompile_worker(p) \/ _make_launchers(p) \/ TritonRun(p)
        \/ TritonRaises(p)
        \/ Crash(p)

Spec == Init /\ [][Next]_vars

(***************************************************************************)
(* Properties.                                                             *)
(***************************************************************************)
\* A miscompiled kernel cannot reach the caller: there is none, or its results
\* are checked when it is tuned or when it runs, or it is not run.
Checked ==
    \/ \A c \in Configs : build[c] # "wrong"
    \/ cfg.backend = "mlir" /\ (cfg.acc \/ cfg.online)
    \/ cfg.backend = "triton" /\ cfg.graph /\ cfg.debug \in {"check", "force"}

\* Every run of a kernel computes what the graph computes, and updates a buffer it
\* mutates exactly once, whichever process compiled, chose or cached the kernel:
\* the timing launches of autotuning work on copies, launchers that fail or differ
\* are never chosen, and (launcher,) = self.launchers always finds one.
RunsExact ==
    \A p \in Procs :
        /\ proc[p].st # "broken"
        /\ Checked /\ proc[p].calls > 0 => proc[p].out = "exact"
        /\ cfg.inplace => proc[p].applied = proc[p].calls

\* The cache never names a kernel that is not there, whoever wrote it and whenever
\* a writer died: get_best_kernel of a later process finds a file or recompiles.
CacheSound ==
    /\ \A c \in disk.kernels : bisheng_compile(c)
    /\ cfg.backend = "mlir" /\ disk.best # <<>> => disk.best[1] \in disk.kernels \cup {Fx}

\* Compiling fails over to the traced graph: no mlir kernel raises, whatever the
\* toolchain does ("automatically falling back to the fx_graph_backend when
\* compilation fails", ascend_npu_ir/config.py).  Two kinds are let off, which the code
\* makes raise: a kernel without outputs, and one compiled in the process that runs it
\* without autotune, where precompile's error is not suppressed.
LetOff == ~cfg.outputs \/ (cfg.threads = "none" /\ ~cfg.autotune)
FallsBack == cfg.backend = "mlir" /\ ~LetOff => \A p \in Procs : proc[p].st # "raised"

\* The three together, for the run that composes this module with others.
KernelsSound == RunsExact /\ CacheSound /\ FallsBack
=============================================================================
