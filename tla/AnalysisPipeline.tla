--------------------------- MODULE AnalysisPipeline ---------------------------
(***************************************************************************)
(* The parsers of the profiler's offline analysis as a task graph: which   *)
(* parsers an analysis runs, what each waits for, and what its run does as *)
(* the task manager sees it (the results it reads, whether it returns one, *)
(* the files it writes and polls for).                                     *)
(***************************************************************************)
EXTENDS SequencesExt

\* What a parser's run does. reads: the keys it takes from deps_data.
Run(reads, gives) == [reads |-> reads, gives |-> gives, waits |-> {}, makes |-> {}, raises |-> FALSE]

TorchOpParser == Run({}, TRUE)
TaskQueueParser == Run({}, TRUE)
TracePreParser == Run({"torch_op", "task_queue"}, FALSE)
TreeBuildParser == Run({"torch_op", "task_queue"}, TRUE)
DbPreParser == Run({"torch_op", "task_queue"}, TRUE)
RelationParser == Run({"task_queue"}, TRUE)
MemoryPrepareParser == Run({"build_tree", "torch_op", "task_queue"}, TRUE)
OperatorViewParser == Run({"build_tree", "relation", "torch_op"}, FALSE)
TraceViewParser == Run({"build_tree", "torch_op", "task_queue"}, FALSE)
KernelViewParser == Run({"build_tree", "relation"}, FALSE)
TraceStepTimeParser == Run({"build_tree", "relation", "torch_op"}, FALSE)
MemoryViewParser == Run({"memory_prepare"}, FALSE)
IntegrateParser == Run({}, FALSE)
CommunicationParser == Run({"build_tree", "relation"}, FALSE)
StackViewParser == Run({"build_tree", "torch_op", "task_queue"}, FALSE)
CANNAnalyzeParser == Run({}, FALSE)

\* msprof writes the summary files of the export before it returns.
CANNExportParser == [Run({}, FALSE) EXCEPT !.makes = {"summary"}]

\* The timeline parser polls until a file of the export exists; load_info and
\* listdir are outside any try.
CANNTimelineParser == [Run({}, FALSE) EXCEPT !.waits = {"summary"}, !.raises = TRUE]

\* DbParser runs its own parsers one after the other; they read the results of
\* three tasks and of each other. It returns an empty string.
DbParser == Run({"memory_prepare", "build_tree", "db_prepare"}, FALSE)

\* ParserConfig.PARSER_NAME_MAP, over the names of the tasks.
ParserNameMap ==
    [torch_op |-> TorchOpParser, task_queue |-> TaskQueueParser,
     trace_prepare |-> TracePreParser, build_tree |-> TreeBuildParser,
     export |-> CANNExportParser, timeline |-> CANNTimelineParser,
     analyze |-> CANNAnalyzeParser, operator |-> OperatorViewParser,
     trace |-> TraceViewParser, kernel |-> KernelViewParser,
     step_time |-> TraceStepTimeParser, memory |-> MemoryViewParser,
     integrate |-> IntegrateParser, communication |-> CommunicationParser,
     relation |-> RelationParser, export_stack |-> StackViewParser,
     memory_prepare |-> MemoryPrepareParser, db_prepare |-> DbPreParser,
     torch_db |-> DbParser]

-----------------------------------------------------------------------------
(* ParserConfig: the parsers of an analysis, by export type. *)
CommonConfig ==
    [text |-> [tensorboard |-> <<"torch_op", "task_queue", "trace_prepare", "build_tree",
                                 "export", "timeline", "relation", "memory_prepare", "analyze",
                                 "operator", "trace", "kernel", "step_time", "memory",
                                 "integrate", "communication">>,
               chrome |-> <<"torch_op", "task_queue", "trace_prepare", "build_tree", "export",
                            "timeline", "trace">>,
               stack |-> <<"torch_op", "task_queue", "build_tree", "export", "timeline",
                           "export_stack">>],
     db |-> [tensorboard |-> <<"torch_op", "task_queue", "db_prepare", "export", "timeline",
                               "analyze", "build_tree", "memory_prepare", "torch_db">>]]

OnlyFwkConfig ==
    [text |-> [tensorboard |-> <<"torch_op", "task_queue", "memory_prepare", "operator",
                                 "trace", "memory">>,
               chrome |-> <<"torch_op", "task_queue", "trace">>,
               stack |-> <<"torch_op", "task_queue", "export_stack">>],
     db |-> [tensorboard |-> <<"torch_op", "task_queue", "db_prepare", "build_tree",
                               "memory_prepare", "torch_db">>]]

(* ParserDepsConfig: mode and prerequisites, with and without CANN data. *)
Task(mode, deps) == [mode |-> mode, deps |-> deps]
P == {"PTHREAD"}
S == {"SUB_PROCESS"}

CommonDeps ==
    [torch_op |-> Task(P, {}), task_queue |-> Task(P, {}),
     trace_prepare |-> Task(S, {"torch_op", "task_queue"}),
     build_tree |-> Task(P, {"torch_op", "task_queue"}),
     export |-> Task(S, {}), timeline |-> Task({"NON_BLOCKING"} \cup P, {}),
     relation |-> Task(P, {"task_queue", "timeline"}), analyze |-> Task(S, {"timeline"}),
     operator |-> Task(S, {"build_tree", "timeline", "relation", "torch_op"}),
     trace |-> Task(S, {"build_tree", "trace_prepare", "timeline", "task_queue", "torch_op"}),
     kernel |-> Task(S, {"build_tree", "export", "relation"}),
     step_time |-> Task(S, {"build_tree", "timeline", "relation", "torch_op"}),
     memory |-> Task(S, {"export", "memory_prepare"}), integrate |-> Task(S, {"export"}),
     communication |-> Task(S, {"build_tree", "analyze", "relation"}),
     export_stack |-> Task(S, {"build_tree", "timeline", "task_queue", "torch_op"}),
     memory_prepare |-> Task(P, {"build_tree", "task_queue", "torch_op"}),
     db_prepare |-> Task(P, {"torch_op", "task_queue"}),
     torch_db |-> Task(P, {"export", "memory_prepare", "build_tree", "analyze", "db_prepare"})]

OnlyFwkDeps ==
    [torch_op |-> Task(P, {}), task_queue |-> Task(P, {}),
     build_tree |-> Task(P, {"torch_op", "task_queue"}),
     operator |-> Task(S, {"torch_op"}), trace |-> Task(S, {"task_queue", "torch_op"}),
     memory |-> Task(S, {"memory_prepare"}),
     export_stack |-> Task(S, {"torch_op", "task_queue"}), export |-> Task(S, {}),
     db_prepare |-> Task(P, {"torch_op", "task_queue"}),
     memory_prepare |-> Task(P, {"task_queue", "torch_op"}),
     torch_db |-> Task(P, {"db_prepare", "memory_prepare", "build_tree"})]

-----------------------------------------------------------------------------
(* run_parser: the parsers of every export type, each once, in the order   *)
(* they are met; then the task graph that is handed to the manager.        *)
Merge(s, t) == s \o SelectSeq(t, LAMBDA x : ~Contains(s, x))

ParserList(config, types, analysis) ==
    FoldLeft(LAMBDA s, type : IF analysis \in DOMAIN config[type]
                              THEN Merge(s, config[type][analysis]) ELSE s, <<>>, types)

GraphOf(config, depsConfig, types, analysis) ==
    LET order == ParserList(config, types, analysis)
        T == ToSet(order)
    IN  [order |-> order,
         deps |-> [t \in T |-> depsConfig[t].deps],
         mode |-> [t \in T |-> depsConfig[t].mode],
         gives |-> [t \in T |-> ParserNameMap[t].gives],
         waits |-> [t \in T |-> ParserNameMap[t].waits],
         makes |-> [t \in T |-> ParserNameMap[t].makes],
         raises |-> {t \in T : ParserNameMap[t].raises},
         reads |-> [t \in T |-> ParserNameMap[t].reads]]

=============================================================================
