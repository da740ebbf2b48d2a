---------------------------- MODULE GraphUpdate ----------------------------
(***************************************************************************)
(* Capturing, updating and replaying a device graph                        *)
(* (torch_npu/npu/graphs.py and npu/_npugraph_handlers).  While a graph is *)
(* captured with auto_dispatch_capture, an operator that has a handler is  *)
(* captured behind an external event and recorded; NPUGraph.update runs    *)
(* the recorded operators again on the update stream with new host         *)
(* arguments, and records the event each captured operator waits for.      *)
(* The two streams run concurrently on the device.                         *)
(***************************************************************************)
EXTENDS Integers, SequencesExt, FiniteSetsExt

CONSTANTS
    Values,         \* values of a host argument (sequence lengths)
    MaxOps,         \* bound: operators captured
    MaxSteps,       \* bound: replays, and updates
    SyncEachStep,   \* the program synchronises before it begins the next step
    CaptureFails    \* capture_begin may raise

VARIABLES
    scope,          \* [stream, mode, capturing, auto]: the graph context and the graph's flag
    nodes,          \* the captured nodes: <<"wait"|"reset"|"task", i>> or <<"op", 0>>
    records,        \* graph_dispatch_records: [op, kwargs, args]
    want,           \* ghost: the arguments the program has asked of each record
    tasks,          \* device: the arguments the captured task i runs with
    event,          \* device: the events recorded and not reset
    mainQ, updQ,    \* device: what the two streams still have to run
    ran,            \* <<wanted, used>> of each task run
    steps           \* [replays, updates]: host calls made so far

vars == <<scope, nodes, records, want, tasks, event, mainQ, updQ, ran, steps>>

(***************************************************************************)
(* The operators.  "q" is an argument that is only passed by keyword, "kv" *)
(* one that a call may also pass by position; an operator of the "plain"   *)
(* kind has no handler.                                                    *)
(***************************************************************************)
Keys == {"q", "kv"}

\* A call: the kind, the arguments passed by keyword and those by position.
CallsOf(kind, v) ==
    CASE kind = "keyword" -> [op |-> "ifa.default", kwargs |-> [k \in Keys |-> v], args |-> <<>>]
      [] kind = "position" -> [op |-> "ifa.out", kwargs |-> [k \in {"q"} |-> v], args |-> <<v>>]
      [] kind = "partial" -> [op |-> "paged", kwargs |-> [k \in {} |-> v], args |-> <<v>>]
      [] OTHER -> [op |-> "plain", kwargs |-> [k \in {} |-> v], args |-> <<>>]

Kinds == {"keyword", "position", "partial", "plain"}

\* The registry of handlers.
Handled(c) == c.op # "plain"

\* prepare_capture: a .default overload is captured as its .out overload, for
\* which the same handler is registered.
prepare_capture(c) == IF c.op = "ifa.default" THEN [c EXCEPT !.op = "ifa.out"] ELSE c

\* What a call passes, by name.
Passed(c) ==
    [k \in DOMAIN c.kwargs \cup (IF c.args = <<>> THEN {} ELSE {"kv"}) |->
        IF k \in DOMAIN c.kwargs THEN c.kwargs[k] ELSE c.args[1]]

\* A handler's update_args: the positional argument, if the call has it.
update_args(r, input) ==
    IF "kv" \in DOMAIN input /\ r.args # <<>> THEN [r EXCEPT !.args[1] = input["kv"]] ELSE r

\* Step 7: a keyword argument of the record that the update names.
Updated(r, input) ==
    update_args([r EXCEPT !.kwargs =
        [k \in DOMAIN @ |-> IF k \in DOMAIN input THEN input[k] ELSE @[k]]], input)

-----------------------------------------------------------------------------
Init ==
    /\ scope = [stream |-> "main", mode |-> FALSE, capturing |-> FALSE, auto |-> FALSE]
    /\ nodes = <<>>
    /\ records = <<>>
    /\ want = <<>>
    /\ tasks = <<>>
    /\ event = {}
    /\ mainQ = <<>>
    /\ updQ = <<>>
    /\ ran = {}
    /\ steps = [replays |-> 0, updates |-> 0]

deviceVars == <<tasks, event, mainQ, updQ, ran>>

\* graph.__enter__: the side stream, the dispatch mode, capture_begin.  When that
\* raises (another capture is underway) __exit__ is never called.
GraphEnter(auto, begins) ==
    /\ ~begins => CaptureFails
    /\ ~scope.capturing
    /\ scope.stream = "main"
    /\ nodes = <<>>
    /\ scope' = [stream |-> "side", mode |-> auto, capturing |-> begins, auto |-> auto]
    /\ UNCHANGED <<nodes, records, want, deviceVars, steps>>

\* __torch_dispatch__: an operator with a handler is captured behind its event
\* and recorded; any other is captured as it is.
Dispatch(kind, v) ==
    LET c == CallsOf(kind, v)
        i == Len(records) + 1
    IN /\ scope.capturing
       /\ Len(nodes) - 2 * Len(records) < MaxOps
       /\ IF scope.mode /\ Handled(c)
          THEN /\ nodes' = nodes \o <<<<"wait", i>>, <<"reset", i>>, <<"task", i>>>>
               /\ records' = Append(records, prepare_capture(c))
               /\ want' = Append(want, Passed(c))
               /\ tasks' = Append(tasks, Passed(c))
          ELSE /\ nodes' = Append(nodes, <<"op", 0>>)
               /\ UNCHANGED <<records, want, tasks>>
       /\ UNCHANGED <<scope, event, mainQ, updQ, ran, steps>>

\* graph.__exit__.
GraphExit ==
    /\ scope.capturing
    /\ scope' = [scope EXCEPT !.stream = "main", !.mode = FALSE, !.capturing = FALSE]
    /\ UNCHANGED <<nodes, records, want, deviceVars, steps>>

Captured == ~scope.capturing /\ scope.stream = "main" /\ nodes # <<>>

Idle == mainQ = <<>> /\ updQ = <<>>

\* The host starts a step once both calls of the last one are made, and the
\* device has run them if the program synchronises.
NewStep ==
    /\ steps.replays = steps.updates
    /\ SyncEachStep => Idle

\* NPUGraph.replay.
replay ==
    /\ Captured
    /\ steps.replays < MaxSteps
    /\ \/ NewStep
       \/ steps.replays < steps.updates
    /\ mainQ' = mainQ \o nodes
    /\ steps' = [steps EXCEPT !.replays = @ + 1]
    /\ UNCHANGED <<scope, nodes, records, want, tasks, event, updQ, ran>>

\* A mutant: the event is recorded before the update ends.
UpdateWorkEarly(i, c) == <<<<"record", i, c>>, <<"update", i, c>>>>

\* What the update stream is given for record i: the task with its new
\* arguments, then the event.
UpdateWork(i, c) == <<<<"update", i, c>>, <<"record", i, c>>>>

\* update_capture_record: one input stands for every record; otherwise there
\* must be one each.
Broadcast(inputs) == IF Len(inputs) = 1 THEN [i \in DOMAIN records |-> inputs[1]] ELSE inputs

\* NPUGraph.update.
update(inputs) ==
    LET all == Broadcast(inputs)
        new == [i \in DOMAIN records |-> Updated(records[i], all[i])]
    IN /\ Captured
       /\ scope.auto
       /\ Len(all) = Len(records)
       /\ steps.updates < MaxSteps
       /\ \/ NewStep
          \/ steps.updates < steps.replays
       /\ records' = new
       /\ want' = [i \in DOMAIN want |->
                     [k \in DOMAIN want[i] |->
                        IF k \in DOMAIN all[i] THEN all[i][k] ELSE want[i][k]]]
       /\ updQ' = FoldLeft(LAMBDA q, i : q \o UpdateWork(i, Passed(new[i])), updQ,
                           [i \in DOMAIN records |-> i])
       /\ steps' = [steps EXCEPT !.updates = @ + 1]
       /\ UNCHANGED <<scope, nodes, tasks, event, mainQ, ran>>

-----------------------------------------------------------------------------
(* The device.                                                             *)

RunMain ==
    /\ mainQ # <<>>
    /\ LET n == Head(mainQ) IN
       /\ n[1] = "wait" => n[2] \in event
       /\ event' = IF n[1] = "reset" THEN event \ {n[2]} ELSE event
       /\ ran' = IF n[1] = "task" THEN ran \cup {<<want[n[2]], tasks[n[2]]>>} ELSE ran
    /\ mainQ' = Tail(mainQ)
    /\ UNCHANGED <<scope, nodes, records, want, tasks, updQ, steps>>

RunUpdate ==
    /\ updQ # <<>>
    /\ LET u == Head(updQ) IN
       /\ tasks' = IF u[1] = "update" THEN [tasks EXCEPT ![u[2]] = u[3]] ELSE tasks
       /\ event' = IF u[1] = "record" THEN event \cup {u[2]} ELSE event
    /\ updQ' = Tail(updQ)
    /\ UNCHANGED <<scope, nodes, records, want, mainQ, ran, steps>>

Inputs ==
    LET one == UNION {[ks -> Values] : ks \in SUBSET Keys} IN
    {<<x>> : x \in one} \cup {<<x, y>> : x \in one, y \in one}

Next ==
    \/ \E auto, begins \in BOOLEAN : GraphEnter(auto, begins)
    \/ \E kind \in Kinds, v \in Values : Dispatch(kind, v)
    \/ GraphExit
    \/ replay
    \/ \E inputs \in Inputs : update(inputs)
    \/ RunMain
    \/ RunUpdate

Spec == Init /\ [][Next]_vars

-----------------------------------------------------------------------------
\* A captured operator runs with the arguments of its step: those of the capture,
\* replaced by what the updates made so far name, whether they were passed by
\* keyword or by position (update_capture_record and the handlers' update_args).
\* A replay is never left waiting for an event once the update of its step has run.
\* Outside a capture the thread is on its own stream and no dispatch mode is active
\* (graph.__enter__, graph.__exit__).
UpdatesTakeEffect ==
    /\ ~scope.capturing => scope.stream = "main" /\ ~scope.mode
    /\ \A r \in ran : r[1] = r[2]
    /\ ~(/\ steps.replays = steps.updates
         /\ updQ = <<>>
         /\ mainQ # <<>>
         /\ Head(mainQ)[1] = "wait"
         /\ Head(mainQ)[2] \notin event)

=============================================================================
