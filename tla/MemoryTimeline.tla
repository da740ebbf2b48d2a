--------------------------- MODULE MemoryTimeline ---------------------------
(***************************************************************************)
(* The memory timeline of the profiler, prof_view/                         *)
(* _memory_timeline_parser.py over the events of prof_parse/               *)
(* _event_tree_parser.py.  A program leaves a trace of operators, of       *)
(* allocations and of calls that show parameters; from it the parser       *)
(* reconstructs which tensor is which, a dataflow graph with versions, a   *)
(* category for every version, and the memory in use over time.            *)
(*                                                                         *)
(* The program extends the trace by one event at a time until the parser   *)
(* runs, which can be after any of them.                                   *)
(***************************************************************************)
EXTENDS Integers, Sequences, FiniteSets, SequencesExt, FiniteSetsExt

CONSTANTS Ptrs,      \* addresses of storages
          Size,      \* their sizes
          Existing,  \* addresses in use before the first event
          MaxEvents  \* bound on the trace

VARIABLES trace,
          live,      \* addresses in use
          flow,      \* DataFlowGraph: the nodes, by the event that each stands for
          category   \* MemoryProfile._categories

vars == <<trace, live, flow, category>>

-----------------------------------------------------------------------------
(***************************************************************************)
(* The program.  An operator names its inputs with what the schemas it may *)
(* have say of them (no schema says "unknown"), the storages it allocates  *)
(* and keeps, those it allocates and frees, and the inputs it frees.       *)
(***************************************************************************)
NoInputs == [p \in {} |-> {}]
Event == [kind |-> "op", ins |-> NoInputs, out |-> {}, tmp |-> {}, drop |-> {},
          bwd |-> FALSE, params |-> {}, grads |-> {}, states |-> {}]

NotParsed == << >>

Init == trace = << >> /\ live = Existing /\ flow = NotParsed /\ category = NotParsed

Extend(e) ==
    /\ flow = NotParsed
    /\ Len(trace) < MaxEvents
    /\ trace' = Append(trace, e)
    /\ live' = (live \ e.drop) \union e.out
    /\ UNCHANGED <<flow, category>>

Marks(bwd) == IF bwd THEN {{"unknown"}, {"unknown", "read"}} ELSE {{"read"}, {"write"}}

AtMost(n, S) == {T \in SUBSET S : Cardinality(T) <= n}

Op ==
    \E bwd \in BOOLEAN, used \in AtMost(2, live), out \in AtMost(1, Ptrs \ live) :
    \E ins \in [used -> Marks(bwd)], tmp \in AtMost(1, Ptrs \ (live \union out)),
       drop \in AtMost(1, used) :
        /\ used /= {} \/ out /= {}
        /\ Cardinality(out) + Cardinality(tmp) + Cardinality(drop) <= 1
        /\ Extend([Event EXCEPT !.ins = ins, !.out = out, !.tmp = tmp, !.drop = drop,
                                !.bwd = bwd])

\* Storage that is allocated or freed between operators.
Alloc == \E p \in Ptrs \ live : Extend([Event EXCEPT !.kind = "memory", !.out = {p}])
Free == \E p \in live : Extend([Event EXCEPT !.kind = "memory", !.drop = {p}])

\* AccumulateGrad with the detach of a gradient in it.
Accumulate ==
    \E p \in live : Extend([Event EXCEPT !.ins = [q \in {p} |-> {"unknown", "read"}],
                                         !.grads = {p}, !.bwd = TRUE])

\* A call of a module shows its parameters, a call of an optimizer its state.
Module == \E p \in live : Extend([Event EXCEPT !.kind = "call", !.params = {p}])
Optimizer ==
    \E p, q \in live : Extend([Event EXCEPT !.kind = "call", !.params = {p}, !.states = {q}])

-----------------------------------------------------------------------------
(***************************************************************************)
(* calculate_unique_id.  A storage is an address and the number of times   *)
(* that it was freed before; it is a tensor's if an operator or a call     *)
(* ever names it.                                                          *)
(***************************************************************************)
Freed(p, i) == Cardinality({j \in 1..(i - 1) : p \in trace[j].drop \union trace[j].tmp})

Key(p, i) == <<p, Freed(p, i)>>

\* The tensors that event i names.
Names(i) == {Key(p, i) : p \in DOMAIN trace[i].ins \union trace[i].params
                               \union trace[i].grads \union trace[i].states}

Tensors == UNION {Names(i) : i \in DOMAIN trace}

-----------------------------------------------------------------------------
(***************************************************************************)
(* The dataflow graph: DataFlowNode and DataFlowGraph.                     *)
(***************************************************************************)
\* An input that a schema writes to is mutated, and so is one of no known schema.
Mutates(marks) == "write" \in marks \/ marks = {"unknown"}

\* The edges of event i: its inputs, then what it deletes, then what it allocates.
Edges(i, tensors) ==
    LET ins == trace[i].ins
        deleted == {Key(p, i) : p \in trace[i].drop \union trace[i].tmp} \intersect tensors
    IN [inputs |-> {Key(p, i) : p \in DOMAIN ins},
        mutated |-> {Key(p, i) : p \in {q \in DOMAIN ins : Mutates(ins[q])}} \ deleted,
        deleted |-> deleted,
        allocated |-> {Key(p, i) : p \in trace[i].out \union trace[i].tmp} \intersect tensors]

Increments(e) == e.mutated \ e.allocated

\* A node: the versions that it uses, those that it makes and its intermediates.
DataFlowNode(i, edges) ==
    LET e == edges[i]
        version(k) == Cardinality({j \in DOMAIN edges : j < i /\ k \in Increments(edges[j])})
    IN [bwd |-> trace[i].bwd,
        inputs |-> {<<k, version(k)>> : k \in (e.inputs \union e.deleted) \ e.allocated},
        outputs |-> {<<k, 0>> : k \in e.allocated \ e.deleted}
                      \union {<<k, version(k) + 1>> : k \in Increments(e)},
        intermediates |-> e.allocated \intersect e.deleted,
        incremented |-> {<<k, version(k)>> : k \in Increments(e)},
        allocated |-> e.allocated,
        deleted |-> e.deleted]

DataFlowGraph ==
    /\ flow = NotParsed /\ trace /= << >>
    /\ LET tensors == Tensors
           edges == [i \in {j \in DOMAIN trace : trace[j].kind /= "call"} |-> Edges(i, tensors)]
       IN flow' = [i \in DOMAIN edges |-> DataFlowNode(i, edges)]
    /\ UNCHANGED <<trace, live, category>>

Nodes == DOMAIN flow
Inputs(i) == flow[i].inputs
Outputs(i) == flow[i].outputs

-----------------------------------------------------------------------------
(***************************************************************************)
(* Categories.  A category by identity wins over one by tensor, and that   *)
(* over one by version; a later one by identity replaces an earlier one,   *)
(* and an earlier one by version stays.                                    *)
(***************************************************************************)
Forward == SetToSortSeq(Nodes, <)
Backward == Reverse(Forward)

Grads == UNION {{Key(p, i) : p \in trace[i].grads} : i \in DOMAIN trace}
TracedParams == UNION {{Key(p, i) : p \in trace[i].params} : i \in DOMAIN trace}
OptStates == UNION {{Key(p, i) : p \in trace[i].states} : i \in DOMAIN trace}
Temporaries == UNION {flow[i].intermediates : i \in Nodes}

\* _any_version_depends_on_gradient: tensors that meet a tensor of relevant in some
\* operator, or one that does.
DependsOnGradient(relevant) ==
    LET visit(d, i) ==
            LET hit == {t[1] : t \in {u \in Inputs(i) : u[1] \in relevant \union d}}
            IN IF hit = {} THEN d ELSE d \union hit \union {t[1] : t \in Outputs(i)}
    IN FoldLeft(LAMBDA d, n : FoldLeft(visit, d, Forward), {}, [n \in 1..(Cardinality(Nodes) + 1) |-> n])

\* _set_inputs, given the tensors that are gradients or parameters.
InputVersions(relevant) ==
    LET visit(g, i) ==
            LET all == Inputs(i) \union Outputs(i)
            IN IF \E t \in all : t[1] \in relevant \/ t \in g THEN g \union all ELSE g
        made == UNION {Outputs(i) : i \in {j \in Nodes : flow[j].bwd}}
    IN {t \in FoldLeft(visit, {}, Backward) \ made : t[1] \notin DependsOnGradient(relevant)}

\* _set_parameters_using_data_flow: tensors that meet an input on the forward pass and
\* are used for a gradient that they depend on.
FlowParams(inputs, grads, relevant) ==
    LET fwd(a, i) ==
            IF /\ ~flow[i].bwd
               /\ \A t \in Inputs(i) \union Outputs(i) : t[1] \notin grads
               /\ a.fwd \intersect Inputs(i) /= {}
            THEN LET f == a.fwd \union Outputs(i)
                 IN [fwd |-> f, params |-> a.params \union (Inputs(i) \ f)]
            ELSE a
        used(u, i) == IF \E t \in Outputs(i) : t[1] \in grads \/ t \in u
                      THEN u \union Inputs(i) ELSE u
        candidates == FoldLeft(fwd, [fwd |-> inputs, params |-> {}], Forward).params
                      \intersect FoldLeft(used, {}, Backward)
    IN {t[1] : t \in candidates} \intersect DependsOnGradient(relevant)

\* CategoryDict.get: the category of a version.
Get(byId, byVersion, t) ==
    IF t[1] \in DOMAIN byId THEN byId[t[1]]
    ELSE IF t[1] \in Temporaries THEN "temporary"
    ELSE IF t \in DOMAIN byVersion THEN byVersion[t]
    ELSE "unknown"

\* _set_activations: the outputs of forward operators all of whose inputs are known
\* and some of them inputs or activations.
WithActivations(byId, byVersion) ==
    LET visit(b, i) ==
            LET seen == {Get(byId, b, t) : t \in Inputs(i)}
                new == Outputs(i) \ DOMAIN b
            IN IF /\ seen \intersect {"input", "activation"} /= {}
                  /\ seen \subseteq {"input", "activation", "parameter", "temporary"}
                  /\ ~flow[i].bwd
               THEN [t \in DOMAIN b \union new |-> IF t \in new THEN "activation" ELSE b[t]]
               ELSE b
    IN FoldLeft(visit, byVersion, Forward)

WithAutograd(byId, byVersion) ==
    LET visit(b, i) ==
            LET new == {t \in Outputs(i) \ DOMAIN b :
                          t[2] = 0 \/ Get(byId, b, <<t[1], t[2] - 1>>) \in {"unknown", "autograd"}}
            IN IF ~flow[i].bwd THEN b
               ELSE [t \in DOMAIN b \union new |-> IF t \in new THEN "autograd" ELSE b[t]]
    IN FoldLeft(visit, byVersion, Forward)

\* MemoryProfile: what is known by identity and by version in the end.
OrOptimizer(byId) ==
    [k \in DOMAIN byId \union OptStates |-> IF k \in OptStates THEN "optimizer" ELSE byId[k]]
Categories(byId, byVersion) == [byId |-> byId, byVersion |-> WithAutograd(byId, byVersion)]
ProfileOf(byId, inputs) ==
    Categories(OrOptimizer(byId), WithActivations(byId, [t \in inputs |-> "input"]))
ById(grads, params) ==
    [k \in grads \union params |-> IF k \in params THEN "parameter" ELSE "gradient"]
ProfileFrom(grads, relevant, inputs) ==
    ProfileOf(ById(grads, TracedParams \union FlowParams(inputs, grads, relevant)), inputs)
MemoryProfile ==
    /\ flow /= NotParsed /\ category = NotParsed
    /\ LET relevant == Grads \union TracedParams
       IN category' = ProfileFrom(Grads \ TracedParams, relevant, InputVersions(relevant))
    /\ UNCHANGED <<trace, live, flow>>

Next == Op \/ Alloc \/ Free \/ Accumulate \/ Module \/ Optimizer \/ DataFlowGraph \/ MemoryProfile

Spec == Init /\ [][Next]_vars

-----------------------------------------------------------------------------
(***************************************************************************)
(* The timeline.  Event i begins at time 3 * i, its allocations are made   *)
(* at 3 * i + 1 and its frees at 3 * i + 2.                                *)
(***************************************************************************)
Versions == UNION {Inputs(i) \union Outputs(i) : i \in Nodes}
LastVersion(k) == Max({t[2] : t \in {u \in Versions : u[1] = k}} \union {0})

Change(ts, k, v, delta) == [ts |-> ts, version |-> <<k, v>>, delta |-> delta * Size[k[1]]]

\* Tensors that no allocation was recorded for were there before.
Preexisting(tensors) ==
    {Change(-1, k, 0, 1) : k \in tensors \ UNION {flow[i].allocated : i \in Nodes}}

Created(i) == {Change(3 * i + 1, k, 0, 1) : k \in flow[i].allocated}

Incremented(i) ==
    UNION {{Change(3 * i, t[1], t[2], -1), Change(3 * i, t[1], t[2] + 1, 1)} :
             t \in flow[i].incremented}

Destroyed(i) == {Change(3 * i + 2, k, LastVersion(k), -1) : k \in flow[i].deleted}

\* Storages that are nobody's tensor are told apart by address alone.
Unknown(i, tensors) ==
    LET new == {Key(p, i) : p \in trace[i].out \union trace[i].tmp} \ tensors
        old == {Key(p, i) : p \in trace[i].drop \union trace[i].tmp} \ tensors
        seen == UNION {{Key(p, j) : p \in trace[j].out \union trace[j].tmp} : j \in 1..i}
    IN {Change(3 * i + 1, k, 0, 1) : k \in new} \union {Change(3 * i + 2, k, 0, -1) : k \in old}
       \union {Change(-1, k, 0, 1) : k \in old \ seen}

Timeline(tensors) ==
    Preexisting(tensors)
      \union UNION {Created(i) \union Incremented(i) \union Destroyed(i)
                      \union Unknown(i, tensors) : i \in Nodes}

SumOf(changes) == FoldSet(LAMBDA c, n : n + c.delta, 0, changes)

-----------------------------------------------------------------------------
Of(t) == Get(category.byId, category.byVersion, t)

\* The addresses in use after event i, and those of them that the profile tells of.
LiveAfter(i) == FoldLeft(LAMBDA s, e : (s \ e.drop) \union e.out, Existing, SubSeq(trace, 1, i))
Told(i, tensors) ==
    {p \in LiveAfter(i) :
       \/ Key(p, i + 1) \in tensors
       \/ \E j \in Nodes : Key(p, i + 1) \in {Key(q, j) : q \in trace[j].out \union trace[j].drop}}

\* After every event the timeline's sizes add up to the storage in use at that time, and
\* no category ever has less than nothing: the versions that changes take memory from
\* are those that earlier changes gave it to.
TimelineExact ==
    category /= NotParsed =>
        LET tensors == Tensors
            all == Timeline(tensors)
        IN \A i \in Nodes :
              LET past == {c \in all : c.ts <= 3 * i + 2}
              IN /\ SumOf(past) = FoldSet(LAMBDA p, n : n + Size[p], 0, Told(i, tensors))
                 /\ \A c \in past : SumOf({d \in past : Of(d.version) = Of(c.version)}) >= 0

\* What the parser calls an input or an activation was not made by the backward pass,
\* and an input is no result of anything that used a gradient or a parameter; an
\* activation is the result of a forward operator on an input or an activation.
CategoriesSound ==
    category /= NotParsed =>
        \A i \in Nodes : \A t \in Outputs(i) :
          /\ Of(t) = "input" => \A u \in Inputs(i) : Of(u) \notin {"gradient", "parameter"}
          /\ Of(t) \in {"input", "activation"} => ~flow[i].bwd
          /\ Of(t) = "activation" =>
                \E u \in Inputs(i) : Of(u) \in {"input", "activation", "optimizer"}
=============================================================================
