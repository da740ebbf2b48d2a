---------------------------- MODULE TracedGraph ----------------------------
(***************************************************************************)
(* The FX graphs the Ascend NPU IR back end carries beside Inductor's IR   *)
(* (inductor_patch/lowering.py, inductor_patch/ir.py, codegen/mlir.py).    *)
(* Inductor decides from the IR which buffers a kernel reads, when it runs *)
(* and when a buffer is freed or removed; the kernel itself is compiled    *)
(* from the traced graph.  The two must therefore read the same buffers.   *)
(*                                                                         *)
(* A graph maps a node's name to <<operation, arguments>>; operation 0 is  *)
(* a placeholder and its argument is the buffer it stands for (an FX       *)
(* placeholder keeps its target when the node is renamed).  A loop's       *)
(* loader is fixed when the loop is built, a view's follows its storage:   *)
(* `reads` is the IR's, `graph` the traced one.                            *)
(***************************************************************************)
EXTENDS Integers, Sequences, FiniteSets, TLC

CONSTANTS Inputs,      \* graph inputs; the epilogue may copy into them
          MaxOps,      \* bound on the operations lowered
          MaxTensors,  \* bound on the tensors
          StaleViews,  \* a storage is realised although a view of it has a graph
          FusedCopies  \* a copy whose graph is a placeholder is fused with its source

VARIABLES
    phase,     \* "lower", "copy" (the epilogue's copies), "out", "run"
    boxes,     \* storage boxes: [val, graph, reads, buf]; buf <<>> is unrealised
    tensors,   \* [box, of, graph, val]: a view has a graph and may be of a view
    sig,       \* sig[n]: the values operation n is applied to
    users,     \* name_to_users: the tensors that read a buffer when lowered
    kernels,   \* [buf, graph, reads, val, mut], in the order realised
    outs,      \* tensors the graph returns
    mem,       \* what each buffer holds while the kernels run
    ran,       \* number of kernels run
    stored     \* what each kernel run computed

vars == <<phase, boxes, tensors, sig, users, kernels, outs, mem, ran, stored>>

Op(n) == <<"op", n>>
In(x) == <<"in", x>>
Buf(k) == <<"buf", k>>
Gone == <<"gone">>
Wrong == <<"wrong">>
None == <<>>

InputNames == {In(x) : x \in Inputs}

(***************************************************************************)
(* Building graphs.                                                        *)
(***************************************************************************)
PlaceholderGraph(name) == [nodes |-> name :> <<0, <<name>>>>, last |-> name]

\* fetch_graphs: the graph of the view or of the unrealised loop, or a
\* placeholder for the buffer.
fetch_graphs(bs, t) ==
    IF t.graph # None THEN t.graph[1]
    ELSE IF bs[t.box].buf = None THEN bs[t.box].graph
    ELSE PlaceholderGraph(bs[t.box].buf)

\* merge_traced_graphs: nodes met again by name are shared.
merge_traced_graphs(gs, n) ==
    LET all == IF Len(gs) = 1 THEN gs[1].nodes ELSE gs[1].nodes @@ gs[2].nodes
    IN [nodes |-> Op(n) :> <<n, [i \in DOMAIN gs |-> gs[i].last]>> @@ all, last |-> Op(n)]

merge_fx_graphs(gs) ==
    [nodes |-> IF Len(gs) = 1 THEN gs[1].nodes ELSE gs[1].nodes @@ gs[2].nodes,
     lasts |-> [i \in DOMAIN gs |-> gs[i].last]]

\* subtract_graph: g1 with what computes g2 replaced by a placeholder for its
\* buffer.  A node that loses an argument raises KeyError: <<"wrong">>.
subtract_graph(g1, g2, name) ==
    LET fresh == name \notin DOMAIN g1.nodes
        kept == DOMAIN g1.nodes \ DOMAIN g2.nodes
        Arg(a) == IF a \in kept THEN a
                  ELSE IF fresh /\ a = g2.last THEN name ELSE Wrong
        Copy(m) == IF g1.nodes[m][1] = 0 THEN g1.nodes[m]
                   ELSE <<g1.nodes[m][1], [i \in DOMAIN g1.nodes[m][2] |-> Arg(g1.nodes[m][2][i])]>>
        copied == [m \in kept |-> Copy(m)]
    IN [nodes |-> IF fresh THEN (name :> <<0, <<name>>>>) @@ copied ELSE copied,
        last |-> Arg(g1.last)]

(***************************************************************************)
(* Realising.  The operators take and return the lowering's state          *)
(* s = [boxes, tensors, kernels].                                          *)
(***************************************************************************)
State == [boxes |-> boxes, tensors |-> tensors, kernels |-> kernels]

\* StorageBox.realize: the loop becomes a ComputedBuffer.
RealizeBox(s, b) ==
    IF s.boxes[b].buf # None THEN s
    ELSE LET k == Len(s.kernels) + 1
             box == s.boxes[b]
         IN [s EXCEPT !.boxes[b].buf = Buf(k),
                      !.kernels = Append(@, [buf |-> Buf(k), graph |-> box.graph,
                                             reads |-> box.reads, val |-> box.val, mut |-> None])]

\* What BaseView.realize, realize_hint and mark_reuse do to the view's graph
\* once the data is a buffer other than an input.
Subtracted(s, t) ==
    LET v == s.tensors[t]
        box == s.boxes[v.box]
    IN IF v.graph = None \/ box.buf = None \/ box.buf \in InputNames THEN s
       ELSE [s EXCEPT !.tensors[t].graph = <<subtract_graph(v.graph[1], box.graph, box.buf)>>]

\* BaseView.realize realises its data first, an inner view included.
RECURSIVE Realize(_, _)
Realize(s, t) ==
    IF s.tensors[t].of = 0 THEN Subtracted(RealizeBox(s, s.tensors[t].box), t)
    ELSE Subtracted(Realize(s, s.tensors[t].of), t)

RECURSIVE RealizeAll(_, _)
RealizeAll(s, ts) ==
    IF ts = <<>> THEN s ELSE RealizeAll(Realize(s, Head(ts)), Tail(ts))

Becomes(s) == boxes' = s.boxes /\ tensors' = s.tensors /\ kernels' = s.kernels

\* The buffers the IR of a tensor reads now.
Reads(bs, t) == IF bs[t.box].buf = None THEN bs[t.box].reads ELSE {bs[t.box].buf}

\* register_users_of, for the tensor lowered last.
RegisterUsers(s, t) ==
    [name \in InputNames |->
        IF name \in Reads(s.boxes, s.tensors[t]) THEN Append(users[name], t) ELSE users[name]]

(***************************************************************************)
(* Lowering.                                                               *)
(***************************************************************************)
Lowers(s) ==
    /\ Len(s.tensors) <= MaxTensors
    /\ Becomes(s)
    /\ users' = RegisterUsers(s, Len(s.tensors))
    /\ UNCHANGED <<phase, outs, mem, ran, stored>>

WithLoop(s, val, graph, reads) ==
    [s EXCEPT !.boxes = Append(@, [val |-> val, graph |-> graph, reads |-> reads, buf |-> None]),
              !.tensors = Append(@, [box |-> Len(s.boxes) + 1, of |-> 0, graph |-> None, val |-> val])]

\* make_pointwise: one loop over the arguments' loaders.
Pointwise(args) ==
    /\ phase = "lower" /\ Len(sig) < MaxOps
    /\ LET n == Len(sig) + 1
           gs == [i \in DOMAIN args |-> fetch_graphs(boxes, tensors[args[i]])]
       IN /\ Lowers(WithLoop(State, Op(n), merge_traced_graphs(gs, n),
                             UNION {Reads(boxes, tensors[args[i]]) : i \in DOMAIN args}))
          /\ sig' = Append(sig, [i \in DOMAIN args |-> tensors[args[i]].val])

\* view, permute, expand, slice: a view with a graph of its own.
View(t) ==
    /\ phase = "lower" /\ Len(sig) < MaxOps
    /\ LET n == Len(sig) + 1
           g == merge_traced_graphs(<<fetch_graphs(boxes, tensors[t])>>, n)
           of == IF tensors[t].graph = None THEN 0 ELSE t
       IN /\ Lowers([State EXCEPT !.tensors = Append(@, [box |-> tensors[t].box, of |-> of,
                                                         graph |-> <<g>>, val |-> Op(n)])])
          /\ sig' = Append(sig, <<tensors[t].val>>)

\* ExternKernel.copy_input: a loop that shares the tensor's graph, realised.
\* A buffer without a graph gets a placeholder's.
CopyInput(t) ==
    /\ phase = "lower"
    /\ LET s == WithLoop(State, tensors[t].val, fetch_graphs(boxes, tensors[t]),
                         Reads(boxes, tensors[t]))
       IN Lowers(Realize(s, Len(s.tensors)))
    /\ UNCHANGED sig

\* ConcatKernel.realize_into: a clone, realised into its part of the result.
RealizeInto(t) ==
    /\ phase = "lower" /\ Len(sig) < MaxOps
    /\ LET n == Len(sig) + 1
           g == merge_traced_graphs(<<fetch_graphs(boxes, tensors[t])>>, n)
           s == WithLoop(State, Op(n), g, Reads(boxes, tensors[t]))
       IN Lowers(Realize(s, Len(s.tensors)))
    /\ sig' = Append(sig, <<tensors[t].val>>)

HasGraphView(b) == \E t \in DOMAIN tensors : tensors[t].box = b /\ tensors[t].graph # None

\* A use of the storage itself realises it: an extern kernel's input, a hint
\* of an operator that reads it often.
RealizeStorage(t) ==
    /\ phase = "lower" /\ tensors[t].graph = None
    /\ boxes[tensors[t].box].buf = None
    /\ StaleViews \/ ~HasGraphView(tensors[t].box)
    /\ Becomes(Realize(State, t))
    /\ UNCHANGED <<phase, sig, users, outs, mem, ran, stored>>

\* realize, or realize_hint and mark_reuse when they decide to realise.
RealizeView(t) ==
    /\ phase = "lower" /\ tensors[t].graph # None
    /\ Realize(State, t) # State
    /\ StaleViews \/ \A v \in DOMAIN tensors :
                        tensors[v].box = tensors[t].box /\ tensors[v].graph # None => v = t
    /\ Becomes(Realize(State, t))
    /\ UNCHANGED <<phase, sig, users, outs, mem, ran, stored>>

\* MutationLayout.realize_into: the users of the input are realised first
\* (mark_buffer_mutated), then the source as realize_hint decides, then the copy.
CopyInto(x, t, hint) ==
    /\ phase \in {"lower", "copy"} /\ Len(sig) < MaxOps
    /\ tensors[t].box > Cardinality(Inputs)
    /\ \A k \in DOMAIN kernels : kernels[k].mut # <<In(x)>>
    /\ LET n == Len(sig) + 1
           used == RealizeAll(State, users[In(x)])
           s == IF hint THEN Realize(used, t) ELSE used
           dst == PlaceholderGraph(In(x))
           g == merge_traced_graphs(<<dst, fetch_graphs(s.boxes, s.tensors[t])>>, n)
       IN /\ Becomes([s EXCEPT !.kernels =
                 Append(@, [buf |-> Buf(Len(@) + 1), graph |-> g, val |-> Op(n), mut |-> <<In(x)>>,
                            reads |-> {In(x)} \cup Reads(s.boxes, s.tensors[t])])])
          /\ sig' = Append(sig, <<In(x), tensors[t].val>>)
    /\ phase' = "copy"
    /\ UNCHANGED <<users, outs, mem, ran, stored>>

\* GraphLowering.output: what is returned is realised.
Output(ts) ==
    /\ phase \in {"lower", "copy"}
    /\ \A i \in DOMAIN ts : tensors[ts[i]].box > Cardinality(Inputs)
    /\ Becomes(RealizeAll(State, ts))
    /\ outs' = {tensors[ts[i]].box : i \in DOMAIN ts}
    /\ phase' = "run"
    /\ UNCHANGED <<sig, users, mem, ran, stored>>

(***************************************************************************)
(* Running the kernels.                                                    *)
(***************************************************************************)
\* What node m of a graph computes.
RECURSIVE Eval(_, _)
Eval(nodes, m) ==
    IF m \notin DOMAIN nodes THEN Wrong
    ELSE IF nodes[m][1] = 0
    THEN LET name == nodes[m][2][1] IN IF name \in DOMAIN mem THEN mem[name] ELSE Gone
    ELSE LET args == nodes[m][2]
         IN IF [i \in DOMAIN args |-> Eval(nodes, args[i])] = sig[nodes[m][1]]
            THEN Op(nodes[m][1]) ELSE Wrong

\* The last node takes the name of the kernel's buffer.
Renamed(k) ==
    LET g == kernels[k].graph
        New(m) == IF m = g.last THEN kernels[k].buf ELSE m
    IN [nodes |-> [m \in {New(m) : m \in DOMAIN g.nodes} |->
                     g.nodes[IF m = kernels[k].buf THEN g.last ELSE m]],
        last |-> kernels[k].buf]

Returned == {boxes[b].buf : b \in outs}

\* A buffer no later kernel reads, by the IR, and that is not returned.
Dead(name, last) ==
    /\ name \notin Returned \cup InputNames
    /\ \A k \in (last + 1)..Len(kernels) : name \notin kernels[k].reads

\* create_fx_from_snodes_by_traced_graph and the call of the kernel: `group`
\* are the fused nodes.  A buffer used only inside the group is removed.
RunKernel(group) ==
    /\ phase = "run"
    /\ LET last == group[Len(group)]
           fx == merge_fx_graphs([i \in DOMAIN group |-> Renamed(group[i])])
           outputs == {i \in DOMAIN group : ~Dead(kernels[group[i]].buf, last)
                                            \/ kernels[group[i]].mut # None}
           result == [i \in DOMAIN group |-> Eval(fx.nodes, fx.lasts[i])]
           Target(i) == LET k == kernels[group[i]] IN IF k.mut = None THEN k.buf ELSE k.mut[1]
           written == [name \in {Target(i) : i \in outputs} |->
                          result[CHOOSE i \in outputs : Target(i) = name]]
           after == written @@ mem
       IN /\ mem' = [name \in {b \in DOMAIN after : ~Dead(b, last)} |-> after[name]]
          /\ stored' = stored \o result
          /\ ran' = last
    /\ UNCHANGED <<phase, boxes, tensors, sig, users, kernels, outs>>

RunOne == ran < Len(kernels) /\ RunKernel(<<ran + 1>>)

RunFused ==
    /\ ran + 1 < Len(kernels)
    /\ kernels[ran + 1].mut = None /\ kernels[ran + 2].mut = None
    /\ FusedCopies \/ kernels[ran + 2].graph.last # kernels[ran + 1].buf
    /\ RunKernel(<<ran + 1, ran + 2>>)

(***************************************************************************)
(* The specification.                                                      *)
(***************************************************************************)
Init ==
    LET ins == CHOOSE s \in [1..Cardinality(Inputs) -> Inputs] : {s[i] : i \in DOMAIN s} = Inputs
    IN /\ phase = "lower"
       /\ boxes = [i \in DOMAIN ins |-> [val |-> In(ins[i]), graph |-> None, reads |-> {},
                                         buf |-> In(ins[i])]]
       /\ tensors = [i \in DOMAIN ins |-> [box |-> i, of |-> 0, graph |-> None, val |-> In(ins[i])]]
       /\ sig = <<>> /\ kernels = <<>>
       /\ users = [name \in InputNames |-> <<>>]
       /\ outs = {} /\ ran = 0 /\ stored = <<>>
       /\ mem = [name \in InputNames |-> name]

Next ==
    \/ \E t \in DOMAIN tensors :
          \/ View(t) \/ CopyInput(t) \/ RealizeInto(t)
          \/ RealizeStorage(t) \/ RealizeView(t)
          \/ Pointwise(<<t>>)
          \/ \E u \in DOMAIN tensors : t < u /\ Pointwise(<<t, u>>)
          \/ \E x \in Inputs, hint \in BOOLEAN : CopyInto(x, t, hint)
          \/ Output(<<t>>)
          \/ \E u \in DOMAIN tensors : t < u /\ Output(<<t, u>>)
    \/ RunOne \/ RunFused

Spec == Init /\ [][Next]_vars

(***************************************************************************)
(* Properties.                                                             *)
(***************************************************************************)

\* Every kernel computes what its loop means: the traced graph it is compiled
\* from reads only buffers that are alive and unchanged when the kernel runs
\* in the order, and with the buffer lifetimes, that Inductor derives from the
\* IR, and merging, fusing and subtracting graphs by node names never joins
\* two different values.
KernelsExact == \A k \in DOMAIN stored : stored[k] = kernels[k].val
=============================================================================
