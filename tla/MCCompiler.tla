---------------------------- MODULE MCCompiler -----------------------------
(***************************************************************************)
(* The compiler back end and sharded operators for TLC.  A behaviour of    *)
(* this module is a behaviour of one of the components in Parts, which     *)
(* share the variables of the module.                                      *)
(***************************************************************************)
EXTENDS Integers, FiniteSetsExt, SequencesExt, TLC

CONSTANTS
    Parts      \* the components of a run

(* The operators of three components that pick out cases of theirs *)
PoolOps == INSTANCE Pooling WITH
    AvgCases <- {}, MaxCases <- {}, AdaptiveCases <- {}, FractionalCases <- {},
    case <- 0, got <- 0, want <- 0
TileOps == INSTANCE Tiling WITH
    Kernels <- {}, DtypeBytes <- {}, NumVectorCore <- 1, StopBytes <- 1, TileBytes <- 1, AlignBytes <- 1,
    Wide <- 1, WideLow <- 1, kernel <- 0, stage <- 0, dims <- 0, plan <- 0, configs <- 0, cfg <- 0
ShdOps == INSTANCE Sharding WITH
    World <- 3, Calls <- {}, Usual <- 3, Lengths <- {4}, call <- 0, rule <- 0, placed <- 0

-----------------------------------------------------------------------------
(* Element-wise lowerings and reductions *)
LoweredShapes == {<<>>, <<2, 1, 2>>}
TracedShapes == {<<2, 1>>, <<0>>}
ReducedInputs == {
    <<<<<<2, 1>>, "half">>, <<<<2>>, "bool">>>>,
    <<<<<<1, 1>>, "float">>>>,
    <<<<<<0, 2>>, "float">>>>,
    <<<<<<3>>, "int64">>>>,
    <<<<<<5>>, "float">>, <<<<>>, "float">>>> }

-----------------------------------------------------------------------------
(* Pooling *)
Shape(n) ==
    {[size |-> s, kernel |-> k, stride |-> t, padding |-> p, ceil |-> ceil] :
        s \in [1..n -> IF n = 2 THEN 1..4 ELSE {2, 3}], k \in [1..n -> 1..3],
        t \in [1..n -> 1..2], p \in [1..n -> 0..1], ceil \in BOOLEAN}

\* The first dimension sweeps, the others take part of the values, and padding
\* is at most half the kernel, as eager PyTorch requires.
Legal(s, n) ==
    /\ \A d \in 1..n : 2 * s.padding[d] <= s.kernel[d]
    /\ \A d \in 1..n : s.kernel[d] <= s.size[d] + 2 * s.padding[d]
    /\ \A d \in 2..n : s.size[d] \in {2, 3} /\ s.stride[d] = 2 /\ s.kernel[d] \in {2, 3}

Planes == {s \in Shape(2) : Legal(s, 2)}
Volumes ==
    {s \in {[size |-> <<a, 2, 3>>, kernel |-> <<k, 1, 2>>, stride |-> <<t, 1, 2>>,
             padding |-> <<p, 0, p>>, ceil |-> ceil] :
               a \in 2..3, k \in 1..3, t \in 1..2, p \in 0..1, ceil \in BOOLEAN} :
        2 * s.padding[1] <= s.kernel[1] /\ s.kernel[1] <= s.size[1] + 2 * s.padding[1]}

Averages ==
    {[op |-> op, include_pad |-> inc, divisor |-> div] @@ s :
        op \in {"avg", "avg_backward"}, inc \in BOOLEAN, div \in {<<>>, <<3>>},
        s \in Planes \cup Volumes}

MCAdaptiveCases ==
    {[op |-> "adaptive", in |-> i, out |-> o] : i \in 1..9, o \in 1..9}
    \cup {[op |-> "upsample_backward", in |-> i, out |-> o] : i \in 1..9, o \in 1..9}
    \cup {[op |-> "adaptive_max", in |-> i, out |-> o, val |-> v] :
             i \in {5}, o \in {2, 3, 4}, v \in [0..4 -> 1..3]}

MCFractionalCases ==
    {c \in [op : {"fractional"}, in : 2..7, out : 2..5, kernel : 1..3, parts : {4}, sample : 0..3] :
        c.out + c.kernel - 1 <= c.in}

\* Average pools in ceil mode whose last window overhangs the padded input and
\* which count the padding: the gradient divides by the whole kernel there, the
\* forward pass does not.
Overhangs(c) ==
    /\ c.op = "avg_backward" /\ c.include_pad /\ c.divisor = <<>>
    /\ \E d \in DOMAIN c.size :
          (PoolOps!OutSize(c)[d] - 1) * c.stride[d] + c.kernel[d] > c.size[d] + 2 * c.padding[d]

MCAvgCases == {c \in Averages : ~Overhangs(c)}

MCMaxCases ==
    UNION {{[op |-> op, val |-> v] @@ s : op \in {"max", "max_backward"},
               v \in [PoolOps!Box(s.size) -> 1..2]} :
           s \in {p \in Planes : p.size[1] * p.size[2] <= 6 /\ p.padding[2] = 0
                                 /\ \E d \in 1..2 : p.kernel[d] > 1}}


-----------------------------------------------------------------------------
(* Fused kernels: an index is a sequence of terms *)
T1(c, v) == <<c, v, 1, 0>>

Contiguous2(a, b) == <<T1(b, 1), T1(1, 2)>>
Transposed2(a, b) == <<T1(1, 1), T1(a, 2)>>
Reads2(a, b) == {Contiguous2(a, b), Transposed2(a, b), <<T1(1, 2)>>, <<T1(1, 1)>>, <<T1(2 * b, 1), T1(2, 2)>>}

Node(pw, loads, store) == [kind |-> "point", pw |-> pw, red |-> <<>>, loads |-> loads, store |-> store]

Pointwise2 ==
  {[roots |-> <<a, b>>, red |-> 1, persistent |-> FALSE,
    nodes |-> <<Node(<<a, b>>, <<<<0, x>>, <<0, y>>>>, Contiguous2(a, b))>>] :
     a \in {2, 5}, b \in {3, 9}, x \in Reads2(5, 9), y \in Reads2(5, 9)}

\* Two reads of three ranges in any order of the strides.
Strides3 == {<<12, 4, 1>>, <<1, 2, 6>>, <<3, 1, 6>>, <<4, 8, 1>>, <<1, 8, 2>>, <<12, 1, 3>>}
Index3(s) == <<T1(s[1], 1), T1(s[2], 2), T1(s[3], 3)>>

Permuted3 ==
  {[roots |-> <<2, 3, 4>>, red |-> 1, persistent |-> FALSE,
    nodes |-> <<Node(<<2, 3, 4>>, <<<<0, Index3(s)>>, <<0, Index3(t)>>>>, Index3(<<12, 4, 1>>))>>] :
     s \in Strides3, t \in Strides3}

\* A transposed read of a flattened range, alone and fused with a reader of
\* the result on the two ranges.
Flattened1 ==
  {[roots |-> <<a * b>>, red |-> 1, persistent |-> FALSE,
    nodes |-> <<Node(<<a * b>>, <<<<0, <<<<1, 1, b, 0>>, <<a, 1, 1, b>>>>>>>>, <<T1(1, 1)>>)>> \o more] :
     a \in {2, 3}, b \in {2, 4},
     more \in {<<>>, <<Node(<<6>>, <<<<1, <<T1(1, 1)>>>>, <<0, <<T1(1, 1)>>>>>>, <<T1(1, 1)>>)>>}}

Flattened2 ==
  {[roots |-> <<c, a * b>>, red |-> 1, persistent |-> FALSE,
    nodes |-> <<Node(<<c, a * b>>, <<<<0, <<T1(a * b, 1), <<1, 2, b, 0>>, <<a, 2, 1, b>>>>>>>>,
                     Contiguous2(c, a * b))>>] : a \in {2, 3}, b \in {2, 3}, c \in {2, 5}}

\* Fused nodes of different ranges.
Merged ==
  {[roots |-> <<a, b>>, red |-> 1, persistent |-> FALSE,
    nodes |-> <<Node(<<a, b>>, <<<<0, Transposed2(a, b)>>>>, Contiguous2(a, b)),
                Node(<<a * b>>, <<<<1, <<T1(1, 1)>>>>, <<0, <<T1(1, 1)>>>>>>, <<T1(1, 1)>>)>>] :
     a \in {2, 3}, b \in {2, 5}}
  \cup
  {[roots |-> <<a * b>>, red |-> 1, persistent |-> FALSE,
    nodes |-> <<Node(<<a * b>>, <<<<0, <<T1(1, 1)>>>>>>, <<T1(1, 1)>>),
                Node(<<a, b>>, <<<<1, Contiguous2(a, b)>>, <<0, Transposed2(a, b)>>>>, Contiguous2(a, b))>>] :
     a \in {2, 3}, b \in {2, 5}}

\* Reductions of the inner or the outer range, with and without an epilogue.
Reduction(pw, red, loads, store) == [kind |-> "reduce", pw |-> pw, red |-> red, loads |-> loads, store |-> store]

Reductions ==
  {[roots |-> <<a>>, red |-> b, persistent |-> p,
    nodes |-> <<Reduction(<<a>>, <<b>>, <<<<0, x>>>>, <<T1(1, 1)>>)>> \o more] :
     a \in {3, 6}, b \in {2, 7}, p \in BOOLEAN, x \in {Contiguous2(6, 7), Transposed2(6, 7)},
     more \in {<<>>, <<Node(<<3>>, <<<<1, <<T1(1, 1)>>>>, <<0, <<T1(1, 1)>>>>>>, <<T1(1, 1)>>)>>}}

\* A pointwise node the reduction reads and one that reads it back.
Normalised ==
  {[roots |-> <<a>>, red |-> b, persistent |-> p,
    nodes |-> <<Node(<<a, b>>, <<<<0, x>>>>, Contiguous2(a, b)),
                Reduction(<<a>>, <<b>>, <<<<1, Contiguous2(a, b)>>>>, <<T1(1, 1)>>),
                Node(<<a, b>>, <<<<1, Contiguous2(a, b)>>, <<2, <<T1(1, 1)>>>>>>, Contiguous2(a, b))>>] :
     a \in {3, 5}, b \in {2, 6}, p \in BOOLEAN, x \in {Contiguous2(5, 6), Transposed2(5, 6), <<T1(1, 2)>>}}

DualReductions ==
  {[roots |-> <<a>>, red |-> 6, persistent |-> FALSE,
    nodes |-> <<Reduction(<<a>>, <<2, 3>>, <<<<0, <<T1(3, 1), T1(3 * a, 2), T1(1, 3)>>>>>>, <<T1(1, 1)>>)>>] :
     a \in {2, 5}}

FullReductions ==
  {[roots |-> <<>>, red |-> b, persistent |-> p,
    nodes |-> <<Reduction(<<>>, <<b>>, <<<<0, <<T1(1, 1)>>>>>>, <<>>)>>] : b \in {5, 12}, p \in BOOLEAN}

SameRanges(k) ==
  \A n \in DOMAIN k.nodes : TileOps!Reducing(k.nodes[n]) \/ TileOps!ProductOf(k.nodes[n].pw) \in {TileOps!ProductOf(k.roots), TileOps!ProductOf(TileOps!Groups(k))}

MCKernels == {k \in Pointwise2 \cup Permuted3 \cup Flattened1 \cup Flattened2 \cup Merged \cup Reductions \cup Normalised
                    \cup DualReductions \cup FullReductions : SameRanges(k)}
-----------------------------------------------------------------------------
(* Compilation settings *)
Base == [backend : {"mlir"}, threads : {"none", "worker", "pool", "fx"}, autotune : BOOLEAN,
         acc : BOOLEAN, online : BOOLEAN, fxtune : BOOLEAN, skip : {{}, {1}},
         inplace : BOOLEAN, alias : BOOLEAN, strided : BOOLEAN, dynamic : BOOLEAN,
         always : BOOLEAN, outputs : BOOLEAN, debug : {"none"}, graph : {FALSE}]
KernelSettings ==
    {c \in Base : /\ c.threads = "pool" => c.autotune
                  /\ ~c.autotune => ~c.inplace /\ ~c.alias
                  /\ c.always \/ ~c.outputs => /\ ~(c.always /\ ~c.outputs) /\ c.threads # "fx"
                                              /\ ~c.acc /\ ~c.online /\ ~c.fxtune /\ c.skip = {}
                                              /\ ~c.alias /\ ~c.strided /\ ~c.dynamic
                  /\ ~(c.acc /\ c.online)
                  /\ c.acc \/ c.online => c.skip = {} /\ ~c.fxtune
                  /\ c.inplace \/ c.alias => c.skip = {}
                  /\ c.inplace /\ c.alias => c.threads = "none"
                  /\ c.threads = "fx" => ~c.acc /\ ~c.fxtune /\ c.skip = {} /\ c.autotune
                  /\ c.dynamic \/ c.strided => c.threads = "none" /\ ~c.fxtune /\ c.skip = {}} \cup
    [backend : {"triton"}, threads : {"none"}, autotune : {TRUE},
         acc : {FALSE}, online : {FALSE}, fxtune : {FALSE}, skip : {{}},
         inplace : BOOLEAN, alias : BOOLEAN, strided : {FALSE}, dynamic : {FALSE},
         always : {FALSE}, outputs : {TRUE}, debug : {"none", "check", "force"}, graph : BOOLEAN]

-----------------------------------------------------------------------------
(* The operators with a sharding strategy, by their indices *)
Term(from, sum) == [from |-> from, sum |-> sum]
Out(ax, terms, mix) == [ax |-> ax, terms |-> terms, mix |-> mix, mean |-> FALSE]
Mean(terms, mix) == [ax |-> <<>>, terms |-> terms, mix |-> mix, mean |-> TRUE]
Unmade == [a \in {} |-> <<"none">>]
Call(op, ins, outs, vary, opt) ==
    [op |-> op, ins |-> ins, outs |-> outs, made |-> Unmade, coll |-> Unmade, opt |-> opt, vary |-> vary, placements |-> {},
     moved |-> IF Len(ins) > 3 THEN 1 ELSE 2]
Opt0 == [none |-> TRUE]

mm(t1, t2, out, vary) == Call("matmul", <<t1, t2>>, <<Out(out, {Term({1, 2}, {"k"})}, {})>>, vary, Opt0)
Matmuls == {
    mm(<<"k">>, <<"k">>, <<>>, {"k"}),
    mm(<<"k">>, <<"b", "k", "n">>, <<"b", "n">>, {"b", "k", "n"}),
    mm(<<"b", "m", "k">>, <<"k">>, <<"b", "m">>, {"b", "k", "m"}),
    mm(<<"m", "k">>, <<"k", "n">>, <<"m", "n">>, {"m", "k", "n"}),
    mm(<<"b", "m", "k">>, <<"b", "k", "n">>, <<"b", "m", "n">>, {"b", "k", "n"}),
    mm(<<"a", "b", "m", "k">>, <<"b", "k", "n">>, <<"a", "b", "m", "n">>, {"a", "b", "m"}),
    mm(<<"m", "k">>, <<"b", "k", "n">>, <<"b", "m", "n">>, {"b", "m"})}

mmb(g, t1, t2, s1, s2, vary) ==
    Call("matmul_backward", <<g, t1, t2>>, <<Out(t1, {Term({1, 3}, s1)}, {}), Out(t2, {Term({1, 2}, s2)}, {})>>, vary, Opt0)
MatmulBackwards == {
    mmb(<<>>, <<"k">>, <<"k">>, {}, {}, {"k"}),
    mmb(<<"b", "n">>, <<"k">>, <<"b", "k", "n">>, {"b", "n"}, {}, {"b", "k", "n"}),
    mmb(<<"b", "m", "n">>, <<"b", "m", "k">>, <<"k", "n">>, {"n"}, {"b", "m"}, {"b", "k", "n"}),
    mmb(<<"b", "m", "n">>, <<"m", "k">>, <<"b", "k", "n">>, {"b", "n"}, {"m"}, {"m", "k", "n"}),
    mmb(<<"b", "m">>, <<"b", "m", "k">>, <<"k">>, {}, {"b", "m"}, {"b", "k"}),
    mmb(<<"m", "n">>, <<"m", "k">>, <<"k", "n">>, {"n"}, {"m"}, {"m", "k", "n"}),
    mmb(<<"b", "m", "n">>, <<"b", "m", "k">>, <<"b", "k", "n">>, {"n"}, {"m"}, {"b", "k", "n"})}

gmm(kind, w, b, bias, mix) ==
    Call("grouped_matmul", <<<<"m", "k">>, w>> \o (IF bias THEN <<b>> ELSE <<>>),
         <<Out(<<"m", "n">>, {Term({1, 2}, {"k"})} \cup (IF bias THEN {Term({3}, {})} ELSE {}), mix)>>, {"m", "n", "k"},
         [kind |-> kind, bias |-> bias, quant |-> FALSE, ydim |-> 2])
Grouped == {
    gmm("xNwNyN", <<"k", "n">>, <<"n">>, b, {}) : b \in BOOLEAN} \cup {
    gmm("x1wNy1", <<"k", "n">>, <<"n">>, b, {"m"}) : b \in BOOLEAN} \cup {
    gmm("x1w1y1", <<"e", "k", "n">>, <<"e", "n">>, FALSE, {"m", "e"})}

Fused == {
    [Call("all_gather_base_mm", <<<<"m", "k">>, <<"k", "n">>>> \o (IF b THEN <<<<"n">>>> ELSE <<>>),
          <<Out(<<"m", "n">>, {Term({1, 2}, {"k"})} \cup (IF b THEN {Term({3}, {})} ELSE {}), {}),
            Out(<<"m", "k">>, {Term({1}, {})}, {})>>, {"n", "k"}, Opt0) EXCEPT !.coll = ("m" :> "gather")] : b \in BOOLEAN}
    \cup {[Call("mm_reduce_scatter_base", <<<<"m", "k">>, <<"k", "n">>>>, <<Out(<<"m", "n">>, {Term({1, 2}, {"k"})}, {})>>,
                {"n", "k"}, Opt0) EXCEPT !.coll = ("m" :> "scatter") @@ ("k" :> "reduce")]}

Each1(op, ins, outs, vary) == Call(op, ins, outs, vary, Opt0)
hid == <<"a", "b", "h">>
Norms == {
    Each1("rms_norm", <<hid, <<"h">>>>,
          <<Out(hid, {Term({1, 2}, {})}, {"h"}), Out(<<"a", "b", "1">>, {Term({1}, {})}, {"h"})>>, {"a", "b", "h"}),
    Each1("add_rms_norm", <<hid, hid, <<"h">>>>,
          <<Out(hid, {Term({1, 2, 3}, {})}, {"h"}), Out(<<"a", "b", "1">>, {Term({1, 2}, {})}, {"h"}),
            Out(hid, {Term({1}, {}), Term({2}, {})}, {})>>, {"a", "h"})}
rot == <<"1", "n", "s", "d">>
q4 == <<"b", "n", "s", "d">>
Rotary == {
    Each1("rotary_mul", <<q4, rot, rot>>, <<Out(q4, {Term({1, 2, 3}, {})}, {"d"})>>, {"b", "s", "n"}),
    Each1("rotary_mul_backward", <<q4, q4, rot, rot>>,
          <<Out(q4, {Term({1, 3, 4}, {})}, {"d"}), Out(rot, {Term({1, 2}, {"b"})}, {"d"}), Out(rot, {Term({1, 2}, {"b"})}, {"d"})>>,
          {"b", "n"})}
Elements == {
    Call("gather_backward", <<<<"a", "g", "c">>, <<"a", "g", "c">>>>,
         <<Out(<<"a", "v", "c">>, {Term({1, 2}, {"g"})}, {})>>, {"a", "g"}, [dim |-> 1, shape |-> <<"a", "g", "c">>]),
    Call("swiglu", <<hid>>, <<Out(<<"a", "b", "y">>, {Term({1}, {})}, {"h"})>>, {"a"}, [dim |-> 2]),
    Call("swiglu_backward", <<<<"a", "b", "y">>, hid>>, <<Out(hid, {Term({1, 2}, {})}, {"h", "y"})>>, {"a"}, [dim |-> 2]),
    Call("dropout", <<hid>>, <<Out(hid, {Term({1}, {})}, {})>>, {"a", "b"}, Opt0)}

Convs == {
    Call("conv2d", <<<<"n", "i", "h">>, <<"o", "i", "w">>>> \o (IF b THEN <<<<"o">>>> ELSE <<>>),
         <<Out(<<"n", "o", "y">>, {Term({1, 2}, {"i"})} \cup (IF b THEN {Term({3}, {})} ELSE {}),
               {"h", "w"} \cup IF g = 1 THEN {} ELSE {"o", "i"})>>, {"n", "o"}, [groups |-> g]) : b \in BOOLEAN, g \in {1, 2}}
    \cup {
    Call("conv2d_backward", <<<<"n", "i", "h">>, <<"n", "o", "y">>, <<"o", "i", "w">>>>,
         <<Out(<<"n", "i", "h">>, {Term({2, 3}, {"o"})}, {"y", "w"}),
           Out(<<"o", "i", "w">>, {Term({1, 2}, {"n"})}, {"h", "y"}), Out(<<"o">>, {Term({2}, {"n"})}, {"y"})>>,
         {"n", "o"}, [groups |-> 1])}

Losses == {
    Call("cross_entropy_loss", <<<<"n", "c">>, <<"n">>>> \o (IF w THEN <<<<"c">>>> ELSE <<>>),
         <<CASE red = "none" -> Out(<<"n">>, {Term(1 .. (IF w THEN 3 ELSE 2), {})}, {"c"})
             [] red = "sum" -> Out(<<>>, {Term(1 .. (IF w THEN 3 ELSE 2), {"n"})}, {"c"})
             [] red = "mean" -> Mean({Term(1 .. (IF w THEN 3 ELSE 2), {"n"})}, {"c"}),
           Out(<<"n", "c">>, {Term({1}, {})}, {"c"})>>,
         IF red = "mean" THEN {"c"} ELSE {"n", "c"}, [reduction |-> red]) : w \in BOOLEAN, red \in {"none", "sum", "mean"}}
    \cup {
    Call("cross_entropy_loss_backward",
         <<IF red = "none" THEN <<"n">> ELSE <<>>, <<"n", "c">>, <<"n">>>> \o (IF w THEN <<<<"c">>>> ELSE <<>>),
         <<Out(<<"n", "c">>, {Term(1 .. (IF w THEN 4 ELSE 3), {})}, {"c"} \cup IF red = "mean" THEN {"n"} ELSE {})>>,
         {"n", "c"}, [reduction |-> red]) : w \in BOOLEAN, red \in {"none", "sum", "mean"}}
    \cup {
    Call("kl_div", <<<<"a", "b">>, <<"a", "b">>>>,
         <<CASE red = "none" -> Out(<<"a", "b">>, {Term({1, 2}, {})}, {})
             [] red = "sum" -> Out(<<>>, {Term({1, 2}, {"a", "b"})}, {})
             [] red = "mean" -> Mean({Term({1, 2}, {"a", "b"})}, {})>>,
         {"a", "b"}, [reduction |-> red]) : red \in {"none", "sum", "mean"}}
    \cup {
    Call("kl_div_backward", <<IF red = "none" THEN <<"a", "b">> ELSE <<>>, <<"a", "b">>, <<"a", "b">>>>,
         <<Out(<<"a", "b">>, {Term({1, 2, 3}, {})}, IF red = "mean" THEN {"a", "b"} ELSE {})>>,
         {"a", "b"}, [reduction |-> red]) : red \in {"none", "sum", "mean"}}

\* The repeated dimension is also given as a negative number and, with a tensor
\* that is not a sum, of a length the mesh does not divide.
Repeats == {
    [Call("repeat_interleave", <<<<"a", "b">>>>, <<Out(<<"e", "b">>, {Term({1}, {})}, {})>>, {"b"}, [dim |-> 0])
        EXCEPT !.made = ("e" :> [of |-> <<"a">>, by |-> 2])],
    [Call("repeat_interleave", <<<<"a", "b">>>>, <<Out(<<"e">>, {Term({1}, {})}, {})>>, {"b"}, [dim |-> 2])
        EXCEPT !.made = ("e" :> [of |-> <<"a", "b">>, by |-> 2])],
    [Call("repeat_interleave", <<<<"a", "b">>>>, <<Out(<<"a", "e">>, {Term({1}, {})}, {})>>, {"a"}, [dim |-> -1])
        EXCEPT !.made = ("e" :> [of |-> <<"b">>, by |-> 2])],
    [Call("repeat_interleave", <<<<"a", "b">>>>, <<Out(<<"a", "e">>, {Term({1}, {})}, {})>>, {"a", "b"}, [dim |-> 1])
        EXCEPT !.made = ("e" :> [of |-> <<"b">>, by |-> 2]), !.placements = {<<ShdOps!Replicate>>, <<ShdOps!Shard(0)>>, <<ShdOps!Shard(1)>>}],
    [Call("repeat_interleave_backward", <<<<"e", "b">>, <<"a", "b">>>>, <<Out(<<"a", "b">>, {Term({1, 2}, {})}, {})>>,
          {"b"}, [dim |-> 0]) EXCEPT !.made = ("e" :> [of |-> <<"a">>, by |-> 2])],
    [Call("repeat_interleave_backward", <<<<"a", "e">>, <<"a", "b">>>>, <<Out(<<"a", "b">>, {Term({1, 2}, {})}, {})>>,
          {"a"}, [dim |-> -1]) EXCEPT !.made = ("e" :> [of |-> <<"b">>, by |-> 2])]}

Moes == {
    Each1("moe_token_permute", <<<<"t", "h">>, <<"t", "k">>>>,
          <<Out(<<"p", "h">>, {Term({1, 2}, {})}, {"t", "k"}), Out(<<"q">>, {Term({2}, {})}, {"t", "k"})>>, {"h", "t"}),
    Each1("moe_token_permute_grad", <<<<"t", "h">>, <<"p", "h">>, <<"t", "k">>, <<"q">>>>,
          <<Out(<<"t", "h">>, {Term({2, 3, 4}, {})}, {"t", "k", "p", "q"})>>, {"h"}),
    Each1("moe_token_unpermute", <<<<"p", "h">>, <<"q">>, <<"t", "k">>>>,
          <<Out(<<"t", "h">>, {Term({1, 2, 3}, {})}, {"t", "k", "p", "q"})>>, {"h"}),
    Each1("moe_token_unpermute_grad", <<<<"p", "h">>, <<"t", "h">>, <<"q">>, <<"t", "k">>>>,
          <<Out(<<"p", "h">>, {Term({2, 3, 4}, {})}, {"t", "k", "p", "q"}),
            Out(<<"t", "k">>, {Term({1, 2, 3}, {"h"})}, {"p", "q"})>>, {"h"}),
    Each1("grouped_matmul_add_", <<<<"rot", "n">>, <<"m", "k">>, <<"m", "n">>, <<"e">>>>,
          <<Out(<<"rot", "n">>, {Term({1}, {}), Term({2, 3, 4}, {})}, {"m", "k", "e"})>>, {"n"})}

\* Arguments that are not placed independently: the scale is replicated and
\* the saved statistics lie where the forward call left them; the states of an
\* optimizer lie where its parameters are.
Together == {
    [Each1("rms_norm_backward", <<hid, hid, <<"h">>, <<"a", "b", "1">>>>,
           <<Out(hid, {Term({1, 2, 3, 4}, {})}, {"h"}), Out(<<"h">>, {Term({1, 2, 4}, {"a", "b"})}, {})>>, {"a", "b", "h"})
        EXCEPT !.placements = {<<g, p, ShdOps!Replicate, ShdOps!ReplicateFrom(p, 2)>> : g, p \in ShdOps!Placements(hid)}],
    [Each1("apply_adam_w", <<<<"a", "b">>, <<"a", "b">>, <<"a", "b">>, <<"a", "b">>>>,
           [o \in 1..3 |-> Out(<<"a", "b">>, {Term({1, 2, 3, 4}, {})}, {})], {"a", "b"})
        EXCEPT !.placements = {<<g, p, p, p>> : g \in ShdOps!Placements(<<"a", "b">>), p \in ShdOps!Placements(<<"a", "b">>) \ {ShdOps!Partial}}]}

\* The axes of the query (key and value) in a layout: s is the query's length,
\* t the keys', n the heads, of which the keys may have fewer.
Layouts == {<<"B", "S", "H">>, <<"S", "B", "H">>, <<"B", "S", "N", "D">>, <<"B", "N", "S", "D">>, <<"T", "N", "D">>}
OfQuery(l) == [k \in 1..Len(l) |-> CASE l[k] = "B" -> "b" [] l[k] \in {"S", "T"} -> "s" [] l[k] = "N" -> "n" [] l[k] = "H" -> "h" [] l[k] = "D" -> "d"]
OfKey(l, n) == [k \in 1..Len(l) |-> IF l[k] \in {"S", "T"} THEN "t" ELSE IF l[k] = "N" THEN n ELSE OfQuery(l)[k]]
Masks == {<<"b", "n", "s", "t">>, <<"b", "1", "s", "t">>, <<"1", "1", "s", "t">>, <<"s", "t">>}
Stat(l) == IF "T" \in ToSet(l) THEN <<"s", "n", "8">> ELSE <<"b", "n", "s", "8">>
Mixed(l) == {"t"} \cup (ToSet(OfQuery(l)) \cap {"h", "d"}) \cup (IF "T" \in ToSet(l) THEN {"s"} ELSE {})
attention(op, l, m, n) ==
    [Call(op, <<OfQuery(l), OfKey(l, n), OfKey(l, n)>> \o m,
          <<Out(OfQuery(l), {Term(1 .. 3 + Len(m), {})}, Mixed(l)),
            Out(Stat(l), {Term({1, 2}, {})}, Mixed(l)), Out(Stat(l), {Term({1, 2}, {})}, Mixed(l))>>,
          IF n = "n" THEN ToSet(OfQuery(l)) \cap {"b", "n"} ELSE {}, [layout |-> l, mask |-> m # <<>>, plain |-> TRUE])
        EXCEPT !.made = IF n = "n" THEN Unmade ELSE ("n" :> [of |-> <<n>>, by |-> 2])]
attention_grad(op, l, m, n) ==
    LET all == Term(1 .. 7 + Len(m), {})
    IN  [Call(op, <<OfQuery(l), OfKey(l, n), OfKey(l, n), OfQuery(l), Stat(l), Stat(l), OfQuery(l)>> \o m,
          <<Out(OfQuery(l), {all}, Mixed(l)), Out(OfKey(l, n), {all}, Mixed(l) \cup {"s"}), Out(OfKey(l, n), {all}, Mixed(l) \cup {"s"})>>,
          {}, [layout |-> l, mask |-> m # <<>>, plain |-> TRUE])
        EXCEPT !.made = IF n = "n" THEN Unmade ELSE ("n" :> [of |-> <<n>>, by |-> 2])]
MaskFor(l) == {<<>>} \cup (IF "T" \in ToSet(l) THEN {<<<<"s", "t">>>>} ELSE {<<m>> : m \in Masks})
Heads(l) == IF "N" \in ToSet(l) THEN {"n", "g"} ELSE {"n"}
\* The second version of an operator has the strategy of the first.
Versions(op, l) == [v : {op}, m : MaskFor(l)] \cup [v : {op \o "_v3"}, m : {<<>>}]
Attentions ==
    UNION {{attention(c.v, l, c.m, n) : c \in Versions("fusion_attention", l), n \in Heads(l)} : l \in Layouts}
AttentionGrads(layouts) ==
    UNION {{attention_grad(c.v, l, c.m, n) : c \in Versions("fusion_attention_grad", l), n \in Heads(l)} : l \in layouts}
\* The masks the gradient's handler splits as its strategy does.
MaskFits(c) ==
    c.opt.mask => LET m == c.ins[8] IN Len(m) = 4 =>
        /\ c.opt.layout = <<"S", "B", "H">> => m[1] = "1"
        /\ c.opt.layout = <<"B", "S", "N", "D">> => m[2] = "1"

MCCalls == Matmuls \cup MatmulBackwards \cup Grouped \cup Fused \cup Norms \cup Rotary \cup Elements \cup Convs \cup Losses
           \cup Repeats \cup Moes \cup Together \cup Attentions \cup {c \in AttentionGrads(Layouts) : MaskFits(c)}

VARIABLES
    part,     \* the component that this behaviour is one of
    v1, v2, v3, v4, v5, v6, v7, v8, v9, v10     \* its variables, in their order

Lower == INSTANCE Lowering WITH
    Shapes <- LoweredShapes, Depth <- 2, IndexDepth <- 1, MaxNumel <- 8, MaxRank <- 4,
    x <- v1, want <- v2, depth <- v3
Pool == INSTANCE Pooling WITH
    AvgCases <- MCAvgCases, MaxCases <- MCMaxCases, AdaptiveCases <- MCAdaptiveCases,
    FractionalCases <- MCFractionalCases, case <- v1, got <- v2, want <- v3
Trace == INSTANCE FxTrace WITH
    Shapes <- TracedShapes, Depth <- 2, IndexDepth <- 1, MaxNumel <- 6, MaxRank <- 3,
    Divergent <- {}, x <- v1, want <- v2, depth <- v3, types <- v4, kernels <- v5
Reduce == INSTANCE Reductions WITH
    Inputs <- ReducedInputs, Depth <- 2, Flawed <- {}, nodes <- v1, eager <- v2,
    calls <- v3
Tile == INSTANCE Tiling WITH
    Kernels <- MCKernels, DtypeBytes <- {1, 2}, NumVectorCore <- 4, StopBytes <- 2,
    TileBytes <- 32, AlignBytes <- 2, Wide <- 4, WideLow <- 6, kernel <- v1,
    stage <- v2, dims <- v3, plan <- v4, configs <- v5, cfg <- v6
Kernel == INSTANCE KernelCompile WITH
    Procs <- {1, 2}, MaxConfigs <- 2, MaxCalls <- 2, MaxCrashes <- 1,
    Settings <- KernelSettings, AliasedOutputs <- FALSE, StridedDynamic <- FALSE,
    cfg <- v1, build <- v2, disk <- v3, proc <- v4, crashes <- v5
Graph == INSTANCE TracedGraph WITH
    Inputs <- {"a"}, MaxOps <- 3, MaxTensors <- 4, StaleViews <- FALSE,
    FusedCopies <- FALSE, phase <- v1, boxes <- v2, tensors <- v3, sig <- v4,
    users <- v5, kernels <- v6, outs <- v7, mem <- v8, ran <- v9, stored <- v10
Shd == INSTANCE Sharding WITH
    World <- 3, Calls <- MCCalls, Usual <- 3, Lengths <- {4}, call <- v1, rule <- v2,
    placed <- v3

\* The variables that a component does not need rest.
After3 ==
    <<v4, v5, v6, v7, v8, v9, v10>>
After5 ==
    <<v6, v7, v8, v9, v10>>
After6 ==
    <<v7, v8, v9, v10>>
Rest6 ==
    /\ v7 = 0 /\ v8 = 0 /\ v9 = 0 /\ v10 = 0
Rest5 ==
    /\ v6 = 0 /\ Rest6
Rest3 ==
    /\ v4 = 0 /\ v5 = 0 /\ Rest5

MCInit ==
    /\ part \in Parts
    /\ \/ part = "lowering" /\ Lower!Init /\ Rest3
       \/ part = "pooling" /\ Pool!Init /\ Rest3
       \/ part = "trace" /\ Trace!FxInit /\ Rest5
       \/ part = "reductions" /\ Reduce!Init /\ Rest3
       \/ part = "tiling" /\ Tile!Init /\ Rest6
       \/ part = "kernel" /\ Kernel!Init /\ Rest5
       \/ part = "graph" /\ Graph!Init
       \/ part = "sharding" /\ Shd!Init /\ Rest3

MCNext ==
    \/ part = "lowering" /\ Lower!Next /\ UNCHANGED <<part, After3>>
    \/ part = "pooling" /\ Pool!Next /\ UNCHANGED <<part, After3>>
    \/ part = "trace" /\ Trace!FxNext /\ UNCHANGED <<part, After5>>
    \/ part = "reductions" /\ Reduce!Next /\ UNCHANGED <<part, After3>>
    \/ part = "tiling" /\ Tile!Next /\ UNCHANGED <<part, After6>>
    \/ part = "kernel" /\ Kernel!Next /\ UNCHANGED <<part, After5>>
    \/ part = "graph" /\ Graph!Next /\ UNCHANGED part
    \/ part = "sharding" /\ Shd!Next /\ UNCHANGED <<part, After3>>

mcvars ==
    <<part, v1, v2, v3, v4, v5, v6, v7, v8, v9, v10>>

MCSpec == MCInit /\ [][MCNext]_mcvars

-----------------------------------------------------------------------------
(* Properties                                                              *)

\* What a lowering computes is what the eager operator returns (Lowering), the traced
\* graph of a kernel computes what the lowering does (FxTrace), and so do the loops
\* and masks that a kernel is tiled into (Tiling).
LoweredExact ==
    /\ part = "lowering" => Lower!LoweredExact
    /\ part = "trace" => Trace!TracesAgree
    /\ part = "tiling" => Tile!TilingExact

\* Pools and their gradients visit the elements of their windows, once each (Pooling).
PoolsExact == part = "pooling" => Pool!PoolsExact

\* Reductions, casts and the operators around them return what eager ones do
\* (Reductions).
ReductionsExact == part = "reductions" => Reduce!ReductionsExact

\* A compiled kernel is the one that was asked for and benchmarks leave no trace
\* (KernelCompile); the kernels of a traced graph leave the tensors as the program
\* does (TracedGraph).
KernelsSound ==
    /\ part = "kernel" => Kernel!KernelsSound
    /\ part = "graph" => Graph!KernelsExact

\* A call on distributed tensors returns the pieces of the result of the call on
\* whole ones (Sharding).
ShardingExact == part = "sharding" => Shd!ResultExact
=============================================================================
