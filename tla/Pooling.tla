------------------------------ MODULE Pooling ------------------------------
(***************************************************************************)
(* The pooling lowerings of the Ascend NPU IR back end                     *)
(* (_inductor/ascend_npu_ir/ascend_npu_ir/npu/inductor_patch/lowering.py). *)
(* Each unrolls a window of fixed size around every output element and     *)
(* masks what falls outside; the backward passes do the same around every  *)
(* input element, with a bound on the number of windows that can cover it  *)
(* computed from the kernel and the stride alone.                          *)
(*                                                                         *)
(* A case is one call: `size`, `kernel`, `stride` and `padding` have one   *)
(* entry per pooled dimension.  What an averaging output reads is a set of *)
(* input positions and a divisor, what a gradient collects is a set of     *)
(* output positions with their divisors and the number of terms added, so  *)
(* that a term added twice shows.  `got` is what the lowering builds,      *)
(* `want` what the operator means.                                         *)
(***************************************************************************)
EXTENDS Integers, Sequences, FiniteSets, FiniteSetsExt

CONSTANTS AvgCases,        \* calls of avg_pool2d, avg_pool3d and their gradients
          MaxCases,        \* calls of max_pool2d with the values pooled
          AdaptiveCases,   \* <<input size, output size>>
          FractionalCases  \* calls of fractional_max_pool2d

VARIABLES case, got, want

vars == <<case, got, want>>

MaxOf2(a, b) == IF a > b THEN a ELSE b
MinOf2(a, b) == IF a < b THEN a ELSE b
CeilDiv(a, b) == -((-a) \div b)
RECURSIVE Product(_)
Product(s) == IF s = <<>> THEN 1 ELSE Head(s) * Product(Tail(s))

\* The positions of a box, as tuples.
Box(lens) ==
    {i \in [DOMAIN lens -> 0..MaxOf2(0, Max({0} \cup {lens[d] - 1 : d \in DOMAIN lens}))] :
        \A d \in DOMAIN lens : i[d] < lens[d]}

(***************************************************************************)
(* pooling_size: the output size, and whether ceil mode really adds a      *)
(* window.                                                                 *)
(***************************************************************************)
pooling_size(c, d) ==
    LET span == c.size[d] + 2 * c.padding[d] - (c.kernel[d] - 1)
        floored == (span + (c.stride[d] - 1)) \div c.stride[d]
        ceiled == (span + 2 * (c.stride[d] - 1)) \div c.stride[d]
        alt == IF (ceiled - 1) * c.stride[d] - c.size[d] - c.padding[d] >= 0
               THEN ceiled - 1 ELSE ceiled
    IN IF c.ceil /\ floored # alt THEN <<alt, TRUE>> ELSE <<floored, FALSE>>

OutSize(c) == [d \in DOMAIN c.size |-> pooling_size(c, d)[1]]

HadPadding(c) == \E d \in DOMAIN c.size : c.padding[d] # 0 \/ pooling_size(c, d)[2]

\* The input position slot r of output o's window stands for; it may lie in
\* the padding.
WindowAt(c, o, r) == [d \in DOMAIN c.size |-> o[d] * c.stride[d] + r[d] - c.padding[d]]

InInput(c, i) == \A d \in DOMAIN c.size : i[d] \in 0..(c.size[d] - 1)

(***************************************************************************)
(* Average pooling.                                                        *)
(***************************************************************************)
DivideFactor(c, o) ==
    LET Factor(d) ==
          LET start == o[d] * c.stride[d] - c.padding[d]
              end == MinOf2(start + c.kernel[d], c.size[d] + c.padding[d])
          IN IF c.include_pad THEN end - start
             ELSE MinOf2(end, c.size[d]) - MaxOf2(start, 0)
    IN Product([d \in DOMAIN c.size |-> Factor(d)])

_avg_poolnd(c) ==
    [o \in Box(OutSize(c)) |->
        <<{i \in {WindowAt(c, o, r) : r \in Box(c.kernel)} : InInput(c, i)},
          IF ~HadPadding(c) \/ c.divisor # <<>>
          THEN IF c.divisor # <<>> THEN c.divisor[1] ELSE Product(c.kernel)
          ELSE DivideFactor(c, o)>>]

\* WindowSize with the position's offset in its window forgotten.
WindowSizeExact(c, d) == MaxOf2(c.kernel[d] \div c.stride[d], 1)

\* How many windows can cover one position of a dimension.
WindowSize(c, d) ==
    Max({MaxOf2(h \div c.stride[d] - MaxOf2(0, (h - c.kernel[d]) \div c.stride[d]), 1) :
            h \in 0..(2 * c.kernel[d] - 1)})

\* The first and one past the last window over position i.
PStart(c, i, d) ==
    MaxOf2((i[d] + c.padding[d] - c.kernel[d] + c.stride[d]) \div c.stride[d], 0)
PEnd(c, i, d) == MinOf2((i[d] + c.padding[d]) \div c.stride[d] + 1, OutSize(c)[d])

\* compute_pool_size_without_padding.
PoolSize(c, o) ==
    LET Factor(d) ==
          LET start == o[d] * c.stride[d] - c.padding[d]
              end == MinOf2(start + c.kernel[d], c.size[d] + c.padding[d])
          IN MinOf2(end, c.size[d]) - MaxOf2(start, 0)
    IN Product([d \in DOMAIN c.size |-> Factor(d)])

Scale(c, o) ==
    IF c.divisor # <<>> THEN c.divisor[1]
    ELSE IF c.include_pad \/ ~HadPadding(c) THEN Product(c.kernel)
    ELSE PoolSize(c, o)

\* The gradient of input i: the slots of the unrolled loop that pass the mask.
GradTerms(c, i) ==
    LET slots == Box([d \in DOMAIN c.size |-> WindowSize(c, d)])
        At(s) == [d \in DOMAIN c.size |-> PStart(c, i, d) + s[d]]
        taken == {s \in slots : \A d \in DOMAIN c.size : At(s)[d] < PEnd(c, i, d)}
        read(s) == [d \in DOMAIN c.size |-> MinOf2(At(s)[d], PEnd(c, i, d) - 1)]
    IN <<{<<read(s), Scale(c, At(s))>> : s \in taken}, Cardinality(taken)>>

avg_pool2d_backward(c) == [i \in Box(c.size) |-> GradTerms(c, i)]
avg_pool3d_backward(c) == [i \in Box(c.size) |-> GradTerms(c, i)]

(***************************************************************************)
(* Max pooling: `c.val` gives the values.  Reads outside give -infinity.   *)
(***************************************************************************)
Flat(c, i) == i[1] * c.size[2] + i[2]

\* The slots in the order the reduction visits them.
SlotBefore(c, r, s) == r[1] * c.kernel[2] + r[2] < s[1] * c.kernel[2] + s[2]

_max_pool2d_with_offsets(c) ==
    [o \in Box(OutSize(c)) |->
        LET Val(r) == LET i == WindowAt(c, o, r)
                      IN IF InInput(c, i) THEN c.val[i] ELSE -1
            best == Max({Val(r) : r \in Box(c.kernel)})
        IN CHOOSE r \in Box(c.kernel) :
              /\ Val(r) = best
              /\ \A s \in Box(c.kernel) : Val(s) = best => s = r \/ SlotBefore(c, r, s)]

\* _low_memory_max_pool2d_offsets_to_indices.
max_pool2d_with_indices(c) ==
    LET offset == _max_pool2d_with_offsets(c)
    IN [o \in Box(OutSize(c)) |-> Flat(c, WindowAt(c, o, offset[o]))]

\* Slot <<0, 0>> is not masked: its index cannot match when it is not a window
\* of the element.  A position clamped below 0 wraps.
max_pool2d_with_indices_backward(c, indices) ==
    [i \in Box(c.size) |->
        LET slots == Box(<<WindowSize(c, 1), WindowSize(c, 2)>>)
            At(s) == [d \in 1..2 |-> PStart(c, i, d) + s[d]]
            read(s) == [d \in 1..2 |-> MinOf2(At(s)[d], PEnd(c, i, d) - 1) % OutSize(c)[d]]
            taken == {s \in slots : /\ indices[read(s)] = Flat(c, i)
                                    /\ s # <<0, 0>> => \A d \in 1..2 : At(s)[d] < PEnd(c, i, d)}
        IN <<{read(s) : s \in taken}, Cardinality(taken)>>]

(***************************************************************************)
(* Adaptive pooling of one dimension; the code treats both alike.          *)
(***************************************************************************)
KernelMax(in, out) == CeilDiv(in + out - 1, out)
start_index(i, out, in) == (i * in) \div out
end_index(i, out, in) == ((i + 1) * in + out - 1) \div out

\* The positions the unrolled loop of _adaptive_pooling_fn reads for each output.
_adaptive_pooling_fn(start, end, max) ==
    [i \in DOMAIN start |-> {p \in {start[i] + k : k \in 0..(max - 1)} : p < end[i]}]
Windows(in, out) ==
    _adaptive_pooling_fn([i \in 0..(out - 1) |-> start_index(i, out, in)],
                         [i \in 0..(out - 1) |-> end_index(i, out, in)], KernelMax(in, out))

_adaptive_avg_pool2d(in, out) ==
    IF in % out = 0
    THEN LET c == [size |-> <<in>>, kernel |-> <<in \div out>>, stride |-> <<in \div out>>,
                   padding |-> <<0>>, ceil |-> FALSE, include_pad |-> TRUE, divisor |-> <<>>]
             pooled == _avg_poolnd(c)
         IN [i \in 0..(out - 1) |-> {p[1] : p \in pooled[<<i>>][1]}]
    ELSE Windows(in, out)

\* The index of the maximum: the loop keeps the first strictly greater value.
_adaptive_pooling_fn_with_idx(val, in, out) ==
    [i \in 0..(out - 1) |->
        LET reads == Windows(in, out)[i]
            best == Max({val[p] : p \in reads})
        IN Min({p \in reads : val[p] = best})]

BackStart(i, out, in) == CeilDiv(i * in, out)
BackEnd(i, out, in) == BackStart(i + 1, out, in)

\* `in` is the size of the gradient, `out` the size of the tensor upsampled.
upsample_nearest2d_backward(in, out) ==
    IF in % out = 0
    THEN [i \in 0..(out - 1) |-> {i * (in \div out) + k : k \in 0..(in \div out - 1)}]
    ELSE _adaptive_pooling_fn([i \in 0..(out - 1) |-> BackStart(i, out, in)],
                              [i \in 0..(out - 1) |-> BackEnd(i, out, in)], CeilDiv(in, out))

\* floor(scale * output index), with the scale the ratio of the sizes.
upsample_nearestnd(in, out) == [o \in 0..(in - 1) |-> (o * out) \div in]

(***************************************************************************)
(* Fractional max pooling: the starts of the windows, for a random sample  *)
(* of c.sample parts in c.parts.                                           *)
(***************************************************************************)
_fractional_pooling_offsets(c) ==
    LET Trunc(n) == (n * (c.in - c.kernel)) \div (c.parts * (c.out - 1))
    IN [i \in 0..(c.out - 1) |->
           IF i < c.out - 1 THEN Trunc(i * c.parts + c.sample) - Trunc(c.sample)
                            ELSE c.in - c.kernel]

fractional_max_pool2d(c) ==
    [i \in 0..(c.out - 1) |-> {_fractional_pooling_offsets(c)[i] + k : k \in 0..(c.kernel - 1)}]

(***************************************************************************)
(* What the operators mean.                                                *)
(***************************************************************************)
\* Windows start within the input or its left padding.  Without ceil mode
\* they end within the padded input.
RefOut(c, d) ==
    Cardinality({o \in 0..(c.size[d] + 2 * c.padding[d]) :
        LET start == o * c.stride[d]
            span == c.size[d] + 2 * c.padding[d]
        IN \/ start + c.kernel[d] <= span
           \/ /\ c.ceil /\ start < c.size[d] + c.padding[d]
              /\ start + c.kernel[d] < span + c.stride[d]})

Covers(c, o, i) ==
    \A d \in DOMAIN c.size :
        LET first == o[d] * c.stride[d] - c.padding[d]
        IN i[d] \in first..(first + c.kernel[d] - 1)

RefOutputs(c) == Box([d \in DOMAIN c.size |-> RefOut(c, d)])

\* The elements of the window, or with include_pad also of the padding.
RefDivisor(c, o) ==
    LET pad == IF c.include_pad THEN c.padding ELSE [d \in DOMAIN c.size |-> 0]
        cells == [d \in DOMAIN c.size |->
                    {p \in (-pad[d])..(c.size[d] + pad[d] - 1) :
                        p \in (o[d] * c.stride[d] - c.padding[d])
                              ..(o[d] * c.stride[d] - c.padding[d] + c.kernel[d] - 1)}]
    IN IF c.divisor # <<>> THEN c.divisor[1]
       ELSE Product([d \in DOMAIN c.size |-> Cardinality(cells[d])])

RefAvg(c) ==
    [o \in RefOutputs(c) |-> <<{i \in Box(c.size) : Covers(c, o, i)}, RefDivisor(c, o)>>]

\* The transpose of RefAvg.
RefAvgGrad(c) ==
    [i \in Box(c.size) |->
        LET over == {o \in RefOutputs(c) : Covers(c, o, i)}
        IN <<{<<o, RefDivisor(c, o)>> : o \in over}, Cardinality(over)>>]

RefMax(c) ==
    [o \in RefOutputs(c) |->
        LET window == {i \in Box(c.size) : Covers(c, o, i)}
            best == Max({c.val[i] : i \in window})
        IN Min({Flat(c, i) : i \in {j \in window : c.val[j] = best}})]

RefMaxGrad(c) ==
    [i \in Box(c.size) |->
        LET from == {o \in RefOutputs(c) : RefMax(c)[o] = Flat(c, i)}
        IN <<from, Cardinality(from)>>]

\* Adaptive windows: position p belongs to output i when the interval
\* [p, p + 1) of the input meets [i, i + 1) stretched to the input's length.
RefAdaptive(in, out) ==
    [i \in 0..(out - 1) |-> {p \in 0..(in - 1) : p * out < (i + 1) * in /\ (p + 1) * out > i * in}]

(***************************************************************************)
(* One action per operator.                                                *)
(***************************************************************************)
Answer(lowered, ref) ==
    /\ got = <<>>
    /\ got' = <<lowered>> /\ want' = <<ref>>
    /\ UNCHANGED case

AvgPool == case.op = "avg" /\ Answer(_avg_poolnd(case), RefAvg(case))

AvgPoolBackward ==
    /\ case.op = "avg_backward"
    /\ Answer(IF Len(case.size) = 2 THEN avg_pool2d_backward(case) ELSE avg_pool3d_backward(case),
              RefAvgGrad(case))

MaxPool == case.op = "max" /\ Answer(max_pool2d_with_indices(case), RefMax(case))

MaxPoolBackward ==
    /\ case.op = "max_backward"
    /\ Answer(max_pool2d_with_indices_backward(case, max_pool2d_with_indices(case)),
              RefMaxGrad(case))

AdaptivePool ==
    /\ case.op = "adaptive"
    /\ Answer(_adaptive_avg_pool2d(case.in, case.out), RefAdaptive(case.in, case.out))

AdaptiveMaxPool ==
    /\ case.op = "adaptive_max"
    /\ LET ref == RefAdaptive(case.in, case.out)
       IN Answer(_adaptive_pooling_fn_with_idx(case.val, case.in, case.out),
                 [i \in 0..(case.out - 1) |->
                     Min({p \in ref[i] : \A q \in ref[i] : case.val[q] <= case.val[p]})])

\* The gradient is the transpose of the forward pass.
UpsampleBackward ==
    /\ case.op = "upsample_backward"
    /\ Answer(upsample_nearest2d_backward(case.in, case.out),
              [i \in 0..(case.out - 1) |->
                  {o \in 0..(case.in - 1) : upsample_nearestnd(case.in, case.out)[o] = i}])

\* Every window lies in the input, in order, the first at its start and the
\* last at its end.
FractionalPool ==
    /\ case.op = "fractional"
    /\ LET windows == fractional_max_pool2d(case)
           inside == \A i \in DOMAIN windows : windows[i] \subseteq 0..(case.in - 1)
           ordered == \A i, j \in DOMAIN windows : i < j => Min(windows[i]) <= Min(windows[j])
           whole == Min(windows[0]) = 0 /\ Max(windows[case.out - 1]) = case.in - 1
       IN Answer(<<inside, ordered, whole>>, <<TRUE, TRUE, TRUE>>)

Init ==
    /\ case \in AvgCases \cup MaxCases \cup AdaptiveCases \cup FractionalCases
    /\ got = <<>> /\ want = <<>>

Next ==
    \/ AvgPool \/ AvgPoolBackward \/ MaxPool \/ MaxPoolBackward
    \/ AdaptivePool \/ AdaptiveMaxPool \/ UpsampleBackward \/ FractionalPool

Spec == Init /\ [][Next]_vars

(***************************************************************************)
(* Properties.                                                             *)
(***************************************************************************)

\* Every pooling lowering reads exactly the elements its operator is defined
\* on, with the right divisor, and every backward pass is the transpose of
\* its forward pass: the bound on the windows over a position
\* (h_window_size, kernel_max) is never too small, no term is added twice,
\* and no clamped or wrapped index picks up a foreign gradient.
PoolsExact == got = want
=============================================================================
