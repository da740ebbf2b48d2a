------------------------------ MODULE Sharding ------------------------------
(***************************************************************************)
(* How an operator is run on distributed tensors: the sharding strategies  *)
(* of torch_npu/distributed/tensor, the choice of one of them, and the     *)
(* handlers that redistribute the arguments before the local call.         *)
(*                                                                         *)
(* A tensor is the sequence of its axes; an axis is a name, and operands   *)
(* that share an index share the name.  "1" is an axis of length one.  A   *)
(* placement says what a rank of the (one-dimensional) mesh holds: the     *)
(* whole tensor, its chunk along one dimension, or a summand.  Dimensions  *)
(* are counted from 0, as in the code.                                     *)
(***************************************************************************)
EXTENDS Naturals, Sequences, FiniteSets, FiniteSetsExt, SequencesExt, TLC

CONSTANTS
    World,     \* the size of the mesh
    Calls,     \* the operators that may be called, by their indices: see Instances
    Usual,     \* the length of an axis
    Lengths    \* the lengths one axis may have instead

VARIABLES
    call,      \* the call: see Calls; at, size are its placements and lengths
    rule,      \* the strategy the propagator has selected, when it has
    placed     \* the placements the arguments are given for the local call

vars == <<call, rule, placed>>

None == <<"none">>
Replicate == <<"replicate">>
Shard(d) == <<"shard", d>>
Partial == <<"partial", "sum">>
PartialAvg == <<"partial", "avg">>

Ranks == 0 .. World - 1
\* An axis is of length one, is made of others (of, each index by times) or is free.
Extent(c, axis) ==
    IF axis = "1" THEN 1
    ELSE IF axis \in DOMAIN c.made THEN c.made[axis].by * FoldSeq(LAMBDA a, n : c.size[a] * n, 1, c.made[axis].of)
    ELSE c.size[axis]
Dim(c, i, d) == Extent(c, c.ins[i][d + 1])
Even(c, i, d) == Dim(c, i, d) % World = 0

\* A strategy: the placements of the outputs and of the tensor arguments.
Rule(outs, ins) == [outs |-> outs, ins |-> ins]
When(cond, r) == IF cond THEN <<r>> ELSE <<>>
Rep(n, pl) == [i \in 1..n |-> pl]
\* for i in range(n): if cond: append
Each(n, cond(_), r(_)) == FlattenSeq([k \in 1..n |-> When(cond(k - 1), r(k - 1))])
Downward(n, cond(_), r(_)) == FlattenSeq([k \in 1..n |-> When(cond(n - k), r(n - k))])
Always(i) == TRUE
AllReplicate(c, outs) == <<Rule(Rep(outs, Replicate), Rep(Len(c.ins), Replicate))>>

-----------------------------------------------------------------------------
(* _matrix_ops.py *)

custom_matmul_strategy(c) ==
    LET l1 == Len(c.ins[1])  l2 == Len(c.ins[2])
        longer == l1 > l2
        diff == IF longer THEN l1 - l2 ELSE l2 - l1
        least == IF longer THEN l2 ELSE l1
        out == least + diff
    IN  AllReplicate(c, 1) \o
        IF l1 = 1 /\ l2 = 1 THEN <<>>
        ELSE IF l1 = 1 THEN
            Each(l2 - 2, LAMBDA i : Even(c, 2, i), LAMBDA i : Rule(<<Shard(i)>>, <<Replicate, Shard(i)>>))
            \o When(Even(c, 1, 0), Rule(<<Partial>>, <<Shard(0), Shard(l2 - 2)>>))
            \o When(Even(c, 2, l2 - 1), Rule(<<Shard(l2 - 2)>>, <<Replicate, Shard(l2 - 1)>>))
        ELSE IF l2 = 1 THEN
            Each(l1 - 1, LAMBDA i : Even(c, 1, i), LAMBDA i : Rule(<<Shard(i)>>, <<Shard(i), Replicate>>))
            \o When(Even(c, 2, 0), Rule(<<Partial>>, <<Shard(l1 - 1), Shard(0)>>))
        ELSE
            LET at1(i) == IF longer THEN i + diff ELSE i
                at2(i) == IF longer THEN i ELSE i + diff
            IN  Downward(least - 2, LAMBDA i : Even(c, 1, at1(i)) /\ Even(c, 2, at2(i)),
                         LAMBDA i : Rule(<<Shard(i + diff)>>, <<Shard(at1(i)), Shard(at2(i))>>))
                \o Downward(diff, LAMBDA i : Even(c, IF longer THEN 1 ELSE 2, i),
                         LAMBDA i : Rule(<<Shard(i)>>, IF longer THEN <<Shard(i), Replicate>> ELSE <<Replicate, Shard(i)>>))
                \o When(Even(c, 1, l1 - 2), Rule(<<Shard(out - 2)>>, <<Shard(l1 - 2), Replicate>>))
                \o When(Even(c, 2, l2 - 1), Rule(<<Shard(out - 1)>>, <<Replicate, Shard(l2 - 1)>>))
                \o When(Even(c, 1, l1 - 1), Rule(<<Partial>>, <<Shard(l1 - 1), Shard(l2 - 2)>>))

\* Arguments: grad, tensor1, tensor2.  The None for the mask, which one of the
\* rules does not list, is dropped from all of them before they are expanded.
custom_matmul_backward_strategy(c) ==
    LET g == Len(c.ins[1])  l1 == Len(c.ins[2])  l2 == Len(c.ins[3])
        longer == l1 > l2
        diff == IF longer THEN l1 - l2 ELSE l2 - l1
        least == IF longer THEN l2 ELSE l1
    IN  AllReplicate(c, 2) \o
        IF l1 = 1 /\ l2 = 1 THEN <<>>
        ELSE IF l1 >= 2 /\ l2 \in {1, 2} THEN
            When(Even(c, 3, 0), Rule(<<Shard(l1 - 1), Shard(0)>>, <<Replicate, Shard(l1 - 1), Shard(0)>>))
            \o Each(l1 - 1, LAMBDA i : Even(c, 2, i), LAMBDA i : Rule(<<Shard(i), Partial>>, <<Shard(i), Shard(i), Replicate>>))
            \o IF l2 = 2 /\ Even(c, 3, 1)
               THEN <<Rule(<<Partial, Shard(1)>>, <<Shard(g - 1), Replicate, Shard(1)>>)>> ELSE <<>>
        ELSE IF l2 >= 2 /\ l1 \in {1, 2} THEN
            When(Even(c, 2, l1 - 1), Rule(<<Shard(IF l2 = 2 /\ l1 = 1 THEN l1 ELSE l1 - 1), Shard(l2 - 2)>>,
                                          <<Replicate, Shard(l1 - 1), Shard(l2 - 2)>>))
            \o When(Even(c, 3, l2 - 1), Rule(<<Partial, Shard(l2 - 1)>>, <<Shard(g - 1), Replicate, Shard(l2 - 1)>>))
            \o Each(l2 - 2, LAMBDA i : Even(c, 3, i), LAMBDA i : Rule(<<Partial, Shard(i)>>, <<Shard(i), Replicate, Shard(i)>>))
            \o IF l1 = 2 /\ Even(c, 2, 0)
               THEN <<Rule(<<Shard(0), Partial>>, <<Shard(g - 2), Shard(0), Replicate>>)>> ELSE <<>>
        ELSE
            LET at1(i) == IF longer THEN i + diff ELSE i
                at2(i) == IF longer THEN i ELSE i + diff
            IN  When(Even(c, 1, g - 1), Rule(<<Partial, Shard(g - 1)>>, <<Shard(g - 1), Replicate, Shard(l2 - 1)>>))
                \o When(Even(c, 1, g - 2), Rule(<<Shard(g - 2), Partial>>, <<Shard(g - 2), Shard(l1 - 2), Replicate>>))
                \o When(Even(c, 2, l1 - 1), Rule(<<Shard(g - 1), Shard(g - 2)>>, <<Replicate, Shard(l1 - 1), Shard(l2 - 2)>>))
                \o Downward(least - 2, LAMBDA i : Even(c, 2, at1(i)) /\ Even(c, 3, at2(i)),
                         LAMBDA i : Rule(<<Shard(i + diff), Shard(i + diff)>>, <<Shard(i + diff), Shard(at1(i)), Shard(at2(i))>>))
                \o Downward(diff, LAMBDA i : Even(c, IF longer THEN 2 ELSE 3, i),
                         LAMBDA i : IF longer THEN Rule(<<Shard(i), Partial>>, <<Shard(i), Shard(i), Replicate>>)
                                              ELSE Rule(<<Partial, Shard(i)>>, <<Shard(i), Replicate, Shard(i)>>))

\* One x, one weight and one output stand for the lists, whose members all
\* get the same placements; opt.kind says how many there are of each.
npu_grouped_matmul_strategy(c) ==
    LET x == Len(c.ins[1])
        biased == c.opt.bias
        rest(pl) == IF biased THEN <<pl>> ELSE <<>>
        y(pl, px, pw, pb) == Rule(<<pl>>, <<px, pw>> \o rest(pb))
    IN  AllReplicate(c, 1) \o
        IF c.opt.quant THEN <<>>
        ELSE When(~biased, y(Partial, Replicate, Partial, None)) \o When(~biased, y(Partial, Partial, Replicate, None)) \o
            CASE c.opt.kind = "xNwNyN" ->
                    Each(x - 1, Always, LAMBDA i : y(Shard(i), Shard(i), Replicate, Replicate))
                    \o <<y(Shard(x - 1), Replicate, Shard(1), Shard(0))>>
                    \o When(~biased, y(Partial, Shard(x - 1), Shard(0), None))
              [] c.opt.kind = "x1w1y1" ->
                    When(~biased, y(Partial, Shard(1), Shard(1), None)) \o <<y(Shard(1), Replicate, Shard(2), Shard(1))>>
              [] OTHER ->
                    When(~biased, y(Partial, Shard(1), Shard(0), None)) \o <<y(Shard(1), Replicate, Shard(1), Shard(0))>>

_infer_npu_grouped_matmul_kwargs(c, outs) ==
    [i \in {3} |-> IF outs[1] = Shard(c.opt.ydim - 1) THEN Shard(0) ELSE Replicate]

\* Arguments: x1, x2 and, when there is one, bias.
npu_all_gather_base_mm_strategy(c) ==
    LET rest(pl) == IF Len(c.ins) = 3 THEN <<pl>> ELSE <<>>
    IN  <<Rule(<<Replicate, Replicate>>, <<Shard(0), Replicate>> \o rest(Replicate)),
          Rule(<<Shard(1), Replicate>>, <<Shard(0), Shard(1)>> \o rest(Shard(0)))>>

_infer_npu_all_gather_base_mm_kwargs(outs) ==
    [i \in {3} |-> IF outs[1] = Replicate THEN Replicate ELSE Shard(0)]

npu_mm_reduce_scatter_base_strategy(c) == <<Rule(<<Shard(0)>>, <<Shard(1), Shard(0)>>)>>

\* The gradient goes where the first of the out tensors is; the out tensors
\* (var, m, v) stay where they are.  Arguments: grad, var, m, v.
npu_apply_adam_w_strategy(c) ==
    <<Rule(<<c.at[2], c.at[3], c.at[4]>>, <<c.at[2], c.at[2], c.at[3], c.at[4]>>)>>

\* The outputs are the result and the packed mask.
custom_dropout_forward_sharding(c) ==
    IF c.at[1][1] = "shard" /\ Dim(c, 1, c.at[1][2]) < World
    THEN <<Rule(<<c.at[1], Shard(0)>>, <<c.at[1]>>)>>
    ELSE AllReplicate(c, 2)
         \o Each(Len(c.ins[1]), Always, LAMBDA d : Rule(<<Shard(d), Shard(0)>>, <<Shard(d)>>))

-----------------------------------------------------------------------------
(* _math_ops.py *)

\* _replicate_dims_start_at of torch.distributed.tensor.
ReplicateFrom(pl, axis) ==
    IF pl[1] = "partial" \/ (pl[1] = "shard" /\ pl[2] >= axis) THEN Replicate ELSE pl

\* Arguments: input, gamma; outputs: y, rstd.
npu_rms_norm_strategy(c) ==
    LET pl == ReplicateFrom(c.at[1], Len(c.ins[1]) - Len(c.ins[2]))
    IN  <<Rule(<<pl, pl>>, <<pl, ReplicateFrom(c.at[2], 0)>>)>>

\* Arguments: dy, input, gamma, rstd; outputs: dx, dgamma.
npu_rms_norm_backward_strategy(c) ==
    LET pl == ReplicateFrom(c.at[2], Len(c.ins[2]) - Len(c.ins[3]))
    IN  <<Rule(<<pl, IF pl[1] = "shard" THEN Partial ELSE pl>>, <<pl, pl, c.at[3], c.at[4]>>)>>

\* Arguments: x1, x2, gamma; outputs: y, rstd, x.  The list of placements, one
\* for each dimension of the mesh, is cut for rstd at axis, a dimension of the
\* tensor: nothing is left of it when all dimensions are normalized.
npu_add_rms_norm_strategy(c) ==
    LET axis == Len(c.ins[1]) - Len(c.ins[3])
        pl == ReplicateFrom(c.at[1], axis)
    IN  <<Rule(<<pl, IF axis = 0 THEN None ELSE pl, pl>>, <<pl, pl, ReplicateFrom(c.at[3], 0)>>)>>

\* Arguments: x, r1, r2.
npu_rotary_mul_strategy(c) ==
    AllReplicate(c, 1) \o
    Each(Len(c.ins[1]) - 1, Always,
         LAMBDA i : LET r == IF Dim(c, 2, i) = 1 THEN Replicate ELSE Shard(i)
                    IN  Rule(<<Shard(i)>>, <<Shard(i), r, r>>))

\* Arguments: grad, x, r1, r2; outputs: dx, d_r1, d_r2.
npu_rotary_mul_backward_strategy(c) ==
    AllReplicate(c, 3) \o
    Each(Len(c.ins[1]) - 1, Always,
         LAMBDA i : IF Dim(c, 3, i) = 1
                    THEN Rule(<<Shard(i), Partial, Partial>>, <<Shard(i), Shard(i), Replicate, Replicate>>)
                    ELSE Rule(Rep(3, Shard(i)), Rep(4, Shard(i))))

\* Arguments: grad, index; opt.shape is the shape of the tensor gathered from.
custom_npu_gather_backward_strategy(c) ==
    AllReplicate(c, 1) \o
    IF Len(c.opt.shape) = Len(c.ins[1]) /\ Len(c.ins[1]) = Len(c.ins[2])
    THEN Each(Len(c.ins[2]),
              LAMBDA d : d # c.opt.dim /\ Extent(c, c.opt.shape[d + 1]) = Dim(c, 2, d) /\ Dim(c, 2, d) = Dim(c, 1, d),
              LAMBDA d : Rule(<<Shard(d)>>, <<Shard(d), Shard(d)>>))
    ELSE <<>>

\* Forward (x) and backward (grad, x) alike.
custom_npu_swiglu_strategy(c) ==
    AllReplicate(c, 1) \o
    Each(Len(c.ins[1]), LAMBDA i : i # c.opt.dim, LAMBDA i : Rule(<<Shard(i)>>, Rep(Len(c.ins), Shard(i))))
custom_npu_swiglu_backward_strategy(c) == custom_npu_swiglu_strategy(c)

\* Arguments: x, weight and, when there is one, bias.
custom_npu_conv2d_strategy(c) ==
    LET rest(pl) == IF Len(c.ins) = 3 THEN <<pl>> ELSE <<>>
    IN  AllReplicate(c, 1)
        \o <<Rule(<<Shard(0)>>, <<Shard(0), Replicate>> \o rest(Replicate))>>
        \o When(c.opt.groups = 1, Rule(<<Shard(1)>>, <<Replicate, Shard(0)>> \o rest(Shard(0))))

\* Arguments: x, grad_output, weight; outputs: grad_x, grad_weight, grad_bias.
custom_npu_conv2d_backward_strategy(c) ==
    AllReplicate(c, 3)
    \o When(c.at[2] = Shard(0), Rule(<<Shard(0), Partial, Partial>>, <<Shard(0), Shard(0), Replicate>>))
    \o When(c.at[2] = Shard(1) /\ c.opt.groups = 1, Rule(<<Partial, Shard(0), Shard(0)>>, <<Replicate, Shard(1), Shard(0)>>))

\* Arguments: y, x, weight, group_list.  A y split along dimension 0 is refused.
custom_grouped_matmul_add__strategy(c) ==
    IF c.at[1] = Shard(0) THEN <<>>
    ELSE AllReplicate(c, 1) \o <<Rule(<<Shard(1)>>, <<Shard(1), Replicate, Shard(1), Replicate>>)>>

\* By the placement the tensor has now, not by the one it would be given.
is_tensor_evenly_shardable(c, i) == c.at[i][1] = "shard" => Even(c, i, c.at[i][2])

\* Arguments: input, target and, when there is one, weight; outputs: loss,
\* log_prob, zloss, lse_for_zloss.
custom_cross_entropy_loss_sharding(c) ==
    LET weighted == Len(c.ins) = 3
        batch(loss) == Rule(<<loss, Shard(0), Replicate, Replicate>>,
                            <<Shard(0), Shard(0)>> \o IF weighted THEN <<Replicate>> ELSE <<>>)
    IN  AllReplicate(c, 4) \o
        CASE c.opt.reduction = "none" -> <<batch(Shard(0))>>
          [] c.opt.reduction = "mean" -> When(~weighted /\ is_tensor_evenly_shardable(c, 2), batch(PartialAvg))
          [] OTHER -> <<batch(Partial)>>

\* Arguments: grad_loss, log_prob, target and, when there is one, weight.
custom_cross_entropy_loss_backward_strategy(c) ==
    LET batch(grad) == Rule(<<Shard(0)>>, <<grad, Shard(0), Shard(0)>> \o IF Len(c.ins) = 4 THEN <<Replicate>> ELSE <<>>)
    IN  AllReplicate(c, 1) \o
        CASE c.opt.reduction = "none" -> <<batch(Shard(0))>>
          [] c.opt.reduction = "sum" -> <<batch(Replicate)>>
          [] OTHER -> <<>>

\* opt.dim is the dimension repeated as the caller gave it, or Len(x) when
\* there is none.  When the tensor is not evenly split a rule is appended for
\* every i, the one for i = dim being that of i - 1 again: see Unbound.
custom_npu_repeat_interleave_self_int_strategy(c) ==
    LET n == Len(c.ins[1])
        along(i) == Rule(<<Shard(i)>>, <<Shard(i)>>)
    IN  AllReplicate(c, 1) \o
        IF ~is_tensor_evenly_shardable(c, 1)
        THEN IF c.opt.dim = n THEN <<>> ELSE Each(n, LAMBDA i : i # c.opt.dim, along)
        ELSE IF c.opt.dim = n THEN <<along(0)>> ELSE Each(n, Always, along)

\* Arguments: grad, x.
custom_npu_repeat_interleave_backward_int_strategy(c) ==
    LET n == Len(c.ins[2]) IN
    AllReplicate(c, 1) \o
    IF c.opt.dim # n /\ is_tensor_evenly_shardable(c, 2)
    THEN Each(n, LAMBDA i : ~(c.at[1] = Shard(c.opt.dim) /\ ~is_tensor_evenly_shardable(c, 1)),
              LAMBDA i : Rule(<<Shard(i)>>, <<Shard(i), Shard(i)>>))
    ELSE <<>>

\* Arguments: x, target.  With the mean, a dimension the mesh does not divide
\* appends the rule of the one before it again: see Unbound.
custom_KLDivLoss_forward_strategy(c) ==
    AllReplicate(c, 1) \o
    Each(Len(c.ins[1]), LAMBDA d : c.opt.reduction = "mean" => Even(c, 1, d),
         LAMBDA d : Rule(<<CASE c.opt.reduction = "none" -> Shard(d)
                             [] c.opt.reduction = "mean" -> PartialAvg
                             [] OTHER -> Partial>>, <<Shard(d), Shard(d)>>))

\* Arguments: grad_out, x, target.
custom_KLDivLoss_backward_strategy(c) ==
    AllReplicate(c, 1) \o
    Each(Len(c.ins[2]), LAMBDA d : c.opt.reduction # "mean",
         LAMBDA d : Rule(<<Shard(d)>>, <<IF c.opt.reduction = "none" THEN Shard(d) ELSE Replicate, Shard(d), Shard(d)>>))

-----------------------------------------------------------------------------
(* _moe_ops.py: everything is whole, or split along the hidden dimension. *)

npu_moe_token_permute_strategy(c) ==
    AllReplicate(c, 2) \o <<Rule(<<Shard(1), Replicate>>, <<Shard(1), Replicate>>)>>
npu_moe_token_permute_grad_strategy(c) ==
    AllReplicate(c, 1) \o <<Rule(<<Shard(1)>>, <<Shard(1), Shard(1), Replicate, Replicate>>)>>
npu_moe_token_unpermute_strategy(c) ==
    AllReplicate(c, 1) \o <<Rule(<<Shard(1)>>, <<Shard(1), Replicate>> \o Rep(Len(c.ins) - 2, Replicate))>>
npu_moe_token_unpermute_grad_strategy(c) ==
    AllReplicate(c, 2)
    \o <<Rule(<<Shard(1), Partial>>, <<Shard(1), Shard(1), Replicate>> \o Rep(Len(c.ins) - 3, Replicate))>>

-----------------------------------------------------------------------------
(* _attention.py.  The layout is the sequence of its letters; the mask, when *)
(* there is one, is the last argument.                                       *)

Letters(c) == ToSet(c.opt.layout)
IndexOf(c, letter) == (CHOOSE k \in 1..Len(c.opt.layout) : c.opt.layout[k] = letter) - 1
MaskSharding(c, d) ==
    LET m == Len(c.ins) IN
    IF ~c.opt.mask THEN <<>>
    ELSE <<IF Len(c.ins[m]) = 4 /\ Dim(c, m, d) # 1 THEN Shard(d) ELSE Replicate>>

\* Arguments: query, key, value, mask; outputs: attention_out, softmax_max,
\* softmax_sum.  opt.plain: none of the arguments only supported whole is given.
npu_fusion_attention_strategy(c) ==
    LET split(letter, d) == LET at == Shard(IndexOf(c, letter))
                            IN  Rule(<<at, Shard(d), Shard(d)>>, <<at, at, at>> \o MaskSharding(c, d))
    IN  AllReplicate(c, 3) \o
        IF ~c.opt.plain THEN <<>>
        ELSE (IF "B" \in Letters(c) THEN <<split("B", 0)>> ELSE <<>>)
             \o (IF "N" \in Letters(c) THEN <<split("N", 1)>> ELSE <<>>)
npu_fusion_attention_v3_strategy(c) == npu_fusion_attention_strategy(c)

\* Arguments: query, key, value, dy, softmax_max, softmax_sum, attention_in,
\* mask; outputs: the gradients of query, key and value.
npu_fusion_attention_grad_strategy(c) ==
    LET split(letter, d) == LET at == Shard(IndexOf(c, letter))
                            IN  Rule(<<at, at, at>>, <<at, at, at, at, Shard(d), Shard(d), at>> \o MaskSharding(c, d))
    IN  AllReplicate(c, 3) \o
        IF ~c.opt.plain THEN <<>>
        ELSE (IF "B" \in Letters(c) THEN <<split("B", 0)>> ELSE <<>>)
             \o (IF "N" \in Letters(c) THEN <<split("N", 1)>> ELSE <<>>)
npu_fusion_attention_grad_v3_strategy(c) == npu_fusion_attention_grad_strategy(c)

\* The arguments after dy are keyword arguments.  The mask is given the
\* dimension of the query, with the condition on its own first or second.
_infer_npu_fusion_attention_grad_kwargs_spec(c, outs) ==
    LET at(letter) == IF letter \in Letters(c) THEN Shard(IndexOf(c, letter)) ELSE None
        infer(i, whole, d) == CASE whole -> Replicate
                                [] i \in {5, 6} -> Shard(d)
                                [] i = 7 -> outs[1]
                                [] OTHER -> IF Len(c.ins[i]) = 4 /\ Dim(c, i, d) # 1 THEN outs[1] ELSE Replicate
    IN  [i \in 5..Len(c.ins) |-> infer(i, outs[1] = Replicate, IF outs[1] = at("B") THEN 0 ELSE 1)]

-----------------------------------------------------------------------------
(* Propagation and dispatch *)

Strategies(c) ==
    CASE c.op = "matmul" -> custom_matmul_strategy(c)
      [] c.op = "matmul_backward" -> custom_matmul_backward_strategy(c)
      [] c.op = "grouped_matmul" -> npu_grouped_matmul_strategy(c)
      [] c.op = "all_gather_base_mm" -> npu_all_gather_base_mm_strategy(c)
      [] c.op = "mm_reduce_scatter_base" -> npu_mm_reduce_scatter_base_strategy(c)
      [] c.op = "apply_adam_w" -> npu_apply_adam_w_strategy(c)
      [] c.op = "dropout" -> custom_dropout_forward_sharding(c)
      [] c.op = "rms_norm" -> npu_rms_norm_strategy(c)
      [] c.op = "rms_norm_backward" -> npu_rms_norm_backward_strategy(c)
      [] c.op = "add_rms_norm" -> npu_add_rms_norm_strategy(c)
      [] c.op = "rotary_mul" -> npu_rotary_mul_strategy(c)
      [] c.op = "rotary_mul_backward" -> npu_rotary_mul_backward_strategy(c)
      [] c.op = "gather_backward" -> custom_npu_gather_backward_strategy(c)
      [] c.op = "swiglu" -> custom_npu_swiglu_strategy(c)
      [] c.op = "swiglu_backward" -> custom_npu_swiglu_backward_strategy(c)
      [] c.op = "conv2d" -> custom_npu_conv2d_strategy(c)
      [] c.op = "conv2d_backward" -> custom_npu_conv2d_backward_strategy(c)
      [] c.op = "grouped_matmul_add_" -> custom_grouped_matmul_add__strategy(c)
      [] c.op = "cross_entropy_loss" -> custom_cross_entropy_loss_sharding(c)
      [] c.op = "cross_entropy_loss_backward" -> custom_cross_entropy_loss_backward_strategy(c)
      [] c.op = "repeat_interleave" -> custom_npu_repeat_interleave_self_int_strategy(c)
      [] c.op = "repeat_interleave_backward" -> custom_npu_repeat_interleave_backward_int_strategy(c)
      [] c.op = "kl_div" -> custom_KLDivLoss_forward_strategy(c)
      [] c.op = "kl_div_backward" -> custom_KLDivLoss_backward_strategy(c)
      [] c.op = "moe_token_permute" -> npu_moe_token_permute_strategy(c)
      [] c.op = "moe_token_permute_grad" -> npu_moe_token_permute_grad_strategy(c)
      [] c.op = "moe_token_unpermute" -> npu_moe_token_unpermute_strategy(c)
      [] c.op = "moe_token_unpermute_grad" -> npu_moe_token_unpermute_grad_strategy(c)
      [] c.op = "fusion_attention" -> npu_fusion_attention_strategy(c)
      [] c.op = "fusion_attention_v3" -> npu_fusion_attention_v3_strategy(c)
      [] c.op = "fusion_attention_grad" -> npu_fusion_attention_grad_strategy(c)
      [] c.op = "fusion_attention_grad_v3" -> npu_fusion_attention_grad_v3_strategy(c)

\* The loop over the dimensions appends the rule of the one before, and the
\* first of them has none: the strategy raises.
Unbound(c) ==
    \/ c.op = "repeat_interleave" /\ ~is_tensor_evenly_shardable(c, 1) /\ c.opt.dim = 0
    \/ c.op = "kl_div" /\ c.opt.reduction = "mean" /\ ~Even(c, 1, 0)
Raised == Rule(<<>>, <<>>)

\* Operators whose strategy is built by hand, without the filter.
Unfiltered(c) ==
    \/ c.op \in {"apply_adam_w", "rms_norm", "rms_norm_backward", "add_rms_norm"}
    \/ c.op = "dropout" /\ Len(Strategies(c)) = 1

\* expand_to_full_mesh_op_strategy keeps the strategies whose splits leave no
\* dimension shorter than the mesh, and for an in-place operator those that
\* leave its first argument where it is.
expand_to_full_mesh_op_strategy(c) ==
    LET keep(r) == /\ \A i \in 1..Len(c.ins) : r.ins[i][1] = "shard" => Dim(c, i, r.ins[i][2]) >= World
                   /\ c.op = "grouped_matmul_add_" => r.ins[1] = c.at[1]
    IN  IF Unfiltered(c) THEN Strategies(c) ELSE SelectSeq(Strategies(c), keep)

\* What the propagator of torch may select: a strategy that moves nothing if
\* there is one, otherwise one that is not infinitely dear.
SelectableOf(c, all) ==
    LET still == {r \in all : r.ins = c.at}
        dear(r) == \E i \in 1..Len(c.ins) : c.at[i][1] = "shard" /\ r.ins[i][1] = "partial"
    IN  IF still # {} THEN still ELSE {r \in all : ~dear(r)}
Selectable(c) == SelectableOf(c, ToSet(expand_to_full_mesh_op_strategy(c)))

\* The keyword arguments take the placement inferred from the outputs, the
\* others the one the strategy gives.
get_redistributed_local_kwargs(c, r) ==
    CASE c.op = "grouped_matmul" /\ c.opt.bias -> _infer_npu_grouped_matmul_kwargs(c, r.outs)
      [] c.op = "all_gather_base_mm" /\ Len(c.ins) = 3 -> _infer_npu_all_gather_base_mm_kwargs(r.outs)
      [] c.op \in {"fusion_attention_grad", "fusion_attention_grad_v3"} ->
            _infer_npu_fusion_attention_grad_kwargs_spec(c, r.outs)
      [] OTHER -> [i \in {} |-> None]
get_redistributed_local_args(c, r) ==
    LET kwargs == get_redistributed_local_kwargs(c, r)
    IN  [i \in 1..Len(c.ins) |-> IF i \in DOMAIN kwargs THEN kwargs[i] ELSE r.ins[i]]

\* torch.chunk: pieces of the length rounded up, the last ones short or empty.
Chunk(n, r) == LET len == (n + World - 1) \div World
               IN  {p \in 0 .. n - 1 : p \div len = r}
Whole(c, axis) == 0 .. Extent(c, axis) - 1

\* The indices of an axis that argument i has on rank r.
Held(c, at, i, axis, r) ==
    IF at[i][1] = "shard" /\ c.ins[i][at[i][2] + 1] = axis
    THEN Chunk(Extent(c, axis), r) ELSE Whole(c, axis)

\* Mutant: the number of heads is left as the caller gave it.
HeadsAsGiven(c, at) ==
    IF "layout" \in DOMAIN c.opt /\ "N" \in Letters(c)
    THEN [r \in Ranks |-> Extent(c, c.ins[1][IndexOf(c, "N") + 1])]
    ELSE <<>>
\* The number of heads handed to the local attention: that of the local query
\* when the layout has them apart, the one the caller gave otherwise.
_npu_fusion_attention_handler(c, at) ==
    IF "layout" \in DOMAIN c.opt /\ "N" \in Letters(c)
    THEN LET axis == c.ins[1][IndexOf(c, "N") + 1]
         IN  [r \in Ranks |-> Cardinality(Held(c, at, 1, axis, r))]
    ELSE <<>>

Propagate ==
    /\ rule = <<>>
    /\ ~Unbound(call)
    /\ \E r \in Selectable(call) : rule' = <<r>>
    /\ UNCHANGED <<call, placed>>

PropagateRaises ==
    /\ rule = <<>>
    /\ Unbound(call)
    /\ rule' = <<Raised>>
    /\ UNCHANGED <<call, placed>>

Dispatch ==
    /\ rule \notin {<<>>, <<Raised>>}
    /\ placed = <<>>
    /\ LET at == get_redistributed_local_args(call, rule[1])
       IN  placed' = <<[ins |-> at, heads |-> _npu_fusion_attention_handler(call, at)]>>
    /\ UNCHANGED <<call, rule>>

\* A member of Calls gives the operator (op), the axes of its arguments (ins),
\* what it computes (outs: the axes of an output, its terms with the arguments
\* they are made from and the axes they sum over, the axes all of whose indices
\* an element depends on, and whether it is a mean), the axes made of others
\* (made), what the operator itself does between the ranks (coll), its other
\* arguments (opt), the axes whose length may vary (vary), how many arguments
\* may be other than replicated (moved) and, when its arguments are not placed
\* independently, their placements (placements).
Placements(axes) == {Replicate, Partial} \cup {Shard(d) : d \in 0 .. Len(axes) - 1}
Axes(c) == (UNION {ToSet(c.ins[i]) : i \in 1..Len(c.ins)} \cup UNION {ToSet(c.outs[o].ax) : o \in 1..Len(c.outs)})
           \ ({"1"} \cup DOMAIN c.made)
Instances(c) ==
    LET n == Len(c.ins)
        size(a, l) == [x \in Axes(c) |-> IF x = a THEN l ELSE Usual]
        sizes == {size("1", Usual)} \cup {size(a, l) : a \in c.vary, l \in Lengths}
        ats == UNION {{[i \in 1..n |-> IF i \in M THEN f[i] ELSE Replicate] :
                          f \in {g \in [M -> UNION {Placements(c.ins[i]) : i \in M}] : \A i \in M : g[i] \in Placements(c.ins[i])}} :
                      M \in {S \in SUBSET (1..n) : Cardinality(S) <= c.moved}}
    IN  {[op |-> c.op, ins |-> c.ins, outs |-> c.outs, made |-> c.made, coll |-> c.coll, opt |-> c.opt,
          size |-> z, at |-> a] : z \in sizes, a \in IF c.placements = {} THEN ats ELSE c.placements}

Init ==
    /\ \E c \in Calls : call \in Instances(c)
    /\ rule = <<>>
    /\ placed = <<>>

Next == Propagate \/ PropagateRaises \/ Dispatch

Spec == Init /\ [][Next]_vars

-----------------------------------------------------------------------------
(* What the ranks compute together *)

Args(out) == UNION {t.from : t \in out.terms}
Summed(out) == UNION {t.sum : t \in out.terms}

\* The indices of a made axis whose sources are among those held.
MadeOf(c, axis, held) ==
    LET m == c.made[axis]
    IN  {p \in Whole(c, axis) :
            IF Len(m.of) = 1 THEN p \div m.by \in held[m.of[1]]
            ELSE /\ (p \div m.by) \div c.size[m.of[2]] \in held[m.of[1]]
                 /\ (p \div m.by) % c.size[m.of[2]] \in held[m.of[2]]}

\* The indices of an axis that rank r has once the operator has done its own
\* communication.
Local(c, at, out, axis, r) ==
    LET owners(a) == {i \in Args(out) : a \in ToSet(c.ins[i])}
        mine(a, q) == IF owners(a) = {} THEN Whole(c, a) ELSE Held(c, at, CHOOSE i \in owners(a) : TRUE, a, q)
    IN  IF axis \in DOMAIN c.coll THEN
            CASE c.coll[axis] = "gather" -> UNION {mine(axis, q) : q \in Ranks}
              [] c.coll[axis] = "scatter" -> mine(axis, r) \cap Chunk(Extent(c, axis), r)
              [] c.coll[axis] = "reduce" ->
                    IF \E p, q \in Ranks : p # q /\ mine(axis, p) \cap mine(axis, q) # {} THEN {}
                    ELSE UNION {mine(axis, q) : q \in Ranks}
        ELSE IF axis \in DOMAIN c.made /\ owners(axis) = {}
        THEN MadeOf(c, axis, [a \in ToSet(c.made[axis].of) |-> mine(a, r)])
        ELSE mine(axis, r)

\* The local arguments fit each other.
Fits(c, at, heads, out, r) ==
    /\ \A i, j \in Args(out) : \A a \in ToSet(c.ins[i]) \cap ToSet(c.ins[j]) :
          i < j /\ a # "1" => Held(c, at, i, a, r) = Held(c, at, j, a, r)
    /\ \A i \in Args(out) : \A a \in ToSet(c.ins[i]) \cap DOMAIN c.made : \A j \in Args(out) :
          LET of == c.made[a].of[1]
          IN  of \in ToSet(c.ins[j]) => Held(c, at, i, a, r) = MadeOf(c, a, (of :> Held(c, at, j, of, r)))
    /\ heads # <<>> => heads[r] = Cardinality(Held(c, at, 1, c.ins[1][IndexOf(c, "N") + 1], r))

Complete(c, at, out, axes) == \A a \in axes \ {"1"} : \A r \in Ranks : Local(c, at, out, a, r) = Whole(c, a)

\* The ranks' summands of a term add up to it: one argument is itself a sum,
\* or the ranks share out one of the axes summed over.
AddUp(c, at, out, t) ==
    LET partial == {i \in t.from : at[i] = Partial}
        shared(a) == /\ UNION {Local(c, at, out, a, r) : r \in Ranks} = Whole(c, a)
                     /\ \A q, r \in Ranks : q # r => Local(c, at, out, a, q) \cap Local(c, at, out, a, r) = {}
    IN  IF partial # {} THEN Cardinality(partial) = 1 /\ Complete(c, at, out, t.sum)
        ELSE \E a \in t.sum : shared(a) /\ Complete(c, at, out, t.sum \ {a})

\* The output is what its placement says it is.
Exact(c, at, heads, out, pl) ==
    LET ax == ToSet(out.ax)
        partial == \E i \in Args(out) : at[i] = Partial
    IN  /\ \A r \in Ranks : Fits(c, at, heads, out, r)
        /\ Complete(c, at, out, out.mix)
        /\ CASE pl = None -> FALSE
             [] pl = Replicate -> ~partial /\ Complete(c, at, out, ax \cup Summed(out))
             [] pl[1] = "shard" ->
                   /\ ~partial
                   /\ pl[2] < Len(out.ax)
                   /\ LET a == out.ax[pl[2] + 1]
                      IN  /\ Complete(c, at, out, (ax \cup Summed(out)) \ {a})
                          /\ \A r \in Ranks : Local(c, at, out, a, r) = Chunk(Extent(c, a), r)
             [] pl = Partial -> ~out.mean /\ Complete(c, at, out, ax) /\ \A t \in out.terms : AddUp(c, at, out, t)
             [] pl = PartialAvg ->
                   /\ out.mean /\ ~partial
                   /\ \A t \in out.terms : AddUp(c, at, out, t)
                   /\ \A a \in Summed(out) : \A q, r \in Ranks :
                         Cardinality(Local(c, at, out, a, q)) = Cardinality(Local(c, at, out, a, r))

\* Every output of a call on distributed tensors is what the call on the whole
\* tensors would give, laid out as its placement says: the strategy fits the
\* operator, and the handler gives the local call arguments that fit the
\* strategy (the strategies and handlers of torch_npu/distributed/tensor).
ResultExact ==
    placed # <<>> =>
        \A o \in 1..Len(call.outs) : Exact(call, placed[1].ins, placed[1].heads, call.outs[o], rule[1].outs[o])

=============================================================================
