------------------------------ MODULE Lowering ------------------------------
(***************************************************************************)
(* The lowerings of the Ascend NPU IR back end that move data              *)
(* (_inductor/ascend_npu_ir/ascend_npu_ir/npu/inductor_patch/lowering.py   *)
(* and ir.py): views, indexing, scatters, padding and concatenation.  A    *)
(* lowering does not compute anything: it builds an index expression, and  *)
(* what has to be right is which element of which input each element of    *)
(* the result reads.                                                       *)
(*                                                                         *)
(* `x` is the tensor the program has built so far.  It is either computed  *)
(* (its `lay` is empty: reads go through a loader) or realised in storage  *)
(* with a layout of strides and an offset, where views take a path of      *)
(* their own that only edits the layout.  Realize may happen between any   *)
(* two calls: the fusion heuristics decide, and must not change a value.   *)
(* `want` is what eager PyTorch returns for the same calls, defined from   *)
(* what the operator means, not from how it is lowered.                    *)
(*                                                                         *)
(* Elements are numbered; Fill is the padding constant and OutOfBounds the *)
(* result of a read outside the tensor, which no lowering may show.        *)
(***************************************************************************)
EXTENDS Integers, Sequences, FiniteSets, SequencesExt

CONSTANTS Shapes,     \* the sizes of the program's inputs
          Depth,      \* how many operators are applied in a row
          IndexDepth, \* how many of them may be indexing operators or scatters,
                      \* whose index tensors multiply the programs
          MaxNumel,   \* the largest tensor built
          MaxRank

VARIABLES x, want, depth

vars == <<x, want, depth>>

Fill == 0
OutOfBounds == -1
Other == 100   \* the elements of a second operand are Other, 2 * Other, ...

RECURSIVE Product(_), Sum(_)
Product(s) == IF s = <<>> THEN 1 ELSE Head(s) * Product(Tail(s))
Sum(s) == IF s = <<>> THEN 0 ELSE Head(s) + Sum(Tail(s))
SumOver(S, f(_)) == MapThenSumSet(f, S)
Clamp(v, lo, hi) == IF v < lo THEN lo ELSE IF v > hi THEN hi ELSE v
Dims(size) == 1..Len(size)
Set(s, d, v) == [s EXCEPT ![d] = v]

(***************************************************************************)
(* Tensors.                                                                *)
(***************************************************************************)
ContiguousStrides(size) ==
    [d \in Dims(size) |-> Product(SubSeq(size, d + 1, Len(size)))]

Unflat(size, n) ==
    LET st == ContiguousStrides(size) IN [d \in Dims(size) |-> (n \div st[d]) % size[d]]

Dot(idx, stride) == Sum([d \in DOMAIN idx |-> idx[d] * stride[d]])

Inside(size, idx) == Len(idx) = Len(size) /\ \A d \in Dims(size) : idx[d] \in 0..(size[d] - 1)

Idx(size) == {Unflat(size, n) : n \in 0..(Product(size) - 1)}

\* An element read through a loader.
Load(t, idx) ==
    IF Inside(t.size, idx) THEN t.val[Dot(idx, ContiguousStrides(t.size)) + 1]
                           ELSE OutOfBounds

Elements(size, f(_)) == [n \in 1..Product(size) |-> f(Unflat(size, n - 1))]

\* Pointwise.create and the view classes over an unrealised tensor.
Computed(size, f(_)) == [size |-> size, val |-> Elements(size, f), lay |-> <<>>]

\* ReinterpretView: storage read with a layout.
Strided(store, size, stride, offset) ==
    LET At(idx) == LET p == offset + Dot(idx, stride) + 1
                   IN IF p \in 1..Len(store) THEN store[p] ELSE OutOfBounds
    IN [size |-> size, val |-> Elements(size, At),
        lay |-> <<[store |-> store, stride |-> stride, offset |-> offset]>>]

Contiguous(t) == t.lay # <<>> => t.lay[1].stride = ContiguousStrides(t.size)
Input(size, scale) == [size |-> size, val |-> [n \in 1..Product(size) |-> scale * n], lay |-> <<>>]
Same(a, b) == a.size = b.size /\ a.val = b.val

(***************************************************************************)
(* Views.                                                                  *)
(***************************************************************************)
_validate_dim(t, dim, offset) == IF dim < 0 THEN dim + Len(t.size) + offset ELSE dim

\* handle_negative_index and SliceView.normalize_start_end.
Wrap(i, n) == IF i < 0 THEN i + n ELSE i
NormalStart(start, n) == Clamp(Wrap(start, n), 0, n)
NormalEnd(start, end, n) == Clamp(Wrap(end, n), NormalStart(start, n), n)

ExpandView(t, sizes) ==
    LET skip == Len(sizes) - Len(t.size)
        Index(idx) == [d \in Dims(t.size) |-> IF t.size[d] = 1 THEN 0 ELSE idx[d + skip]]
    IN IF t.lay # <<>>
       THEN Strided(t.lay[1].store, sizes,
                    [d \in Dims(sizes) |->
                        IF d <= skip \/ t.size[d - skip] = 1 THEN 0
                                                              ELSE t.lay[1].stride[d - skip]],
                    t.lay[1].offset)
       ELSE Computed(sizes, LAMBDA idx : Load(t, Index(idx)))

expand(t, sizes) == IF t.size = sizes THEN t ELSE ExpandView(t, sizes)

PermuteView(t, dims) ==
    LET size == [d \in Dims(t.size) |-> t.size[dims[d]]]
        Index(idx) == [d \in Dims(t.size) |-> idx[CHOOSE e \in Dims(t.size) : dims[e] = d]]
    IN IF t.lay # <<>>
       THEN Strided(t.lay[1].store, size, [d \in Dims(t.size) |-> t.lay[1].stride[dims[d]]],
                    t.lay[1].offset)
       ELSE Computed(size, LAMBDA idx : Load(t, Index(idx)))

permute(t, dims) == PermuteView(t, dims)

\* The reshape indexer of an unrealised or strided tensor goes through the
\* position in row-major order.
View(t, sizes) ==
    LET Index(idx) == Unflat(t.size, Dot(idx, ContiguousStrides(sizes)))
    IN IF t.size = sizes THEN t
       ELSE IF 0 \in {sizes[d] : d \in Dims(sizes)} THEN Computed(sizes, LAMBDA idx : Fill)
       ELSE IF t.lay # <<>> /\ Contiguous(t)
       THEN Strided(t.lay[1].store, sizes, ContiguousStrides(sizes), t.lay[1].offset)
       ELSE Computed(sizes, LAMBDA idx : Load(t, Index(idx)))

view(t, sizes) == View(t, sizes)

SliceView(t, dim, start, end, step) ==
    LET size == Set(t.size, dim, (end - start + (step - 1)) \div step)
    IN IF t.lay # <<>>
       THEN Strided(t.lay[1].store, size,
                    Set(t.lay[1].stride, dim, t.lay[1].stride[dim] * step),
                    t.lay[1].offset + t.lay[1].stride[dim] * start)
       ELSE Computed(size, LAMBDA idx : Load(t, Set(idx, dim, idx[dim] * step + start)))

slice_(t, dim, start, end, step) ==
    LET n == t.size[dim]
    IN SliceView(t, dim, NormalStart(start, n), NormalEnd(start, end, n), step)

squeeze(t, dims) ==
    LET kept == SelectSeq([d \in Dims(t.size) |-> d], LAMBDA d : ~(d \in dims /\ t.size[d] = 1))
    IN IF Len(kept) = Len(t.size) THEN t ELSE view(t, [k \in DOMAIN kept |-> t.size[kept[k]]])

\* `dim` is the code's 0-based insertion point.
unsqueeze(t, dim) == view(t, InsertAt(t.size, _validate_dim(t, dim, 1) + 1, 1))

select(t, dim, idx) ==
    LET i == Wrap(idx, t.size[dim]) IN squeeze(slice_(t, dim, i, i + 1, 1), {dim})

\* The sizes of the chunks `split` cuts when it is given a chunk size.
ChunkSizes(n, size) ==
    LET chunks == (n + size - 1) \div size
    IN [k \in 1..chunks |-> IF k = chunks THEN n - (chunks - 1) * size ELSE size]

split(t, sizes, dim) ==
    [k \in DOMAIN sizes |->
        LET start == Sum(SubSeq(sizes, 1, k - 1))
        IN SliceView(t, dim, start, start + sizes[k], 1)]

unbind(t, dim) == [i \in 1..t.size[dim] |-> select(t, dim, i - 1)]

unfold(t, dim, size, step) ==
    LET out == Append(Set(t.size, dim, (t.size[dim] - size) \div step + 1), size)
        Index(idx) == Set(SubSeq(idx, 1, Len(idx) - 1), dim, idx[Len(idx)] + idx[dim] * step)
    IN Computed(out, LAMBDA idx : Load(t, Index(idx)))

\* The dimensions other than two, in order.
Rest(t, d1, d2) == SelectSeq([d \in Dims(t.size) |-> d], LAMBDA d : d \notin {d1, d2})

DiagSize(t, offset, d1, d2) ==
    LET n == IF offset < 0 THEN <<t.size[d1] + offset, t.size[d2]>>
                           ELSE <<t.size[d1], t.size[d2] - offset>>
        least == IF n[1] < n[2] THEN n[1] ELSE n[2]
    IN IF least < 0 THEN 0 ELSE least

DiagIndex(t, offset, d1, d2, idx) ==
    LET base == IF offset < 0 THEN <<-offset, 0>> ELSE <<0, offset>>
        rest == Rest(t, d1, d2)
    IN [d \in Dims(t.size) |->
           CASE d = d1 -> idx[Len(idx)] + base[1]
             [] d = d2 -> idx[Len(idx)] + base[2]
             [] OTHER  -> idx[CHOOSE k \in DOMAIN rest : rest[k] = d]]

diagonal(t, offset, d1, d2) ==
    LET rest == Rest(t, d1, d2)
        size == Append([k \in DOMAIN rest |-> t.size[rest[k]]], DiagSize(t, offset, d1, d2))
    IN Computed(size, LAMBDA idx : Load(t, DiagIndex(t, offset, d1, d2, idx)))

broadcast_in_dim(t, shape, dims) ==
    LET added == SelectSeq([d \in Dims(shape) |-> d], LAMBDA d : d \notin dims)
    IN expand(FoldLeft(LAMBDA v, d : unsqueeze(v, d - 1), t, added), shape)

\* Which of two aligned sizes survives broadcasting.
broadcast_symbolic_shapes(a, b) ==
    LET rank == IF Len(a) > Len(b) THEN Len(a) ELSE Len(b)
        At(s, d) == LET k == d - (rank - Len(s)) IN IF k < 1 THEN 1 ELSE s[k]
    IN [d \in 1..rank |-> IF At(b, d) = 1 THEN At(a, d) ELSE At(b, d)]

repeat(t, repeats) ==
    LET old == [d \in 1..(Len(repeats) - Len(t.size)) |-> 1] \o t.size
        v == IF Len(repeats) > Len(t.size) THEN view(t, old) ELSE t
        size == [d \in DOMAIN old |-> old[d] * repeats[d]]
        Index(idx) == [d \in DOMAIN old |->
                          IF repeats[d] = 1 THEN idx[d]
                          ELSE IF old[d] = 1 THEN 0 ELSE idx[d] % old[d]]
    IN IF \A d \in DOMAIN old : repeats[d] = 1 \/ old[d] = 1
       THEN [expand(v, size) EXCEPT !.lay = <<>>]   \* clone
       ELSE Computed(size, LAMBDA idx : Load(v, Index(idx)))

(***************************************************************************)
(* Joining and padding.                                                    *)
(***************************************************************************)
pointwise_cat(ts, dim) ==
    LET Start(k) == Sum([j \in 1..(k - 1) |-> ts[j].size[dim]])
        End(k) == Start(k) + ts[k].size[dim]
        Mask(k, i) == CASE k = 1 -> i < End(k)
                        [] k > 1 /\ k = Len(ts) -> i >= Start(k)
                        [] OTHER -> i >= Start(k) /\ i < End(k)
        Pick(idx) == LET hit == {k \in DOMAIN ts : Mask(k, idx[dim])}
                         k == IF hit = {} THEN Len(ts) ELSE CHOOSE j \in hit : \A l \in hit : j <= l
                     IN Load(ts[k], Set(idx, dim, idx[dim] - Start(k)))
    IN Computed(Set(ts[1].size, dim, End(Len(ts))), Pick)

\* Fused into a pointwise kernel, or every input realised into its slice of
\* one buffer (ConcatKernel); the heuristics of the code decide by use counts.
InBuffer(r) == Strided(r.val, r.size, ContiguousStrides(r.size), 0)
cat(ts, dim, fused) ==
    IF Len(ts) = 1 THEN [ts[1] EXCEPT !.lay = <<>>]
    ELSE IF fused THEN pointwise_cat(ts, dim) ELSE InBuffer(pointwise_cat(ts, dim))

\* `pad` gives <<low, high>> for the last Len(pad) dimensions.
constant_pad_nd(t, pad) ==
    LET n == Len(t.size) - Len(pad)
        size == [d \in Dims(t.size) |-> IF d <= n THEN t.size[d]
                                        ELSE t.size[d] + pad[d - n][1] + pad[d - n][2]]
        Index(idx) == [d \in Dims(t.size) |-> IF d <= n THEN idx[d] ELSE idx[d] - pad[d - n][1]]
        Mask(j) == \A d \in (n + 1)..Len(t.size) :
                      /\ pad[d - n][1] # 0 => j[d] >= 0
                      /\ pad[d - n][2] # 0 => j[d] < t.size[d]
    IN IF \A k \in DOMAIN pad : pad[k] = <<0, 0>> THEN [t EXCEPT !.lay = <<>>]
       ELSE Computed(size, LAMBDA idx : IF Mask(Index(idx)) THEN Load(t, Index(idx)) ELSE Fill)

rev(t, dims) ==
    Computed(t.size, LAMBDA idx :
        Load(t, [d \in Dims(t.size) |-> IF d \in dims THEN t.size[d] - 1 - idx[d] ELSE idx[d]]))

resize(t, size) ==
    Computed(size, LAMBDA idx :
        LET flat == Dot(idx, ContiguousStrides(size))
        IN IF flat < Product(t.size) THEN t.val[flat + 1] ELSE Fill)

(***************************************************************************)
(* Indexing.  `indices` has an entry per leading dimension: <<>> for a     *)
(* slice or <<index tensor>>.                                              *)
(***************************************************************************)
gather(t, dim, index) ==
    Computed(index.size, LAMBDA idx :
        Load(t, Set(idx, dim, Wrap(Load(index, idx), t.size[dim]))))

embedding(weight, indices) ==
    LET n == Len(indices.size)
    IN Computed(indices.size \o Tail(weight.size), LAMBDA idx :
           Load(weight, <<Wrap(Load(indices, SubSeq(idx, 1, n)), weight.size[1])>>
                        \o SubSeq(idx, n + 1, Len(idx))))

TensorIndices(indices) == SelectSeq([d \in DOMAIN indices |-> d], LAMBDA d : indices[d] # <<>>)

\* All index tensors broadcast against one another.
check_and_broadcast_indices(indices) ==
    LET at == TensorIndices(indices)
        target == FoldLeft(LAMBDA s, d : broadcast_symbolic_shapes(s, indices[d][1].size), <<>>, at)
    IN [d \in DOMAIN indices |-> IF indices[d] = <<>> THEN <<>>
                                 ELSE <<expand(indices[d][1], target)>>]

NonConsecutive(at) == \E k \in 1..(Len(at) - 1) : at[k + 1] - at[k] # 1

OutputSize(at, tsize, kept) ==
    IF NonConsecutive(at) THEN tsize \o kept
    ELSE SubSeq(kept, 1, at[1] - 1) \o tsize \o SubSeq(kept, at[1], Len(kept))
IndexOutputSize(size, ind) ==
    LET at == TensorIndices(ind)
        sliced == SelectSeq([d \in DOMAIN ind |-> d], LAMBDA d : ind[d] = <<>>)
    IN OutputSize(at, ind[at[1]][1].size,
                  [k \in DOMAIN sliced |-> size[sliced[k]]]
                  \o SubSeq(size, Len(sliced) + Len(at) + 1, Len(size)))

\* The position of x that element idx of the output stands for.
IndexAt(size, ind, wrap, idx, last, start, rank) ==
    LET \* the next output dimension a sliced dimension takes, once past the
        \* ones of the index tensors
        Next_(d) == Cardinality({e \in 1..(d - 1) : ind[e] = <<>>}) + 1
                    + (IF d >= start THEN rank ELSE 0)
        Of(v, d) == IF wrap THEN Wrap(v, size[d]) ELSE v
    IN [d \in 1..last |-> IF ind[d] = <<>> THEN idx[Next_(d)]
                          ELSE Of(Load(ind[d][1], SubSeq(idx, start, start + rank - 1)), d)]
       \o SubSeq(idx, Cardinality({e \in 1..last : ind[e] = <<>>}) + rank + 1, Len(idx))
IndexFrom(size, ind, wrap, idx, at) ==
    IndexAt(size, ind, wrap, idx, at[Len(at)], IF NonConsecutive(at) THEN 1 ELSE at[1],
            Len(ind[at[1]][1].size))
IndexInnerFn(size, ind, wrap, idx) == IndexFrom(size, ind, wrap, idx, TensorIndices(ind))

IndexBy(t, ind) ==
    Computed(IndexOutputSize(t.size, ind),
             LAMBDA idx : Load(t, IndexInnerFn(t.size, ind, TRUE, idx)))
index_impl(t, indices) == IndexBy(t, check_and_broadcast_indices(indices))

MaskedIndexBy(t, mask, ind) ==
    Computed(IndexOutputSize(t.size, ind),
             LAMBDA idx : IF Load(mask, idx) = 1
                          THEN Load(t, IndexInnerFn(t.size, ind, FALSE, idx)) ELSE Fill)
_unsafe_masked_index(t, mask, indices) ==
    MaskedIndexBy(t, mask, check_and_broadcast_indices(indices))

(***************************************************************************)
(* Scatters.  ir.Scatter stores (or atomically adds) `src` at every index  *)
(* of a range, in an order of its own.                                     *)
(***************************************************************************)
Scatter(t, range, src(_), at(_), add) ==
    LET stores == {<<at(i), i>> : i \in Idx(range)}
        New(p) == LET hits == {s[2] : s \in {r \in stores : r[1] = p}}
                  IN IF hits = {} THEN Load(t, p)
                     ELSE IF add THEN Load(t, p) + SumOver(hits, src)
                     ELSE src(CHOOSE i \in hits : TRUE)
    IN Computed(t.size, New)

PutAt(t, ind, size, v, accumulate) ==
    Scatter(t, size, LAMBDA i : Load(v, i), LAMBDA i : IndexInnerFn(t.size, ind, TRUE, i), accumulate)
PutInto(t, ind, size, values, accumulate) == PutAt(t, ind, size, expand(values, size), accumulate)
PutBy(t, ind, values, accumulate) ==
    PutInto(t, ind, IndexOutputSize(t.size, ind), values, accumulate)
index_put_impl_(t, indices, values, accumulate) ==
    PutBy(t, check_and_broadcast_indices(indices), values, accumulate)

_unsafe_masked_index_put_accumulate(t, mask, indices, values) ==
    LET clamped == [d \in DOMAIN indices |->
                       IF indices[d] = <<>> THEN <<>>
                       ELSE <<[indices[d][1] EXCEPT !.val =
                                 [n \in DOMAIN @ |-> Clamp(@[n], -t.size[d], t.size[d] - 1)]]>>]
        masked == Computed(values.size,
                           LAMBDA i : IF Load(mask, i) = 1 THEN Load(values, i) ELSE 0)
    IN index_put_impl_(t, clamped, masked, TRUE)

scatter_reduce_(t, dim, index, src, sum, include_self) ==
    LET At(i) == Set(i, dim, Load(index, i))
        base == IF include_self THEN t
                ELSE Scatter(t, index.size, LAMBDA i : 0, At, FALSE)
    IN IF Product(index.size) = 0 THEN t
       ELSE Scatter(base, index.size, LAMBDA i : Load(src, i), At, sum)

select_scatter(t, src, dim, index) ==
    LET i == Wrap(index, t.size[dim])
        s == expand(unsqueeze(src, dim - 1), t.size)
    IN Computed(t.size, LAMBDA idx : IF idx[dim] = i THEN Load(s, idx) ELSE Load(t, idx))

slice_scatter(t, src, dim, start0, end0, step) ==
    LET n == t.size[dim]
        start == NormalStart(start0, n)
        end == NormalEnd(start0, end0, n)
        s == expand(src, Set(t.size, dim, (end - start + (step - 1)) \div step))
        Mask(i) == /\ start # 0 => i >= start
                   /\ end # n => i < end
                   /\ step # 1 => (i - start) % step = 0
    IN Computed(t.size, LAMBDA idx :
           IF start = 0 /\ end = n /\ step = 1 THEN Load(s, idx)
           ELSE IF Mask(idx[dim])
           THEN Load(s, Set(idx, dim, (idx[dim] - start) \div step)) ELSE Load(t, idx))

diagonal_scatter(t, src, offset, d1, d2) ==
    Scatter(t, src.size, LAMBDA i : Load(src, i),
            LAMBDA i : DiagIndex(t, offset, d1, d2, i), FALSE)

(***************************************************************************)
(* What the operators mean.                                                *)
(***************************************************************************)
Ref(size, f(_)) == [size |-> size, val |-> Elements(size, f)]

\* The positions a slice keeps, in order.
Kept(n, start, end, step) ==
    SelectSeq([k \in 1..n |-> k - 1],
              LAMBDA p : /\ p >= Wrap(start, n) /\ p < Wrap(end, n)
                         /\ (p - NormalStart(start, n)) % step = 0)

Along(t, dim, kept) ==
    Ref(Set(t.size, dim, Len(kept)), LAMBDA i : Load(t, Set(i, dim, kept[i[dim] + 1])))

Drop(t, dim) == [size |-> RemoveAt(t.size, dim), val |-> t.val]

\* The pairs of coordinates on a diagonal, in order.
OnDiagonal(t, offset, d1, d2) ==
    SetToSortSeq({p \in (0..(t.size[d1] - 1)) \X (0..(t.size[d2] - 1)) : p[2] - p[1] = offset},
                 LAMBDA p, q : p[1] < q[1])

Indexed(ind, d) == d \in DOMAIN ind /\ ind[d] # <<>>

\* The output dimensions of advanced indexing, named by the dimension of the
\* input or <<of the index tensors>> they come from.
OutDims(t, ind) ==
    LET at == TensorIndices(ind)
        tdims == [k \in Dims(ind[at[1]][1].size) |-> <<"index", k>>]
        sliced == SelectSeq([d \in Dims(t.size) |-> <<"slice", d>>], LAMBDA n : ~Indexed(ind, n[2]))
    IN IF \E d \in DOMAIN ind : d > at[1] /\ ~Indexed(ind, d)
       THEN tdims \o sliced
       ELSE SelectSeq(sliced, LAMBDA n : n[2] < at[1]) \o tdims
            \o SelectSeq(sliced, LAMBDA n : n[2] > at[1])

\* The input position of output element i.
IndexedAt(t, ind, out, i) ==
    LET Of(name) == i[CHOOSE k \in DOMAIN out : out[k] = name]
        at == TensorIndices(ind)
        j == [k \in Dims(ind[at[1]][1].size) |-> Of(<<"index", k>>)]
    IN [d \in Dims(t.size) |-> IF Indexed(ind, d) THEN Wrap(Load(ind[d][1], j), t.size[d])
                               ELSE Of(<<"slice", d>>)]

IndexedSize(t, ind, out) ==
    LET at == TensorIndices(ind)
    IN [k \in DOMAIN out |-> IF out[k][1] = "index" THEN ind[at[1]][1].size[out[k][2]]
                             ELSE t.size[out[k][2]]]

RefIndex(t, ind) ==
    LET out == OutDims(t, ind)
    IN Ref(IndexedSize(t, ind, out), LAMBDA i : Load(t, IndexedAt(t, ind, out, i)))

\* `t` with `src` added (or stored) at the positions `at` sends its elements to.
RefPut(t, size, src(_), at(_), add) ==
    LET sent == {<<at(i), i>> : i \in Idx(size)}
    IN Ref(t.size, LAMBDA p :
           LET hits == {s[2] : s \in {r \in sent : r[1] = p}}
           IN IF hits = {} THEN Load(t, p)
              ELSE (IF add THEN Load(t, p) ELSE 0) + SumOver(hits, src))

(***************************************************************************)
(* One action per operator.                                                *)
(***************************************************************************)
Apply(lowered, ref) ==
    /\ Product(lowered.size) <= MaxNumel /\ Len(lowered.size) <= MaxRank
    /\ x' = lowered
    /\ want' = ref
    /\ depth' = depth + 1

Rank == Len(x.size)

Reshapes(t) ==
    {s \in UNION {[1..r -> 1..MaxNumel] : r \in 0..2} : Product(s) = Product(t.size)}

Reshape == \E s \in Reshapes(x) : Apply(view(x, s), [size |-> s, val |-> want.val])

Permute ==
    \E dims \in {f \in [1..Rank -> 1..Rank] : ToSet(f) = 1..Rank} :
        Apply(permute(x, dims),
              Ref([d \in 1..Rank |-> want.size[dims[d]]],
                  LAMBDA i : Load(want, [d \in 1..Rank |-> i[CHOOSE e \in 1..Rank : dims[e] = d]])))

Slice ==
    \E dim \in 1..Rank, start \in {-2, 0, 1}, end \in {-1, 2, 9}, step \in 1..2 :
        Apply(slice_(x, dim, start, end, step),
              Along(want, dim, Kept(want.size[dim], start, end, step)))

Expand ==
    \E b \in {<<2>>, <<2, 1>>, <<2, 1, 1>>} :
        LET target == broadcast_symbolic_shapes(x.size, b)
        IN /\ \A d \in 1..Len(b) : LET k == d - (Len(b) - Rank)
                                   IN k >= 1 => x.size[k] \in {1, b[d]} \/ b[d] = 1
           /\ Apply(expand(x, target),
                    Ref(target, LAMBDA i :
                        Load(want, [d \in 1..Rank |->
                            LET k == i[d + Len(target) - Rank]
                            IN IF k < want.size[d] THEN k ELSE want.size[d] - 1])))

BroadcastInDim ==
    \E d \in 1..(Rank + 1) :
        Apply(broadcast_in_dim(x, InsertAt(x.size, d, 2), (1..(Rank + 1)) \ {d}),
              Ref(InsertAt(want.size, d, 2), LAMBDA i : Load(want, RemoveAt(i, d))))

Squeeze ==
    \E dim \in 1..Rank :
        Apply(squeeze(x, {dim}), IF want.size[dim] = 1 THEN Drop(want, dim) ELSE want)

Unsqueeze ==
    \E dim \in (-(Rank + 1))..Rank :
        Apply(unsqueeze(x, dim),
              [size |-> InsertAt(want.size, (dim % (Rank + 1)) + 1, 1), val |-> want.val])

Select ==
    \E dim \in 1..Rank, i \in -2..1 :
        /\ i < x.size[dim] /\ -i <= x.size[dim]
        /\ Apply(select(x, dim, i), Drop(Along(want, dim, <<i % want.size[dim]>>), dim))

Unbind ==
    \E dim \in 1..Rank : \E k \in 1..x.size[dim] :
        Apply(unbind(x, dim)[k], Drop(Along(want, dim, <<k - 1>>), dim))

Split ==
    \E dim \in 1..Rank, size \in 1..2 :
        /\ x.size[dim] > 0
        /\ LET pieces == split(x, ChunkSizes(x.size[dim], size), dim)
           IN \E k \in DOMAIN pieces :
                 Apply(pieces[k],
                       Along(want, dim, SelectSeq([p \in 1..want.size[dim] |-> p - 1],
                                                  LAMBDA p : p \div size = k - 1)))

Unfold ==
    \E dim \in 1..Rank, size \in 1..2, step \in 1..2 :
        /\ size <= x.size[dim]
        /\ Apply(unfold(x, dim, size, step),
                 LET windows == Cardinality({w \in 0..want.size[dim] : w * step + size <= want.size[dim]})
                 IN Ref(Append(Set(want.size, dim, windows), size),
                        LAMBDA i : Load(want, [d \in 1..Rank |->
                            IF d = dim THEN i[d] * step + i[Rank + 1] ELSE i[d]])))

Diagonal ==
    \E d1, d2 \in 1..Rank, offset \in -2..2 :
        /\ d1 # d2
        /\ Apply(diagonal(x, offset, d1, d2),
                 LET diag == OnDiagonal(want, offset, d1, d2)
                     rest == Rest(want, d1, d2)
                 IN Ref(Append([k \in DOMAIN rest |-> want.size[rest[k]]], Len(diag)),
                        LAMBDA i : Load(want, [d \in 1..Rank |->
                            CASE d = d1 -> diag[i[Len(i)] + 1][1]
                              [] d = d2 -> diag[i[Len(i)] + 1][2]
                              [] OTHER -> i[CHOOSE k \in DOMAIN rest : rest[k] = d]])))

Repeat ==
    \E extra \in 0..1 : \E repeats \in [1..(Rank + extra) -> 1..2] :
        Apply(repeat(x, repeats),
              Ref([d \in DOMAIN repeats |->
                      repeats[d] * (IF d <= extra THEN 1 ELSE want.size[d - extra])],
                  LAMBDA i : Load(want, [d \in 1..Rank |-> i[d + extra] % want.size[d]])))

Cat ==
    \E dim \in 1..Rank, n \in 1..2, fused \in BOOLEAN, first \in BOOLEAN :
        LET other == Input(Set(x.size, dim, n), Other)
            ts == IF first THEN <<x, other, x>> ELSE <<other, x>>
            refs == IF first THEN <<want, other, want>> ELSE <<other, want>>
            cut(k) == [j \in 1..refs[k].size[dim] |-> <<k, j - 1>>]
            all == FlattenSeq([k \in DOMAIN refs |-> cut(k)])
        IN Apply(cat(ts, dim, fused),
                 Ref(Set(want.size, dim, Len(all)), LAMBDA i :
                     LET p == all[i[dim] + 1] IN Load(refs[p[1]], Set(i, dim, p[2]))))

Pad ==
    \E dims \in 1..2 : \E pad \in [1..dims -> (-1..1) \X (0..1)] :
        /\ dims <= Rank
        /\ \A k \in 1..dims : x.size[Rank - dims + k] + pad[k][1] + pad[k][2] >= 0
        /\ LET Low(d) == IF d <= Rank - dims THEN 0 ELSE pad[d - (Rank - dims)][1]
               High(d) == IF d <= Rank - dims THEN 0 ELSE pad[d - (Rank - dims)][2]
           IN Apply(constant_pad_nd(x, pad),
                    Ref([d \in 1..Rank |-> want.size[d] + Low(d) + High(d)],
                        LAMBDA i : LET j == [d \in 1..Rank |-> i[d] - Low(d)]
                                   IN IF Inside(want.size, j) THEN Load(want, j) ELSE Fill))

Rev ==
    \E dims \in SUBSET (1..Rank) :
        Apply(rev(x, dims),
              Ref(want.size, LAMBDA i : Load(want, [d \in 1..Rank |->
                  IF d \in dims THEN Reverse([k \in 1..want.size[d] |-> k - 1])[i[d] + 1]
                  ELSE i[d]])))

Resize ==
    \E s \in {<<2>>, <<2, 3>>, <<5>>} :
        Apply(resize(x, s),
              [size |-> s,
               val |-> [n \in 1..Product(s) |-> IF n <= Len(want.val) THEN want.val[n] ELSE Fill]])

\* Index tensors: every content of one or two elements.
IndexTensors(size, lo, hi) ==
    {[size |-> size, val |-> v, lay |-> <<>>] : v \in [1..Product(size) -> lo..hi]}

Gather ==
    /\ \E dim \in 1..Rank : \E n \in 1..2 :
           LET size == [d \in 1..Rank |-> IF d = dim THEN n ELSE 1]
           IN /\ \A d \in 1..Rank : x.size[d] > 0
              /\ \E index \in IndexTensors(size, 0, x.size[dim] - 1) :
                    Apply(gather(x, dim, index),
                          Ref(size, LAMBDA i : Load(want, Set(i, dim, Load(index, i)))))

Embedding ==
    /\ Rank >= 1 /\ x.size[1] > 0
    /\ \E s \in {<<2>>, <<1, 2>>} : \E index \in IndexTensors(s, 0, x.size[1] - 1) :
          LET ind == << <<index>> >>
          IN Apply(embedding(x, index), RefIndex(want, ind))

\* The index lists of the advanced-indexing operators.
IndexLists(t, lo(_), hi(_)) ==
    LET pairs == {p \in (1..Len(t.size)) \X (1..Len(t.size)) : p[1] <= p[2]}
        sizes == {<<1>>, <<2>>}
    IN UNION {UNION {
         {[d \in 1..p[2] |-> CASE d = p[2] -> <<b>> [] d = p[1] -> <<a>> [] OTHER -> <<>>] :
            a \in IF p[1] = p[2] THEN {[size |-> <<>>, val |-> <<0>>, lay |-> <<>>]}
                  ELSE IndexTensors(s, lo(p[1]), hi(p[1])),
            b \in IndexTensors(<<2>>, lo(p[2]), hi(p[2]))} : s \in sizes} : p \in pairs}

Index ==
    /\ \A d \in 1..Rank : x.size[d] > 0
    /\ \E ind \in IndexLists(x, LAMBDA d : -1, LAMBDA d : x.size[d] - 1) :
          Apply(index_impl(x, ind), RefIndex(want, check_and_broadcast_indices(ind)))

\* Padding by masked reads: an index may lie outside where the mask is off.
ReadMasked(ind, b, size) ==
    LET mask == Computed(size, LAMBDA i :
                   IF \A d \in DOMAIN b : b[d] # <<>> =>
                         Load(b[d][1], <<i[1]>>) \in 0..(x.size[d] - 1)
                   THEN 1 ELSE 0)
    IN Apply(_unsafe_masked_index(x, mask, ind),
             Ref(size, LAMBDA i :
                 IF Load(mask, i) = 1 THEN Load(want, IndexedAt(want, b, OutDims(want, b), i))
                 ELSE Fill))

MaskedIndex ==
    /\ \A d \in 1..Rank : x.size[d] > 0
    /\ \E ind \in {i \in IndexLists(x, LAMBDA d : -1, LAMBDA d : x.size[d]) : Len(i) = 1} :
          LET Read(b) == ReadMasked(ind, b, IndexOutputSize(x.size, b))
          IN Read(check_and_broadcast_indices(ind))

Distinct(t, b) ==
    LET Apart(out, size) == Cardinality({IndexedAt(t, b, out, i) : i \in Idx(size)}) = Product(size)
        Under(out) == Apart(out, IndexedSize(t, b, out))
    IN Under(OutDims(t, b))

PutValues(ind, b, out, values, acc) ==
    /\ ~acc => Distinct(want, b)
    /\ Apply(index_put_impl_(x, ind, values, acc),
             RefPut(want, values.size, LAMBDA i : Load(values, i), LAMBDA i : IndexedAt(want, b, out, i), acc))

IndexPut ==
    /\ \A d \in 1..Rank : x.size[d] > 0
    /\ \E ind \in IndexLists(x, LAMBDA d : 0, LAMBDA d : x.size[d] - 1), acc \in BOOLEAN :
          LET PutOn(b, out) == PutValues(ind, b, out, Input(IndexedSize(want, b, out), Other), acc)
              Put(b) == PutOn(b, OutDims(want, b))
          IN Put(check_and_broadcast_indices(ind))

PutMasked(ind, b, values) ==
    LET In(i) == Load(b[1][1], <<i[1]>>) \in 0..(x.size[1] - 1)
        mask == Computed(values.size, LAMBDA i : IF In(i) THEN 1 ELSE 0)
    IN Apply(_unsafe_masked_index_put_accumulate(x, mask, ind, values),
             RefPut(want, values.size, LAMBDA i : IF In(i) THEN Load(values, i) ELSE 0,
                    LAMBDA i : IndexedAt(want, b, OutDims(want, b), i), TRUE))

MaskedIndexPut ==
    /\ \A d \in 1..Rank : x.size[d] > 0
    /\ \E ind \in {i \in IndexLists(x, LAMBDA d : 0, LAMBDA d : x.size[d] + 1) : Len(i) = 1} :
          LET Put(b) == PutMasked(ind, b, Input(IndexOutputSize(x.size, b), Other))
          IN Put(check_and_broadcast_indices(ind))

ScatterReduce ==
    /\ \E dim \in 1..Rank : \E n \in 1..2, sum, self \in BOOLEAN :
           LET size == [d \in 1..Rank |-> IF d = dim THEN n ELSE 1]
               src == Input(size, Other)
           IN /\ \A d \in 1..Rank : x.size[d] > 0
              /\ \E index \in IndexTensors(size, 0, x.size[dim] - 1) :
                    LET At(i) == Set(i, dim, Load(index, i))
                        Hit(p) == \E i \in Idx(size) : At(i) = p
                        base == Ref(want.size, LAMBDA p : IF Hit(p) /\ ~self THEN 0 ELSE Load(want, p))
                    IN /\ ~sum => self /\ Cardinality({At(i) : i \in Idx(size)}) = n
                       /\ Apply(scatter_reduce_(x, dim, index, src, sum, self),
                                RefPut(base, size, LAMBDA i : Load(src, i), At, sum))

SelectScatter ==
    /\ \E dim \in 1..Rank, i \in -2..1 :
           /\ i < x.size[dim] /\ -i <= x.size[dim]
           /\ LET src == Input(RemoveAt(x.size, dim), Other)
              IN Apply(select_scatter(x, src, dim, i),
                       Ref(want.size, LAMBDA p : IF p[dim] = i % want.size[dim]
                                                 THEN Load(src, RemoveAt(p, dim)) ELSE Load(want, p)))

SliceScatter ==
    /\ \E dim \in 1..Rank, start \in {-2, 0, 1}, end \in {-1, 2, 9}, step \in 1..2 :
           LET kept == Kept(want.size[dim], start, end, step)
               src == Input(Set(x.size, dim, Len(kept)), Other)
           IN Apply(slice_scatter(x, src, dim, start, end, step),
                    RefPut(want, src.size, LAMBDA i : Load(src, i),
                           LAMBDA i : Set(i, dim, kept[i[dim] + 1]), FALSE))

DiagonalScatter ==
    /\ \E d1, d2 \in 1..Rank, offset \in -1..1 :
           /\ d1 < d2
           /\ LET diag == OnDiagonal(want, offset, d1, d2)
                  rest == Rest(want, d1, d2)
                  src == Input(Append([k \in DOMAIN rest |-> x.size[rest[k]]], Len(diag)), Other)
              IN Apply(diagonal_scatter(x, src, offset, d1, d2),
                       RefPut(want, src.size, LAMBDA i : Load(src, i),
                              LAMBDA i : [d \in 1..Rank |->
                                 CASE d = d1 -> diag[i[Len(i)] + 1][1]
                                   [] d = d2 -> diag[i[Len(i)] + 1][2]
                                   [] OTHER -> i[CHOOSE k \in DOMAIN rest : rest[k] = d]], FALSE))

\* StorageBox.realize: the value so far becomes a buffer.
Realize ==
    /\ x.lay = <<>> /\ Product(x.size) > 0
    /\ x' = Strided(x.val, x.size, ContiguousStrides(x.size), 0)
    /\ UNCHANGED <<want, depth>>

Init ==
    /\ \E s \in Shapes : x = Input(s, 1) /\ want = [size |-> s, val |-> Input(s, 1).val]
    /\ depth = 0

Next ==
    \/ Realize
    \/ /\ depth < Depth
       /\ \/ Reshape \/ Permute \/ Slice \/ Expand \/ BroadcastInDim \/ Squeeze \/ Unsqueeze
          \/ Select \/ Unbind \/ Split \/ Unfold \/ Diagonal \/ Repeat
          \/ Cat \/ Pad \/ Rev \/ Resize
    \/ /\ depth < IndexDepth
       /\ \/ Gather \/ Embedding \/ Index \/ MaskedIndex
          \/ IndexPut \/ MaskedIndexPut \/ ScatterReduce
          \/ SelectScatter \/ SliceScatter \/ DiagonalScatter

Spec == Init /\ [][Next]_vars

(***************************************************************************)
(* Properties.                                                             *)
(***************************************************************************)

\* Whatever operators the program chains, and whichever of its intermediate
\* results the fusion heuristics realise in storage, the index expressions
\* the lowerings build read exactly the elements eager PyTorch would: the
\* sizes agree, the elements agree, and nothing is read out of bounds.
LoweredExact == Same(x, want)
=============================================================================
