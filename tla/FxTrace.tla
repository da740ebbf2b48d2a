------------------------------ MODULE FxTrace ------------------------------
(***************************************************************************)
(* The lowerings of the Triton back end that record what they lower        *)
(* (_inductor/lowering_fx.py and codegen/ir_fx.py).  Each lowering builds  *)
(* the same thing twice: loops for Inductor, and a node of an FX graph     *)
(* that is run instead of the kernel when the kernel does not compile, and *)
(* beside it when accuracy is checked.  The two are built by different     *)
(* code from the same arguments and have to mean the same.                 *)
(*                                                                         *)
(* A node is [ir, dt, g, gt]: the loops with their type, and what the      *)
(* recorded graph computes, with its type.  The loops reuse the index      *)
(* expressions of Lowering, which both back ends share; the graph is       *)
(* evaluated by what the recorded operator means for the recorded          *)
(* arguments.  Types are "b" < "i" < "f".                                  *)
(***************************************************************************)
EXTENDS Lowering

CONSTANTS Divergent   \* calls whose recorded node is known not to follow:
                      \* "squeeze" without a dimension, "cast" reductions with a
                      \* type of their own, "list" constants

VARIABLES types,      \* <<type of the loops, type the graph computes>> of the current tensor
          kernels     \* every buffer realised so far agreed with its graph

fxvars == <<x, want, depth, types, kernels>>

Types == <<"b", "i", "f">>
TypeRank(t) == CHOOSE k \in 1..3 : Types[k] = t
Promoted(S) == Types[CHOOSE k \in 1..3 : /\ \E t \in S : TypeRank(t) = k
                                         /\ \A t \in S : TypeRank(t) <= k]
Whole == 9      \* stands for the default end of a slice, 2^63 - 1
Width == 997   \* products are kept in a small ring
Times(a, b) == (a * b) % Width
RECURSIVE AllTimes(_)
AllTimes(s) == IF s = <<>> THEN 1 ELSE IF Len(s) = 1 THEN s[1] ELSE Times(Head(s), AllTimes(Tail(s)))

Flag(p) == IF p THEN 1 ELSE 0
Cast(v, to) == IF to = "b" THEN Flag(v # 0) ELSE v
CastAll(t, to) == [t EXCEPT !.val = [n \in DOMAIN @ |-> Cast(@[n], to)]]

Graph(t) == [size |-> t.size, val |-> t.val]
Node(ir, dt, g, gt) == [ir |-> ir, dt |-> dt, g |-> g, gt |-> gt]
Cur == Node(x, types[1], want, types[2])

\* A graph input: its node is a placeholder.
FxInput(size, dt, scale) ==
    LET t == CastAll(Input(size, scale), dt) IN Node(t, dt, Graph(t), dt)

Agree(n) == Same(n.ir, n.g) /\ n.dt = n.gt

(***************************************************************************)
(* What the recorded operators mean (ATen).                                *)
(***************************************************************************)
RefExpand(g, target) ==
    Ref(target, LAMBDA i : Load(g, [d \in Dims(g.size) |->
        LET k == i[d + Len(target) - Len(g.size)] IN IF g.size[d] = 1 THEN 0 ELSE k]))

\* The values of the operators that are recorded under a name.
Scalar(op, a, b) ==
    CASE op = "add" -> a + b
      [] op = "mul" -> Times(a, b)
      [] op = "maximum" -> IF a > b THEN a ELSE b
      [] op = "gt" -> Flag(a > b)
      [] op = "logical_and" -> Flag(a # 0 /\ b # 0)

ResultType(op, t) == IF op \in {"gt", "logical_and"} THEN "b" ELSE t

AtenPointwise(op, g, gt, h, ht) ==
    LET t == Promoted({gt, ht})
        size == broadcast_symbolic_shapes(g.size, h.size)
        a == RefExpand(CastAll(g, t), size)
        b == RefExpand(CastAll(h, t), size)
        r == ResultType(op, t)
    IN <<[size |-> size, val |-> [n \in 1..Product(size) |-> Cast(Scalar(op, a.val[n], b.val[n]), r)]], r>>

RECURSIVE Power(_, _)
Power(a, n) == IF n = 0 THEN 1 ELSE Times(a, Power(a, n - 1))

\* What a reduction makes of the elements it reduces, in order.
Reduced(kind, vals) ==
    CASE kind = "sum" -> Sum(vals)
      [] kind = "prod" -> AllTimes(vals)
      [] kind = "any" -> Flag(\E n \in DOMAIN vals : vals[n] # 0)
      [] kind = "max" -> vals[CHOOSE n \in DOMAIN vals : \A m \in DOMAIN vals : vals[m] <= vals[n]]
      [] kind = "argmax" -> (CHOOSE n \in DOMAIN vals : /\ \A m \in DOMAIN vals : vals[m] <= vals[n]
                                                        /\ \A m \in 1..(n - 1) : vals[m] < vals[n]) - 1

ReducedType(kind, t) ==
    CASE kind \in {"sum", "prod"} -> IF t = "f" THEN "f" ELSE "i"
      [] kind = "any" -> "b"
      [] kind = "max" -> t
      [] kind = "argmax" -> "i"

AtenReduce(kind, g, axes, keepdim) ==
    LET kept == SelectSeq([d \in Dims(g.size) |-> d], LAMBDA d : d \notin axes)
        full == [d \in Dims(g.size) |-> IF d \in axes THEN 1 ELSE g.size[d]]
        red == [d \in Dims(g.size) |-> IF d \in axes THEN g.size[d] ELSE 1]
        At(i) == Reduced(kind, Elements(red, LAMBDA r : Load(g, [d \in Dims(g.size) |-> i[d] + r[d]])))
        r == Ref(full, At)
    IN IF keepdim THEN r ELSE [size |-> [k \in DOMAIN kept |-> g.size[kept[k]]], val |-> r.val]

(***************************************************************************)
(* Nodes with loops (ir.Loops.create attaches the graph).                  *)
(***************************************************************************)
clone(n) == Node([n.ir EXCEPT !.lay = <<>>], n.dt, n.g, n.gt)

to_dtype(n, t) ==
    IF n.dt = t THEN n
    ELSE Node([CastAll(n.ir, t) EXCEPT !.lay = <<>>], t, CastAll(n.g, t), t)

\* The create methods of the views: the layout is edited or the index composed,
\* and the recorded node attached to the view; a view that changes nothing is x
\* itself, with the node it has.
ExpandViewCreate(n, sizes, g) == Node(ExpandView(n.ir, sizes), n.dt, g, n.gt)
PermuteViewCreate(n, dims, g) == Node(PermuteView(n.ir, dims), n.dt, g, n.gt)

ViewCreate(n, s, g) == IF n.ir.size = s THEN n ELSE Node(view(n.ir, s), n.dt, g, n.gt)

SliceViewCreate(n, dim, start, end, step, g) ==
    IF start = 0 /\ end = Whole /\ step = 1 THEN n
    ELSE Node(slice_(n.ir, dim, start, end, step), n.dt, g, n.gt)

\* expand is recorded with the sizes asked for.
fx_expand(n, sizes) ==
    IF n.ir.size = sizes THEN n ELSE ExpandViewCreate(n, sizes, RefExpand(n.g, sizes))

broadcast_tensors(a, b) ==
    LET target == broadcast_symbolic_shapes(a.ir.size, b.ir.size)
    IN <<fx_expand(a, target), fx_expand(b, target)>>

\* transform_args: the types are promoted (or all made boolean), then the sizes
\* broadcast; both are recorded as nodes of their own.
transform_args(a, b, to_bool) ==
    LET t == IF to_bool THEN "b" ELSE Promoted({a.dt, b.dt})
    IN broadcast_tensors(to_dtype(a, t), to_dtype(b, t))

\* make_pointwise: the loop applies fn (another one to booleans), the graph
\* records the operator fn stands for.
PointwiseNode(op, a, b, t, aten) ==
    LET Fn(v, w) == IF t = "b" /\ op = "add" THEN Flag(v # 0 \/ w # 0) ELSE Scalar(op, v, w)
    IN Node(Computed(a.ir.size, LAMBDA i : Fn(Load(a.ir, i), Load(b.ir, i))), t, aten[1], aten[2])
make_pointwise(op, a, b) ==
    PointwiseNode(op, a, b, ResultType(op, a.dt), AtenPointwise(op, a.g, a.gt, b.g, b.gt))

\* mul of two booleans is logical_and.
PointwiseOn(name, args) == make_pointwise(name, args[1], args[2])
PointwiseAs(name, a, b) == PointwiseOn(name, transform_args(a, b, name = "logical_and"))
register_pointwise(op, a, b) ==
    PointwiseAs(IF op = "mul" /\ a.dt = "b" /\ b.dt = "b" THEN "logical_and" ELSE op, a, b)

\* alpha multiplies the second operand first.
AddScaled(args, alpha) ==
    LET c == FxInput(args[2].ir.size, args[2].dt, 0)
        const == [c EXCEPT !.ir.val = [k \in DOMAIN @ |-> alpha], !.g.val = [k \in DOMAIN @ |-> alpha]]
    IN make_pointwise("add", args[1],
                      IF alpha = 1 THEN args[2] ELSE register_pointwise("mul", args[2], const))

add_alpha(a, b, alpha) == AddScaled(transform_args(a, b, FALSE), alpha)

WhereOn(cc, aa, bb, t, target) ==
    LET Pick(p, q, r, i) == IF Load(p, i) # 0 THEN Load(q, i) ELSE Load(r, i)
    IN Node(Computed(target, LAMBDA i : Pick(cc.ir, aa.ir, bb.ir, i)), t,
            Ref(target, LAMBDA i : Pick(cc.g, aa.g, bb.g, i)), Promoted({aa.gt, bb.gt}))
WhereLike(c, a, b, t, target) ==
    WhereOn(fx_expand(c, target), to_dtype(fx_expand(a, target), t), to_dtype(fx_expand(b, target), t),
            t, target)
where(c, a, b) ==
    WhereLike(c, a, b, Promoted({a.dt, b.dt}),
              broadcast_symbolic_shapes(c.ir.size, broadcast_symbolic_shapes(a.ir.size, b.ir.size)))

\* pow by a small integer becomes multiplications in the loop.
RECURSIVE pow_recursive(_, _)
pow_recursive(v, n) ==
    IF n = 0 THEN 1 ELSE IF n = 1 THEN v % Width
    ELSE LET half == pow_recursive(v, n \div 2)
         IN IF n % 2 = 1 THEN Times(Times(half, half), v) ELSE Times(half, half)

pow(a, n) ==
    IF n = 1 THEN clone(a)
    ELSE Node(Computed(a.ir.size, LAMBDA i : pow_recursive(Load(a.ir, i), n)), a.dt,
              Ref(a.g.size, LAMBDA i : Power(Load(a.g, i), n)), a.gt)

(***************************************************************************)
(* Reductions.                                                             *)
(***************************************************************************)
\* The kept index read as if the reduced dimensions had been dropped from it.
ReductionIndexUnkept(size, axes, keepdims, index, rindex) ==
    LET Before(d, S) == Cardinality({e \in 1..d : e \in S})
        rest == (1..Len(size)) \ axes
    IN [d \in 1..Len(size) |->
           IF d \in axes THEN rindex[Before(d, axes)] ELSE index[Before(d, rest)]]

\* _make_reduction_inner: the element of the input that index (of the result)
\* and reduction index stand for.
ReductionIndex(size, axes, keepdims, index, rindex) ==
    LET Before(d, S) == Cardinality({e \in 1..d : e \in S})
        rest == (1..Len(size)) \ axes
    IN [d \in 1..Len(size) |->
           IF d \in axes THEN rindex[Before(d, axes)]
           ELSE IF keepdims THEN index[d] ELSE index[Before(d, rest)]]

_make_reduction_inner(n, axes, keepdims) ==
    LET sizes == SelectSeq([d \in Dims(n.ir.size) |-> <<d, n.ir.size[d]>>], LAMBDA p : p[1] \in axes)
        kept == SelectSeq([d \in Dims(n.ir.size) |-> <<d, n.ir.size[d]>>], LAMBDA p : p[1] \notin axes)
    IN [ranges |-> IF keepdims THEN [d \in Dims(n.ir.size) |-> IF d \in axes THEN 1 ELSE n.ir.size[d]]
                   ELSE [k \in DOMAIN kept |-> kept[k][2]],
        rranges |-> [k \in DOMAIN sizes |-> sizes[k][2]]]

\* Reduction.create: of nothing, of one element, or of several.
ReductionCreate(kind, t, axes, keepdims, ranges, rranges) ==
    LET inner_fn(i, r) == Load(t, ReductionIndex(t.size, axes, keepdims, i, r))
        Zero(rs) == [k \in DOMAIN rs |-> 0]
        At(i) ==
            CASE Product(rranges) = 0 -> IF kind = "prod" THEN 1 ELSE 0
              [] Product(rranges) = 1 -> IF kind = "argmax" THEN 0 ELSE inner_fn(i, Zero(rranges))
              [] OTHER -> Reduced(kind, Elements(rranges, LAMBDA r : inner_fn(i, r)))
    IN Computed(ranges, At)

\* make_reduction; `as` is the type asked for, or <<>>.  The cast of the input is
\* part of the loop and not of the graph.
make_reduction(kind, n, axes, keepdims, as) ==
    LET m == IF as = <<>> THEN n ELSE to_dtype(n, as[1])
        k == _make_reduction_inner(m, axes, keepdims)
        ir == ReductionCreate(kind, m.ir, axes, keepdims, k.ranges, k.rranges)
        dt == IF kind = "argmax" THEN "i" ELSE IF as # <<>> THEN as[1] ELSE m.dt
    IN Node(ir, dt, AtenReduce(kind, n.g, axes, keepdims), ReducedType(kind, n.gt))

\* sum_ and prod of integers and booleans are of type int64.
sum_(kind, n, axes, keepdims, as) ==
    make_reduction(kind, n, axes, keepdims, IF as = <<>> /\ n.dt # "f" THEN <<"i">> ELSE as)

reduce_any(n, axes, keepdims) == make_reduction("any", to_dtype(n, "b"), axes, keepdims, <<>>)

(***************************************************************************)
(* Views.                                                                  *)
(***************************************************************************)
fx_view(n, s) == ViewCreate(n, s, [size |-> s, val |-> n.g.val])

fx_permute(n, dims) ==
    PermuteViewCreate(n, dims,
        Ref([d \in Dims(n.g.size) |-> n.g.size[dims[d]]],
            LAMBDA i : Load(n.g, [d \in Dims(n.g.size) |-> i[CHOOSE e \in Dims(n.g.size) : dims[e] = d]])))

\* slice_ records start and end as they were given; SliceView.create normalises.
fx_slice_(n, dim, start, end, step) ==
    SliceViewCreate(n, dim, start, end, step,
                    Along(n.g, dim, Kept(n.g.size[dim], start, end, step)))

\* squeeze of given dimensions is a view; without one it is a SqueezeView, which
\* has no graph of its own and shows that of what it squeezes.
fx_squeeze(n, dims) ==
    LET kept == SelectSeq([d \in Dims(n.ir.size) |-> d], LAMBDA d : ~(d \in dims /\ n.ir.size[d] = 1))
    IN fx_view(n, [k \in DOMAIN kept |-> n.ir.size[kept[k]]])

SqueezeView(n) == [fx_squeeze(n, Dims(n.ir.size)) EXCEPT !.g = n.g]

fx_unsqueeze(n, dim) == fx_view(n, InsertAt(n.ir.size, _validate_dim(n.ir, dim, 1) + 1, 1))

fx_select(n, dim, i) ==
    LET j == Wrap(i, n.ir.size[dim]) IN fx_squeeze(fx_slice_(n, dim, j, j + 1, 1), {dim})

fx_split(n, size, dim) ==
    LET sizes == ChunkSizes(n.ir.size[dim], size)
    IN [k \in DOMAIN sizes |->
           LET start == Sum(SubSeq(sizes, 1, k - 1)) IN fx_slice_(n, dim, start, start + sizes[k], 1)]

fx_repeat(n, repeats) ==
    LET extra == Len(repeats) - Len(n.g.size)
    IN Node(repeat(n.ir, repeats), n.dt,
            Ref([d \in DOMAIN repeats |-> repeats[d] * (IF d <= extra THEN 1 ELSE n.g.size[d - extra])],
                LAMBDA i : Load(n.g, [d \in Dims(n.g.size) |-> i[d + extra] % n.g.size[d]])),
            n.gt)

fx_select_scatter(n, src, dim, i) ==
    Node(select_scatter(n.ir, src.ir, dim, i), n.dt,
         Ref(n.g.size, LAMBDA p : IF p[dim] = i % n.g.size[dim]
                                  THEN Load(src.g, RemoveAt(p, dim)) ELSE Load(n.g, p)), n.gt)

fx_slice_scatter(n, src, dim, start, end, step) ==
    LET kept == Kept(n.g.size[dim], start, end, step)
    IN Node(slice_scatter(n.ir, src.ir, dim, start, end, step), n.dt,
            RefPut(n.g, src.g.size, LAMBDA i : Load(src.g, i),
                   LAMBDA i : Set(i, dim, kept[i[dim] + 1]), FALSE), n.gt)

fx_constant_pad_nd(n, pad) ==
    LET rank == Len(n.g.size)
        Low(d) == IF d <= rank - Len(pad) THEN 0 ELSE pad[d - (rank - Len(pad))][1]
        High(d) == IF d <= rank - Len(pad) THEN 0 ELSE pad[d - (rank - Len(pad))][2]
    IN Node(constant_pad_nd(n.ir, pad), n.dt,
            Ref([d \in 1..rank |-> n.g.size[d] + Low(d) + High(d)],
                LAMBDA i : LET j == [d \in 1..rank |-> i[d] - Low(d)]
                           IN IF Inside(n.g.size, j) THEN Load(n.g, j) ELSE Fill), n.gt)

\* ConcatKernel.create: every input is realised into its slice of the result; the
\* graph concatenates the inputs.
ConcatKernel(ns, dim) ==
    LET cut == FlattenSeq([k \in DOMAIN ns |-> [j \in 1..ns[k].g.size[dim] |-> <<k, j - 1>>]])
    IN Node(cat([k \in DOMAIN ns |-> ns[k].ir], dim, FALSE), ns[1].dt,
            Ref(Set(ns[1].g.size, dim, Len(cut)), LAMBDA i :
                LET p == cut[i[dim] + 1] IN Load(ns[p[1]].g, Set(i, dim, p[2]))), ns[1].gt)

(***************************************************************************)
(* Constructors.                                                           *)
(***************************************************************************)
iota(length, start, step) ==
    Node(Computed(<<length>>, LAMBDA i : step * i[1] + start), "i",
         [size |-> <<length>>, val |-> [n \in 1..length |-> start + (n - 1) * step]], "i")

_full(size, v, t) ==
    Node(Computed(size, LAMBDA i : v), t, Ref(size, LAMBDA i : v), t)

\* A short list is inlined as a binary search over the index; the graph records
\* scalar_tensor, which takes one element.
RECURSIVE BinarySearch(_, _, _, _)
BinarySearch(data, i, start, end) ==
    IF end - start = 1 THEN data[start + 1]
    ELSE LET mid == (end - start) \div 2 + start
         IN IF i < mid THEN BinarySearch(data, i, start, mid) ELSE BinarySearch(data, i, mid, end)

tensor(data) ==
    IF Len(data) = 1
    THEN Node(Computed(<<>>, LAMBDA i : data[1]), "i", [size |-> <<>>, val |-> data], "i")
    ELSE Node(Computed(<<Len(data)>>, LAMBDA i : BinarySearch(data, i[1], 0, Len(data))), "i",
              [size |-> <<>>, val |-> <<data[1]>>], "i")

(***************************************************************************)
(* Mutation.                                                               *)
(***************************************************************************)
\* mutate_to: a view is copied first; then the tensor's data is swung to it.
mutate_to(changed, val) ==
    Node([val.ir EXCEPT !.lay = <<>>], changed.dt, CastAll(RefExpand(val.g, changed.g.size), changed.gt), changed.gt)

\* register_inplace: the operator out of place, cast back, and copied.
register_inplace(op, a, b) == mutate_to(a, to_dtype(register_pointwise(op, a, b), a.dt))

copy_(dst, src) == mutate_to(dst, fx_expand(to_dtype(src, dst.dt), dst.ir.size))

(***************************************************************************)
(* Actions.                                                                *)
(***************************************************************************)
Lower(n) ==
    /\ Product(n.ir.size) <= MaxNumel /\ Len(n.ir.size) <= MaxRank
    /\ x' = n.ir /\ want' = n.g /\ types' = <<n.dt, n.gt>>
    /\ depth' = depth + 1
    /\ UNCHANGED kernels

Fits(a, b) ==
    LET m == IF Len(a) < Len(b) THEN Len(a) ELSE Len(b)
    IN \A k \in 0..(m - 1) : \/ a[Len(a) - k] = b[Len(b) - k]
                             \/ 1 \in {a[Len(a) - k], b[Len(b) - k]}

Operands == {FxInput(<<>>, "f", -1)} \cup {FxInput(<<2, 1>>, t, -1) : t \in {"b", "i", "f"}}

PointwiseStep ==
    \E op \in {"add", "mul", "maximum", "gt", "logical_and"}, o \in Operands :
        /\ Fits(x.size, o.ir.size)
        /\ Lower(register_pointwise(op, Cur, o))

AddAlpha == \E o \in Operands : Fits(x.size, o.ir.size) /\ Lower(add_alpha(Cur, o, 2))

Where ==
    \E o \in Operands, t \in {"b", "f"} :
        LET p == FxInput(<<3>>, t, 2)
        IN /\ Fits(x.size, o.ir.size) /\ Fits(x.size, p.ir.size) /\ Fits(o.ir.size, p.ir.size)
           /\ Lower(where(to_dtype(Cur, "b"), o, p))

Convert == \E t \in {"b", "i", "f"} : t # types[1] /\ Lower(to_dtype(Cur, t))

Pow == \E n \in 0..5 : types[1] # "b" /\ Lower(pow(Cur, n))

Nonempty(axes) == \A d \in axes : x.size[d] > 0

Reduce ==
    \E axes \in SUBSET (1..Rank), keepdims \in BOOLEAN :
        /\ axes # {} \/ Rank = 0
        /\ \/ \E as \in {<<>>, <<"f">>} :
                 /\ as # <<>> /\ types[1] # "f" => "cast" \in Divergent
                 /\ Lower(sum_("sum", Cur, axes, keepdims, as))
           \/ Cardinality(axes) = 1 /\ Lower(sum_("prod", Cur, axes, keepdims, <<>>))
           \/ Lower(reduce_any(Cur, axes, keepdims))
           \/ Nonempty(axes) /\ Lower(make_reduction("max", Cur, axes, keepdims, <<>>))
           \/ /\ Nonempty(axes) /\ Cardinality(axes) = 1
              /\ Lower(make_reduction("argmax", Cur, axes, keepdims, <<>>))

ViewStep ==
    \/ \E s \in Reshapes(x) : Lower(fx_view(Cur, s))
    \/ \E dims \in {f \in [1..Rank -> 1..Rank] : ToSet(f) = 1..Rank} : Lower(fx_permute(Cur, dims))
    \/ \E b \in {<<2>>, <<2, 1>>} : Fits(x.size, b) /\ Lower(fx_expand(Cur, broadcast_symbolic_shapes(x.size, b)))
    \/ \E dim \in (-(Rank + 1))..Rank : Lower(fx_unsqueeze(Cur, dim))
    \/ \E repeats \in [1..Rank -> 1..2] : Lower(fx_repeat(Cur, repeats))
    \/ \E bare \in BOOLEAN :
          /\ bare => "squeeze" \in Divergent
          /\ Lower(IF bare THEN SqueezeView(Cur) ELSE fx_squeeze(Cur, 1..Rank))

DimStep ==
    \E dim \in 1..Rank :
        \/ \E start \in {-2, 0, 1}, end \in {-1, 2, Whole}, step \in 1..2 :
              \/ Lower(fx_slice_(Cur, dim, start, end, step))
              \/ LET n == Len(Kept(x.size[dim], start, end, step))
                 IN Lower(fx_slice_scatter(Cur, FxInput(Set(x.size, dim, n), types[1], Other),
                                           dim, start, end, step))
        \/ Lower(fx_squeeze(Cur, {dim}))
        \/ \E i \in -2..1 :
              /\ i < x.size[dim] /\ -i <= x.size[dim]
              /\ \/ Lower(fx_select(Cur, dim, i))
                 \/ Lower(fx_select_scatter(Cur, FxInput(RemoveAt(x.size, dim), types[1], Other), dim, i))
        \/ x.size[dim] > 0 /\ \E s \in 1..2 : \E k \in DOMAIN ChunkSizes(x.size[dim], s) :
              Lower(fx_split(Cur, s, dim)[k])
        \/ \E n \in 1..2 : Lower(ConcatKernel(<<Cur, FxInput(Set(x.size, dim, n), types[1], Other)>>, dim))
        \/ \E lo \in -1..1, hi \in 0..1 :
              /\ dim = Rank /\ x.size[dim] + lo + hi >= 0
              /\ Lower(fx_constant_pad_nd(Cur, << <<lo, hi>> >>))

Construct ==
    \/ \E n \in 0..3, start \in 0..1, step \in {-1, 2} : Lower(iota(n, start, step))
    \/ \E v \in 0..1, t \in {"b", "f"} : Lower(_full(<<2>>, v, t))
    \/ \E data \in {<<5>>, <<5, 7, 9>>} :
          /\ Len(data) > 1 => "list" \in Divergent
          /\ Lower(tensor(data))

Mutate ==
    \E o \in Operands :
        /\ Fits(x.size, o.ir.size) /\ broadcast_symbolic_shapes(x.size, o.ir.size) = x.size
        /\ \/ Lower(copy_(Cur, o))
           \/ Lower(register_inplace("add", Cur, o))

\* StorageBox.realize: the graph so far is the kernel's; what reads the buffer
\* records a placeholder.
FxRealize ==
    /\ x.lay = <<>> /\ Product(x.size) > 0
    /\ x' = Strided(x.val, x.size, ContiguousStrides(x.size), 0)
    /\ kernels' = (kernels /\ Agree(Cur))
    /\ want' = Graph(x) /\ types' = <<types[1], types[1]>>
    /\ UNCHANGED depth

FxInit ==
    /\ \E s \in Shapes, t \in {"b", "i", "f"} :
          LET n == FxInput(s, t, 1) IN x = n.ir /\ want = n.g /\ types = <<t, t>>
    /\ depth = 0 /\ kernels = TRUE

FxNext ==
    \/ FxRealize
    \/ /\ depth < Depth
       /\ \/ PointwiseStep \/ AddAlpha \/ Where \/ Convert \/ Pow \/ Reduce
          \/ ViewStep \/ DimStep \/ Construct \/ Mutate

FxSpec == FxInit /\ [][FxNext]_fxvars

(***************************************************************************)
(* Properties.                                                             *)
(***************************************************************************)

\* Whatever operators are chained and wherever the fusion heuristics cut the
\* program into kernels, the graph recorded beside a kernel computes what the
\* kernel's loops compute: sizes, elements and type, so that falling back to
\* the graph, or comparing with it, is sound (lowering_fx.py, ir_fx.py).
TracesAgree == kernels /\ Agree(Cur)

=============================================================================
