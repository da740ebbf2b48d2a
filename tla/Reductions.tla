----------------------------- MODULE Reductions -----------------------------
(***************************************************************************)
(* The lowerings of the Ascend NPU IR back end that compute                *)
(* (_inductor/ascend_npu_ir/ascend_npu_ir/npu/inductor_patch/lowering.py   *)
(* and Reduction.create in ir.py): type promotion, reductions, means and   *)
(* variances, powers, scans, sorting, searching, quantisation, copies.     *)
(*                                                                         *)
(* As in TracedGraph a lowering builds two things, loops and a recorded    *)
(* node of a graph.  A node here is [ir, g, lazy]: the tensor the loops    *)
(* compute, the tensor the recorded graph computes, and whether it is an   *)
(* unrealised loop; a lowering that records nothing leaves a placeholder,  *)
(* whose graph is the tensor itself.  `eager` is what PyTorch returns for  *)
(* the same calls.  Elements are rationals <<p, q>>; q = 0 is an infinity  *)
(* or not a number.  Half precision is rounding to quarters, done where a  *)
(* tensor of that type is made: fused half arithmetic keeps more.          *)
(***************************************************************************)
EXTENDS Integers, FiniteSets, SequencesExt

CONSTANTS Inputs,   \* <<size, type>> of the program's inputs
          Depth,    \* how many lowerings are chained
          Flawed    \* calls known to fail: "unit" loops reduced over dimensions of
                    \* size one, "unsorted" and "mixed" lists of axes, "int" axes

VARIABLES nodes, eager, calls

vars == <<nodes, eager, calls>>

(***************************************************************************)
(* Numbers.                                                                *)
(***************************************************************************)
RECURSIVE Gcd(_, _)
Gcd(a, b) == IF b = 0 THEN a ELSE Gcd(b, a % b)
Abs(a) == IF a < 0 THEN -a ELSE a
Sign(a) == IF a = 0 THEN 0 ELSE IF a < 0 THEN -1 ELSE 1

Norm(p, q) ==
    IF q = 0 THEN <<Sign(p), 0>>
    ELSE LET g == Gcd(Abs(p), Abs(q)) IN <<(Sign(q) * p) \div g, Abs(q) \div g>>

Q(n) == <<n, 1>>
Add(a, b) == Norm(a[1] * b[2] + b[1] * a[2], a[2] * b[2])
Neg(a) == <<-a[1], a[2]>>
Mul(a, b) == Norm(a[1] * b[1], a[2] * b[2])
Div(a, b) == Norm(a[1] * b[2], a[2] * b[1])
Less(a, b) == a[1] * b[2] < b[1] * a[2]
Larger(a, b) == IF Less(a, b) THEN b ELSE a
Smaller(a, b) == IF Less(b, a) THEN b ELSE a
Flag(p) == IF p THEN Q(1) ELSE Q(0)
Trunc(v) == Sign(v[1]) * (Abs(v[1]) \div v[2])
\* ops.round: to the nearest integer, ties to even.
Round(v) ==
    LET f == v[1] \div v[2]
        twice == 2 * (v[1] - f * v[2])
    IN Q(IF twice < v[2] \/ (twice = v[2] /\ f % 2 = 0) THEN f ELSE f + 1)

Types == <<"bool", "int32", "int64", "half", "float">>
Place(t) == CHOOSE k \in DOMAIN Types : Types[k] = t
IsFloat(t) == t \in {"half", "float"}

To(v, t) ==
    CASE t = "bool" -> Flag(v # Q(0))
      [] t \in {"int32", "int64"} -> IF v[2] = 0 THEN Q(0) ELSE Q(Trunc(v))
      [] t = "half" -> IF v[2] = 0 THEN v ELSE Norm((8 * v[1] + v[2]) \div (2 * v[2]), 4)
      [] t = "float" -> v

(***************************************************************************)
(* Tensors.                                                                *)
(***************************************************************************)
RECURSIVE Product(_)
Product(s) == IF s = <<>> THEN 1 ELSE Head(s) * Product(Tail(s))
Stride(size) == [d \in DOMAIN size |-> Product(SubSeq(size, d + 1, Len(size)))]
Unflat(size, n) == LET st == Stride(size) IN [d \in DOMAIN size |-> (n \div st[d]) % size[d]]
RECURSIVE Dot(_, _)
Dot(a, b) == IF a = <<>> \/ b = <<>> THEN 0 ELSE Head(a) * Head(b) + Dot(Tail(a), Tail(b))
Load(t, i) == t.val[Dot(i, Stride(t.size)) + 1]
Elements(size, F(_)) == [n \in 1..Product(size) |-> F(Unflat(size, n - 1))]
T(size, dt, F(_)) == [size |-> size, dt |-> dt, val |-> Elements(size, LAMBDA i : To(F(i), dt))]

Failed == [size |-> <<>>, dt |-> "error", val |-> <<>>]
Input(size, dt) == T(size, dt, LAMBDA i : Q(((3 * (Dot(i, Stride(size)) + 1)) % 5) - 2))

Node(ir, g, lazy) == [ir |-> ir, g |-> g, lazy |-> lazy]
Buffer(t) == Node(t, t, FALSE)
Loop(ir, g) == Node(ir, g, TRUE)
Broken == Buffer(Failed)

(***************************************************************************)
(* What the operators mean (ATen).                                         *)
(***************************************************************************)
Promote(S) == Types[CHOOSE k \in DOMAIN Types : /\ \E t \in S : Place(t) = k
                                                /\ \A t \in S : Place(t) <= k]

\* torch.result_type over <<type, priority>>: tensors with dimensions (3) win over
\* those without (2) and over numbers (1), unless the others are of a higher kind.
ResultType(args) ==
    LET At(k) == {a[1] : a \in {b \in args : b[2] = k}}
        Both(hi, lo) == IF lo = {} THEN hi ELSE IF hi = {} THEN {Promote(lo)}
                        ELSE LET h == Promote(hi)
                                 l == Promote(lo)
                             IN IF ~IsFloat(h) /\ (h = "bool" \/ IsFloat(l)) THEN {Promote({h, l})} ELSE {h}
    IN Promote(Both(Both(At(3), At(2)), At(1)))

\* A Python number is a tensor of type "int" or "real".
Number(v, dt) == [size |-> <<>>, dt |-> dt, val |-> <<v>>]
IsNumber(t) == t.dt \in {"int", "real"}
ArgType(t) == CASE t.dt = "int" -> <<"int64", 1>>
                [] t.dt = "real" -> <<"float", 1>>
                [] OTHER -> <<t.dt, IF t.size = <<>> THEN 2 ELSE 3>>

AtenTo(t, dt) == IF t.dt = "error" THEN t ELSE [t EXCEPT !.dt = dt, !.val = [n \in DOMAIN @ |-> To(@[n], dt)]]

BroadcastSize(a, b) ==
    LET n == IF Len(a) > Len(b) THEN Len(a) ELSE Len(b)
        At(s, k) == IF k > n - Len(s) THEN s[k - (n - Len(s))] ELSE 1
    IN [k \in 1..n |-> IF At(a, k) = 1 THEN At(b, k) ELSE At(a, k)]

AtenExpand(t, size) ==
    LET skip == Len(size) - Len(t.size)
    IN T(size, t.dt, LAMBDA i : Load(t, [d \in DOMAIN t.size |-> IF t.size[d] = 1 THEN 0 ELSE i[d + skip]]))

Scalar(op, v, w) ==
    CASE op = "add" -> Add(v, w)
      [] op = "sub" -> Add(v, Neg(w))
      [] op = "mul" -> Mul(v, w)
      [] op = "div" -> Div(v, w)
      [] op = "and" -> Flag(v # Q(0) /\ w # Q(0))
      [] op = "or" -> Flag(v # Q(0) \/ w # Q(0))

Elementwise(op, dt, a, b) == T(a.size, dt, LAMBDA i : Scalar(op, Load(a, i), Load(b, i)))
Broadcast2(op, dt, size, s, t) == Elementwise(op, dt, AtenExpand(AtenTo(s, dt), size), AtenExpand(AtenTo(t, dt), size))
DivType(op, dt) == IF op = "div" /\ ~IsFloat(dt) THEN "float" ELSE dt

AtenBinary(op, s, t) ==
    Broadcast2(op, DivType(op, ResultType({ArgType(s), ArgType(t)})), BroadcastSize(s.size, t.size), s, t)

RECURSIVE Power(_, _)
Power(v, n) == IF n = 0 THEN Q(1) ELSE IF n < 0 THEN Div(Q(1), Power(v, -n)) ELSE Mul(v, Power(v, n - 1))

AtenPow(t, e) ==
    LET dt == ResultType({ArgType(t), ArgType(e)})
    IN T(t.size, dt, LAMBDA i : Power(Load(t, i), e.val[1][1]))

Chosen(dt, k, a, b) == T(k.size, dt, LAMBDA i : IF Load(k, i) # Q(0) THEN Load(a, i) ELSE Load(b, i))
Broadcast3(dt, size, c, s, t) ==
    Chosen(dt, AtenExpand(c, size), AtenExpand(AtenTo(s, dt), size), AtenExpand(AtenTo(t, dt), size))

AtenWhere(c, s, t) ==
    Broadcast3(ResultType({ArgType(s), ArgType(t)}), BroadcastSize(BroadcastSize(c.size, s.size), t.size), c, s, t)

RECURSIVE Fold(_, _)
Fold(op, vals) == IF Len(vals) = 1 THEN vals[1] ELSE Scalar(op, Head(vals), Fold(op, Tail(vals)))
First(vals, Better(_, _)) ==
    CHOOSE n \in DOMAIN vals : /\ \A m \in DOMAIN vals : ~Better(vals[m], vals[n])
                               /\ \A m \in 1..(n - 1) : Better(vals[n], vals[m])
More(v, w) == Less(w, v)

Reduced(kind, vals) ==
    CASE kind = "sum" -> IF vals = <<>> THEN Q(0) ELSE Fold("add", vals)
      [] kind = "prod" -> IF vals = <<>> THEN Q(1) ELSE Fold("mul", vals)
      [] kind = "any" -> Flag(\E n \in DOMAIN vals : vals[n] # Q(0))
      [] kind = "max" -> vals[First(vals, More)]
      [] kind = "min" -> vals[First(vals, Less)]
      [] kind = "argmax" -> Q(First(vals, More) - 1)
      [] kind = "argmin" -> Q(First(vals, Less) - 1)

ReducedType(kind, dt) ==
    CASE kind \in {"sum", "prod"} -> IF IsFloat(dt) THEN dt ELSE "int64"
      [] kind = "any" -> "bool"
      [] kind \in {"argmax", "argmin"} -> "int64"
      [] OTHER -> dt

\* Reduction over a set of dimensions, counted from 1.
AtenReduce(kind, t, D, keepdim) ==
    LET cut == [d \in DOMAIN t.size |-> IF d \in D THEN 1 ELSE t.size[d]]
        red == [d \in DOMAIN t.size |-> IF d \in D THEN t.size[d] ELSE 1]
        kept == SelectSeq([d \in DOMAIN t.size |-> d], LAMBDA d : d \notin D)
        Cut(r) == IF keepdim THEN r ELSE [r EXCEPT !.size = [k \in DOMAIN kept |-> t.size[kept[k]]]]
    IN Cut(T(cut, ReducedType(kind, t.dt),
             LAMBDA i : Reduced(kind, Elements(red, LAMBDA j : Load(t, [d \in DOMAIN i |-> i[d] + j[d]])))))

Count(t, D) == Product([d \in DOMAIN t.size |-> IF d \in D THEN t.size[d] ELSE 1])

Divided(s, dt, n) == T(s.size, dt, LAMBDA i : Div(Load(s, i), Q(n)))

AtenMean(t, D, keepdim) == Divided(AtenReduce("sum", AtenTo(t, "float"), D, keepdim), t.dt, Count(t, D))

AtenSquare(t) == AtenBinary("mul", t, t)

AtenVar(t, D, correction, keepdim) ==
    LET x == AtenTo(t, "float")
        n == Count(t, D) - correction
    IN Divided(AtenReduce("sum", AtenSquare(AtenBinary("sub", x, AtenMean(x, D, TRUE))), D, keepdim),
               t.dt, IF n < 0 THEN 0 ELSE n)

\* Along dimension d, the elements up to and including the one at i.
Upto(t, i, d) == IF i = <<>> THEN t.val ELSE [k \in 1..(i[d] + 1) |-> Load(t, [i EXCEPT ![d] = k - 1])]
Last_(vals, Better(_, _)) ==
    CHOOSE n \in DOMAIN vals : /\ \A m \in DOMAIN vals : ~Better(vals[m], vals[n])
                               /\ \A m \in (n + 1)..Len(vals) : Better(vals[n], vals[m])

Scanned(op, vals) ==
    CASE op \in {"add", "mul"} -> Fold(op, vals)
      [] op = "vmax" -> Reduced("max", vals)
      [] op = "vmin" -> Reduced("min", vals)
      [] op = "imax" -> Q(Last_(vals, More) - 1)
      [] op = "imin" -> Q(Last_(vals, Less) - 1)

AtenScan(op, t, d) ==
    LET dt == IF op \in {"add", "mul"} /\ ~IsFloat(t.dt) THEN "int64" ELSE t.dt
    IN T(t.size, IF op \in {"imax", "imin"} THEN "int64" ELSE dt,
         LAMBDA i : Scanned(op, Upto(t, i, d)))

\* The position each element of a row takes when the row is sorted, ties in order.
Order(row, descending) ==
    LET Before(n, m) == LET lt == IF descending THEN Less(row[m], row[n]) ELSE Less(row[n], row[m])
                        IN lt \/ (row[n] = row[m] /\ n < m)
    IN [k \in DOMAIN row |-> CHOOSE n \in DOMAIN row : Cardinality({m \in DOMAIN row : Before(m, n)}) = k - 1]

Row(t, i, d) == IF i = <<>> THEN t.val ELSE [k \in 1..t.size[d] |-> Load(t, [i EXCEPT ![d] = k - 1])]

AtenSort(t, d, descending, indices) ==
    T(t.size, IF indices THEN "int64" ELSE t.dt,
      LAMBDA i : LET row == Row(t, i, d)
                     n == Order(row, descending)[IF i = <<>> THEN 1 ELSE i[d] + 1]
                 IN IF indices THEN Q(n - 1) ELSE row[n])

\* How many elements of a sorted row lie before v.
Rank(row, v, right) == Cardinality({n \in DOMAIN row : Less(row[n], v) \/ (right /\ row[n] = v)})

Reshape(t, size) == IF Product(size) # Product(t.size) THEN Failed ELSE [t EXCEPT !.size = size]

\* The dimensions a list of axes names, counted from 1; no axis names all.
Dims(axis, rank) == IF axis = <<>> THEN 1..rank
                    ELSE {(IF axis[k] < 0 THEN axis[k] + rank ELSE axis[k]) + 1 : k \in DOMAIN axis}

(***************************************************************************)
(* Promotion and pointwise lowerings.                                      *)
(***************************************************************************)
to_dtype(n, dt) == IF n.ir.dt = dt THEN n ELSE Loop(AtenTo(n.ir, dt), AtenTo(n.g, dt))

clone(n) == Loop(n.ir, n.g)

\* prims.convert_element_type and the npu_dtype_cast operators always copy.
_convert_element_type(n, dt) == IF n.ir.dt = dt THEN clone(n) ELSE to_dtype(n, dt)

get_promoted_dtype(args, intToFloat) ==
    LET dt == ResultType({ArgType(a.ir) : a \in args})
    IN IF intToFloat /\ ~IsFloat(dt) THEN "float" ELSE dt

expand(n, size) == IF n.ir.size = size THEN n ELSE Loop(AtenExpand(n.ir, size), AtenExpand(n.g, size))

RECURSIVE CommonSize(_)
CommonSize(ns) == IF ns = <<>> THEN <<>> ELSE BroadcastSize(Head(ns).ir.size, CommonSize(Tail(ns)))

\* A tensor is expanded where its rank differs from the target's, or where just one
\* of its size and the target's is one.
ExpandEach(ns, target) ==
    LET Differs(size) == \/ Len(size) # Len(target)
                         \/ \E d \in DOMAIN size : (size[d] = 1) # (target[d] = 1)
    IN [k \in DOMAIN ns |-> IF Differs(ns[k].ir.size) THEN expand(ns[k], target) ELSE ns[k]]

broadcast_tensors(ns) == ExpandEach(ns, CommonSize(ns))

\* Tensors are cast to the promoted type and broadcast; numbers stay as they are.
WideArgs(args, dt) ==
    LET at == SelectSeq([k \in DOMAIN args |-> k], LAMBDA k : ~IsNumber(args[k].ir))
        Each(wide) == [k \in DOMAIN args |-> IF IsNumber(args[k].ir) THEN args[k]
                                             ELSE wide[CHOOSE j \in DOMAIN at : at[j] = k]]
    IN Each(broadcast_tensors([j \in DOMAIN at |-> to_dtype(args[at[j]], dt)]))

transform_args(args, intToFloat) == WideArgs(args, get_promoted_dtype(ToSet(args), intToFloat))

\* A number becomes a constant of the first tensor's type and size; the graph keeps
\* the number.
promote_constants(args) ==
    LET ex == args[CHOOSE k \in DOMAIN args : /\ ~IsNumber(args[k].ir)
                                               /\ \A j \in 1..(k - 1) : IsNumber(args[j].ir)].ir
    IN [k \in DOMAIN args |->
            IF IsNumber(args[k].ir) THEN Node(T(ex.size, ex.dt, LAMBDA i : args[k].ir.val[1]), args[k].g, FALSE)
            ELSE args[k]]

\* register_pointwise: transform_args, then the loop; booleans have an operation of
\* their own.  A second operand may be multiplied by alpha first.
PointwiseLoop(op, in) ==
    LET of == IF in[1].ir.dt = "bool" /\ op = "add" THEN "or"
              ELSE IF in[1].ir.dt = "bool" /\ op = "mul" THEN "and" ELSE op
    IN Loop(Elementwise(of, in[1].ir.dt, in[1].ir, in[2].ir), AtenBinary(op, in[1].g, in[2].g))

PointwiseOf(op, args) == PointwiseLoop(op, promote_constants(args))

mul(a, b) == PointwiseOf("mul", transform_args(<<a, b>>, FALSE))

WithAlpha(op, in, alpha) ==
    PointwiseOf(op, IF alpha = 1 THEN in ELSE <<in[1], mul(in[2], Buffer(Number(Q(alpha), "int")))>>)

pointwise(op, a, b) == PointwiseOf(op, promote_constants(transform_args(<<a, b>>, FALSE)))
register_pointwise(op, a, b, alpha) ==
    WithAlpha(op, promote_constants(transform_args(<<a, b>>, FALSE)), alpha)

div_prim(a, b) == PointwiseOf("div", <<a, b>>)
div_in(in) == div_prim(in[1], in[2])
div(a, b) == div_in(promote_constants(transform_args(<<a, b>>, TRUE)))

AtenDivMode(mode, s, t) ==
    LET Whole(v) == IF v[2] = 0 THEN v ELSE Q(IF mode = "floor" THEN v[1] \div v[2] ELSE Trunc(v))
        Wholes(q) == T(q.size, ResultType({ArgType(s), ArgType(t)}), LAMBDA i : Whole(Load(q, i)))
    IN Wholes(AtenBinary("div", s, t))

\* Both rounding modes are left to ATen.
div_by(in, mode) ==
    IF mode = "none" THEN div(in[1], in[2]) ELSE Buffer(AtenDivMode(mode, in[1].ir, in[2].ir))
div_mode(a, b, mode) == div_by(transform_args(<<a, b>>, FALSE), mode)

reciprocal(a) == div(Buffer(Number(Q(1), "real")), a)

\* A number takes the other branch's type before the two are promoted.
Like(x, y) == IF IsNumber(x.ir) THEN LET all == T(y.ir.size, y.ir.dt, LAMBDA i : x.ir.val[1])
                                     IN Loop(all, all) ELSE x

where_of(c, x, y) == Loop(Chosen(x.ir.dt, c.ir, x.ir, y.ir), AtenWhere(c.g, x.g, y.g))
where_wide(w, dt) == where_of(w[1], to_dtype(w[2], dt), to_dtype(w[3], dt))
where_like(c, s, t) == where_wide(broadcast_tensors(<<c, s, t>>), get_promoted_dtype({s, t}, FALSE))

where(c, a, b) == LET s == Like(a, b) IN where_like(c, s, Like(b, s))

RECURSIVE pow_recursive(_, _)
pow_recursive(v, n) ==
    IF n < 0 THEN pow_recursive(Div(Q(1), v), -n)
    ELSE IF n = 0 THEN Q(1)
    ELSE IF n = 1 THEN v
    ELSE LET half == pow_recursive(v, n \div 2)
             even == Mul(half, half)
         IN IF n % 2 = 1 THEN Mul(even, v) ELSE even

\* Powers with a whole number for exponent; a float exponent has promoted the tensor.
pow(a, e) ==
    LET n == e.ir.val[1][1]
        Of(x) == IF n = 1 THEN clone(x)
                 ELSE Loop(T(x.ir.size, x.ir.dt, LAMBDA i : pow_recursive(Load(x.ir, i), n)),
                           AtenPow(x.g, Number(Q(n), "int")))
    IN Of(transform_args(<<a, e>>, FALSE)[1])

(***************************************************************************)
(* Reductions.                                                             *)
(***************************************************************************)
\* The axes as non-negative numbers, or <<-1>> when an assertion fails.
_validate_reduction_axis(size, axis) ==
    LET n == Len(size)
        all == IF axis = <<>> THEN [k \in 1..n |-> k - 1] ELSE axis
        up == [k \in DOMAIN all |-> IF all[k] < 0 THEN all[k] + n ELSE all[k]]
    IN IF n = 0 THEN IF all \in {<<>>, <<0>>, <<-1>>} THEN <<>> ELSE <<-1>>
       ELSE IF /\ \A k \in DOMAIN up : 0 <= up[k] /\ up[k] < n
               /\ IsInjective(up)
            THEN up ELSE <<-1>>

\* The loop of a reduction: kept sizes, reduced sizes, and the loader that puts a
\* kept and a reduced index together again.
_make_reduction_inner(t, axis, keepdims) ==
    LET at == [d \in DOMAIN t.size |-> d]
        kept == SelectSeq(at, LAMBDA d : d - 1 \notin ToSet(axis))
        red == SelectSeq(at, LAMBDA d : d - 1 \in ToSet(axis))
        Put(i, j) == LET k == IF keepdims THEN [n \in DOMAIN kept |-> i[kept[n]]] ELSE i
                     IN [d \in DOMAIN t.size |->
                            IF \E n \in DOMAIN kept : kept[n] = d THEN k[CHOOSE n \in DOMAIN kept : kept[n] = d]
                            ELSE j[CHOOSE n \in DOMAIN red : red[n] = d]]
        ranges == IF keepdims THEN [d \in DOMAIN t.size |-> IF d - 1 \in ToSet(axis) THEN 1 ELSE t.size[d]]
                  ELSE [n \in DOMAIN kept |-> t.size[kept[n]]]
        redRanges == [n \in DOMAIN red |-> t.size[red[n]]]
    IN [ranges |-> ranges, redRanges |-> redRanges,
        loads |-> [i \in {Unflat(ranges, n) : n \in 0..(Product(ranges) - 1)} |->
                      Elements(redRanges, LAMBDA j : Load(t, Put(i, j)))]]

\* Reduction.create: constants over nothing, a pointwise loop over one element or a
\* few, a reduction that is realised otherwise.
UnrollThreshold == 8
ReductionCreate(kind, src, dst, inner, g) ==
    LET numel == Product(inner.redRanges)
        At(F(_)) == T(inner.ranges, IF numel = 0 THEN src ELSE dst, LAMBDA i : F(inner.loads[i]))
    IN IF numel = 0
       THEN IF kind \in {"sum", "prod", "any"} THEN Loop(At(LAMBDA v : IF kind = "prod" THEN Q(1) ELSE Q(0)), g)
            ELSE Broken
       ELSE IF numel = 1 THEN Loop(At(LAMBDA v : IF kind \in {"argmax", "argmin"} THEN Q(0) ELSE v[1]), g)
       ELSE IF numel < UnrollThreshold /\ Product(inner.ranges) # 1 THEN Loop(At(LAMBDA v : Reduced(kind, v)), g)
       ELSE LET r == At(LAMBDA v : Reduced(kind, v)) IN Node(r, g, FALSE)

\* should_not_sum: <<>> for False, or the size left when every reduced dimension has
\* one element, each deleted at its index in the order of the reversed list; <<-1>>
\* when an index falls outside what is left.
RECURSIVE Deleted(_, _)
Deleted(size, bs) ==
    IF bs = <<>> THEN size
    ELSE IF bs[1] >= Len(size) THEN <<-1>>
    ELSE Deleted(RemoveAt(size, bs[1] + 1), Tail(bs))

\* A mutant of should_not_sum: the indices are deleted first to last.
ShouldNotSumForward(size, b, keepdims) ==
    IF b = <<>> \/ \E k \in DOMAIN b : b[k] < 0 \/ b[k] >= Len(size) THEN <<>>
    ELSE IF \E k \in DOMAIN b : size[b[k] + 1] # 1 THEN <<>>
    ELSE IF keepdims THEN size ELSE Deleted(size, b)

should_not_sum(size, b, keepdims) ==
    IF b = <<>> \/ \E k \in DOMAIN b : b[k] < 0 \/ b[k] >= Len(size) THEN <<>>
    ELSE IF \E k \in DOMAIN b : size[b[k] + 1] # 1 THEN <<>>
    ELSE IF keepdims THEN size ELSE Deleted(size, Reverse(b))

\* A trailing negative axis makes every axis an offset from the end.  Deleting from
\* the size of a loop deletes from its ranges, which its assertion then finds wrong.
ReduceOver(kind, n, ax, left, valid, keepdims, dst) ==
    IF \/ valid = <<-1>>
       \/ left = <<-1>>
       \/ /\ ax # <<>> /\ ~keepdims /\ n.lazy
          /\ \A k \in DOMAIN ax : ax[k] \in 0..(Len(n.ir.size) - 1) /\ n.ir.size[ax[k] + 1] = 1
    THEN Broken
    ELSE ReductionCreate(kind, n.ir.dt, dst, _make_reduction_inner(n.ir, valid, keepdims),
                         IF left # <<>> THEN Reshape(n.g, left)
                         ELSE AtenReduce(kind, n.g, Dims(ax, Len(n.ir.size)), keepdims))

ReduceAxes(kind, n, ax, keepdims, dst) ==
    ReduceOver(kind, n, ax, should_not_sum(n.ir.size, ax, keepdims),
               _validate_reduction_axis(n.ir.size, ax), keepdims, dst)

make_reduction(kind, n, axis, keepdims, dst) ==
    ReduceAxes(kind, n,
               IF axis # <<>> /\ axis[Len(axis)] < 0
               THEN SortSeq([k \in DOMAIN axis |-> axis[k] + Len(n.ir.size)], <) ELSE axis,
               keepdims, dst)

\* A reduction that keeps the type of what it reduces.
ReduceAs(kind, x, axis, keepdims) == make_reduction(kind, x, axis, keepdims, x.ir.dt)
Summable(n) == IF IsFloat(n.ir.dt) THEN n ELSE to_dtype(n, "int64")

sum_(n, axis, keepdims) ==
    ReduceAs("sum", Summable(n),
             [k \in DOMAIN axis |-> IF axis[k] < 0 THEN axis[k] + Len(n.ir.size) ELSE axis[k]], keepdims)
prod(n, axis, keepdims) == ReduceAs("prod", Summable(n), axis, keepdims)
reduce_any(n, axis, keepdim) == ReduceAs("any", to_dtype(n, "bool"), axis, keepdim)
reduce_max_min(kind, n, axis, keepdims) == ReduceAs(kind, n, axis, keepdims)
reduce_arg(kind, n, axis, keepdims) == make_reduction(kind, n, axis, keepdims, "int64")

\* A constant of sum's type and size, whose graph is the number.
Denominator(like, k) == Node(T(like.ir.size, like.ir.dt, LAMBDA i : Q(k)), Number(Q(k), "int"), FALSE)

DivideSum(s, k, dt) == IF s = Broken THEN Broken ELSE to_dtype(div_prim(s, Denominator(s, k)), dt)

mean(n, axis, keepdim) ==
    LET ax == _validate_reduction_axis(n.ir.size, axis)
        x == IF n.ir.dt = "half" THEN to_dtype(n, "float") ELSE n
    IN IF ax = <<-1>> THEN Broken
       ELSE DivideSum(sum_(x, ax, keepdim), Product([j \in DOMAIN ax |-> n.ir.size[ax[j] + 1]]), n.ir.dt)

squeeze(n, axis) ==
    LET kept == SelectSeq([d \in DOMAIN n.ir.size |-> d], LAMBDA d : d - 1 \notin ToSet(axis))
        size == [k \in DOMAIN kept |-> n.ir.size[kept[k]]]
    IN Loop(Reshape(n.ir, size), Reshape(n.g, size))

\* The variance, and the mean when it is asked for (and then realised first).
square(d) == PointwiseOf("mul", <<d, d>>)

AndMean(s, k, x_mean) ==
    IF s = Broken THEN <<Broken>> ELSE <<div_prim(s, Denominator(s, IF k < 0 THEN 0 ELSE k))>> \o x_mean
VarianceOf(x, x_mean, ax, correction, keepdim, return_mean) ==
    AndMean(sum_(square(pointwise("sub", x, x_mean)), ax, keepdim),
            Product([j \in DOMAIN ax |-> x.ir.size[ax[j] + 1]]) - correction,
            IF ~return_mean THEN <<>> ELSE <<IF keepdim THEN x_mean ELSE squeeze(x_mean, ax)>>)

VarianceFrom(x, m, ax, correction, keepdim, return_mean) ==
    IF m = Broken THEN <<Broken>>
    ELSE VarianceOf(x, IF return_mean THEN Buffer(m.ir) ELSE m, ax, correction, keepdim, return_mean)
var_mean_along(x, ax, correction, keepdim, return_mean) ==
    VarianceFrom(x, mean(x, ax, TRUE), ax, correction, keepdim, return_mean)
var_mean_sum_(x, axis, correction, keepdim, return_mean) ==
    var_mean_along(x, _validate_reduction_axis(x.ir.size, axis), correction, keepdim, return_mean)

var_mean_helper_(n, axis, correction, keepdim, return_mean) ==
    LET Cast(out) == [k \in DOMAIN out |-> IF out[k] = Broken THEN Broken ELSE to_dtype(out[k], n.ir.dt)]
    IN Cast(var_mean_sum_(to_dtype(n, "float"), axis, correction, keepdim, return_mean))

(***************************************************************************)
(* Scans, sorting and searching: no graph is recorded for them.            *)
(***************************************************************************)
\* _make_scan_inner with a combining function, or the pair of a value and its index
\* with the right one of two equal values kept.
RECURSIVE ScanAt(_, _, _, _)
ScanAt(op, t, i, d) ==
    LET here == Load(t, i)
        before == ScanAt(op, t, [k \in DOMAIN i |-> IF k = d THEN i[k] - 1 ELSE i[k]], d)
    IN IF i[d] = 0 THEN <<here, 0>>
       ELSE CASE op = "add" -> <<Add(before[1], here), 0>>
              [] op = "mul" -> <<Mul(before[1], here), 0>>
              [] op = "max" -> IF Less(here, before[1]) THEN before ELSE <<here, i[d]>>
              [] op = "min" -> IF Less(before[1], here) THEN before ELSE <<here, i[d]>>

AxisAt(t, axis) == (IF axis < 0 THEN axis + Len(t.size) ELSE axis) + 1

cumulate(op, n, axis) ==
    LET x == IF IsFloat(n.ir.dt) THEN n ELSE to_dtype(n, "int64")
    IN IF n.ir.size = <<>> THEN clone(x)
       ELSE Buffer(T(x.ir.size, x.ir.dt, LAMBDA i : ScanAt(op, x.ir, i, AxisAt(x.ir, axis))[1]))
cumsum(n, axis) == cumulate("add", n, axis)
cumprod(n, axis) == cumulate("mul", n, axis)

cumextreme(op, n, axis) ==
    IF n.ir.size = <<>> THEN <<clone(n), Buffer(T(<<>>, "int64", LAMBDA i : Q(0)))>>
    ELSE LET At(i) == ScanAt(op, n.ir, i, AxisAt(n.ir, axis))
         IN <<Buffer(T(n.ir.size, n.ir.dt, LAMBDA i : At(i)[1])),
              Buffer(T(n.ir.size, "int64", LAMBDA i : Q(At(i)[2])))>>
cummax(n, axis) == cumextreme("max", n, axis)
cummin(n, axis) == cumextreme("min", n, axis)

\* The indices sorted along with the values are a range, viewed along the sorted
\* dimension and expanded over the others.
sort_stable(n, dim, descending) ==
    LET t == n.ir
        d == AxisAt(t, dim)
        iota == T(<<t.size[d]>>, "int64", LAMBDA i : Q(i[1]))
        indices == AtenExpand(Reshape(iota, [k \in DOMAIN t.size |-> IF k = d THEN t.size[d] ELSE 1]), t.size)
        Sorted(s, i) == Row(s, i, d)[Order(Row(t, i, d), descending)[i[d] + 1]]
    IN IF t.size = <<>> THEN <<clone(n), Buffer(T(<<>>, "int64", LAMBDA i : Q(0)))>>
       ELSE <<Buffer(T(t.size, t.dt, LAMBDA i : Sorted(t, i))),
              Buffer(T(t.size, "int64", LAMBDA i : Sorted(indices, i)))>>

\* ops.bucketize reads `length` boundaries of the flat buffer, from `start` on.
Bucketize(flat, length, stride, start, v, right) ==
    Q(Rank([k \in 1..length |-> flat[start + (k - 1) * stride + 1]], v, right))

\* A sorted sequence is a buffer with strides; one row of it serves all values, or
\* each row its own.  A sorter permutes the row.
searchsorted(seq, n, sorter, right) ==
    LET Start(b, i) == IF Len(b.size) = 1 THEN 0 ELSE Dot(Front(b.stride), Front(i))
        last == seq.stride[Len(seq.stride)]
        length == seq.size[Len(seq.size)]
        Flat(i) == IF sorter = <<>> THEN seq.flat
                   ELSE [p \in DOMAIN seq.flat |->
                            LET b == sorter[1]
                                k == (p - 1 - Start(seq, i)) \div last
                            IN IF /\ p - 1 >= Start(seq, i)
                                  /\ k < length
                                  /\ p - 1 = Start(seq, i) + k * last
                               THEN seq.flat[Start(seq, i) + b.flat[Start(b, i) + k * b.stride[Len(b.stride)] + 1] * last + 1]
                               ELSE seq.flat[p]]
    IN Buffer(T(n.ir.size, "int64",
                LAMBDA i : Bucketize(Flat(i), length, last, Start(seq, i), Load(n.ir, i), right)))

bucketize(n, boundaries, right) ==
    Buffer(T(n.ir.size, "int64", LAMBDA i : Bucketize(boundaries, Len(boundaries), 1, 0, Load(n.ir, i), right)))

(***************************************************************************)
(* Quantisation.                                                           *)
(***************************************************************************)
Clamp(v, lo, hi) == Smaller(Larger(v, lo), hi)

quantize_per_channel(n, scales, zero_points, axis, lo, hi) ==
    LET x == n.ir
        At(i) == LET c == i[axis + 1] + 1
                 IN Larger(Q(lo), Smaller(Q(hi), Add(Round(Mul(Load(x, i), Div(Q(1), scales[c]))), To(zero_points[c], "int32"))))
    IN IF x.dt # "float" \/ axis >= Len(x.size) THEN Broken ELSE Buffer(T(x.size, "int32", LAMBDA i : At(i)))

dequantize_per_channel(n, scales, zero_points, axis, out) ==
    LET x == n.ir
        At(i) == LET c == i[axis + 1] + 1 IN Mul(Add(Load(x, i), Neg(zero_points[c])), scales[c])
    IN IF x.dt # "int32" \/ axis >= Len(x.size) THEN Broken ELSE Buffer(T(x.size, out, LAMBDA i : At(i)))

quantize_per_tensor(n, scale, zero_point, lo, hi) ==
    LET x == n.ir
    IN IF x.dt # "float" THEN Broken
       ELSE Buffer(T(x.size, "int32", LAMBDA i : Clamp(Add(Round(Mul(Load(x, i), Div(Q(1), scale))), zero_point), Q(lo), Q(hi))))

dequantize_per_tensor(n, scale, zero_point, out) ==
    IF n.ir.dt # "int32" THEN Broken
    ELSE Buffer(T(n.ir.size, out, LAMBDA i : Mul(Add(Load(n.ir, i), Neg(zero_point)), scale)))

\* With the scale and the zero point in tensors of rank 0 or 1; both are indexed by
\* the rank of the scale.
OneOf(t, rank) == IF Len(t.size) = rank THEN t.val[1] ELSE <<0, 0>>
quantize_per_tensor_tensor(n, scale, zero_point, lo, hi) ==
    quantize_per_tensor(n, OneOf(scale, Len(scale.size)), OneOf(zero_point, Len(scale.size)), lo, hi)
dequantize_per_tensor_tensor(n, scale, zero_point, out) ==
    dequantize_per_tensor(n, OneOf(scale, Len(scale.size)), OneOf(zero_point, Len(scale.size)), out)

(***************************************************************************)
(* Softmax in one pass, lists of tensors, copies.                          *)
(***************************************************************************)
Exp(v) == Power(Q(2), Trunc(v))
AtenExp(t) == T(t.size, t.dt, LAMBDA i : Exp(Load(t, i)))

\* One reduction that keeps a maximum and a sum, unless it would be split or unrolled.
exp_(d) == Loop(AtenExp(d.ir), AtenExp(d.g))
softmax_split(n, amax, dim) == <<amax, sum_(exp_(pointwise("sub", n, amax)), <<dim>>, TRUE)>>

Largest(v) == Reduced("max", v)
SharesOf(v, m) == Reduced("sum", [k \in DOMAIN v |-> Exp(Add(v[k], Neg(m)))])
Shares(v) == SharesOf(v, Largest(v))
softmax_online(n, dim, split, inner) ==
    IF ~split /\ Product(inner.redRanges) >= UnrollThreshold
    THEN <<Buffer(T(inner.ranges, n.ir.dt, LAMBDA i : Largest(inner.loads[i]))),
           Buffer(T(inner.ranges, n.ir.dt, LAMBDA i : Shares(inner.loads[i])))>>
    ELSE IF dim # 0 THEN <<Broken, Broken>>
    ELSE softmax_split(n, reduce_max_min("max", n, <<dim>>, TRUE), dim)
prepare_softmax_online(n, dim, split) ==
    softmax_online(n, dim, split, _make_reduction_inner(n.ir, <<AxisAt(n.ir, dim) - 1>>, TRUE))

\* Operands grouped by device and by whether their sizes are dynamic (the key), each
\* with its place in the list.
RECURSIVE group_foreach_args(_, _)
group_foreach_args(keys, k) ==
    IF k > Len(keys) THEN <<>>
    ELSE IF \E j \in 1..(k - 1) : keys[j] = keys[k] THEN group_foreach_args(keys, k + 1)
    ELSE <<SelectSeq([j \in DOMAIN keys |-> j], LAMBDA j : keys[j] = keys[k])>> \o group_foreach_args(keys, k + 1)

\* A number is repeated for every tensor; each group is lowered in turn and, with the
\* feature, realised, and every result goes to its own place.
make_foreach_pointwise(op, list, other, keys, realize) ==
    LET groups == group_foreach_args(keys, 1)
        second == IF Len(other) = 1 THEN [k \in DOMAIN list |-> other[1]] ELSE other
        Realized(k, r) == IF realize /\ keys[k] = "static" THEN Node(r.ir, r.g, FALSE) ELSE r
        Place_(k) == \E q \in DOMAIN groups : \E p \in DOMAIN groups[q] : groups[q][p] = k
    IN [k \in DOMAIN list |-> IF Place_(k) THEN Realized(k, pointwise(op, list[k], second[k])) ELSE Broken]

\* The new contents of `changed`: a view is copied first, and that copy is recorded.
mutate_to(changed, val, view) ==
    IF view THEN Node(T(changed.ir.size, changed.ir.dt, LAMBDA i : Load(val.ir, i)),
                      AtenExpand(AtenTo(val.g, changed.g.dt), changed.g.size), FALSE)
    ELSE Node(val.ir, val.g, FALSE)

full_like(n, v) == LET t == T(n.ir.size, n.ir.dt, LAMBDA i : v) IN Loop(t, t)
fill_(n, v) == mutate_to(n, full_like(n, v), FALSE)
copy_(dst, src) ==
    LET cast == to_dtype(src, dst.ir.dt)
    IN mutate_to(dst, expand(cast, dst.ir.size), cast.ir.size # dst.ir.size)

(***************************************************************************)
(* Programs: each call applies a lowering to nodes made before.            *)
(***************************************************************************)
Init ==
    /\ calls = 0
    /\ \E p \in Inputs : /\ eager = [k \in DOMAIN p |-> Input(p[k][1], p[k][2])]
                          /\ nodes = [k \in DOMAIN p |-> Buffer(eager[k])]

Gives(ns, ts) ==
    /\ nodes' = nodes \o ns
    /\ eager' = eager \o ts
    /\ calls' = calls + 1

Becomes(k, n, t) ==
    /\ nodes' = [nodes EXCEPT ![k] = n]
    /\ eager' = [eager EXCEPT ![k] = t]
    /\ calls' = calls + 1

Fits(a, b) == \A k \in 1..Len(a) : k <= Len(b) => LET x == a[Len(a) + 1 - k]
                                                   y == b[Len(b) + 1 - k]
                                               IN x = y \/ x = 1 \/ y = 1
Numbers == {Number(Q(2), "int"), Number(<<1, 2>>, "real")}

\* A later call takes the loop made last: a realised node is read as an input is.
Operands == IF calls = 0 THEN DOMAIN nodes ELSE {k \in {Len(nodes)} : nodes[k].lazy}

Pointwise_ ==
    \E a, b \in DOMAIN nodes, op \in {"add", "sub", "mul"}, alpha \in {1, 2} :
        /\ Fits(eager[a].size, eager[b].size)
        /\ op = "mul" => alpha = 1
        /\ alpha = 2 \/ op = "sub" => "bool" \notin {eager[a].dt, eager[b].dt}
        /\ LET by == AtenBinary("mul", eager[b], Number(Q(alpha), "int"))
           IN Gives(<<register_pointwise(op, nodes[a], nodes[b], alpha)>>,
                    <<AtenBinary(op, eager[a], IF alpha = 1 THEN eager[b] ELSE by)>>)

WithNumber ==
    \E a \in Operands, v \in Numbers, op \in {"add", "mul"} :
        Gives(<<pointwise(op, nodes[a], Buffer(v))>>, <<AtenBinary(op, eager[a], v)>>)

Divide ==
    \E a \in Operands, b \in DOMAIN nodes, mode \in {"none", "floor", "trunc"} :
        /\ Fits(eager[a].size, eager[b].size)
        /\ mode # "none" => "bool" \notin {eager[a].dt, eager[b].dt} /\ \A k \in DOMAIN eager[b].val : eager[b].val[k] # Q(0)
        /\ Gives(<<div_mode(nodes[a], nodes[b], mode)>>,
                 <<IF mode = "none" THEN AtenBinary("div", eager[a], eager[b])
                   ELSE AtenDivMode(mode, eager[a], eager[b])>>)

Reciprocal ==
    \E a \in DOMAIN nodes : Gives(<<reciprocal(nodes[a])>>, <<AtenBinary("div", Number(Q(1), "real"), eager[a])>>)

Raise ==
    \E a \in DOMAIN nodes, n \in {-2, -1, 0, 1, 2, 3, 5}, kind \in {"int", "real"} :
        /\ eager[a].dt # "bool"
        /\ n < 0 => IsFloat(eager[a].dt)
        /\ LET e == Number(Q(n), kind) IN Gives(<<pow(nodes[a], Buffer(e))>>, <<AtenPow(eager[a], e)>>)

Cast ==
    \E a \in DOMAIN nodes, dt \in ToSet(Types) :
        Gives(<<_convert_element_type(nodes[a], dt)>>, <<AtenTo(eager[a], dt)>>)

Select ==
    \E c, a, b \in DOMAIN nodes :
        /\ eager[c].dt = "bool"
        /\ Fits(eager[c].size, eager[a].size) /\ Fits(eager[a].size, eager[b].size)
        /\ Fits(eager[c].size, eager[b].size)
        /\ \/ Gives(<<where(nodes[c], nodes[a], nodes[b])>>, <<AtenWhere(eager[c], eager[a], eager[b])>>)
           \/ LET v == Number(Q(1), "int")
              IN /\ a = b /\ eager[a].dt # "bool"
                 /\ Gives(<<where(nodes[c], nodes[a], Buffer(v))>>, <<AtenWhere(eager[c], eager[a], v)>>)

\* Lists of axes: none, one or two.
AxisLists(rank) ==
    {<<>>} \cup {<<a>> : a \in (-rank)..(rank - 1)}
           \cup {<<a, b>> : a, b \in (-rank)..(rank - 1)}

WellFormed(axis, rank) == Cardinality(Dims(axis, rank)) = IF axis = <<>> THEN rank ELSE Len(axis)

\* The lists the reductions are known to fail on; `lazy` when what is reduced is a loop.
Sound(n, lazy, axis, keepdim) ==
    LET rank == Len(n.ir.size)
        up == [k \in DOMAIN axis |-> IF axis[k] < 0 THEN axis[k] + rank ELSE axis[k]]
    IN /\ "unit" \notin Flawed => \/ keepdim \/ axis = <<>>
                                   \/ ~lazy \/ \E k \in DOMAIN up : n.ir.size[up[k] + 1] # 1
       /\ "unsorted" \notin Flawed => \A k \in DOMAIN up : k > 1 => up[k - 1] < up[k]
       /\ "mixed" \notin Flawed => \A k \in DOMAIN axis : (axis[k] < 0) = (axis[1] < 0)

\* mean and var_mean name every axis themselves.
Named(axis, rank) == IF axis = <<>> THEN [k \in 1..rank |-> k - 1] ELSE axis

ReduceBy(kind, n, axis, keepdim) ==
    CASE kind = "sum" -> sum_(n, axis, keepdim)
      [] kind = "prod" -> prod(n, axis, keepdim)
      [] kind = "any" -> reduce_any(n, axis, keepdim)
      [] kind \in {"max", "min"} -> reduce_max_min(kind, n, axis, keepdim)
      [] kind \in {"argmax", "argmin"} -> reduce_arg(kind, n, axis, keepdim)

Reduce ==
    \E a \in Operands, keepdim \in BOOLEAN, kind \in {"sum", "prod", "any", "max", "min", "argmax", "argmin"} :
        LET t == eager[a]
            rank == Len(t.size)
        IN \E axis \in AxisLists(rank) :
            /\ WellFormed(axis, rank)
            /\ Sound(nodes[a], nodes[a].lazy \/ (kind \in {"sum", "prod", "any"} /\ ~IsFloat(t.dt)) \/ kind = "any", axis, keepdim)
            /\ kind \in {"argmax", "argmin"} => axis = <<>> /\ rank = 1
            /\ kind \in {"max", "min", "argmax", "argmin"} => Product(t.size) > 0
            /\ Gives(<<ReduceBy(kind, nodes[a], axis, keepdim)>>, <<AtenReduce(kind, t, Dims(axis, rank), keepdim)>>)

Average ==
    \E a \in Operands, keepdim \in BOOLEAN :
        LET t == eager[a]
            rank == Len(t.size)
        IN \E axis \in AxisLists(rank) :
            /\ IsFloat(t.dt)
            /\ WellFormed(axis, rank)
            /\ Sound(nodes[a], nodes[a].lazy \/ t.dt = "half", Named(axis, rank), keepdim)
            /\ Gives(<<mean(nodes[a], axis, keepdim)>>, <<AtenMean(t, Dims(axis, rank), keepdim)>>)

Variance ==
    \E a \in Operands, keepdim, both \in BOOLEAN, correction \in {0, 1} :
        LET t == eager[a]
            rank == Len(t.size)
        IN \E axis \in AxisLists(rank) :
            /\ IsFloat(t.dt)
            /\ WellFormed(axis, rank)
            /\ Sound(nodes[a], TRUE, Named(axis, rank), keepdim)
            /\ LET D == Dims(axis, rank)
               IN Gives(var_mean_helper_(nodes[a], axis, correction, keepdim, both),
                        <<AtenVar(t, D, correction, keepdim)>>
                        \o (IF both THEN <<AtenMean(t, D, keepdim)>> ELSE <<>>))

Axes(rank) == IF rank = 0 THEN {-1, 0} ELSE (-rank)..(rank - 1)

Scan ==
    \E a \in DOMAIN nodes :
        LET t == eager[a]
            rank == Len(t.size)
        IN \E axis \in Axes(rank) :
            LET d == AxisAt(t, axis)
            IN \/ Gives(<<cumsum(nodes[a], axis)>>, <<AtenScan("add", t, d)>>)
               \/ Gives(<<cumprod(nodes[a], axis)>>, <<AtenScan("mul", t, d)>>)
               \/ Gives(cummax(nodes[a], axis), <<AtenScan("vmax", t, d), AtenScan("imax", t, d)>>)
               \/ Gives(cummin(nodes[a], axis), <<AtenScan("vmin", t, d), AtenScan("imin", t, d)>>)

Sort ==
    \E a \in DOMAIN nodes, descending \in BOOLEAN :
        LET t == eager[a]
            rank == Len(t.size)
        IN \E dim \in Axes(rank) :
            Gives(sort_stable(nodes[a], dim, descending),
                  <<AtenSort(t, AxisAt(t, dim), descending, FALSE), AtenSort(t, AxisAt(t, dim), descending, TRUE)>>)

\* Sorted sequences as buffers: one row, two rows, two rows stored column by column,
\* and a row that only its sorter puts in order.
Sequences_ ==
    LET one == [size |-> <<3>>, stride |-> <<1>>, flat |-> <<Q(-2), Q(0), Q(1)>>]
        two == [size |-> <<2, 3>>, stride |-> <<3, 1>>, flat |-> <<Q(-2), Q(0), Q(1), Q(-1), Q(-1), Q(2)>>]
        columns == [size |-> <<2, 3>>, stride |-> <<1, 2>>, flat |-> <<Q(-2), Q(-1), Q(0), Q(-1), Q(1), Q(2)>>]
        mixed == [size |-> <<3>>, stride |-> <<1>>, flat |-> <<Q(1), Q(-2), Q(0)>>]
        both == [size |-> <<2, 3>>, stride |-> <<1, 2>>, flat |-> <<Q(1), Q(2), Q(-2), Q(-1), Q(0), Q(-1)>>]
    IN {<<one, <<>>>>, <<two, <<>>>>, <<columns, <<>>>>,
        <<mixed, <<[size |-> <<3>>, stride |-> <<1>>, flat |-> <<1, 2, 0>>]>>>>,
        <<both, <<[size |-> <<2, 3>>, stride |-> <<3, 1>>, flat |-> <<1, 2, 0, 1, 2, 0>>]>>>>}

\* Row `lead` of a sequence, in the order of its sorter.
SeqRow(seq, sorter, lead) ==
    LET At(b, k) == b.flat[(IF Len(b.size) = 1 THEN 0 ELSE lead * b.stride[1]) + k * b.stride[Len(b.stride)] + 1]
    IN [k \in 1..seq.size[Len(seq.size)] |-> At(seq, IF sorter = <<>> THEN k - 1 ELSE At(sorter[1], k - 1))]

Search ==
    \E a \in DOMAIN nodes, q \in Sequences_, right \in BOOLEAN :
        LET t == eager[a]
        IN /\ Len(q[1].size) = 2 => Len(t.size) = 2 /\ t.size[1] = 2
           /\ Gives(<<searchsorted(q[1], nodes[a], q[2], right)>>,
                    <<T(t.size, "int64",
                        LAMBDA i : Q(Rank(SeqRow(q[1], q[2], IF i = <<>> THEN 0 ELSE i[1]), Load(t, i), right)))>>)

Bucket ==
    \E a \in DOMAIN nodes, right \in BOOLEAN :
        LET t == eager[a]
            rows == <<Q(-1), Q(0), Q(2)>>
        IN Gives(<<bucketize(nodes[a], rows, right)>>,
                 <<T(t.size, "int64", LAMBDA i : Q(Rank(rows, Load(t, i), right)))>>)

\* Quantised: the nearest multiple of the scale, moved by the zero point, in range.
Quantised(v, scale, zero) == Clamp(Add(Round(Div(v, scale)), zero), Q(-2), Q(1))
Restored(v, scale, zero) == Mul(Add(v, Neg(zero)), scale)

Quantise ==
    \E a \in DOMAIN nodes, out \in {"float", "half"}, axis \in {0, 1} :
        LET t == eager[a]
            scales == <<<<1, 2>>, <<2, 1>>, <<3, 4>>>>
            zeros == <<Q(0), Q(1), Q(-1)>>
            per == axis < Len(t.size) /\ t.size[axis + 1] <= 3
            one == [size |-> <<1>>, dt |-> "float", val |-> <<scales[2]>>]
            none == [size |-> <<1>>, dt |-> "int32", val |-> <<zeros[2]>>]
        IN \/ /\ t.dt = "float" /\ per
              /\ Gives(<<quantize_per_channel(nodes[a], scales, zeros, axis, -2, 1)>>,
                       <<T(t.size, "int32", LAMBDA i : Quantised(Load(t, i), scales[i[axis + 1] + 1], zeros[i[axis + 1] + 1]))>>)
           \/ /\ t.dt = "int32" /\ per
              /\ Gives(<<dequantize_per_channel(nodes[a], scales, zeros, axis, out)>>,
                       <<T(t.size, out, LAMBDA i : Restored(Load(t, i), scales[i[axis + 1] + 1], zeros[i[axis + 1] + 1]))>>)
           \/ /\ t.dt = "float"
              /\ LET r == T(t.size, "int32", LAMBDA i : Quantised(Load(t, i), scales[2], zeros[2]))
                 IN Gives(<<quantize_per_tensor(nodes[a], scales[2], zeros[2], -2, 1),
                            quantize_per_tensor_tensor(nodes[a], one, none, -2, 1)>>, <<r, r>>)
           \/ /\ t.dt = "int32"
              /\ LET r == T(t.size, out, LAMBDA i : Restored(Load(t, i), scales[2], zeros[2]))
                 IN Gives(<<dequantize_per_tensor(nodes[a], scales[2], zeros[2], out),
                            dequantize_per_tensor_tensor(nodes[a], one, none, out)>>, <<r, r>>)

AtenSoftmax(t, D, m) == <<m, AtenReduce("sum", AtenExp(AtenBinary("sub", t, m)), D, TRUE)>>
Softmax ==
    \E a \in DOMAIN nodes, split \in BOOLEAN :
        LET t == eager[a]
        IN \E dim \in Axes(Len(t.size)) :
            /\ t.dt = "float" /\ t.size # <<>> /\ Product(t.size) > 0
            /\ \A k \in DOMAIN t.val : t.val[k][2] = 1
            /\ "int" \notin Flawed => dim = 0 \/ (~split /\ t.size[AxisAt(t, dim)] >= UnrollThreshold)
            /\ Gives(prepare_softmax_online(nodes[a], dim, split),
                     AtenSoftmax(t, {AxisAt(t, dim)}, AtenReduce("max", t, {AxisAt(t, dim)}, TRUE)))

Foreach ==
    \E keys \in [DOMAIN nodes -> {"static", "dynamic"}], realize, lists \in BOOLEAN, op \in {"add", "mul"} :
        LET v == Number(Q(2), "int")
            second == IF lists THEN nodes ELSE <<Buffer(v)>>
        IN Gives(make_foreach_pointwise(op, nodes, second, keys, realize),
                 [k \in DOMAIN eager |-> AtenBinary(op, eager[k], IF lists THEN eager[k] ELSE v)])

Mutate ==
    \E k \in DOMAIN nodes :
        \/ LET t == eager[k]
               v == <<3, 2>>
           IN Becomes(k, fill_(nodes[k], v), T(t.size, t.dt, LAMBDA i : v))
        \/ \E j \in DOMAIN nodes \ {k} :
            /\ Fits(eager[j].size, eager[k].size)
            /\ BroadcastSize(eager[j].size, eager[k].size) = eager[k].size
            /\ Becomes(k, copy_(nodes[k], nodes[j]), AtenExpand(AtenTo(eager[j], eager[k].dt), eager[k].size))

Next ==
    \/ /\ calls < Depth
       /\ WithNumber \/ Divide \/ Reduce \/ Average \/ Variance
    \/ /\ calls = 0
       /\ \/ Pointwise_ \/ Reciprocal \/ Raise \/ Cast \/ Select \/ Scan \/ Sort \/ Search \/ Bucket
          \/ Quantise \/ Softmax \/ Foreach \/ Mutate

Spec == Init /\ [][Next]_vars

\* Whatever is called, in whatever order, the loops and the recorded graph of every
\* node compute what PyTorch does: the same size, type and elements.
ReductionsExact ==
    \A k \in DOMAIN nodes : nodes[k].ir = eager[k] /\ nodes[k].g = eager[k]

=============================================================================
