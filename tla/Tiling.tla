------------------------------- MODULE Tiling -------------------------------
(***************************************************************************)
(* How the triton back end turns the loops of a fused kernel into a grid   *)
(* of programs (torch_npu/_inductor/codegen): the ranges of the fused      *)
(* nodes are mapped to kernel axes, flattened dimensions are rebuilt as    *)
(* axes of their own, split and tiling axes are selected, the tile         *)
(* generator proposes block sizes, and the generated loops visit the       *)
(* iteration space tile by tile.                                           *)
(*                                                                         *)
(* A kernel is [roots, red, persistent, nodes]: the lengths of its         *)
(* pointwise ranges, the reduced length (1 when it reduces nothing) and    *)
(* the fused nodes [pw, red, loads, store].  An index is a sequence of     *)
(* terms <<c, v, d, m>> for c * ((v \div d) % m), m = 0 for no modulus.    *)
(* A load is <<0, index>> from an input, or <<n, index>> of what node n    *)
(* stored.  A value is the tuple of the addresses that were loaded.        *)
(*                                                                         *)
(* The byte and length thresholds of the tile generator are parameters so  *)
(* that kernels small enough to run in full go through all its branches.   *)
(***************************************************************************)
EXTENDS Integers, SequencesExt, FiniteSetsExt

CONSTANTS Kernels,        \* the fused kernels to compile
          DtypeBytes,     \* element sizes of the split axis
          NumVectorCore,  \* config.num_vector_core
          StopBytes,      \* 1024: tiles below it are not split further
          TileBytes,      \* 65536: largest tile
          AlignBytes,     \* 32: tiles are aligned to it
          Wide,           \* 32: axes from it on are halved, shorter ones decremented
          WideLow         \* 128: the same for low dimensions

VARIABLES kernel,   \* the kernel compiled and the bytes of its split axis
          stage,    \* the next step of the compilation
          dims,     \* axes and indexing of the kernel
          plan,     \* the selected axes
          configs,  \* what the tile generator proposed
          cfg       \* the configuration the kernel runs with

vars == <<kernel, stage, dims, plan, configs, cfg>>

CeilDiv(a, b) == (a + b - 1) \div b

RECURSIVE NextPowerOf2(_)
NextPowerOf2(n) == IF n <= 1 THEN 1 ELSE 2 * NextPowerOf2(CeilDiv(n, 2))

RECURSIVE ProductOf(_)
ProductOf(s) == IF s = <<>> THEN 1 ELSE Head(s) * ProductOf(Tail(s))

RECURSIVE SumOf(_)
SumOf(s) == IF s = <<>> THEN 0 ELSE Head(s) + SumOf(Tail(s))

Map(s, Op(_)) == [i \in DOMAIN s |-> Op(s[i])]
Where(s, Keep(_)) == SelectSeq(s, Keep)

\* The elements of S, the one with the least key first.
RECURSIVE Ascending(_, _)
Ascending(S, key) ==
  IF S = {} THEN <<>>
  ELSE LET a == CHOOSE x \in S : \A y \in S : key[x] <= key[y]
       IN <<a>> \o Ascending(S \ {a}, key)

Groups(k) == Append(k.roots, k.red)
Reduces(k) == k.red > 1
RRoot(k) == Len(k.roots) + 1

Reducing(n) == n.kind = "reduce"
\* Nodes without the reduced range are scheduled outside its loop.
InsideReduction(k, n) == Reducing(n) \/ ProductOf(n.pw) # ProductOf(k.roots)

-----------------------------------------------------------------------------
(* Ranges of a node on the ranges of the kernel. *)

AddRange(st, g, n) ==
  [st EXCEPT !.ok = @ /\ st.rem[g] % n = 0,
             !.rem[g] = @ \div n,
             !.new[g] = Append(@, n)]

\* A node range that spans several groups takes what is left of each.
RECURSIVE AddMultipleRange(_, _, _, _)
AddMultipleRange(st, g, left, get) ==
  IF g <= Len(st.rem) /\ st.rem[g] > 1 /\ left > 1
  THEN IF left % st.rem[g] # 0 THEN [st EXCEPT !.ok = FALSE]
       ELSE LET rest == left \div st.rem[g]
            IN AddMultipleRange(AddRange(st, g, st.rem[g]), g + 1, rest,
                                Append(get, <<rest, g, Len(st.new[g]) + 1>>))
  ELSE [st EXCEPT !.out = Append(@, get), !.ok = @ /\ left = 1]

RECURSIVE Scroll(_)
Scroll(st) == IF st.g <= Len(st.rem) /\ st.rem[st.g] = 1
              THEN Scroll([st EXCEPT !.g = @ + 1]) ELSE st

RECURSIVE SplitSizes(_, _)
SplitSizes(sizes, st0) ==
  IF sizes = <<>> \/ ~st0.ok THEN st0
  ELSE LET n  == Head(sizes)
           st == Scroll(st0)
       IN SplitSizes(Tail(sizes),
            IF n = 1 THEN [st0 EXCEPT !.out = Append(@, <<>>)]
            ELSE IF st.g > Len(st.rem) THEN [st EXCEPT !.ok = FALSE]
            ELSE IF n > st.rem[st.g] THEN AddMultipleRange(st, st.g, n, <<>>)
            ELSE [AddRange(st, st.g, n) EXCEPT
                    !.out = Append(@, <<<<1, st.g, Len(st.new[st.g]) + 1>>>>)])

\* The ranges every group is cut into, and each node variable as a sum of
\* <<stride, group, position>>.
_split_iteration_ranges(groups, lengths) ==
  LET st == SplitSizes(lengths[1] \o lengths[2],
                       [rem |-> groups, new |-> [g \in DOMAIN groups |-> <<>>],
                        out |-> <<>>, g |-> 1, ok |-> TRUE])
  IN [st EXCEPT !.ok = @ /\ \A g \in DOMAIN st.rem : st.rem[g] = 1]

SplitAndSetRanges(k, n) ==
  LET groups  == Append(k.roots, IF InsideReduction(k, n) THEN k.red ELSE 1)
      lengths == <<n.pw, n.red>>
  IN IF Len(groups) = 2 /\ \A g \in 1..2 : ProductOf(lengths[g]) = groups[g]
     THEN [ok |-> TRUE, new |-> lengths,
           out |-> [i \in DOMAIN n.pw |-> <<<<1, 1, i>>>>]
                   \o [i \in DOMAIN n.red |-> <<<<1, 2, i>>>>]]
     ELSE _split_iteration_ranges(groups, lengths)

-----------------------------------------------------------------------------
(* Axes.  dims.node is the sequence of axes in creation order (an axis is  *)
(* its number there); an axis is the whole range (xindex), xindex \div d   *)
(* or (xindex \div d) % n of its root.                                     *)

ExprOf(k, r, d, n) == IF d * n = Groups(k)[r] THEN <<r, d>> ELSE <<r, d, n>>
AxesAt(D, e) == {v \in DOMAIN D.node : D.node[v].expr = e}
DuplicatedCheck(k, D, r, d, n) == AxesAt(D, ExprOf(k, r, d, n)) = {}

Lookup(k, D, r, d, n) ==
  IF ~DuplicatedCheck(k, D, r, d, n) THEN D
  ELSE [D EXCEPT !.node = Append(@, [root |-> r, expr |-> ExprOf(k, r, d, n),
                                     div |-> d, len |-> n]),
                 !.live = @ \cup {Len(D.node) + 1}]

AxisOf(k, D, r, d, n) == CHOOSE v \in AxesAt(D, ExprOf(k, r, d, n)) : TRUE

\* Axes of one root for the ranges it is cut into, the last one first.
RECURSIVE Construct(_, _, _, _, _)
Construct(k, D, r, ranges, d) ==
  IF ranges = <<>> THEN D
  ELSE LET n == Last(ranges)
       IN Construct(k, Lookup(k, D, r, d, n), r, Front(ranges), d * n)

RECURSIVE ConstructAll(_, _, _, _)
ConstructAll(k, D, new, r) ==
  IF r > Len(new) THEN D ELSE ConstructAll(k, Construct(k, D, r, new[r], 1), new, r + 1)

\* The axis of the i-th range of group g.
RangeAxis(k, D, new, g, i) ==
  AxisOf(k, D, g, ProductOf(SubSeq(new[g], i + 1, Len(new[g]))), new[g][i])

\* The index of a node on the axes of the kernel.
GenerateIndexing(k, D, sp, index) ==
  FlattenSeq(Map(index, LAMBDA t :
    Map(sp.out[t[2]], LAMBDA u :
      <<t[1] * u[1], RangeAxis(k, D, sp.new, u[2], u[3]), t[3], t[4]>>)))

Indices(n) == Append(Map(n.loads, LAMBDA l : l[2]), n.store)

-----------------------------------------------------------------------------
(* Flattened dimensions: x \div d and x % d become axes of their own. *)

Plain(t) == t[3] = 1 /\ t[4] = 0
Flattened(index) == Len(index) > 1 \/ (index # <<>> /\ index[1][1] = 1)

\* <<axis, key>> for every quotient or remainder of the index, in order.
RECURSIVE FlatKeys(_, _)
FlatKeys(index, seen) ==
  IF index = <<>> THEN seen
  ELSE LET t == Head(index)
           e == <<t[2], IF t[4] = 0 THEN t[3] ELSE t[4]>>
       IN FlatKeys(Tail(index),
                   IF Plain(t) \/ e \in ToSet(seen) THEN seen ELSE Append(seen, e))

\* The quotient and the remainder for a key: <<divisor, length, modulus>>.
FlatPair(D, index, v, key) ==
  LET quo == {t \in ToSet(index) : t[2] = v /\ t[3] = key /\ t[4] = 0}
      rem == {t \in ToSet(index) : t[2] = v /\ t[4] = key}
      mod == IF rem = {} THEN 1 ELSE (CHOOSE t \in rem : TRUE)[3]
  IN <<<<key, D.node[v].len \div key, 0>>, <<mod, key, key>>>>

Substitute(map, e, v) == IF e \in DOMAIN map THEN map
                         ELSE [x \in DOMAIN map \cup {e} |-> IF x = e THEN v ELSE map[x]]

RebuildPair(k, D, v, pair) ==
  LET r   == D.node[v].root
      quo == pair[1]
      rem == pair[2]
      D2  == Lookup(k, Lookup(k, D, r, quo[1], quo[2]), r, rem[1], rem[2])
      a   == AxisOf(k, D2, r, quo[1], quo[2])
      b   == AxisOf(k, D2, r, rem[1], rem[2])
  IN [D2 EXCEPT !.expr = Substitute(Substitute(@, <<v, quo[1], 0>>, a), <<v, rem[1], rem[3]>>, b),
                !.subst = [x \in DOMAIN @ \cup {v} |->
                             (IF x \in DOMAIN @ THEN @[x] ELSE <<>>)
                             \o IF x = v THEN <<<<quo[1] * quo[2], <<<<quo[1], a>>, <<1, b>>>>>>>> ELSE <<>>]]

RECURSIVE RebuildKeys(_, _, _, _, _)
RebuildKeys(k, D, index, keys, skip) ==
  IF keys = <<>> THEN D
  ELSE LET v    == Head(keys)[1]
           pair == FlatPair(D, index, v, Head(keys)[2])
           rem  == pair[2]
       IN IF v \in skip THEN RebuildKeys(k, D, index, Tail(keys), skip)
          ELSE IF ~DuplicatedCheck(k, D, D.node[v].root, rem[1], rem[2])
          THEN RebuildKeys(k, [D EXCEPT !.expr = Substitute(@, <<v, rem[1], rem[3]>>, v)],
                           index, Tail(keys), skip \cup {v})
          ELSE RebuildKeys(k, RebuildPair(k, D, v, pair), index, Tail(keys), skip)

SubstituteExprs(D, index) ==
  Map(index, LAMBDA t : LET e == <<t[2], t[3], t[4]>>
                        IN IF e \in DOMAIN D.expr THEN <<t[1], D.expr[e], 1, 0>> ELSE t)

\* One index of node n: its flattened dimensions are rebuilt, then every
\* expression that has an axis is replaced by it.
RebuildIndex(k, D, n, i) ==
  LET index == D.index[n][i]
      D2    == IF Flattened(index) THEN RebuildKeys(k, D, index, FlatKeys(index, <<>>), {}) ELSE D
  IN [D2 EXCEPT !.index[n][i] = SubstituteExprs(D2, index)]

RECURSIVE RebuildFlattenedDims(_, _, _, _)
RebuildFlattenedDims(k, D, n, i) ==
  IF i > Len(D.index[n]) THEN D ELSE RebuildFlattenedDims(k, RebuildIndex(k, D, n, i), n, i + 1)

\* Node n: axes for its ranges, its indexing on them, flattened dimensions.
WithIndexing(k, D, sp, node) ==
  [D EXCEPT !.index = Append(@, Map(Indices(node), LAMBDA x : GenerateIndexing(k, D, sp, x)))]
TransformBy(k, D, n, sp) ==
  IF ~sp.ok THEN [D EXCEPT !.ok = FALSE]
  ELSE RebuildFlattenedDims(k, WithIndexing(k, ConstructAll(k, D, sp.new, 1), sp, k.nodes[n]), n, 1)
TransformDims(k, D, n) == TransformBy(k, D, n, SplitAndSetRanges(k, k.nodes[n]))

RECURSIVE TransformNodes(_, _, _)
TransformNodes(k, D, n) ==
  IF n > Len(k.nodes) \/ ~D.ok THEN D ELSE TransformNodes(k, TransformDims(k, D, n), n + 1)

NoDims == [node |-> <<>>, live |-> {}, index |-> <<>>, expr |-> <<>>, subst |-> <<>>, ok |-> TRUE]

Siblings(D, v) == {u \in D.live : D.node[u].root = D.node[v].root /\ u # v}

\* A whole range next to axes that make it up is one of their sums.
AdditionalNodes(D) ==
  LET more == {v \in D.live : /\ Len(D.node[v].expr) = 2 /\ D.node[v].div = 1
                              /\ Siblings(D, v) # {}
                              /\ v \notin DOMAIN D.subst
                              /\ ProductOf(Map(SetToSeq(Siblings(D, v)), LAMBDA u : D.node[u].len))
                                   = D.node[v].len}
  IN [v \in DOMAIN D.subst \cup more |->
        IF v \in DOMAIN D.subst THEN D.subst[v]
        ELSE <<<<D.node[v].len, Map(SetToSeq(Siblings(D, v)), LAMBDA u : <<D.node[u].div, u>>)>>>>]

\* The candidate of the longest extent, the first of them.
BestCandidate(cands) ==
  cands[CHOOSE i \in DOMAIN cands : /\ \A j \in DOMAIN cands : cands[j][1] <= cands[i][1]
                                    /\ \A j \in 1..(i - 1) : cands[j][1] < cands[i][1]]

\* Sums that stand for an axis: those that have its length.
Sums(D, subst) == [v \in {u \in DOMAIN subst : BestCandidate(subst[u])[1] = D.node[u].len}
                     |-> BestCandidate(subst[v])[2]]

SubstitutedDims(index, sums) ==
  FlattenSeq(Map(index, LAMBDA t :
    IF Plain(t) /\ t[2] \in DOMAIN sums
    THEN Map(sums[t[2]], LAMBDA u : <<t[1] * u[1], u[2], 1, 0>>) ELSE <<t>>))

RemoveEntries(D, axes) == [D EXCEPT !.live = @ \ axes]

\* Substituted axes go, whether or not a sum had their length.
SubstituteDims(D) ==
  LET subst == AdditionalNodes(D)
      sums  == Sums(D, subst)
  IN [RemoveEntries(D, DOMAIN subst) EXCEPT
        !.subst = sums,
        !.index = Map(@, LAMBDA is : Map(is, LAMBDA x : SubstitutedDims(x, sums)))]

-----------------------------------------------------------------------------
(* Selection of split and tiling axes. *)

\* The order of the axis names: w v t z y x r, then the number; the name of
\* a remainder sorts as if its number began with 0.
SortKey(k, D, v) ==
  LET n == D.node[v]
  IN (Len(k.roots) + 1 - n.root) * 10000
     + IF Len(n.expr) = 3 THEN v ELSE (v - 1) * 100

SortedAxis(k, D) == Ascending(D.live, [v \in D.live |-> 0 - SortKey(k, D, v)])

\* The read indexing of inputs; without a reduction also what is written.
LoadStoreIndexing(k, D) ==
  LET reads(n)  == Where([i \in DOMAIN k.nodes[n].loads |-> <<k.nodes[n].loads[i][1], D.index[n][i]>>],
                         LAMBDA l : l[1] = 0)
      nodes     == [n \in DOMAIN k.nodes |-> n]
  IN FlattenSeq(Map(nodes, LAMBDA n : Map(reads(n), LAMBDA l : l[2])))
     \o IF Reduces(k) THEN <<>> ELSE Map(nodes, LAMBDA n : Last(D.index[n]))

LowDims(D, indexing) ==
  {v \in D.live : \E x \in ToSet(indexing) : \E i \in DOMAIN x : x[i][1] = 1 /\ x[i][2] = v}

\* The axes of S that an index has by themselves, by ascending stride.
VarList(index, S) ==
  LET has == {v \in S : \E i \in DOMAIN index : index[i][2] = v /\ Plain(index[i])}
  IN Ascending(has, [v \in has |-> SumOf(Map(Where(index, LAMBDA t : t[2] = v /\ Plain(t)), LAMBDA t : t[1]))])

FindPossiblePermutes(indexing, low) ==
  /\ Cardinality(low) > 1
  /\ \E x, y \in ToSet(indexing) : /\ Len(VarList(x, low)) = Cardinality(low)
                                   /\ Len(VarList(y, low)) = Cardinality(low)
                                   /\ VarList(x, low) # VarList(y, low)

RECURSIVE SelectSplitAxis(_, _, _, _, _)
SelectSplitAxis(k, D, sorted, low, chosen) ==
  LET free(v)  == D.node[v].root # RRoot(k) /\ v \notin ToSet(chosen)
      high     == Where(sorted, LAMBDA v : free(v) /\ v \notin low)
      any      == Where(sorted, free)
      enough   == ProductOf(Map(chosen, LAMBDA v : D.node[v].len)) >= NumVectorCore \/ Len(chosen) = 3
  IN IF enough \/ any = <<>> THEN chosen
     ELSE SelectSplitAxis(k, D, sorted, low, Append(chosen, IF high # <<>> THEN high[1] ELSE any[1]))

ReductionAxes(k, D) == {v \in D.live : D.node[v].root = RRoot(k)}
Persistent(k, D) == k.persistent \/ Cardinality(ReductionAxes(k, D)) > 1

EnoughTiling(k, D, permute, tiling) ==
  LET len(S) == SumOf(Map(SetToSeq(S), LAMBDA v : D.node[v].len))
      r      == ReductionAxes(k, D)
  IN \/ Cardinality(r) > 1 /\ r \subseteq tiling
     \/ /\ permute \/ 10 * (IF tiling = {} THEN 1 ELSE len(tiling)) >= 8 * len(D.live)
        /\ Cardinality(tiling) >= Min({2, Cardinality(D.live)})

\* Further axes from the innermost one outwards, until they are enough.
RECURSIVE SelectTilingAxis(_, _, _, _, _)
SelectTilingAxis(k, D, permute, inner, tiling) ==
  IF EnoughTiling(k, D, permute, tiling) \/ inner = <<>> THEN tiling
  ELSE SelectTilingAxis(k, D, permute, Tail(inner), tiling \cup {Head(inner)})

\* Tiles are laid out as the first index that has all tiling axes.
SelectGoldenVarlist(D, indexing, sorted, tiling) ==
  LET full == Where(indexing, LAMBDA x : Len(VarList(x, tiling)) = Cardinality(tiling))
  IN IF full = <<>> THEN Where(sorted, LAMBDA v : v \in tiling) ELSE VarList(full[1], tiling)

SelectAxes(k, D) ==
  LET sorted   == SortedAxis(k, D)
      indexing == LoadStoreIndexing(k, D)
      low      == LowDims(D, indexing)
      chosen   == SelectSplitAxis(k, D, sorted, low, <<>>)
      tiling   == SelectTilingAxis(k, D, FindPossiblePermutes(indexing, low), Reverse(sorted),
                                   low \cup ReductionAxes(k, D))
  IN [sorted |-> sorted, low |-> low, tiling |-> tiling,
      isSplit |-> ToSet(chosen),
      split |-> IF chosen = <<>> THEN <<sorted[1]>>
                ELSE Where(sorted, LAMBDA v : v \in ToSet(chosen)),
      gold |-> SelectGoldenVarlist(D, indexing, sorted, tiling),
      persistent |-> Persistent(k, D)]

\* Tile dimensions, outermost first.
TileDims(P) == Reverse(P.gold)
PositionIn(list, v) == CHOOSE i \in DOMAIN list : list[i] = v

\* The layout an index is loaded or stored in: that of its own strides when
\* it has all tiling axes.
IndexDims(P, index) ==
  LET list == VarList(index, P.tiling)
  IN IF Len(list) = Cardinality(P.tiling) THEN Reverse(list) ELSE TileDims(P)

AnalyzePermuteShape(P, index, isStore) ==
  LET own == IndexDims(P, index)
  IN IF isStore THEN Map(own, LAMBDA v : PositionIn(TileDims(P), v))
     ELSE Map(TileDims(P), LAMBDA v : PositionIn(own, v))

\* The axis whose lane a tiling axis gets in the tile of this index.
LaneAxes(P, index, isStore) ==
  LET permute      == AnalyzePermuteShape(P, index, isStore)
      direction(v) == PositionIn(IndexDims(P, index), v)
  IN [v \in P.tiling |->
        TileDims(P)[IF isStore THEN permute[direction(v)] ELSE PositionIn(permute, direction(v))]]

\* The tile statements of every load and store.
WithLanes(D, P) ==
  [lane |-> [n \in DOMAIN D.index |->
              [i \in DOMAIN D.index[n] |-> LaneAxes(P, D.index[n][i], i = Len(D.index[n]))]]] @@ P

-----------------------------------------------------------------------------
(* The tile generator.  G is what it is created with, T its blocks, sub    *)
(* blocks, candidates and configurations.                                  *)

SizeHints(k, D) ==
  [v \in D.live |-> IF Len(D.node[v].expr) = 3 THEN D.node[v].len
                     ELSE Groups(k)[D.node[v].root] \div D.node[v].div]

Generator(k, D, P, bytes) ==
  [numel |-> SizeHints(k, D),
   split |-> P.split, tiling |-> Where(P.sorted, LAMBDA v : v \in P.tiling), low |-> P.low,
   fixed |-> IF P.persistent THEN ReductionAxes(k, D) ELSE {},
   dual |-> Cardinality(ReductionAxes(k, D)) > 1,
   bytes |-> bytes, stop |-> StopBytes \div bytes]

StartBlocks(G) ==
  [v \in DOMAIN G.numel |-> IF v \in ToSet(G.tiling) \cup ToSet(G.split) THEN G.numel[v] ELSE 1]

Start(G) == [blocks |-> StartBlocks(G), sub |-> StartBlocks(G), cand |-> <<>>, cfgs |-> {},
             slow |-> FALSE, raised |-> FALSE]

ProgramsOf(G, T, axes) == ProductOf(Map(axes, LAMBDA v : CeilDiv(G.numel[v], T.blocks[v])))

\* The split axes before this one leave it so many of the cores.
LastSplits(G, T, axis) ==
  NumVectorCore \div ProgramsOf(G, T, SubSeq(G.split, 1, (CHOOSE i \in DOMAIN G.split : G.split[i] = axis) - 1))

AlignedNumel(G, n) ==
  LET least == AlignBytes \div G.bytes
  IN IF n <= least THEN n ELSE CeilDiv(n, least) * least

FillConfig(G, T, blocks) ==
  [block |-> [v \in ToSet(G.split) |-> blocks[v]],
   sub |-> [v \in ToSet(G.tiling) |-> AlignedNumel(G, T.sub[v])]]

ConfigNumel(G, c) == ProductOf(Map(G.tiling, LAMBDA v : c.sub[v]))
ValidTileNumel(G, n) == n <= TileBytes \div G.bytes

AddToConfigs(G, T, candidates) ==
  LET new == {FillConfig(G, T, b) : b \in candidates}
  IN [T EXCEPT !.cfgs = @ \cup {c \in new : ValidTileNumel(G, ConfigNumel(G, c))}]

\* The tile of the current sub blocks; as large as can be without candidates.
CalculateTotalNumel(G, T) ==
  IF T.cand = <<>> THEN 2 ^ 30 ELSE ProductOf(Map(G.tiling, LAMBDA v : T.sub[v]))

\* A split axis with more programs than cores: its last block for the cores.
ToLastBlock(G, T, axis, last) ==
  IF ProgramsOf(G, T, G.split) > NumVectorCore /\ last # T.blocks[axis]
  THEN [T EXCEPT !.blocks = (axis :> last) @@ @,
                 !.cand = Append(@, (axis :> last) @@ T.blocks)] ELSE T

\* Near the limit the blocks are a candidate, one of at most three.
KeepCandidate(G, T, near) ==
  IF near \/ G.dual
  THEN [T EXCEPT !.cand = Append(IF Len(@) > 2 THEN Tail(@) ELSE @, T.blocks), !.slow = near]
  ELSE T

KeepLast(G, T, axis) ==
  IF T.blocks[axis] = 1 /\ (ProgramsOf(G, T, G.split) > NumVectorCore \div 2 \/ G.dual)
  THEN [T EXCEPT !.cand = Append(@, T.blocks)] ELSE T

\* The block was n: half of it, or a quarter less near the limit.
Shrink(G, T, axis, n) ==
  LET next == IF ~T.slow THEN n \div 2 ELSE n - Max({n \div 4, 1})
  IN KeepLast(G, [T EXCEPT !.blocks = (axis :> next) @@ @, !.sub = (axis :> next) @@ @], axis)

DescendSplit(G, T, axis) ==
  LET programs == ProgramsOf(G, T, G.split)
      splits   == LastSplits(G, T, axis)
      atLast   == ToLastBlock(G, T, axis, CeilDiv(G.numel[axis], splits))
  IN IF programs > NumVectorCore /\ splits = 0 THEN [T EXCEPT !.raised = TRUE]
     ELSE Shrink(G, KeepCandidate(G, atLast, programs > NumVectorCore \div 2), axis, T.blocks[axis])

DescendTiling(T, axis) ==
  LET n == T.sub[axis]
  IN [T EXCEPT !.sub = (axis :> IF n >= Wide THEN NextPowerOf2(n \div 2) ELSE n - 1) @@ @]

\* Returns <<the stop size was reached, the state>>.
RECURSIVE DescendOneAxis(_, _, _, _, _)
DescendOneAxis(G, T0, axis, isSplit, idx) ==
  LET T == AddToConfigs(G, T0, ToSet(T0.cand))
  IN IF idx = 30 \/ T0.raised THEN <<FALSE, T0>>
     ELSE IF CalculateTotalNumel(G, T) <= G.stop THEN <<TRUE, AddToConfigs(G, T, {T.blocks})>>
     ELSE IF (IF isSplit THEN T.blocks[axis] ELSE T.sub[axis]) = 1
     THEN <<FALSE, AddToConfigs(G, T, {T.blocks})>>
     ELSE IF isSplit /\ axis \in G.fixed THEN <<TRUE, T>>
     ELSE DescendOneAxis(G, IF isSplit THEN DescendSplit(G, T, axis) ELSE DescendTiling(T, axis),
                         axis, isSplit, idx + 1)

RECURSIVE DescendAxes(_, _, _, _)
DescendAxes(G, T, axes, isSplit) ==
  IF axes = <<>> THEN <<CalculateTotalNumel(G, T) <= G.stop, T>>
  ELSE LET Others(one) == IF one[1] THEN one ELSE DescendAxes(G, one[2], Tail(axes), isSplit)
       IN Others(DescendOneAxis(G, [T EXCEPT !.slow = FALSE], Head(axes), isSplit, 0))

\* All low dimensions together; those close to the shortest one wait.
DescentAllAxis(G, T, least) ==
  LET short(v) == LET n == T.sub[v]
                  IN \/ v \in G.fixed \/ n = 1
                     \/ least > 1 /\ 5 * (IF n > least THEN n - least ELSE least - n) < least
      half(n)  == IF n >= WideLow THEN NextPowerOf2(n \div 2)
                  ELSE Min({AlignedNumel(G, n \div 2), NextPowerOf2(n \div 2)})
  IN [T EXCEPT !.sub = [v \in DOMAIN T.sub |-> IF v \in G.low /\ ~short(v) THEN half(T.sub[v]) ELSE T.sub[v]]]

\* total is the tile before the last round.
RECURSIVE DescendAllLowDims(_, _, _, _, _)
DescendAllLowDims(G, T0, least, total, count) ==
  IF count = 100 \/ total <= G.stop THEN T0
  ELSE LET T  == AddToConfigs(G, T0, ToSet(T0.cand))
           T1 == DescentAllAxis(G, T, least)
           n  == CalculateTotalNumel(G, T)
       IN DescendAllLowDims(G, IF n = CalculateTotalNumel(G, T1) THEN DescentAllAxis(G, T1, 0) ELSE T1,
                            least, n, count + 1)

DescendLow(G, tiles) ==
  LET T == tiles[2]
  IN IF tiles[1] \/ G.low = {} THEN T
     ELSE DescendAllLowDims(G, T, Min({T.sub[v] : v \in G.low}), CalculateTotalNumel(G, T), 0)

\* The tiling axes start from the first candidate.
DescendTiles(G, splits) ==
  LET T == IF splits[2].cand = <<>> THEN splits[2] ELSE [splits[2] EXCEPT !.sub = splits[2].cand[1]]
  IN IF splits[1] \/ splits[2].raised THEN splits[2]
     ELSE DescendLow(G, DescendAxes(G, T, Where(G.tiling, LAMBDA v : v \notin G.low \cup G.fixed), FALSE))

DescendSplitTiling(G) == DescendTiles(G, DescendAxes(G, Start(G), G.split, TRUE))

TritonConfigs(G, T) ==
  IF T.cfgs # {} THEN T.cfgs
  ELSE {[block |-> [v \in ToSet(G.split) |-> G.numel[v]], sub |-> <<>>]}

-----------------------------------------------------------------------------
(* The generated kernel. *)

\* Innermost must be a tiling axis: others are moved to the front.
RECURSIVE Rotated(_, _)
Rotated(sorted, tiling) ==
  IF Last(sorted) \in tiling THEN sorted ELSE Rotated(<<Last(sorted)>> \o Front(sorted), tiling)

\* The numel parameters are in the order of the axes before the body is
\* generated, the arguments in the order after it.
NumelArgs(k, D, P) ==
  LET passed == Rotated(P.sorted, P.tiling)
  IN [v \in D.live |-> SizeHints(k, D)[passed[PositionIn(P.sorted, v)]]]

Grid(N, c, v) == CeilDiv(N[v], c.block[v])

SubBlock(k, D, P, c, v) ==
  IF P.persistent /\ v \in ReductionAxes(k, D) THEN D.node[v].len ELSE c.sub[v]

\* The lanes of tiles that their mask lets through.
Unmasked(tiles, upper) == {w \in tiles : w[2] + w[3] < upper[w[1]]}

\* What the programs and loops visit of one axis, <<offset of the program,
\* start of the tile, lane in the tile>>; masked lanes are left out.
Visits(k, D, P, c, N, v) ==
  LET sub     == SubBlock(k, D, P, c, v)
      split   == v \in P.isSplit
      offsets == IF split THEN {p * c.block[v] : p \in 0..(Grid(N, c, v) - 1)} ELSE {0}
      upper   == [o \in offsets |-> IF split THEN Min({c.block[v] + o, N[v]}) ELSE N[v]]
      loops   == CeilDiv(IF split THEN c.block[v] ELSE N[v], sub)
      tiles   == {<<o, o + l * sub, b>> : o \in offsets, l \in 0..(loops - 1), b \in 0..(sub - 1)}
  IN IF v \in P.tiling
     THEN Unmasked(tiles, upper)
     ELSE UNION {{<<o, st, 0>> : st \in o..(upper[o] - 1)} : o \in offsets}

\* The address the i-th index of node n has at an iteration: axis |-> visit.
AddressAt(D, P, n, i, it) ==
  LET coord(v) == it[v][2] + IF v \in P.tiling THEN it[P.lane[n][i][v]][3] ELSE 0
      value(v) == IF v \in D.live THEN coord(v)
                  ELSE SumOf(Map(D.subst[v], LAMBDA u : u[1] * coord(u[2])))
      term(t)  == t[1] * (IF t[4] = 0 THEN value(t[2]) \div t[3] ELSE (value(t[2]) \div t[3]) % t[4])
  IN SumOf(Map(D.index[n][i], term))

\* All choices of one element from each set of f.
RECURSIVE Products(_, _)
Products(S, f) ==
  IF S = {} THEN {<<>>}
  ELSE LET v == CHOOSE x \in S : TRUE
       IN {[x \in S |-> IF x = v THEN a ELSE rest[x]] : a \in f[v], rest \in Products(S \ {v}, f)}

Count(S, Of(_)) ==
  LET pairs == {<<x, Of(x)>> : x \in S}
  IN [t \in {p[2] : p \in pairs} |-> Cardinality({p \in pairs : p[2] = t})]

\* The value node n has in an iteration of the outer axes.  What an earlier
\* node of the kernel stored is not loaded again.
RECURSIVE ValueAt(_, _, _, _, _, _)
LoadedAt(k, D, P, n, it, inner) ==
  [i \in DOMAIN k.nodes[n].loads |->
     IF k.nodes[n].loads[i][1] = 0 THEN AddressAt(D, P, n, i, it)
     ELSE ValueAt(k, D, P, k.nodes[n].loads[i][1], it, inner)]

ReducedAt(k, D, P, n, it, inner) ==
  Count(inner, LAMBDA r : LoadedAt(k, D, P, n, [v \in D.live |-> IF v \in DOMAIN r THEN r[v] ELSE it[v]], inner))

ValueAt(k, D, P, n, it, inner) ==
  IF Reducing(k.nodes[n]) THEN ReducedAt(k, D, P, n, it, inner) ELSE LoadedAt(k, D, P, n, it, inner)

StoredAt(k, D, P, n, it, inner) ==
  <<AddressAt(D, P, n, Len(D.index[n]), it), ValueAt(k, D, P, n, it, inner)>>

\* Everything node n stores, as a count of <<address, value>>.
KernelWrites(k, D, P, c, n) ==
  LET N     == NumelArgs(k, D, P)
      r     == ReductionAxes(k, D)
      seen  == [v \in D.live |-> Visits(k, D, P, c, N, v)]
      inner == Products(r, [v \in r |-> seen[v]])
      axes  == IF ~Reducing(k.nodes[n]) /\ InsideReduction(k, k.nodes[n]) THEN D.live ELSE D.live \ r
      any   == CHOOSE x \in inner : TRUE
      at(o) == [v \in D.live |-> IF v \in axes THEN o[v] ELSE any[v]]
  IN Count(Products(axes, [v \in axes |-> seen[v]]),
           LAMBDA o : StoredAt(k, D, P, n, at(o), inner))

ReducedDim(k, D, P) == CHOOSE i \in DOMAIN TileDims(P) : TileDims(P)[i] \in ReductionAxes(k, D)

\* The shape a reduced tile is given: the tiling axes with the reduced one,
\* the last, moved to the dimension that is reduced.
DenseSizeList(k, D, P) ==
  LET axes == Where(P.sorted, LAMBDA v : v \in P.tiling)
  IN InsertAt(Front(axes), ReducedDim(k, D, P), Last(axes))

\* What the launched kernel needs to compile: an axis for every variable,
\* the block sizes it takes, a loop for every tiled axis, matching shapes.
Compiles(k, D, P, c) ==
  LET r      == ReductionAxes(k, D)
      uses   == UNION {{t[2] : t \in ToSet(x)} : x \in UNION {ToSet(is) : is \in ToSet(D.index)}}
      known  == D.live \cup {v \in DOMAIN D.subst : \A u \in ToSet(D.subst[v]) : u[2] \in D.live}
      sized  == P.tiling \ (IF P.persistent THEN r ELSE {})
  IN /\ uses \subseteq known
     /\ sized \subseteq DOMAIN c.sub
     /\ Cardinality(r) > 1 => P.tiling = r
     /\ Cardinality(r) = 1 => DenseSizeList(k, D, P) = TileDims(P)

-----------------------------------------------------------------------------
(* What the nodes compute, on their own ranges. *)

Points(n) == LET len == n.pw \o n.red IN Products(DOMAIN len, [i \in DOMAIN len |-> 0..(len[i] - 1)])

Address(index, p) ==
  SumOf(Map(index, LAMBDA t : t[1] * (IF t[4] = 0 THEN p[t[2]] \div t[3] ELSE (p[t[2]] \div t[3]) % t[4])))

RECURSIVE NodeValue(_, _, _)
NodeValue(k, n, p) ==
  LET node  == k.nodes[n]
      load(l, q) == IF l[1] = 0 THEN Address(l[2], q)
                    ELSE NodeValue(k, l[1], CHOOSE w \in Points(k.nodes[l[1]]) :
                                              Address(k.nodes[l[1]].store, w) = Address(l[2], q))
      tuple(q)   == Map(node.loads, LAMBDA l : load(l, q))
      same(q)    == \A i \in DOMAIN node.pw : p[i] = q[i]
  IN IF Reducing(node) THEN Count({q \in Points(node) : same(q)}, tuple) ELSE tuple(p)

NodeWrites(k, n) == {<<Address(k.nodes[n].store, p), NodeValue(k, n, p)>> : p \in Points(k.nodes[n])}

-----------------------------------------------------------------------------

Init ==
  /\ kernel = <<>> /\ stage = "idle" /\ dims = NoDims /\ plan = <<>> /\ configs = {} /\ cfg = <<>>

\* A fused node reaches the back end; the ranges of its nodes are set up on
\* the axes of the kernel and flattened dimensions are rebuilt.
CodegenNode(k, bytes) ==
  /\ stage = "idle"
  /\ kernel' = <<k, bytes>>
  /\ dims' = TransformNodes(k, NoDims, 1)
  /\ stage' = IF dims'.ok THEN "dims" ELSE "cannot_split"
  /\ UNCHANGED <<plan, configs, cfg>>

DecideCodegenDims ==
  /\ stage = "dims"
  /\ dims' = SubstituteDims(dims)
  /\ plan' = WithLanes(dims', SelectAxes(kernel[1], dims'))
  /\ stage' = "planned"
  /\ UNCHANGED <<kernel, configs, cfg>>

\* The heuristic decorator of the generated kernel runs the tile generator.
GenerateConfigs ==
  LET G == Generator(kernel[1], dims, plan, kernel[2])
      T == DescendSplitTiling(G)
  IN /\ stage = "planned"
     /\ stage' = IF T.raised THEN "raised" ELSE "tuning"
     /\ configs' = IF T.raised THEN {} ELSE TritonConfigs(G, T)
     /\ UNCHANGED <<kernel, dims, plan, cfg>>

\* The tuner may pick any of the configurations.
Launch(c) ==
  /\ stage = "tuning"
  /\ cfg' = c
  /\ stage' = IF Compiles(kernel[1], dims, plan, c) THEN "ran" ELSE "raised"
  /\ UNCHANGED <<kernel, dims, plan, configs>>

Next ==
  \/ \E k \in Kernels, bytes \in DtypeBytes : CodegenNode(k, bytes)
  \/ DecideCodegenDims
  \/ GenerateConfigs
  \/ \E c \in configs : Launch(c)

Spec == Init /\ [][Next]_vars

-----------------------------------------------------------------------------

\* Whatever configuration a kernel is launched with, its programs store what
\* the fused nodes compute: every element of every node, from the elements
\* the node reads, each pointwise element once and each reduction over every
\* reduced element once; no kernel fails to compile.
TilingExact ==
  /\ stage # "raised"
  /\ stage = "ran" =>
       \A n \in DOMAIN kernel[1].nodes :
         LET w == KernelWrites(kernel[1], dims, plan, cfg, n)
         IN /\ DOMAIN w = NodeWrites(kernel[1], n)
            /\ \A x \in DOMAIN w : w[x] = 1
=============================================================================
