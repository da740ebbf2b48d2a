------------------------------ MODULE FsdpCache ------------------------------
(***************************************************************************)
(* The patches on fully_shard (distributed/fsdp/_add_fsdp_patch.py): a     *)
(* cache of communication buffers that spans the layers, layers that stay  *)
(* gathered after a recomputation, and the saved forward prefetches.  One  *)
(* host thread runs forwards and backwards over the layers; the device has *)
(* the streams "compute", "gather" and "reduce".  FSDPParamGroup and       *)
(* FSDPState are those of the library, as these patches call them.         *)
(***************************************************************************)
EXTENDS Integers, FiniteSets, SequencesExt

CONSTANTS Layers,      \* their number
          Numel,       \* layer -> elements of its gathered weights
          Gathered, Reduced,  \* dtypes of the gathered weights and of the gradients
          MaxPasses    \* bound on forwards over all the layers

VARIABLES
    mode,      \* how the program is set up: [prefetch, recompute, cached, evaluates], see Init
    pc,        \* [at, layer]: "idle", "forward", "backward"
    group,     \* layer -> [sharded, result, training, skip, prefetch, backup, fresh]
    cache,     \* FSDPMemCache: dtype -> sequence of [buf, numel, used]
    gather,    \* comm_ctx.all_gather_state: <<>> or <<[buf, event]>>
    reduce,    \* comm_ctx.reduce_scatter_state: <<>> or <<event>>
    after,     \* buffer -> [version, on]: the streams behind its last use
    races,     \* uses of a buffer that were not ordered after the last one
    gathers,   \* layer -> all-gathers since the last optimizer step
    passes

vars == <<mode, pc, group, cache, gather, reduce, after, races, gathers, passes>>

L == 1..Layers
Streams == {"compute", "gather", "reduce"}

(***************************************************************************)
(* The steps below work on the device and cache state                      *)
(* d = [group, cache, gather, reduce, after, races, gathers].              *)
(***************************************************************************)
Device == [group |-> group, cache |-> cache, gather |-> gather, reduce |-> reduce, after |-> after,
           races |-> races, gathers |-> gathers]

\* An operation on a stream that uses a buffer.
Use(d, stream, buf) ==
    [d EXCEPT !.races = IF stream \in d.after[buf].on THEN @ ELSE @ \cup {<<stream, buf>>},
              !.after[buf] = [version |-> @.version + 1, on |-> {stream}]]

\* An event: what the stream has behind it when the event is recorded.
Record(d, stream) == {<<b, d.after[b].version>> : b \in {x \in DOMAIN d.after : stream \in d.after[x].on}}

Wait(d, stream, event) ==
    [d EXCEPT !.after = [b \in DOMAIN d.after |->
        IF <<b, d.after[b].version>> \in event THEN [d.after[b] EXCEPT !.on = @ \cup {stream}] ELSE d.after[b]]]

\* torch.empty: memory that no stream uses.
Fresh(d) == [d EXCEPT !.after = Append(@, [version |-> 0, on |-> Streams])]

\* FSDPMemCache.allocate: the first unused buffer, replaced if it is too small.
\* The buffer is the last component's; the result is <<d, buffer>>.
Entry(buf, numel) == [buf |-> buf, numel |-> numel, used |-> TRUE]
allocate(d, dtype, numel) ==
    LET list == d.cache[dtype]
        free == {i \in DOMAIN list : ~list[i].used}
        i == CHOOSE x \in free : \A y \in free : x <= y
        buf == Len(d.after) + 1
    IN IF free = {} THEN <<[Fresh(d) EXCEPT !.cache[dtype] = Append(@, Entry(buf, numel))], buf>>
       ELSE IF list[i].numel < numel THEN <<[Fresh(d) EXCEPT !.cache[dtype][i] = Entry(buf, numel)], buf>>
       ELSE <<[d EXCEPT !.cache[dtype][i].used = TRUE], list[i].buf>>

\* FSDPMemCache.free: nothing for a buffer that is not the cache's.
free(d, dtype, buf) ==
    [d EXCEPT !.cache[dtype] = [i \in DOMAIN @ |-> IF @[i].buf = buf THEN [@[i] EXCEPT !.used = FALSE] ELSE @[i]]]

\* A buffer for layer i: from the cache if its module says so.
AllocateFor(d, i, dtype) ==
    IF i \in mode.cached THEN allocate(d, dtype, Numel[i]) ELSE <<Fresh(d), Len(d.after) + 1>>

(***************************************************************************)
(* Gathering the weights of a layer.                                       *)
(***************************************************************************)
\* unshard: copy-in and all-gather, unless the layer is gathered or about to be.
Gathering(d, i, buf) ==
    [d EXCEPT !.group[i].result = <<[buf |-> buf, event |-> Record(d, "gather")]>>,
              !.group[i].fresh = TRUE, !.gathers[i] = @ + 1]
GatherInto(got, i) == Gathering(Use(got[1], "gather", got[2]), i, got[2])
Unshard(d, i) ==
    IF d.group[i].result # <<>> \/ ~d.group[i].sharded THEN d ELSE GatherInto(AllocateFor(d, i, Gathered), i)

\* Mutant: the buffer goes back while the copy-out still reads it.
FreeAtOnce(d, i, event) ==
    IF d.group[i].training = "forward" /\ d.gather # <<>> THEN free(d, Gathered, d.gather[1].buf)
    ELSE IF d.group[i].result # <<>> THEN free(d, Gathered, d.group[i].result[1].buf)
    ELSE d
\* The all-gathers to come wait for the copy-out; its buffer goes back to the cache:
\* the one a layer before deferred, or the layer's own.
_wait_all_gather_streams_on_event(d, i, event) ==
    LET e == Wait(d, "gather", event)
    IN IF d.group[i].training = "forward" /\ d.gather # <<>> THEN free(e, Gathered, d.gather[1].buf)
       ELSE IF d.group[i].result # <<>> THEN free(e, Gathered, d.group[i].result[1].buf)
       ELSE e

\* wait_for_unshard: a forward defers the release of its buffer to the next layer.
DropDeferred(d, i) ==
    IF d.group[i].training = "forward" /\ d.gather # <<>>
    THEN [_wait_all_gather_streams_on_event(d, i, d.gather[1].event) EXCEPT !.gather = <<>>]
    ELSE d
HoldResult(d, i, buf) ==
    IF d.group[i].training = "forward" THEN [d EXCEPT !.gather = <<[buf |-> buf, event |-> Record(d, "compute")]>>]
    ELSE _wait_all_gather_streams_on_event(d, i, Record(d, "compute"))
CopyOut(d, i, result) ==
    HoldResult(Use(Wait(DropDeferred(d, i), "compute", result.event), "compute", result.buf), i, result.buf)
WaitForUnshard(d, i) ==
    IF d.group[i].result = <<>> THEN d
    ELSE [CopyOut(d, i, d.group[i].result[1]) EXCEPT !.group[i].result = <<>>, !.group[i].sharded = FALSE]

(***************************************************************************)
(* Forwards.                                                               *)
(***************************************************************************)
\* move_attr: the list moves to the other attribute and leaves an empty one.  The
\* backup is <<>> for None, or <<list>>.
PutAway(g) == [g EXCEPT !.backup = <<g.prefetch>>, !.prefetch = <<>>]
GiveBack(g) == [g EXCEPT !.prefetch = g.backup[1], !.backup = << <<>> >>]

\* FSDPState._post_forward: the first forward puts the prefetches away, so that the
\* recomputation, which is the second, does none; it gets them back after it.  The
\* attribute skip_custom_post_forward of a module leaves them alone.
_patched_fsdp_state_post_forward(d, i) ==
    LET g == d.group[i]
    IN IF mode.prefetch = "kept" THEN d
       ELSE IF ~g.skip /\ g.training # "pre_backward" THEN [d EXCEPT !.group[i] = PutAway(g)]
       ELSE IF g.backup # <<>> THEN [d EXCEPT !.group[i] = GiveBack(g)]
       ELSE d

\* FSDPParamGroup.post_forward: only the first one since the last backward shards again.
_patched_post_forward(d, i) ==
    IF d.group[i].skip THEN d
    ELSE [d EXCEPT !.group[i].sharded = TRUE, !.group[i].training = "idle", !.group[i].skip = TRUE]

\* The all-gathers of a forward start after what the compute stream has done.
RootPreForward(d) == Wait(d, "gather", Record(d, "compute"))

\* The root drops what the last layer deferred; the cache is not told.
RootPostForward(d) ==
    IF d.gather = <<>> THEN d ELSE [Wait(d, "gather", d.gather[1].event) EXCEPT !.gather = <<>>]

RECURSIVE UnshardAll(_, _)
UnshardAll(d, is) == IF is = <<>> THEN d ELSE UnshardAll(Unshard(d, Head(is)), Tail(is))

Ready(d, i) == WaitForUnshard(Unshard(d, i), i)
PostForward(d, i) == _patched_post_forward(_patched_fsdp_state_post_forward(d, i), i)
LayerForward(d, i) ==
    PostForward(UnshardAll(Ready([d EXCEPT !.group[i].training = "forward"], i), d.group[i].prefetch), i)

(***************************************************************************)
(* Backwards.                                                              *)
(***************************************************************************)
\* pre_backward: gather the layer and the one whose backward comes next.
GatherNext(d, i) == IF i = 1 THEN d ELSE Unshard(d, i - 1)
PreBackward(d, i) == GatherNext(Ready([d EXCEPT !.group[i].training = "pre_backward"], i), i)

\* foreach_reduce: the input is filled by the compute stream once the reduction before
\* is over, and read by the reduce stream; the cache has it back at once.
ReduceFrom(d, buf) == [free(d, Reduced, buf) EXCEPT !.reduce = <<Record(d, "reduce")>>]
ReadBy(d, buf) == ReduceFrom(Use(Wait(d, "reduce", Record(d, "compute")), "reduce", buf), buf)
FillAndRead(got) == ReadBy(Use(got[1], "compute", got[2]), got[2])
ForeachReduce(d, i) ==
    FillAndRead(AllocateFor(IF d.reduce = <<>> THEN d ELSE Wait(d, "compute", d.reduce[1]), i, Reduced))

_patched_post_backward(d, i) ==
    [ForeachReduce([d EXCEPT !.group[i].skip = FALSE], i) EXCEPT !.group[i].sharded = TRUE, !.group[i].training = "idle"]

\* A reentrant checkpoint around the layer calls its forward again, as a root of its
\* own, before the backward reaches the layer; one that is not reentrant does so after
\* pre_backward, when the forward's own hooks do nothing.
Recomputed(d, i) == RootPostForward(LayerForward(RootPreForward(d), i))
ReachLayer(d, i) ==
    CASE mode.recompute = "no" -> PreBackward(d, i)
      [] mode.recompute = "before" -> PreBackward(Recomputed(d, i), i)
      [] mode.recompute = "within" -> _patched_fsdp_state_post_forward(PreBackward(d, i), i)
LayerBackward(d, i) == _patched_post_backward(ReachLayer(d, i), i)

\* finalize_backward of every layer: the stream waits for an all-gather nobody used.
RECURSIVE FinalizeBackward(_, _)
FinalizeBackward(d, i) ==
    IF i = 0 THEN d
    ELSE FinalizeBackward(IF d.group[i].result = <<>> THEN d
                          ELSE [Wait(d, "compute", d.group[i].result[1].event) EXCEPT !.group[i].result = <<>>], i - 1)

(***************************************************************************)
(* The program.                                                            *)
(***************************************************************************)
Prefetches(i) == IF mode.prefetch # "none" /\ i < Layers THEN <<i + 1>> ELSE <<>>

Init ==
    /\ mode \in [prefetch : {"none", "moved", "kept"}, recompute : {"no", "before", "within"},
                 cached : SUBSET L, evaluates : BOOLEAN]
    /\ pc = [at |-> "idle", layer |-> 0]
    /\ group = [i \in L |-> [sharded |-> TRUE, result |-> <<>>, training |-> "idle", skip |-> FALSE,
                             prefetch |-> Prefetches(i),
                             backup |-> <<>>, fresh |-> FALSE]]
    /\ cache = [t \in {Gathered, Reduced} |-> <<>>]
    /\ gather = <<>> /\ reduce = <<>> /\ after = <<>> /\ races = {}
    /\ gathers = [i \in L |-> 0]
    /\ passes = 0

Take(d) == /\ group' = d.group /\ cache' = d.cache /\ gather' = d.gather /\ reduce' = d.reduce
           /\ after' = d.after /\ races' = d.races /\ gathers' = d.gathers
           /\ UNCHANGED mode

StartForward == /\ pc.at = "idle" /\ passes < MaxPasses
                /\ pc' = [at |-> "forward", layer |-> 1] /\ passes' = passes + 1
                /\ Take(RootPreForward(Device))

Forward == /\ pc.at = "forward" /\ pc.layer <= Layers
           /\ pc' = [pc EXCEPT !.layer = @ + 1]
           /\ Take(LayerForward(Device, pc.layer))
           /\ UNCHANGED passes

\* After a forward comes its backward, or none when the model is evaluated.
EndForward == /\ pc.at = "forward" /\ pc.layer > Layers
              /\ pc' \in {[at |-> "backward", layer |-> Layers]}
                        \cup (IF mode.evaluates THEN {[at |-> "idle", layer |-> 0]} ELSE {})
              /\ Take(RootPostForward(Device))
              /\ UNCHANGED passes

Backward == /\ pc.at = "backward" /\ pc.layer > 0
            /\ pc' = [pc EXCEPT !.layer = @ - 1]
            /\ Take(LayerBackward(Device, pc.layer))
            /\ UNCHANGED passes

\* The optimizer step that follows makes every gathered copy of a weight an old one.
EndBackward ==
    /\ pc.at = "backward" /\ pc.layer = 0
    /\ pc' = [at |-> "idle", layer |-> 0]
    /\ LET d == FinalizeBackward(Wait(Device, "compute", reduce[1]), Layers)
       IN Take([d EXCEPT !.reduce = <<>>, !.gathers = [i \in L |-> 0],
                         !.group = [i \in L |-> [d.group[i] EXCEPT !.fresh = FALSE]]])
    /\ UNCHANGED passes

Next == StartForward \/ Forward \/ EndForward \/ Backward \/ EndBackward
Spec == Init /\ [][Next]_vars

(***************************************************************************)
(* Properties.                                                             *)
(***************************************************************************)
\* No two all-gathers hold one buffer, and none that the cache calls free.
Holders == [i \in L |-> group[i].result] \o <<gather>>
BuffersApart ==
    \A i, j \in DOMAIN Holders :
        /\ Holders[i] # <<>> /\ Holders[j] # <<>> /\ i # j => Holders[i][1].buf # Holders[j][1].buf
        /\ Holders[i] # <<>> =>
             \A k \in DOMAIN cache[Gathered] : cache[Gathered][k].buf = Holders[i][1].buf => cache[Gathered][k].used

\* A layer computes with weights gathered since the optimizer last changed them.
WeightsFresh == \A i \in L : ~group[i].sharded => group[i].fresh

\* A program that only trains gathers a layer at most twice between two steps of its
\* optimizer: the recomputation leaves it gathered for the backward, and prefetches
\* nothing unless the module asks for the library's own behaviour.
GatheredTwice ==
    ~mode.evaluates /\ mode.prefetch # "kept" => \A i \in L : gathers[i] <= 2

\* A recomputing program has its prefetches back when the backward is over.
PrefetchesKept ==
    pc.at = "idle" /\ ~mode.evaluates /\ mode.recompute # "no" =>
        \A i \in L : group[i].prefetch = Prefetches(i)

\* The buffers that the layers share (FSDPMemCache) are never used by two streams at
\* once, weights are never stale, and a recomputation costs no further all-gather.
CacheSafe == races = {} /\ BuffersApart /\ WeightsFresh /\ GatheredTwice /\ PrefetchesKept
=============================================================================
