--------------------------- MODULE CachingAllocator ---------------------------
(***************************************************************************)
(* The native device memory allocator and its Python interface: segments   *)
(* split into blocks, stream uses and their end-of-life events, private    *)
(* pools of graphs and of use_mem_pool, the memory fraction, the flush and *)
(* retry of a failed allocation, and the statistics torch_npu.npu.memory   *)
(* reports.  Expandable segments, oversize blocks and age-based collection *)
(* are the non-default configurations and are left out.  Each call holds   *)
(* the allocator's mutex and is one step, but the flush of a failed        *)
(* allocation gives the mutex up while it waits for the device.            *)
(***************************************************************************)
EXTENDS Integers, SequencesExt, FiniteSetsExt

CONSTANTS
    Streams,          \* streams of the device
    Pools,            \* ids a MemPool may have (the default pool is 0)
    Requests,         \* sizes asked for
    Fractions,        \* limits set_per_process_memory_fraction may set
    Capacity,         \* memory of the device
    MinBlock, Pad, SmallSize, SmallBuffer, MinLargeAlloc, LargeBuffer, RoundLarge,
    MaxBlocks,        \* bound on block objects
    MaxUses,          \* bound on outstanding stream uses
    MaxCalls,         \* bound on the calls of a behaviour
    CaptureRecords,   \* may a use be recorded while a pool is being allocated to?
    EraseDeferred,    \* may eraseStreamWithBlockPtr meet a block whose events are deferred?
    NestPools         \* may use_mem_pool be entered within use_mem_pool?

VARIABLES heap,       \* the allocator, its events and the device queues
          waiting,    \* the request whose thread waits for the device: <<>> or <<r>>
          contexts,   \* the open use_mem_pool contexts, outermost first
          calls,
          landed      \* where the last allocation went: <<>> or <<pool, active pool>>

vars == <<heap, waiting, contexts, calls, landed>>

Metrics == {"allocation", "segment", "active", "inactive_split", "allocated_bytes",
            "reserved_bytes", "active_bytes", "inactive_split_bytes", "requested_bytes"}
Types == {"all", "small_pool", "large_pool"}
\* The metrics whose peak and accumulated totals are followed.
Peaked == {"allocated_bytes", "reserved_bytes"}

Larger(a, b) == IF a > b THEN a ELSE b
Least(S) == CHOOSE x \in S : \A y \in S : x <= y

\* A block: its object's identity, its size, the size asked for, "alloc",
\* "wait" (freed, but a stream may still use it) or "free" (cached), the
\* streams recorded on it and the number of its events.
NewBlock(id, size) == [id |-> id, size |-> size, req |-> 0, st |-> "free", uses |-> {}, evs |-> 0]

(***************************** statistics *********************************)

\* update_stat_array for a pool's statistics types: the aggregate and its own.
Bump(h, small, change) ==
    LET stats == [m \in Metrics |-> [t \in Types |->
                    IF m \in DOMAIN change /\ (t = "all" \/ (t = "small_pool") = small)
                    THEN h.stats[m][t] + change[m] ELSE h.stats[m][t]]]
    IN  [h EXCEPT !.stats = stats,
                  !.peak = [m \in Peaked |-> Larger(@[m], stats[m]["all"])],
                  !.acc = [m \in Peaked |->
                    LET d == stats[m]["all"] - h.stats[m]["all"]
                    IN  [allocated |-> @[m].allocated + Larger(d, 0), freed |-> @[m].freed + Larger(-d, 0)]]]

resetPeakStats(h) == [h EXCEPT !.peak = [m \in Peaked |-> h.stats[m]["all"]]]
NoAcc == [m \in Peaked |-> [allocated |-> 0, freed |-> 0]]
resetAccumulatedStats(h) ==
    [h EXCEPT !.acc = NoAcc, !.retries = 0, !.ooms = 0, !.since = [m \in Peaked |-> h.stats[m]["all"]]]

(******************************* blocks ***********************************)

round_size(size) ==
    IF size + Pad < MinBlock THEN MinBlock
    ELSE MinBlock * ((size + Pad + MinBlock - 1) \div MinBlock)

get_allocation_size(size) ==
    IF size <= SmallSize THEN SmallBuffer
    ELSE IF size < MinLargeAlloc THEN LargeBuffer
    ELSE RoundLarge * ((size + RoundLarge - 1) \div RoundLarge)

should_split(small, blockSize, size) ==
    IF small THEN blockSize - size >= MinBlock ELSE blockSize - size > SmallSize

\* The first entry whose filter takes the stream owns the allocation.
get_pool(h, size, s) ==
    LET taken == {i \in DOMAIN h.captures : s \in h.captures[i].streams}
    IN  <<IF taken = {} THEN 0 ELSE h.captures[Least(taken)].pool, size <= SmallSize>>

Ids(h) == UNION {{h.segs[g].blocks[i].id : i \in DOMAIN h.segs[g].blocks} : g \in DOMAIN h.segs}
Fresh(h) == (1 .. MaxBlocks) \ Ids(h)
SegOf(h, id) == CHOOSE g \in DOMAIN h.segs : \E i \in DOMAIN h.segs[g].blocks : h.segs[g].blocks[i].id = id
IndexOf(blocks, id) == CHOOSE i \in DOMAIN blocks : blocks[i].id = id
BlockOf(h, id) == LET b == h.segs[SegOf(h, id)].blocks IN b[IndexOf(b, id)]
SetBlock(h, b) ==
    LET g == SegOf(h, b.id)
        i == IndexOf(h.segs[g].blocks, b.id)
    IN  [h EXCEPT !.segs[g].blocks[i] = b]

\* Work that was recorded as using the block and has not run yet.
InUse(h, id) == \E s \in Streams : \E i \in DOMAIN h.queue[s] : h.queue[s][i] = <<"use", id>>

\* A form that merges with a block other streams still use.
MergeAnyway(b) == b.st # "alloc"

\* A neighbour is merged when it is unused.
try_merge_blocks(b) == b.st # "alloc" /\ b.evs = 0 /\ b.uses = {}

\* Blocks lo .. hi of a segment become one free block, the i-th returns to the pool.
FreeRange(h, g, blocks, i, lo, hi) ==
    LET size == MapThenSumSet(LAMBDA j : blocks[j].size, lo .. hi)
        split == Len(blocks) > hi - lo + 1
    IN  Bump([h EXCEPT !.segs[g].blocks = SubSeq(blocks, 1, lo - 1)
                                            \o <<[NewBlock(blocks[i].id, size) EXCEPT !.req = blocks[i].req]>>
                                            \o SubSeq(blocks, hi + 1, Len(blocks)),
                       !.early = @ \/ InUse(h, blocks[i].id)],
             h.segs[g].pool[2],
             [inactive_split |-> (IF split THEN 1 ELSE 0) - (hi - lo),
              inactive_split_bytes |-> (IF split THEN size ELSE 0) - (size - blocks[i].size),
              active |-> -1,
              active_bytes |-> -blocks[i].size,
              requested_bytes |-> -blocks[i].req])

FreeAt(h, g, blocks, i) ==
    FreeRange(h, g, blocks, i,
              IF i > 1 /\ try_merge_blocks(blocks[i - 1]) THEN i - 1 ELSE i,
              IF i < Len(blocks) /\ try_merge_blocks(blocks[i + 1]) THEN i + 1 ELSE i)
FreeIn(h, g, id) == FreeAt(h, g, h.segs[g].blocks, IndexOf(h.segs[g].blocks, id))

\* free_block: merge with the free neighbours and return to the pool.
free_block(h, id) == FreeIn(h, SegOf(h, id), id)

\* The block got is the i-th of the segment, whose end is split off or not.
HandOut(h, g, blocks, i, got, split) ==
    LET b == blocks[i]
        already == Len(blocks) > 1
    IN  Bump([h EXCEPT !.segs[g].blocks =
                  SubSeq(@, 1, i - 1)
                    \o (IF split THEN <<got, [b EXCEPT !.size = @ - got.size]>> ELSE <<got>>)
                    \o SubSeq(@, i + 1, Len(@))],
             h.segs[g].pool[2],
             [inactive_split |-> IF split = already THEN 0 ELSE IF split THEN 1 ELSE -1,
              inactive_split_bytes |-> IF split THEN IF already THEN -got.size ELSE b.size - got.size
                                       ELSE IF already THEN -got.size ELSE 0,
              allocation |-> 1, allocated_bytes |-> got.size,
              active |-> 1, active_bytes |-> got.size, requested_bytes |-> got.req])

FoundAt(h, g, blocks, i, size, orig) ==
    IF should_split(h.segs[g].pool[2], blocks[i].size, size)
    THEN HandOut(h, g, blocks, i,
                 [NewBlock(Least(Fresh(h)), size) EXCEPT !.st = "alloc", !.req = orig], TRUE)
    ELSE HandOut(h, g, blocks, i,
                 [NewBlock(blocks[i].id, blocks[i].size) EXCEPT !.st = "alloc", !.req = orig], FALSE)
FoundIn(h, g, id, size, orig) ==
    FoundAt(h, g, h.segs[g].blocks, IndexOf(h.segs[g].blocks, id), size, orig)

\* alloc_found_block: hand out the block, its end split off when worth it.
alloc_found_block(h, id, size, orig) == FoundIn(h, SegOf(h, id), id, size, orig)

\* Cached blocks of the pool and stream that are large enough, as <<size, segment, index>>.
Fitting(h, pool, s, size) ==
    {<<h.segs[g].blocks[i].size, g, i>> :
        <<g, i>> \in {p \in (DOMAIN h.segs) \X (1 .. MaxBlocks) :
            /\ h.segs[p[1]].pool = pool /\ h.segs[p[1]].stream = s
            /\ p[2] \in DOMAIN h.segs[p[1]].blocks
            /\ h.segs[p[1]].blocks[p[2]].st = "free"
            /\ h.segs[p[1]].blocks[p[2]].size >= size}}

Before(x, y) == \/ x[1] < y[1]
                \/ x[1] = y[1] /\ x[2] < y[2]
                \/ x[1] = y[1] /\ x[2] = y[2] /\ x[3] <= y[3]

get_free_block(h, pool, s, size) ==
    LET best == CHOOSE x \in Fitting(h, pool, s, size) : \A y \in Fitting(h, pool, s, size) : Before(x, y)
    IN  h.segs[best[2]].blocks[best[3]].id

SegSize(seg) == MapThenSumSet(LAMBDA i : seg.blocks[i].size, DOMAIN seg.blocks)
Reserved(h) == MapThenSumSet(LAMBDA g : SegSize(h.segs[g]), DOMAIN h.segs)

\* alloc_block fails over the fraction or when the device is out of memory.
Affordable(h, size) ==
    /\ h.fraction # <<>> => h.total + get_allocation_size(size) <= h.fraction[1]
    /\ Reserved(h) + get_allocation_size(size) <= Capacity

\* alloc_block: a new segment of one block.
alloc_block(h, pool, s, size) ==
    LET alloc == get_allocation_size(size)
        g == Least((1 .. MaxBlocks) \ DOMAIN h.segs)
        seg == [pool |-> pool, stream |-> s, blocks |-> <<NewBlock(Least(Fresh(h)), alloc)>>]
    IN  Bump([h EXCEPT !.segs = [x \in DOMAIN @ \cup {g} |-> IF x = g THEN seg ELSE @[x]],
                       !.total = @ + alloc,
                       !.mallocs = IF pool[1] = 0 THEN @ ELSE [@ EXCEPT ![pool[1]] = @ + 1]],
             pool[2], [segment |-> 1, reserved_bytes |-> alloc])

(******************************* events ***********************************)

\* insert_events: one event per stream recorded on the block.
InsertFor(h, b) ==
    [SetBlock(h, [b EXCEPT !.uses = {}, !.evs = @ + Cardinality(b.uses)])
       EXCEPT !.events = [s \in Streams |-> IF s \in b.uses THEN Append(@[s], b.id) ELSE @[s]],
              !.queue = [s \in Streams |-> IF s \in b.uses THEN Append(@[s], <<"event", b.id>>) ELSE @[s]]]
insert_events(h, id) == InsertFor(h, BlockOf(h, id))

\* remove_npugraph_stream_uses
remove_npugraph_stream_uses(h, id) ==
    IF id \notin DOMAIN h.graphUses THEN h
    ELSE LET b == BlockOf(h, id)
         IN  [SetBlock(h, [b EXCEPT !.uses = @ \ h.graphUses[id]])
                EXCEPT !.graphUses = [x \in DOMAIN @ \ {id} |-> @[x]]]

\* A block with no event left is freed.
FreeIfIdle(h, id) == IF BlockOf(h, id).evs = 0 THEN free_block(h, id) ELSE h

InsertDeferred(h, id) == FreeIfIdle(insert_events(remove_npugraph_stream_uses(h, id), id), id)

insert_events_deferred_until_no_capture(h) ==
    [FoldLeft(InsertDeferred, h, h.deferred) EXCEPT !.deferred = <<>>]

\* One event of a block is over: the block is free with the last one.
EventOver(h, id) == FreeIfIdle(SetBlock(h, [BlockOf(h, id) EXCEPT !.evs = @ - 1]), id)

Recorded(h, s, id) == \E i \in DOMAIN h.queue[s] : h.queue[s][i] = <<"event", id>>

\* The leading events of a stream that have completed.
Completed(h, s) ==
    LET n == Len(h.events[s])
        stop == {i \in 1 .. n : Recorded(h, s, h.events[s][i])}
    IN  SubSeq(h.events[s], 1, (IF stop = {} THEN n + 1 ELSE Least(stop)) - 1)

StreamEvents(h, s) ==
    LET done == Completed(h, s)
    IN  FoldLeft(EventOver, [h EXCEPT !.events[s] = SubSeq(@, Len(done) + 1, Len(@))], done)

StreamSeq == SetToSeq(Streams)

process_events(h) == FoldLeft(StreamEvents, insert_events_deferred_until_no_capture(h), StreamSeq)

\* aclrtSynchronizeEvent: everything before the event on its stream has run.
SyncStream(h, s) ==
    FoldLeft(EventOver, [h EXCEPT !.events[s] = <<>>,
                                  !.queue[s] = IF h.events[s] = <<>> THEN @ ELSE <<>>], h.events[s])

synchronize_and_free_events(h) ==
    FoldLeft(SyncStream, insert_events_deferred_until_no_capture(h), StreamSeq)

(************************ returning memory ********************************)

release_block(h, g) ==
    LET seg == h.segs[g]
        size == seg.blocks[1].size
    IN  Bump([h EXCEPT !.segs = [x \in DOMAIN @ \ {g} |-> @[x]],
                       !.total = @ - size,
                       !.mallocs = IF seg.pool[1] = 0 THEN @ ELSE [@ EXCEPT ![seg.pool[1]] = @ - 1]],
             seg.pool[2], [segment |-> -1, reserved_bytes |-> -size])

Releasable(h, g) == Len(h.segs[g].blocks) = 1 /\ h.segs[g].blocks[1].st = "free"

release_blocks(h, pools) ==
    FoldLeft(release_block, h, SetToSeq({g \in DOMAIN h.segs : Releasable(h, g) /\ h.segs[g].pool[1] \in pools}))

\* release_cached_blocks: also the freeable private pools, forgotten when empty.
ForgetPools(h, gone) ==
    [h EXCEPT !.freeable = @ \ gone,
              !.useCount = [p \in DOMAIN @ \ gone |-> @[p]],
              !.mallocs = [p \in DOMAIN @ \ gone |-> @[p]]]
ForgetEmptyPools(h) == ForgetPools(h, {p \in h.freeable : h.mallocs[p] = 0})
release_cached_blocks(h) ==
    ForgetEmptyPools(release_blocks(synchronize_and_free_events(h), {0} \cup h.freeable))

Drained(h) == [h EXCEPT !.queue = [s \in Streams |-> <<>>]]

(***************************** operations *********************************)

Init ==
    /\ heap = [segs |-> <<>>, total |-> 0, fraction |-> <<>>, ready |-> FALSE,
               stats |-> [m \in Metrics |-> [t \in Types |-> 0]], peak |-> [m \in Peaked |-> 0],
               acc |-> NoAcc, since |-> [m \in Peaked |-> 0],
               retries |-> 0, ooms |-> 0,
               events |-> [s \in Streams |-> <<>>], deferred |-> <<>>, graphUses |-> <<>>,
               captures |-> <<>>, useCount |-> <<>>, mallocs |-> <<>>, freeable |-> {}, graphs |-> <<>>,
               queue |-> [s \in Streams |-> <<>>], early |-> FALSE]
    /\ waiting = <<>> /\ contexts = <<>> /\ calls = 0 /\ landed = <<>>

Called == calls < MaxCalls /\ calls' = calls + 1
Ready == [heap EXCEPT !.ready = TRUE]

\* A call of malloc first recycles what the streams have finished with.
Admitted == IF heap.captures = <<>> THEN process_events(Ready) ELSE Ready

ActivePool == IF contexts = <<>> THEN 0 ELSE contexts[Len(contexts)]

\* caching_allocator_alloc, served from the cache.
AllocCached(h, pool, size, orig, s) ==
    /\ Fresh(h) # {}
    /\ Fitting(h, pool, s, size) # {}
    /\ heap' = alloc_found_block(h, get_free_block(h, pool, s, size), size, orig)
    /\ landed' = <<pool[1], ActivePool>>
    /\ UNCHANGED <<waiting, contexts>>

\* A segment is bought and its first part handed out.
Buy(h, pool, s, size, orig) ==
    alloc_found_block(alloc_block(h, pool, s, size), Least(Fresh(h)), size, orig)

\* caching_allocator_alloc, served by a new segment.
AllocSegment(h, pool, size, orig, s) ==
    /\ Cardinality(Fresh(h)) >= 2
    /\ Fitting(h, pool, s, size) = {} /\ Affordable(h, size)
    /\ heap' = Buy(h, pool, s, size, orig)
    /\ landed' = <<pool[1], ActivePool>>
    /\ UNCHANGED <<waiting, contexts>>

\* Out of memory: outside a capture the thread gives the mutex up and waits
\* for the device, inside one the allocation fails.
AllocStalls(h, pool, size, orig, s) ==
    /\ waiting = <<>>
    /\ Fitting(h, pool, s, size) = {} /\ ~ Affordable(h, size)
    /\ IF h.captures = <<>>
       THEN heap' = h /\ waiting' = <<[orig |-> orig, stream |-> s, size |-> size, pool |-> pool]>>
       ELSE heap' = [h EXCEPT !.ooms = @ + 1] /\ UNCHANGED waiting
    /\ UNCHANGED <<contexts, landed>>

AllocFrom(h, pool, size, orig, s) ==
    \/ AllocCached(h, pool, size, orig, s)
    \/ AllocSegment(h, pool, size, orig, s)
    \/ AllocStalls(h, pool, size, orig, s)
AllocIn(h, size, orig, s) == AllocFrom(h, get_pool(h, size, s), size, orig, s)
Alloc(orig, s) == Called /\ AllocIn(Admitted, round_size(orig), orig, s)

Retry(h, r) ==
    IF Affordable(h, r.size)
    THEN [Buy(h, r.pool, r.stream, r.size, r.orig) EXCEPT !.retries = @ + 1]
    ELSE [h EXCEPT !.retries = @ + 1, !.ooms = @ + 1]

\* The device is idle and the mutex held again: flush the cache and retry.
\* release_cached_blocks refuses to run when a capture began meanwhile.
AllocRetries ==
    /\ waiting # <<>> /\ Cardinality(Fresh(heap)) >= 2
    /\ heap' = IF heap.captures # <<>> THEN Drained(heap)
               ELSE Retry(release_cached_blocks(Drained(heap)), waiting[1])
    /\ waiting' = <<>>
    /\ UNCHANGED <<contexts, calls, landed>>

BlocksIn(st) == {id \in Ids(heap) : BlockOf(heap, id).st = st}

\* caching_allocator_delete: a block other streams used waits for them.
Delete(id) ==
    LET b == BlockOf(heap, id)
        h == Bump(SetBlock(heap, [b EXCEPT !.st = "wait"]), heap.segs[SegOf(heap, id)].pool[2],
                  [allocation |-> -1, allocated_bytes |-> -b.size])
    IN  /\ Called
        /\ heap' = IF b.uses = {} THEN free_block(h, id)
                   ELSE IF h.captures # <<>> THEN [h EXCEPT !.deferred = Append(@, id)]
                   ELSE insert_events(h, id)
        /\ UNCHANGED <<waiting, contexts, landed>>

\* A stream being captured into a graph runs nothing.
Captured(s) == \E i \in DOMAIN heap.captures : heap.captures[i].graph /\ s \in heap.captures[i].streams

\* recordStream: work using the block is on the stream.
RecordStream(id, s) ==
    LET b == BlockOf(heap, id)
    IN  /\ Called
        /\ s # heap.segs[SegOf(heap, id)].stream
        /\ Len(heap.queue[s]) < MaxUses
        /\ heap.captures # <<>> => CaptureRecords
        /\ heap' = [SetBlock(heap, [b EXCEPT !.uses = @ \cup {s}])
                      EXCEPT !.queue[s] = IF Captured(s) THEN @ ELSE Append(@, <<"use", id>>),
                             !.graphUses = IF heap.captures = <<>> THEN @
                                           ELSE [x \in DOMAIN @ \cup {id} |->
                                                   (IF x = id THEN {s} ELSE {})
                                                   \cup (IF x \in DOMAIN @ THEN @[x] ELSE {})]]
        /\ UNCHANGED <<waiting, contexts, landed>>

Without(seq, x) == SelectSeq(seq, LAMBDA y : y # x)

\* eraseStream: the block's own stream now waits for that work itself.
EraseStream(id, s) ==
    LET b == BlockOf(heap, id)
        listed == id \in {heap.events[s][i] : i \in DOMAIN heap.events[s]}
        h == [SetBlock(heap, [b EXCEPT !.uses = @ \ {s}])
                EXCEPT !.events[s] = Without(@, id),
                       !.queue[s] = Without(Without(@, <<"event", id>>), <<"use", id>>)]
    IN  /\ Called
        /\ s \in b.uses \/ listed
        /\ b.st = "wait" /\ s \in b.uses => EraseDeferred
        /\ heap' = IF listed THEN EventOver(h, id) ELSE h
        /\ UNCHANGED <<waiting, contexts, landed>>

\* The device finishes the next item of a stream.
Runs(s) ==
    /\ heap.queue[s] # <<>>
    /\ heap' = [heap EXCEPT !.queue[s] = Tail(@)]
    /\ UNCHANGED <<waiting, contexts, calls, landed>>

\* empty_cache: the device is waited for even when the flush then refuses.
empty_cache ==
    /\ Called /\ heap.ready
    /\ heap' = IF heap.captures = <<>> THEN release_cached_blocks(Drained(heap)) ELSE Drained(heap)
    /\ UNCHANGED <<waiting, contexts, landed>>

set_per_process_memory_fraction(limit) ==
    /\ Called /\ heap.fraction # <<limit>>
    /\ heap' = [Ready EXCEPT !.fraction = <<limit>>]
    /\ UNCHANGED <<waiting, contexts, landed>>

reset_peak_memory_stats ==
    /\ Called
    /\ heap' = resetPeakStats(Ready)
    /\ heap' # heap
    /\ UNCHANGED <<waiting, contexts, landed>>

reset_accumulated_memory_stats ==
    /\ Called
    /\ heap' = resetAccumulatedStats(Ready)
    /\ heap' # heap
    /\ UNCHANGED <<waiting, contexts, landed>>

(**************************** private pools *******************************)

Put(f, x, v) == [y \in DOMAIN f \cup {x} |-> IF y = x THEN v ELSE f[y]]
CapturedPools == {heap.captures[i].pool : i \in DOMAIN heap.captures}

\* beginAllocateToPool: a new pool starts with one user, a known one gets one
\* more even when the call then fails because the pool is being recorded to.
BeginAllocateToPool(p, streams, graph) ==
    LET known == p \in DOMAIN heap.useCount
        h == [Ready EXCEPT !.useCount = Put(@, p, IF known THEN heap.useCount[p] + 1 ELSE 1),
                           !.mallocs = IF known THEN @ ELSE Put(@, p, 0),
                           !.graphs = IF known THEN @ ELSE Put(@, p, 0)]
    IN  /\ known => heap.useCount[p] > 0
        /\ heap' = IF p \in CapturedPools THEN h
                   ELSE [h EXCEPT !.captures = Append(@, [pool |-> p, streams |-> streams, graph |-> graph])]

EndAllocateToPool(h, p) == [h EXCEPT !.captures = SelectSeq(@, LAMBDA c : c.pool # p)]

\* use_mem_pool is entered; it raises within itself.
use_mem_pool(p) ==
    /\ Called
    /\ contexts # <<>> => NestPools
    /\ BeginAllocateToPool(p, Streams, FALSE)
    /\ contexts' = IF p \in CapturedPools THEN contexts ELSE Append(contexts, p)
    /\ UNCHANGED <<waiting, landed>>

\* use_mem_pool is left, in an orderly way or by an exception.
LeaveMemPool ==
    /\ contexts # <<>>
    /\ heap' = EndAllocateToPool(heap, ActivePool)
    /\ contexts' = SubSeq(contexts, 1, Len(contexts) - 1)
    /\ UNCHANGED <<waiting, calls, landed>>

\* NPUGraph.capture_begin: only the captured stream allocates in the pool.
CaptureBegin(p, s) ==
    /\ Called /\ contexts = <<>> /\ p \notin CapturedPools
    /\ ~ Captured(s)
    /\ BeginAllocateToPool(p, {s}, TRUE)
    /\ UNCHANGED <<waiting, contexts, landed>>

CaptureEnd(i) ==
    LET p == heap.captures[i].pool
    IN  /\ heap.captures[i].graph
        /\ heap' = [EndAllocateToPool(heap, p) EXCEPT !.graphs[p] = @ + 1]
        /\ UNCHANGED <<waiting, contexts, calls, landed>>

\* NPUGraph.reset: releasePool makes the pool freeable with its last user.
GraphReset(p) ==
    /\ Called /\ heap.graphs[p] > 0
    /\ heap' = [heap EXCEPT !.graphs[p] = @ - 1,
                            !.useCount[p] = @ - 1,
                            !.freeable = IF heap.useCount[p] = 1 THEN @ \cup {p} ELSE @]
    /\ UNCHANGED <<waiting, contexts, landed>>

Next ==
    \/ \E orig \in Requests, s \in Streams : Alloc(orig, s)
    \/ AllocRetries
    \/ \E id \in BlocksIn("alloc") : Delete(id) \/ \E s \in Streams : RecordStream(id, s)
    \/ \E id \in BlocksIn("alloc") \cup BlocksIn("wait"), s \in Streams : EraseStream(id, s)
    \/ \E s \in Streams : Runs(s)
    \/ empty_cache \/ reset_peak_memory_stats \/ reset_accumulated_memory_stats
    \/ \E limit \in Fractions : set_per_process_memory_fraction(limit)
    \/ \E p \in Pools : use_mem_pool(p) \/ \E s \in Streams : CaptureBegin(p, s)
    \/ LeaveMemPool
    \/ \E i \in DOMAIN heap.captures : CaptureEnd(i)
    \/ \E p \in DOMAIN heap.graphs : GraphReset(p)

Spec == Init /\ [][Next]_vars

(********************** what memory.py reports ****************************)

\* memory_stats: one entry per metric and pool type; nothing before the
\* runtime is initialised.
memory_stats_as_nested_dict == IF heap.ready THEN heap.stats ELSE <<>>
memory_stats(metric, type) ==
    IF metric \in DOMAIN memory_stats_as_nested_dict THEN memory_stats_as_nested_dict[metric][type] ELSE 0
memory_allocated == memory_stats("allocated_bytes", "all")
memory_reserved == memory_stats("reserved_bytes", "all")
max_memory_allocated == heap.peak["allocated_bytes"]
max_memory_reserved == heap.peak["reserved_bytes"]

\* memory_summary: the displayed metrics, by pool type unless abbreviated.
Displayed == Metrics \ {"requested_bytes"}
memory_summary(abbreviated) ==
    [r \in Displayed \X (IF abbreviated THEN {"all"} ELSE Types) |-> memory_stats(r[1], r[2])]

\* memory_snapshot: the segments with the state of every block.
memory_snapshot == {[pool_type |-> IF heap.segs[g].pool[2] THEN "small_pool" ELSE "large_pool",
                     total |-> SegSize(heap.segs[g]),
                     blocks |-> heap.segs[g].blocks, id |-> g] : g \in DOMAIN heap.segs}

(****************************** properties ********************************)

\* Blocks of segments of the snapshot in the given states, as <<segment, index>>.
Found(segments, states) ==
    UNION {{<<g, i>> : i \in {j \in DOMAIN g.blocks : g.blocks[j].st \in states}} : g \in segments}
Bytes(found) == MapThenSumSet(LAMBDA x : x[1].blocks[x[2]].size, found)
Asked(found) == MapThenSumSet(LAMBDA x : x[1].blocks[x[2]].req, found)

\* The statistics of a pool type are those of its segments.
Counted(t, segments, allocated, active, split) ==
    /\ memory_stats("allocation", t) = Cardinality(allocated)
    /\ memory_stats("allocated_bytes", t) = Bytes(allocated)
    /\ memory_stats("active", t) = Cardinality(active)
    /\ memory_stats("active_bytes", t) = Bytes(active)
    /\ memory_stats("requested_bytes", t) = Asked(active)
    /\ memory_stats("inactive_split", t) = Cardinality(split)
    /\ memory_stats("inactive_split_bytes", t) = Bytes(split)
    /\ memory_stats("segment", t) = Cardinality(segments)
    /\ memory_stats("reserved_bytes", t) = MapThenSumSet(LAMBDA x : x.total, segments)
CountedIn(t, segments) ==
    Counted(t, segments, Found(segments, {"alloc"}), Found(segments, {"alloc", "wait"}),
            Found({g \in segments : Len(g.blocks) > 1}, {"free"}))

\* The statistics memory_stats reports, kept by increments along every path
\* of malloc, free, merge, split and release (update_stat_array), always
\* equal what a walk over the snapshot counts, per pool type and in all; the
\* rows of memory_summary add up; totals allocated and freed since the last
\* reset explain the current value and peaks are never below it.
StatsExact ==
    /\ \A t \in Types : CountedIn(t, {x \in memory_snapshot : t \in {"all", x.pool_type}})
    /\ \A m \in Displayed :
         LET rows == memory_summary(FALSE)
         IN  rows[<<m, "all">>] = rows[<<m, "small_pool">>] + rows[<<m, "large_pool">>]
    /\ \A m \in Peaked : heap.acc[m].allocated - heap.acc[m].freed = heap.stats[m]["all"] - heap.since[m]
    /\ memory_reserved = heap.total
    /\ max_memory_allocated >= memory_allocated /\ max_memory_reserved >= memory_reserved

\* A freed block goes back to the cache only once no stream recorded on it
\* (recordStream) still has work to run that uses it, whatever the order of
\* frees, captures, event polls, flushes and erasures; and a block whose
\* events are deferred still has streams to wait for, as
\* insert_events_deferred_until_no_capture asserts.
NoEarlyReuse ==
    /\ ~ heap.early
    /\ \A i \in DOMAIN heap.deferred : BlockOf(heap, heap.deferred[i]).uses # {}

\* An allocation inside use_mem_pool lands in the pool of the innermost
\* context: "A context manager that routes allocations to a given pool."
LandsInPool == landed # <<>> /\ landed[2] # 0 => landed[1] = landed[2]

\* Private pools: allocations land where the context says (LandsInPool); a
\* pool is forgotten by release_cached_blocks only when it owns no segment,
\* its count of segments is exact, and cached neighbours are always merged.
PoolsSound ==
    /\ LandsInPool
    /\ \A g \in DOMAIN heap.segs : heap.segs[g].pool[1] \in {0} \cup DOMAIN heap.useCount
    /\ \A p \in DOMAIN heap.useCount :
         heap.mallocs[p] = Cardinality({g \in DOMAIN heap.segs : heap.segs[g].pool[1] = p})
    /\ \A g \in DOMAIN heap.segs : \A i \in 1 .. Len(heap.segs[g].blocks) - 1 :
         {heap.segs[g].blocks[i].st, heap.segs[g].blocks[i + 1].st} # {"free"}
=============================================================================
