--------------------------- MODULE HostAllocator ---------------------------
(***************************************************************************)
(* Pinned host memory with pin_memory_expandable_segments:                 *)
(* NPUExpandableHostAllocatorImpl and ExpandableSegment of                 *)
(* core/npu/CachingHostAllocator.cpp.                                      *)
(*                                                                         *)
(* A segment is a reserved range of addresses, backed page by page         *)
(* (Granule bytes) with physical memory.  It is cut into blocks: unmapped, *)
(* free, allocated, or freed but still used by a stream.  All operations   *)
(* but record_event hold one mutex; the loops inside them are steps here,  *)
(* so that record_event, which takes a different mutex, and the device     *)
(* run in between.                                                         *)
(*                                                                         *)
(* prev and next are the neighbours in the segment, and the two pools the  *)
(* free blocks that are mapped or not: the code keeps both in step.        *)
(***************************************************************************)
EXTENDS Integers, FiniteSets, FiniteSetsExt, Sequences, SequencesExt

CONSTANTS
    Sizes,           \* sizes the application asks for
    Streams,
    kMinBlockSize,
    Granule,         \* segmentSize: bytes per physical handle
    Reserve,         \* ExpandableSegment::size(): addresses per segment
    MaxSegments,     \* segments the address space has room for
    MaxHandles,      \* physical memory of the host, in handles
    MaxCalls         \* bound on the calls of the application

\* What the code takes for granted about the sizes.
SizesOK ==
    /\ Sizes \subseteq Nat \ {0} /\ kMinBlockSize \in Nat \ {0} /\ MaxCalls \in Nat
    /\ Granule % kMinBlockSize = 0 /\ Reserve % Granule = 0
    /\ MaxSegments \in Nat \ {0} /\ MaxHandles \in Nat

VARIABLES
    blocks,                  \* every ExpandableBlock
    handles,                 \* handles_ of all segments: the mapped granules
    ptr_to_block_,           \* its keys
    events_,                 \* oldest last
    active_bytes, allocated_bytes,   \* stats
    pc, req, cand, to_unmap, \* the thread that holds the mutex
    live,                    \* memory the application holds
    calls

heap  == <<blocks, handles, ptr_to_block_, active_bytes, allocated_bytes>>
frame == <<pc, req, cand, to_unmap>>
vars  == <<heap, events_, frame, live, calls>>

NoReq == [size |-> 0, retry |-> FALSE]

Init ==
    /\ blocks = {} /\ handles = {} /\ ptr_to_block_ = {} /\ events_ = <<>>
    /\ active_bytes = 0 /\ allocated_bytes = 0
    /\ pc = "idle" /\ req = NoReq /\ cand = 0 /\ to_unmap = {}
    /\ live = {} /\ calls = MaxCalls

(***************************************************************************)
(* Sizes and addresses.                                                    *)
(***************************************************************************)
Ceil(n, k) == k * ((n + k - 1) \div k)
Floor(n, k) == k * (n \div k)
round_size(n) == IF n + 32 < kMinBlockSize THEN kMinBlockSize ELSE Ceil(n + 32, kMinBlockSize)

Segment(p) == p \div Reserve
End(b) == b.ptr + b.size
Block(p, n, m) == [ptr |-> p, size |-> n, mapped |-> m, allocated |-> FALSE,
                   streams |-> {}, event_count |-> 0]
\* The handles behind the addresses from p up to q.
HandlesOf(p, q) == Floor(p, Granule) \div Granule .. (Ceil(q, Granule) \div Granule) - 1
At(p) == CHOOSE b \in blocks : b.ptr = p
Bytes(S) == MapThenSumSet(LAMBDA b : b.size, S)

Next1(b, S) == {c \in S : c.ptr = End(b) /\ Segment(c.ptr) = Segment(b.ptr)}
Prev1(b, S) == {c \in S : End(c) = b.ptr /\ Segment(c.ptr) = Segment(b.ptr)}
allocatable(b) == ~b.allocated /\ b.event_count = 0 /\ b.streams = {}
FreeBlocks == {b \in blocks : allocatable(b) /\ b.mapped}
Unmapped == {b \in blocks : ~b.mapped}

\* The neighbours in S that try_merge_blocks joins to b.
IgnoresEvents(b, S) ==
    {c \in Prev1(b, S) \cup Next1(b, S) : ~c.allocated /\ c.mapped = b.mapped}
Mergeable(b, S) ==
    {c \in Prev1(b, S) \cup Next1(b, S) : allocatable(c) /\ c.mapped = b.mapped}

Merged(b, S) ==
    LET m == Mergeable(b, S)
    IN  [b EXCEPT !.ptr = Min({c.ptr : c \in m \cup {b}}), !.size = @ + Bytes(m)]
try_merge_blocks(b, S) == (S \ Mergeable(b, S)) \cup {Merged(b, S)}

(***************************************************************************)
(* free.                                                                   *)
(***************************************************************************)
FreedSize(b, S) == b.size

\* The key is erased after the merge, when ptr_ may be that of the block before.
free_expandable_block(b, S) ==
    /\ blocks' = try_merge_blocks(b, S)
    /\ ptr_to_block_' = ptr_to_block_ \ {Merged(b, S).ptr}
    /\ active_bytes' = active_bytes - FreedSize(b, S)
    /\ UNCHANGED <<handles, allocated_bytes>>

\* free and block_free.  An event per stream that used the block.
Free(p) ==
    LET b == At(p)
        S == blocks \ {b}
        n == Cardinality(b.streams)
    IN  /\ pc = "idle" /\ p \in {m.ptr : m \in live} \cap ptr_to_block_
        /\ live' = {m \in live : m.ptr # p}
        /\ IF b.streams = {}
             THEN free_expandable_block([b EXCEPT !.allocated = FALSE], S) /\ UNCHANGED events_
             ELSE /\ blocks' = S \cup {[b EXCEPT !.allocated = FALSE, !.streams = {},
                                                 !.event_count = @ + n]}
                  /\ events_' = [i \in 1 .. n |-> [ptr |-> p, done |-> FALSE]] \o events_
                  /\ UNCHANGED <<handles, ptr_to_block_, active_bytes, allocated_bytes>>
        /\ UNCHANGED <<frame, calls>>

\* record_event; another thread may be inside the allocator.
RecordEvent(p, s) ==
    /\ p \in {m.ptr : m \in live} \cap ptr_to_block_ /\ calls > 0 /\ calls' = calls - 1
    /\ blocks' = (blocks \ {At(p)}) \cup {[At(p) EXCEPT !.streams = @ \cup {s}]}
    /\ UNCHANGED <<handles, ptr_to_block_, events_, active_bytes, allocated_bytes, frame, live>>

\* The device reaches an event, or its query will throw: both count as complete.
DeviceEvent(i) ==
    /\ ~events_[i].done /\ events_' = [events_ EXCEPT ![i].done = TRUE]
    /\ UNCHANGED <<heap, frame, live, calls>>

(***************************************************************************)
(* allocate and empty_cache.                                               *)
(***************************************************************************)
Call(r) ==
    /\ pc = "idle" /\ calls > 0 /\ calls' = calls - 1 /\ pc' = "events" /\ req' = r
    /\ UNCHANGED <<heap, events_, cand, to_unmap, live>>
Allocate(n) == Call([size |-> round_size(n), retry |-> FALSE])
EmptyCache == Call([size |-> 0, retry |-> TRUE])

Return == pc' = "idle" /\ req' = NoReq /\ cand' = 0 /\ to_unmap' = {}

\* process_events: pop from the back until one is not complete; then look for a
\* free block, or, in release_cached_blocks, gather the free blocks.
process_events ==
    /\ pc = "events"
    /\ IF events_ # <<>> /\ Last(events_).done
         THEN LET b == At(Last(events_).ptr)
                  c == [b EXCEPT !.event_count = @ - 1]
              IN  /\ events_' = Front(events_) /\ UNCHANGED frame
                  /\ IF c.event_count = 0 /\ ~c.allocated
                       THEN free_expandable_block(c, blocks \ {b})
                       ELSE /\ blocks' = (blocks \ {b}) \cup {c}
                            /\ UNCHANGED <<handles, ptr_to_block_, active_bytes, allocated_bytes>>
         ELSE /\ IF req.retry
                   THEN pc' = "unmap" /\ to_unmap' = {b.ptr : b \in FreeBlocks}
                   ELSE pc' = "get" /\ UNCHANGED to_unmap
              /\ UNCHANGED <<heap, events_, req, cand>>
    /\ UNCHANGED <<live, calls>>

Remaining(b, n) == [b EXCEPT !.ptr = @ + n, !.size = @ - n]

\* alloc_found_block: split off what is not needed, and return.
alloc_found_block(b) ==
    LET split == b.size - req.size >= kMinBlockSize
        a == [b EXCEPT !.size = IF split THEN req.size ELSE @, !.allocated = TRUE]
    IN  /\ blocks' = (blocks \ {b}) \cup {a} \cup (IF split THEN {Remaining(b, req.size)} ELSE {})
        /\ ptr_to_block_' = ptr_to_block_ \cup {a.ptr}
        /\ active_bytes' = active_bytes + a.size
        /\ live' = live \cup {[ptr |-> a.ptr, size |-> req.size]}
        /\ Return /\ UNCHANGED <<handles, allocated_bytes>>

\* Best fit: a block counts for what it can grow to.
expandable_size(b) == b.size + Bytes({c \in Next1(b, blocks) : ~c.mapped})
BlockComparatorSize(a, b) == a.size < b.size \/ (a.size = b.size /\ a.ptr < b.ptr)

get_free_expandable_block ==
    LET fits == SetToSortSeq({b \in FreeBlocks : b.size >= req.size}, BlockComparatorSize)
        stop == {i \in DOMAIN fits :
                    i < Len(fits) => expandable_size(fits[i + 1]) >= expandable_size(fits[i])}
    IN  /\ pc = "get"
        /\ IF fits # <<>> THEN alloc_found_block(fits[Min(stop)])
           ELSE pc' = "find" /\ UNCHANGED <<heap, req, cand, to_unmap, live>>
        /\ UNCHANGED <<events_, calls>>

\* The blocks from c on that can be used together.
Run(c) ==
    {d \in blocks : /\ Segment(d.ptr) = Segment(c.ptr) /\ d.ptr >= c.ptr
                    /\ \A x \in blocks : c.ptr <= x.ptr /\ x.ptr <= d.ptr => allocatable(x)}

\* The lowest unmapped block, with the free one before it, that has the room; or
\* else a new segment.
find_expandable_block ==
    LET start(u) == Min({c.ptr : c \in {x \in Prev1(u, blocks) : allocatable(x)} \cup {u}})
        fits == {u \in Unmapped : Bytes(Run(At(start(u)))) >= req.size}
        first == CHOOSE u \in fits : \A v \in fits : u.ptr <= v.ptr
        taken == {Segment(b.ptr) : b \in blocks}
    IN  /\ pc = "find"
        /\ \/ fits # {} /\ cand' = start(first) /\ pc' = "map" /\ UNCHANGED <<heap, req, to_unmap>>
           \/ /\ fits = {} /\ pc' = "map"
              /\ \E s \in (1 .. MaxSegments) \ taken :
                    /\ blocks' = blocks \cup {Block(s * Reserve, Reserve, FALSE)}
                    /\ cand' = s * Reserve
              /\ UNCHANGED <<handles, ptr_to_block_, active_bytes, allocated_bytes, req, to_unmap>>
           \/ \* AclrtReserveMemAddress fails and NPU_CHECK_ERROR throws
              /\ fits = {} /\ (1 .. MaxSegments) \subseteq taken
              /\ Return /\ UNCHANGED heap
        /\ UNCHANGED <<events_, live, calls>>

MappedSize(n) == Ceil(n, Granule)

\* map_block(t, n): ExpandableSegment::map gets handles for whole granules.
map_block(t, n) ==
    LET g == MappedSize(n)
        rest == IF g < t.size THEN {Block(t.ptr + g, t.size - g, FALSE)} ELSE {}
        m == [t EXCEPT !.mapped = TRUE, !.size = g]
        S == (blocks \ {t}) \cup rest
    IN  /\ blocks' = try_merge_blocks(m, S) /\ cand' = Merged(m, S).ptr
        /\ handles' = handles \cup HandlesOf(t.ptr, t.ptr + g)
        /\ allocated_bytes' = allocated_bytes + g
        /\ UNCHANGED <<ptr_to_block_, active_bytes, pc, req, to_unmap, live>>

OutOfMemory(t, n) == Cardinality(handles \cup HandlesOf(t.ptr, t.ptr + MappedSize(n))) > MaxHandles

\* try_allocate_expandable_block: map the candidate and what follows it until
\* there is enough.  The first time memory or the segment runs out,
\* release_cached_blocks.
try_allocate_expandable_block ==
    LET c == At(cand)
        enough == c.mapped /\ c.size >= req.size
        to_map == IF c.mapped THEN Next1(c, blocks) ELSE {c}
        want(t) == Min({t.size, IF c.mapped THEN req.size - c.size ELSE req.size})
        fails == \A t \in to_map : OutOfMemory(t, want(t))
    IN  /\ pc = "map"
        /\ \/ enough /\ alloc_found_block(c)
           \/ ~enough /\ ~fails /\ \E t \in to_map : map_block(t, want(t))
           \/ /\ ~enough /\ fails /\ UNCHANGED <<heap, live>>
              /\ \/ ~req.retry /\ pc' = "events" /\ req' = [req EXCEPT !.retry = TRUE] /\ cand' = 0
                    /\ UNCHANGED to_unmap
                 \/ req.retry /\ Return
        /\ UNCHANGED <<events_, calls>>

InnerPages(b) == [lo |-> Ceil(b.ptr, Granule), hi |-> Floor(End(b), Granule)]

\* unmap_block: give back the whole granules inside b; release_blocks
\* then releases the segment of b if it has become one unmapped block.
unmap_block(b) ==
    LET r == InnerPages(b)
        u == Block(r.lo, r.hi - r.lo, FALSE)
        before == IF r.lo > b.ptr THEN {Block(b.ptr, r.lo - b.ptr, TRUE)} ELSE {}
        after == IF r.hi < End(b) THEN {Block(r.hi, End(b) - r.hi, TRUE)} ELSE {}
        all == try_merge_blocks(u, (blocks \ {b}) \cup before \cup after)
        whole == {x \in all : ~x.mapped /\ x.size = Reserve /\ x.ptr <= r.lo /\ r.lo < End(x)}
    IN  IF r.lo >= r.hi THEN UNCHANGED heap
        ELSE /\ blocks' = all \ whole
             /\ handles' = handles \ HandlesOf(r.lo, r.hi)
             /\ allocated_bytes' = allocated_bytes - (r.hi - r.lo)
             /\ UNCHANGED <<ptr_to_block_, active_bytes>>

\* release_blocks, in the order of the pool, then alloc_block once more.
release_blocks ==
    /\ pc = "unmap"
    /\ IF to_unmap # {}
         THEN LET todo == {b \in FreeBlocks : b.ptr \in to_unmap}
                  b == CHOOSE x \in todo : \A y \in todo : x = y \/ BlockComparatorSize(x, y)
              IN  unmap_block(b) /\ to_unmap' = to_unmap \ {b.ptr} /\ UNCHANGED <<pc, req, cand>>
         ELSE /\ IF req.size = 0 THEN Return
                 ELSE pc' = "find" /\ UNCHANGED <<req, cand, to_unmap>>
              /\ UNCHANGED heap
    /\ UNCHANGED <<events_, live, calls>>

Next ==
    \/ \E n \in Sizes : Allocate(n)
    \/ EmptyCache
    \/ \E m \in live : Free(m.ptr) \/ \E s \in Streams : RecordEvent(m.ptr, s)
    \/ \E i \in DOMAIN events_ : DeviceEvent(i)
    \/ process_events \/ get_free_expandable_block \/ find_expandable_block
    \/ try_allocate_expandable_block \/ release_blocks

Spec == Init /\ [][Next]_vars

(***************************************************************************)
(* Properties.                                                             *)
(***************************************************************************)
Addresses == Nat
BlockType == [ptr : Addresses, size : Nat, mapped : BOOLEAN, allocated : BOOLEAN,
              streams : SUBSET Streams, event_count : Nat]

\* Types; the statistics never go below zero.
TypeOK ==
    /\ \A b \in blocks : b \in BlockType
    /\ handles \subseteq Nat /\ ptr_to_block_ \subseteq Addresses
    /\ events_ \in Seq([ptr : Addresses, done : BOOLEAN])
    /\ active_bytes \in Nat /\ allocated_bytes \in Nat
    /\ pc \in {"idle", "events", "get", "find", "map", "unmap"}
    /\ req \in [size : Nat, retry : BOOLEAN] /\ cand \in Nat /\ to_unmap \subseteq Addresses
    /\ live \subseteq [ptr : Addresses, size : Nat] /\ calls \in Nat

\* The blocks of a segment tile it: splitting, merging, mapping and unmapping
\* neither lose a byte nor let two blocks overlap.
BlocksTile ==
    /\ \A b, c \in blocks : b # c => End(b) <= c.ptr \/ End(c) <= b.ptr
    /\ \A b \in blocks :
        LET s == Segment(b.ptr)
        IN  Bytes({c \in blocks : Segment(c.ptr) = s}) = Reserve /\ Segment(End(b) - 1) = s

\* free_expandable_block, map_block and unmap_block leave no two neighbours that
\* could be one block: fragmentation never outlives the free that could undo it.
Coalesced ==
    \A b \in blocks : \A c \in Next1(b, blocks) :
        allocatable(b) /\ allocatable(c) => b.mapped # c.mapped

\* "When false this Block will be aligned to the segment size", and a granule has
\* a physical handle exactly when a mapped block reaches into it: map never finds
\* a handle in place, unmap never misses one, no block is cut off from its memory.
PagesMatch ==
    /\ \A b \in Unmapped : b.ptr % Granule = 0 /\ b.size % Granule = 0
    /\ handles = UNION {HandlesOf(b.ptr, End(b)) : b \in {c \in blocks : c.mapped}}

\* What the application holds stays backed by an allocated, mapped block of at
\* least that size, which free and record_event will find in ptr_to_block_.
LiveBacked ==
    \A m \in live : m.ptr \in ptr_to_block_ /\
        \E b \in blocks : b.ptr = m.ptr /\ b.size >= m.size /\ b.allocated /\ b.mapped

\* A freed block that a stream may still use is neither reused, merged nor
\* unmapped: each event in events_ finds its block, and is counted by it.
EventsHoldBlock ==
    /\ \A i \in DOMAIN events_ :
        \E b \in blocks : b.ptr = events_[i].ptr /\ ~b.allocated /\ b.mapped
    /\ \A b \in blocks : b.event_count = Cardinality({i \in DOMAIN events_ : events_[i].ptr = b.ptr})

\* "invariant: free -> unmapped -> *" of try_allocate_expandable_block: while the
\* candidate is too small its neighbour is unmapped, as map_block asserts; the loop
\* runs out of neighbours only for more than a segment's addresses.
MapGoesOn ==
    pc = "map" => LET c == At(cand) IN
        c.mapped /\ c.size < req.size =>
            /\ \A d \in Next1(c, blocks) : ~d.mapped
            /\ req.size <= Reserve => Next1(c, blocks) # {}

\* active_bytes is what is allocated or waits for a stream, allocated_bytes what
\* is mapped.
StatsExact ==
    /\ active_bytes = Bytes({b \in blocks : ~allocatable(b)})
    /\ allocated_bytes = Cardinality(handles) * Granule

=============================================================================
