---------------------------- MODULE Collectives ----------------------------
(***************************************************************************)
(* The collectives torch_npu builds from the primitives of its back end    *)
(* (torch_npu/distributed/distributed_c10d.py): gather by broadcast and    *)
(* allgather or by send and receive, gather_object, batch_isend_irecv and  *)
(* the uneven collectives, on process groups made by                       *)
(* _patched_new_process_group_helper.  Every rank runs its own copy of the *)
(* code; the back end completes a primitive once all members of the group  *)
(* have posted it, and refuses primitives that do not match.               *)
(***************************************************************************)
EXTENDS Integers, SequencesExt, FiniteSetsExt

CONSTANTS
    Ranks,          \* 0 .. n-1
    MaxSize,        \* bound: sizes of the tensors
    Kinds,          \* collectives a program calls
    CompatSubgroups \* gather in compatibility mode also on a group that is not WORLD

VARIABLES
    job,            \* the call: [kind, members, dst, sizes, compat, tag, backends]
    world,          \* per rank, _world: Seq([name, ranks, tag, backends])
    made,           \* per rank: calls of new_group made
    handle,         \* per rank: the name of the group it calls on, or None
    pc,             \* per rank: primitives posted, or "done"
    posted,         \* per rank: the primitives posted and not completed
    got,            \* per rank: what the last completed primitive delivered
    learnt,         \* per rank: object_size_list of gather_object
    out,            \* per rank: the result
    failed          \* the back end refused a primitive

vars == <<job, world, made, handle, pc, posted, got, learnt, out, failed>>

Devices == <<"cpu", "npu">>
None == -1
Size == 1 .. MaxSize

Members == SetToSortSeq(job.members, <)
GroupRank(r) == Cardinality({m \in job.members : m < r})
Payload(r, n) == <<r, n>>        \* the tensor of rank r, of size n

-----------------------------------------------------------------------------
(* Process groups.                                                         *)

\* Two requests, every rank makes both: the second has the same ranks, and the
\* same tag when the program uses one.
Requests == <<[ranks |-> job.members, tag |-> job.tag], [ranks |-> job.members, tag |-> job.tag]>>

\* A group made with the same tag and the same ranks is the same group.
Existing(w, q) ==
    IF q.tag = "" THEN {} ELSE {i \in DOMAIN w : w[i].tag = q.tag /\ w[i].ranks = q.ranks}

\* The loop over the devices of the back end configuration makes one back end per
\* device, and a single one, registered for all, when all devices have the same.
Backends(config, devices) ==
    IF Cardinality(Range(config)) = 1
    THEN [d \in ToSet(devices) |-> <<config[d], 1>>]
    ELSE [d \in ToSet(devices) |-> <<config[d], CHOOSE i \in DOMAIN devices : devices[i] = d>>]

\* A group made is entered in the maps of _world under its name and its tag.
Registered(w, name, q) ==
    Append(w, [name |-> name, ranks |-> q.ranks, tag |-> q.tag,
               backends |-> Backends(job.backends, Devices)])

\* _patched_new_process_group_helper: a rank outside the group gets no handle.
new_group(r) ==
    LET q == Requests[made[r] + 1]
        old == Existing(world[r], q)
        name == made[r]
    IN /\ made[r] < Len(Requests)
       /\ made' = [made EXCEPT ![r] = @ + 1]
       /\ \A i \in DOMAIN world[r] : world[r][i].name # name
       /\ IF old # {}
          THEN /\ handle' = [handle EXCEPT ![r] = world[r][Min(old)].name]
               /\ UNCHANGED world
          ELSE IF r \notin q.ranks
          THEN handle' = [handle EXCEPT ![r] = None] /\ UNCHANGED world
          ELSE /\ handle' = [handle EXCEPT ![r] = name]
               /\ world' = [world EXCEPT ![r] =  Registered(@, name, q)]
       /\ UNCHANGED <<job, pc, posted, got, learnt, out, failed>>

-----------------------------------------------------------------------------
(* The primitives a rank posts: [kind, root, mine, outs, data].            *)

Prim(kind, root, mine, outs, data) ==
    [kind |-> kind, root |-> root, mine |-> mine, outs |-> outs, data |-> data]

\* gather_list on the destination: one tensor per member, of that member's size.
GatherList(sizes) == [i \in 1 .. Len(Members) |-> sizes[Members[i]]]

\* The root of a gather in compatibility mode is the rank the caller names; only
\* for the other back ends it is translated to a rank of the group.
GatherRoot == job.dst

\* _gather: in compatibility mode one gather; otherwise the sizes are broadcast
\* from the destination and every rank takes part in an allgather.
GatherPrims(r, sizes, step, known) ==
    IF job.compat
    THEN IF step > 1 THEN <<>>
         ELSE <<Prim("gather", GatherRoot, sizes[r],
                     IF r = job.dst THEN GatherList(sizes) ELSE <<>>, Payload(r, sizes[r]))>>
    ELSE CASE step = 1 -> <<Prim("broadcast", GroupRank(job.dst), None, <<>>,
                                 IF r = job.dst THEN GatherList(sizes) ELSE <<>>)>>
           [] step = 2 -> <<Prim("allgather", None, sizes[r],
                                 IF r = job.dst THEN GatherList(sizes) ELSE known,
                                 Payload(r, sizes[r]))>>
           [] OTHER -> <<>>

\* _gather_object: the sizes are gathered everywhere and every tensor is resized
\* to the largest, so that the gather is one of equal sizes.
MaxObjectSize(r) == Max(ToSet(learnt[r]))

GatherObjectPrims(r, step, known) ==
    IF step = 1
    THEN <<Prim("allgather", None, 1, [i \in 1 .. Len(Members) |-> 1], job.sizes[r])>>
    ELSE GatherPrims(r, [m \in Ranks |-> MaxObjectSize(r)], step - 1, known)

\* _batch_isend_irecv: here every rank sends to the next member and receives from
\* the one before it; peers are ranks of the group.
Peer(r, d) == Members[((GroupRank(r) + d) % Len(Members)) + 1]

BatchPrims(r, step) ==
    IF step > 1 THEN <<>>
    ELSE <<Prim("batch", None, job.sizes[r],
                <<GroupRank(Peer(r, 1)), GroupRank(Peer(r, Len(Members) - 1))>>,
                Payload(r, job.sizes[r]))>>

\* _all_gather_into_tensor_uneven and _reduce_scatter_tensor_uneven: one primitive
\* with the caller's split sizes.
UnevenPrims(r, step) ==
    IF step > 1 THEN <<>>
    ELSE <<Prim(job.kind, None, job.sizes[r], GatherList(job.sizes), Payload(r, job.sizes[r]))>>

Prims(r, step, known) ==
    CASE job.kind = "gather" -> GatherPrims(r, job.sizes, step, known)
      [] job.kind = "gather_object" -> GatherObjectPrims(r, step, known)
      [] job.kind = "batch" -> BatchPrims(r, step)
      [] OTHER -> UnevenPrims(r, step)

\* What the caller of a collective sees once its last primitive is complete.
Result(r) ==
    CASE job.kind = "gather" -> IF r = job.dst THEN got[r] ELSE <<>>
      [] job.kind = "gather_object" ->
            IF r # job.dst THEN <<>>
            ELSE [i \in 1 .. Len(Members) |-> Payload(got[r][i][1], Min({got[r][i][2], learnt[r][i]}))]
      [] OTHER -> got[r]

Init ==
    /\ job \in [kind : Kinds, members : {S \in SUBSET Ranks : Cardinality(S) > 1}, dst : Ranks,
                sizes : [Ranks -> Size], compat : BOOLEAN, tag : {"", "t"},
                backends : {[d \in {"cpu", "npu"} |-> "hccl"], ("cpu" :> "gloo") @@ ("npu" :> "hccl")}]
    /\ job.dst \in job.members
    /\ job.compat =>
          /\ job.kind \in {"gather", "gather_object"}
          /\ job.members # Ranks => CompatSubgroups
          \* in this mode the destination's tensors all have the size of its own
          /\ job.kind = "gather" => \A m \in job.members : job.sizes[m] = job.sizes[job.dst]
    /\ world = [r \in Ranks |-> <<>>]
    /\ made = [r \in Ranks |-> 0]
    /\ handle = [r \in Ranks |-> None]
    /\ pc = [r \in Ranks |-> 0]
    /\ posted = [r \in Ranks |-> <<>>]
    /\ got = [r \in Ranks |-> <<>>]
    /\ learnt = [r \in Ranks |-> <<>>]
    /\ out = [r \in Ranks |-> <<>>]
    /\ failed = FALSE

\* A rank posts its next primitive and waits for it; a rank outside the group
\* returns at once (_rank_not_in_group).
Post(r) ==
    /\ made[r] = Len(Requests)
    /\ r \in job.members
    /\ posted[r] = <<>>
    /\ Prims(r, pc[r] + 1, got[r]) # <<>>
    /\ posted' = [posted EXCEPT ![r] = Prims(r, pc[r] + 1, got[r])]
    /\ pc' = [pc EXCEPT ![r] = @ + 1]
    /\ UNCHANGED <<job, world, made, handle, got, learnt, out, failed>>

Return(r) ==
    /\ made[r] = Len(Requests)
    /\ posted[r] = <<>>
    /\ r \in job.members => Prims(r, pc[r] + 1, got[r]) = <<>>
    /\ out[r] = <<>>
    /\ out' = [out EXCEPT ![r] = <<IF r \in job.members THEN Result(r) ELSE <<>>>>]
    /\ UNCHANGED <<job, world, made, handle, pc, posted, got, learnt, failed>>

-----------------------------------------------------------------------------
(* The back end.                                                           *)

Of(i) == posted[Members[i]][1]
All == 1 .. Len(Members)

\* The primitives of the members agree: the same operation with the same root;
\* what a rank receives into has the size of what is sent.
Match ==
    /\ \A i, j \in All : handle[Members[i]] = handle[Members[j]]
    /\ \A i, j \in All : Of(i).kind = Of(j).kind /\ Of(i).root = Of(j).root
    /\ CASE Of(1).kind = "allgather" ->
                \A i, j \in All : /\ Len(Of(i).outs) = Len(Members)
                                  /\ Of(i).outs[j] = Of(j).mine
         [] Of(1).kind = "gather" ->
                \A i \in All : IF i - 1 = Of(i).root
                               THEN Len(Of(i).outs) = Len(Members)
                               ELSE Of(i).outs = <<>>
         [] Of(1).kind = "batch" ->
                \A i \in All : Of(Of(i).outs[1] + 1).outs[2] = i - 1
         [] OTHER -> TRUE

Delivered(i) ==
    CASE Of(1).kind = "broadcast" -> Of(Of(i).root + 1).data
      [] Of(1).kind = "allgather" -> [j \in All |-> Of(j).data]
      [] Of(1).kind = "gather" ->
            IF i - 1 = Of(i).root THEN [j \in All |-> Of(j).data] ELSE <<>>
      [] Of(1).kind = "batch" -> Of(Of(i).outs[2] + 1).data
      [] OTHER -> [j \in All |-> Of(j).data]

Complete ==
    /\ ~failed
    /\ \A m \in job.members : posted[m] # <<>>
    /\ failed' = ~Match
    /\ got' = [r \in Ranks |->
                 IF r \in job.members /\ Match THEN Delivered(GroupRank(r) + 1) ELSE got[r]]
    /\ learnt' = [r \in Ranks |->
                    IF job.kind = "gather_object" /\ pc[r] = 1 THEN got'[r] ELSE learnt[r]]
    /\ posted' = [r \in Ranks |-> <<>>]
    /\ UNCHANGED <<job, world, made, handle, pc, out>>

Next ==
    \/ \E r \in Ranks : new_group(r) \/ Post(r) \/ Return(r)
    \/ Complete

Spec == Init /\ [][Next]_vars

-----------------------------------------------------------------------------
\* What the collective promises rank r.
Promised(r) ==
    LET every == [i \in 1 .. Len(Members) |-> Payload(Members[i], job.sizes[Members[i]])] IN
    CASE r \notin job.members -> <<>>
      [] job.kind \in {"gather", "gather_object"} -> IF r = job.dst THEN every ELSE <<>>
      [] job.kind = "batch" ->
            LET from == Peer(r, Len(Members) - 1) IN Payload(from, job.sizes[from])
      [] OTHER -> every

\* Whatever sizes the ranks bring and whichever group they call on, the ranks post
\* matching primitives, so that no collective is refused or left waiting, and each
\* rank that returns has what the collective promises: the destination of a gather
\* every tensor in the order of the group, a batch the neighbour's tensor (_gather,
\* _gather_object, _batch_isend_irecv and the uneven collectives).
CollectivesExact ==
    /\ ~failed
    /\ \A r \in Ranks : \A i \in DOMAIN world[r] : \A d \in ToSet(Devices) :
          /\ world[r][i].backends[d][1] = job.backends[d]
          /\ \A e \in ToSet(Devices) :
                (world[r][i].backends[d] = world[r][i].backends[e]) <=> (job.backends[d] = job.backends[e])
    /\ \A r \in Ranks : out[r] # <<>> => out[r][1] = Promised(r)

=============================================================================
