------------------------------ MODULE GraphTree ------------------------------
(***************************************************************************)
(* NPUGraphTreeManager: compiled functions are warmed up, recorded as      *)
(* graphs into one memory pool, and replayed. A replay writes to the       *)
(* addresses of its recording whatever the allocator thinks of them, so    *)
(* the manager arranges the recordings in a tree and replays one only      *)
(* where the outputs that are still alive are those of the recording.      *)
(*                                                                         *)
(* A function takes one tensor and returns one, which aliases no other     *)
(* tensor; an output is named by the node that produced it. held is what   *)
(* the caller still references, owned the outputs whose death returns      *)
(* memory to the allocator: those of a recording, a warm-up or a           *)
(* checkpoint, not those of a replay.                                      *)
(***************************************************************************)
EXTENDS Naturals, FiniteSets, Sequences

CONSTANTS
    Fns,            \* the compiled functions
    Mode,           \* their CompilationMode
    Takes,          \* where their input comes from: subsets of {"outside", "pool"}
    Mutates,        \* the functions that write to their input
    Addrs,          \* bound: the blocks of the pool
    MaxNodes,       \* bound: warm-ups and recordings alive at a time
    MaxEvents,      \* bound: new invocations, steps marked and moves of the static input
    RerecordLimit   \* cudagraph_unexpected_rerecord_limit

VARIABLES
    nodes,      \* every NPUGraphNode, then the NPUWarmupNodes of the current path
    cur,        \* current_node (0: None)
    state,      \* path_state
    warmed,     \* warmed_up_functions
    rootKeys,   \* the keys of roots, a defaultdict
    hint,       \* non_npugraph_managed_mutation_hint: (node, function) -> known value
    rerecord,   \* num_rerecord: (node, function) -> count
    curGen,     \* current_gen
    pending,    \* running_forwards_with_pending_backwards
    alloc,      \* the blocks the allocator counts as live in the pool
    held, owned,
    dead,       \* outputs whose access raises: their memory was given back
    compileGen, marks,  \* GenerationTracker.generation, -mark_step_counter
    param,      \* the address of the static input
    call,       \* the call in progress: function, input, whether the caller gave the input away
    pc,
    inline,     \* the setting inline_inbuilt_nn_modules
    released,   \* history: outputs of an earlier generation, which may be overwritten
    lost        \* history: what went wrong

manager == <<nodes, cur, state, warmed, rootKeys, hint, rerecord, curGen, pending, alloc>>
tensors == <<held, owned, dead, released>>
world == <<compileGen, marks, param, inline>>
vars == <<manager, tensors, world, call, pc, lost>>

None == 0                       \* no address
Ext == 0                        \* an input from outside the pool
NoCall == [fn |-> CHOOSE f \in Fns : TRUE, arg |-> Ext, gone |-> FALSE]
NodeIds == DOMAIN nodes
Out(n) == nodes[n].out

RECURSIVE Path(_)
Path(n) == IF n = 0 THEN {} ELSE Path(nodes[n].parent) \cup {n}

InRecording == state = "RECORDING"
InWarmup == state = "WARMUP"
IsWarmup(n) == n /= 0 /\ nodes[n].kind = "warmup"

\* path_live_weakrefs and all_outputs_are_dead.
PathLive(n) ==
    IF n = 0 THEN {}
    ELSE (IF IsWarmup(n) THEN Path(n) ELSE nodes[n].liveAfter) \cap held
AllOutputsDead(n) == PathLive(n) = {}

\* get_curr_generation and can_start_new_generation.
CurrGeneration == IF marks /= 0 THEN <<"mark", marks>> ELSE <<"compile", compileGen>>
CanStartNewGeneration == curGen /= CurrGeneration /\ (marks /= 0 \/ ~pending)

Init ==
    /\ nodes = <<>>
    /\ cur = 0
    /\ state = "NONE"
    /\ warmed = {}
    /\ rootKeys = {}
    /\ hint = <<>>
    /\ rerecord = <<>>
    /\ curGen = <<"compile", 0>>
    /\ pending = FALSE
    /\ alloc = {}
    /\ held = {} /\ owned = {} /\ dead = {} /\ released = {}
    /\ compileGen = 1 /\ marks = 0 /\ param = 1
    /\ inline \in BOOLEAN
    /\ call = NoCall
    /\ pc = "idle"
    /\ lost = {}

-----------------------------------------------------------------------------
(* The caller. *)
Events == (compileGen - 1) + marks + (param - 1)

Drop(o) ==
    /\ pc = "idle"
    /\ o \in held
    /\ held' = held \ {o}
    /\ owned' = owned \ {o} /\ dead' = dead \ {o} /\ released' = released \ {o}
    /\ alloc' = IF o \in owned THEN alloc \ {Out(o)} ELSE alloc
    /\ UNCHANGED <<nodes, cur, state, warmed, rootKeys, hint, rerecord, curGen, pending,
                   world, call, pc, lost>>

\* A new torch.compile invocation, or mark_step_begin.
NewInvocation ==
    /\ pc = "idle"
    /\ Events < MaxEvents
    /\ \/ compileGen' = compileGen + 1 /\ UNCHANGED marks
       \/ marks' = marks + 1 /\ UNCHANGED compileGen
    /\ UNCHANGED <<manager, tensors, param, inline, call, pc, lost>>

\* The static input (a parameter) moves to another address.
MoveParam ==
    /\ pc = "idle"
    /\ Events < MaxEvents
    /\ param' = param + 1
    /\ UNCHANGED <<manager, tensors, compileGen, marks, inline, call, pc, lost>>

\* An output of an earlier generation may be overwritten from the first call on
\* that finds the generation changed, unless a backward is still to come.
Invoke(f, arg, gone) ==
    /\ pc = "idle"
    /\ IF arg = Ext THEN "outside" \in Takes[f] ELSE "pool" \in Takes[f] /\ arg \notin dead
    /\ gone => arg /= Ext
    /\ call' = [fn |-> f, arg |-> arg, gone |-> gone]
    /\ released' = IF CanStartNewGeneration THEN released \cup held ELSE released
    /\ pc' = "end"
    /\ UNCHANGED <<manager, held, owned, dead, world, lost>>

-----------------------------------------------------------------------------
(* The first two statements of _run: try_end_curr_recording and            *)
(* try_end_curr_warmup. A new generation takes the memory of the path back *)
(* (dealloc_current_path_weakrefs) and makes its outputs raise.            *)
DropWarmups == SelectSeq(nodes, LAMBDA r : r.kind = "graph")

Forget(S) == S \cap 1 .. Len(DropWarmups)

EndPath ==
    /\ cur' = 0
    /\ state' = "NONE"
    /\ nodes' = DropWarmups
    /\ hint' = [k \in {k \in DOMAIN hint : k[1] <= Len(DropWarmups)} |-> hint[k]]

EndRecordingOrWarmup ==
    /\ pc = "end"
    /\ pc' = "choose"
    /\ IF ~(InRecording \/ InWarmup)
       THEN UNCHANGED <<manager, tensors>>
       ELSE IF CanStartNewGeneration
       THEN /\ EndPath
            /\ alloc' = alloc \ {Out(o) : o \in PathLive(cur)}
            /\ owned' = Forget(owned \ PathLive(cur))
            /\ dead' = Forget(dead \cup (Path(cur) \cap held))
            /\ held' = Forget(held)
            /\ released' = Forget(released)
            /\ UNCHANGED <<warmed, rootKeys, rerecord, curGen, pending>>
       ELSE IF AllOutputsDead(cur)
       THEN /\ EndPath
            /\ held' = Forget(held) /\ owned' = Forget(owned)
            /\ dead' = Forget(dead) /\ released' = Forget(released)
            /\ UNCHANGED <<warmed, rootKeys, rerecord, curGen, pending, alloc>>
       ELSE UNCHANGED <<manager, tensors>>
    /\ UNCHANGED <<world, call, lost>>

-----------------------------------------------------------------------------
(* check_for_mutation: the function writes to an input that is not an      *)
(* output of the current path. The answer is kept per node and function.   *)
RecordedTensor(o) ==
    o /= Ext /\ \E q \in (IF IsWarmup(cur) THEN PathLive(cur) ELSE Path(cur)) : Out(q) = Out(o)

MutatesOutside == call.fn \in Mutates /\ ~RecordedTensor(call.arg)

Key == <<cur, call.fn>>
Hint == IF Key \in DOMAIN hint THEN hint[Key] ELSE MutatesOutside
Put(m, k, v) == [x \in DOMAIN m \cup {k} |-> IF x = k THEN v ELSE m[x]]

KeepHint == hint' = IF call.fn \in Mutates THEN Put(hint, Key, Hint) ELSE hint

Rerecords == IF Key \in DOMAIN rerecord THEN rerecord[Key] ELSE 0
Exceeds(count) == ~inline /\ count > RerecordLimit
ExceedRerecordLimit == Exceeds(Rerecords)

\* What run does after _run.
Pending ==
    CASE Mode[call.fn] = "FORWARD" -> TRUE
      [] Mode[call.fn] = "BACKWARD" -> FALSE
      [] OTHER -> pending

Return == pending' = Pending /\ call' = NoCall /\ pc' = "idle"

\* An input that was given away dies during the run.
HeldAfterRun == IF call.gone THEN held \ {call.arg} ELSE held
AllocAfterRun == IF call.gone /\ call.arg \in owned THEN alloc \ {Out(call.arg)} ELSE alloc
TensorsAfterRun ==
    /\ held' = HeldAfterRun
    /\ owned' = owned \cap HeldAfterRun
    /\ dead' = dead \cap HeldAfterRun
    /\ released' = released \cap HeldAfterRun
    /\ alloc' = AllocAfterRun

\* The function runs outside the tree, on its own input.

RunUnmanaged ==
    /\ pc = "choose"
    /\ Hint \/ ExceedRerecordLimit
    /\ KeepHint
    /\ TensorsAfterRun
    /\ Return
    /\ UNCHANGED <<nodes, cur, state, warmed, rootKeys, rerecord, curGen, world, lost>>

NeedsWarmup == call.fn \notin warmed \/ InWarmup
Managed == pc = "choose" /\ ~Hint /\ ~ExceedRerecordLimit

-----------------------------------------------------------------------------
(* apply_checkpoint_execution_state_in_allocator: the allocator is put     *)
(* back to the end of the node's recording, what died since is freed, and  *)
(* the live outputs own their memory again.                                *)
DeadSinceInvocation == {o \in Path(cur) : (o \in nodes[cur].liveAfter) /= (o \in held)}

Checkpointed == nodes[cur].ckpt \ {Out(o) : o \in DeadSinceInvocation}

ApplyCheckpoint ==
    /\ alloc' = Checkpointed
    /\ owned' = (owned \ Path(cur)) \cup PathLive(cur)

\* Warming up after a replay checkpoints first.
CheckpointForWarmup ==
    /\ Managed
    /\ NeedsWarmup
    /\ state = "EXECUTION"
    /\ ApplyCheckpoint
    /\ KeepHint
    /\ pc' = "warmup"
    /\ UNCHANGED <<nodes, cur, state, warmed, rootKeys, rerecord, curGen, pending,
                   held, dead, released, world, call, lost>>

\* What a run that writes to the addresses W destroys, the input it was given
\* away apart.
Victims(W) ==
    {o \in held \ (released \cup dead) : Out(o) \in W /\ ~(call.gone /\ o = call.arg)}

\* A graph reads an input from outside its path from a copy.
WriteToCopy == IF MutatesOutside /\ call.arg \notin released THEN {"mutation"} ELSE {}

\* What the path looks like before and after the run, kept with a recording:
\* _get_different_indices and _add_first_outputs.
Different(path, before, after) == {o \in path : (o \in before) /= (o \in after)}
DeadBefore == IF cur = 0 THEN {} ELSE Different(Path(cur), nodes[cur].liveAfter, held)
DeadAfter == Different(Path(cur), held, HeldAfterRun)
LiveAfter(n) == (Path(cur) \cap HeldAfterRun) \cup {n}

NewNode(kind, out, writes) ==
    [fn |-> call.fn, parent |-> cur, kind |-> kind, out |-> out, writes |-> writes,
     managed |-> IF kind = "graph" /\ RecordedTensor(call.arg) THEN Out(call.arg) ELSE None,
     static |-> param,
     deadBefore |-> IF kind = "graph" THEN DeadBefore ELSE {},
     deadAfter |-> IF kind = "graph" THEN DeadAfter ELSE {},
     liveAfter |-> LiveAfter(Len(nodes) + 1),
     ckpt |-> AllocAfterRun \cup {out}]

\* Common to run_eager and record_function: the run allocates and writes a
\* scratch block (a copy of the input, a temporary) and then its output, in the
\* lowest free block each, and frees the scratch block at its end.
LowestFree(used) == {a \in Addrs \ used : \A b \in Addrs \ used : a <= b}

RunInPool(kind, newState) ==
    /\ Len(nodes) < MaxNodes
    /\ \E scratch \in LowestFree(alloc) :
       \E out \in LowestFree(AllocAfterRun \cup {scratch}) :
        LET n == Len(nodes) + 1
            r == NewNode(kind, out, {scratch, out})
        IN  /\ nodes' = Append(nodes, r)
            /\ cur' = n
            /\ held' = HeldAfterRun \cup {n}
            /\ owned' = (owned \cap HeldAfterRun) \cup {n}
            /\ alloc' = r.ckpt
            /\ lost' = lost \cup Victims({scratch, out})
                          \cup (IF kind = "graph" THEN WriteToCopy ELSE {})
                          \cup (IF IsWarmup(cur) /\ kind = "graph" THEN {"recorded after warm-up"} ELSE {})
    /\ state' = newState
    /\ curGen' = CurrGeneration
    /\ dead' = dead \cap HeldAfterRun
    /\ released' = released \cap HeldAfterRun
    /\ Return
    /\ UNCHANGED <<world, rerecord>>

\* run_eager.
Warmup ==
    /\ \/ Managed /\ NeedsWarmup /\ state /= "EXECUTION" /\ KeepHint
       \/ pc = "warmup" /\ UNCHANGED hint
    /\ warmed' = warmed \cup {call.fn}
    /\ UNCHANGED rootKeys
    /\ RunInPool("warmup", "WARMUP")

-----------------------------------------------------------------------------
(* check_invariants of a recording, and the search among the children of   *)
(* the current node, in the order they were recorded.                      *)
Children(n, f) == {c \in NodeIds : nodes[c].kind = "graph" /\ nodes[c].parent = n /\ nodes[c].fn = f}

ArgAddr == IF call.arg = Ext THEN None ELSE Out(call.arg)
ManagedMismatch(c) == nodes[c].managed /= None /\ ArgAddr /= nodes[c].managed
DeadMismatchUnchecked(c) == FALSE
DeadMismatch(c) == nodes[c].deadBefore \cap held /= {}
StaticMismatch(c) == nodes[c].static /= param

Matches(c) == ~ManagedMismatch(c) /\ ~DeadMismatch(c) /\ ~StaticMismatch(c)
FirstMatch(c) ==
    /\ c \in Children(cur, call.fn)
    /\ Matches(c)
    /\ \A d \in Children(cur, call.fn) : d < c => ~Matches(d)

\* An input that died during the recording and does not die now.
InputOutlives(c) == nodes[c].deadAfter \cap HeldAfterRun /= {}

Searching == Managed /\ ~NeedsWarmup /\ ~InRecording
RootKeys == IF cur = 0 THEN rootKeys \cup {call.fn} ELSE rootKeys

\* execute_node: the replay writes where its recording wrote; its output is
\* rebuilt at the recorded address and does not own it.
Replay(c) ==
    /\ Searching
    /\ FirstMatch(c)
    /\ ~InputOutlives(c)
    /\ cur' = c
    /\ state' = "EXECUTION"
    /\ curGen' = CurrGeneration
    /\ lost' = lost \cup Victims(nodes[c].writes)
                  \cup WriteToCopy
    /\ held' = HeldAfterRun \cup {c}
    /\ owned' = (owned \cap HeldAfterRun) \ {c}
    /\ alloc' = AllocAfterRun
    /\ dead' = (dead \cap HeldAfterRun) \ {c}
    /\ released' = (released \cap HeldAfterRun) \ {c}
    /\ rootKeys' = RootKeys
    /\ KeepHint
    /\ Return
    /\ UNCHANGED <<nodes, warmed, rerecord, world>>

\* torch._check raises: the call fails, the input was already taken out of the list.
ReplayRaises(c) ==
    /\ Searching
    /\ FirstMatch(c)
    /\ InputOutlives(c)
    /\ rootKeys' = RootKeys
    /\ KeepHint
    /\ TensorsAfterRun
    /\ call' = NoCall
    /\ pc' = "idle"
    /\ UNCHANGED <<nodes, cur, state, warmed, rerecord, curGen, pending, world, lost>>

NoMatch == Searching /\ \A c \in Children(cur, call.fn) : ~Matches(c)

\* try_end_curr_execution.
CanEndExecution == CanStartNewGeneration \/ AllOutputsDead(cur)

\* The function is known as a root and the execution can end: run again.
RunAgainAtRoot ==
    /\ NoMatch
    /\ cur /= 0
    /\ call.fn \in rootKeys
    /\ CanEndExecution
    /\ cur' = 0
    /\ state' = "NONE"
    /\ KeepHint
    /\ UNCHANGED <<nodes, warmed, rootKeys, rerecord, curGen, pending, alloc, tensors,
                   world, call, pc, lost>>

Unexpected == \E c \in Children(cur, call.fn) :
                  ManagedMismatch(c) \/ (~DeadMismatch(c) /\ StaticMismatch(c))

\* Nothing matches: the mutation hint is renewed, an unexpected mismatch is
\* counted, and the function is recorded, after the execution was ended or
\* checkpointed, unless the hint or the count now keeps it out of the tree.
PrepareRecording ==
    /\ NoMatch
    /\ ~(cur /= 0 /\ call.fn \in rootKeys /\ CanEndExecution)
    /\ rootKeys' = RootKeys
    /\ hint' = IF call.fn \in Mutates THEN Put(hint, Key, MutatesOutside) ELSE hint
    /\ LET count == IF Unexpected THEN Rerecords + 1 ELSE Rerecords
           outside == MutatesOutside
       IN  /\ rerecord' = IF ~outside /\ Unexpected THEN Put(rerecord, Key, count) ELSE rerecord
           /\ IF outside \/ (Unexpected /\ Exceeds(count))
              THEN /\ TensorsAfterRun
                   /\ Return
                   /\ UNCHANGED <<cur, state>>
              ELSE /\ pc' = "record"
                   /\ UNCHANGED <<held, dead, released, pending, call>>
                   /\ IF cur /= 0 /\ CanEndExecution
                      THEN cur' = 0 /\ state' = "NONE" /\ UNCHANGED <<alloc, owned>>
                      ELSE /\ UNCHANGED <<cur, state>>
                           /\ IF cur = 0 THEN UNCHANGED <<alloc, owned>> ELSE ApplyCheckpoint
    /\ UNCHANGED <<nodes, warmed, curGen, world, lost>>

\* record_function.
Record ==
    /\ \/ Managed /\ ~NeedsWarmup /\ InRecording /\ KeepHint
       \/ pc = "record" /\ UNCHANGED hint
    /\ rootKeys' = RootKeys
    /\ UNCHANGED warmed
    /\ RunInPool("graph", "RECORDING")

Next ==
    \/ \E o \in held : Drop(o)
    \/ NewInvocation
    \/ MoveParam
    \/ \E f \in Fns, arg \in {Ext} \cup held, gone \in BOOLEAN : Invoke(f, arg, gone)
    \/ EndRecordingOrWarmup
    \/ RunUnmanaged
    \/ CheckpointForWarmup
    \/ Warmup
    \/ \E c \in NodeIds : Replay(c) \/ ReplayRaises(c)
    \/ RunAgainAtRoot
    \/ PrepareRecording
    \/ Record

Spec == Init /\ [][Next]_vars

-----------------------------------------------------------------------------
\* Every variable has its type, and path_state says what kind of node the current
\* path ends in.
TypeOK ==
    /\ state = "NONE" <=> cur = 0
    /\ InWarmup <=> IsWarmup(cur)
    /\ cur \in {0} \cup NodeIds
    /\ state \in {"NONE", "WARMUP", "RECORDING", "EXECUTION"}
    /\ alloc \subseteq Addrs
    /\ held \subseteq NodeIds /\ owned \subseteq held /\ dead \subseteq NodeIds
    /\ released \subseteq NodeIds
    /\ warmed \subseteq Fns /\ rootKeys \subseteq Fns
    /\ pending \in BOOLEAN

\* No replay, recording or warm-up overwrites an output that the caller still holds
\* and that belongs to the running generation (or to a forward whose backward is
\* still to come); no function that writes to its input is recorded or replayed
\* on a copy of it, unless the input is an output of an earlier generation; and
\* nothing is recorded on a path of warm-ups.
NothingLost == lost = {}

\* While a path is being warmed up or recorded, the blocks the allocator counts as
\* live are those of the live outputs of the path, also after a checkpoint put it
\* back to the state of an earlier recording.
PoolAccounted ==
    state \in {"WARMUP", "RECORDING"} /\ pc = "idle" => alloc = {Out(o) : o \in Path(cur) \cap held}

=============================================================================
