----------------------------- MODULE ModuleHooks -----------------------------
(***************************************************************************)
(* What torch_npu wraps around Module.__call__ (utils/_step.py, asd/asd.py):*)
(* the step times of the performance dump, and the hooks that the three    *)
(* versions of the silent fault check put on weights and modules.  One     *)
(* thread calls trees of modules; gradients then arrive weight by weight,  *)
(* and a checkpointed module may be called again between two of them.      *)
(* What the third version does with a sampled gradient is in SilentCheck.  *)
(***************************************************************************)
EXTENDS Integers, FiniteSets, SequencesExt

CONSTANTS Tree,        \* module -> [kids, params, loss, training, name]
          Roots,       \* the modules a program calls
          Checkpointed,\* the modules whose backward calls them again
          Settings,    \* the environments it may be started with
          MinStep,     \* samples before version one judges a gradient
          MaxCalls     \* bound on outermost calls

VARIABLES
    env,        \* the settings read at import
    perf,       \* PerfDumpState: [on, outer, visited, last, children, lines]
    v1,         \* _SilentFaultDetector: [on, step, global, seen, samples, judged]
    v2,         \* _SilentCheckState
    v3,         \* _MatmulSilentCheck, the part that registers hooks
    inBackward, \* IS_IN_BACKWARD
    stack,      \* calls in flight, outermost first: [m, next]
    back,       \* the backward under way: [root, left], left the weights to come
    calls,      \* outermost calls made
    checks,     \* version two: how often each root was checked
    done        \* backwards that ran to their end

vars == <<env, perf, v1, v2, v3, inBackward, stack, back, calls, checks, done>>

NoModule == "none"
NoWeight == 0
Weights(m) == Tree[m].params
RECURSIVE Below(_)
Below(m) == UNION {{k} \cup Below(k) : k \in ToSet(Tree[m].kids)}
IsInner(m) == Tree[m].kids = <<>>

(***************************************************************************)
(* The environment: [perf, asd, enable, version].  asd is <<>> when        *)
(* NPU_ASD_CONFIG is not set, else <<[enable, items]>>; an item is         *)
(* <<key, number>>, -1 for text that is no number, or has another length;  *)
(* with_checksum:true is the number 1, with_checksum:false 0.              *)
(***************************************************************************)
\* The items with exactly one colon; the last one of a key wins.
_parse_config(config) ==
    LET kept == SelectSeq(config, LAMBDA item : Len(item) = 2)
    IN [key \in {kept[k][1] : k \in DOMAIN kept} |->
            kept[CHOOSE k \in DOMAIN kept : /\ kept[k][1] = key
                                            /\ \A j \in (k + 1)..Len(kept) : kept[j][1] # key][2]]

\* A value that is no positive number leaves the default in place.
_prase_asd_config(dict) ==
    LET Get(key, least, default) == IF key \in DOMAIN dict THEN IF dict[key] >= least THEN dict[key] ELSE default
                                    ELSE default
    IN [interval |-> Get("grad_sample_interval", 1, 3), strikes |-> Get("strikes_num", 1, 3),
        cooldown |-> Get("cooldown", 1, 5), thresh1 |-> Get("upper_thresh1", 3, 1000000)]

\* The one setting that a wrong value makes fail.
ChecksumInvalid(dict) == "with_checksum" \in DOMAIN dict /\ dict["with_checksum"] \notin {0, 1}

\* _asd_patch: the first version, for a CANN that has no other.
AsdPatch(e) == e.enable = 1 /\ e.version = 1

\* add_perf_dump_patch: NPU_ASD_CONFIG, once set, is what counts.
Version3(e) == e.asd # <<>> /\ e.asd[1].enable = "true"
Version2(e) == IF e.asd = <<>> /\ e.version > 1 THEN e.enable ELSE 0
Wrapped(e) == e.perf \/ Version3(e) \/ (e.asd = <<>> /\ e.enable > 0)

ImportFails(e) == \/ e.enable \notin {0, 1} /\ ~(e.enable > 0 /\ e.version > 1)
                  \/ e.asd = <<>> /\ e.enable \notin 0..3
                  \/ e.asd # <<>> /\ e.asd[1].enable \notin {"true", "false"}
                  \/ Version3(e) /\ ChecksumInvalid(_parse_config(e.asd[1].items))

Init ==
    /\ env \in {e \in Settings : ~ImportFails(e)}
    /\ perf = [on |-> env.perf, outer |-> TRUE, visited |-> {}, last |-> FALSE, children |-> {}, lines |-> 0]
    /\ v1 = [on |-> AsdPatch(env), step |-> 0, global |-> 0, seen |-> {}, samples |-> 0, judged |-> 0]
    /\ v2 = [enable |-> Version2(env), first |-> TRUE, training |-> FALSE, id |-> NoModule, outer |-> {},
             firstWeight |-> NoWeight, lastWeight |-> NoWeight, marks |-> {},
             firstHooks |-> {}, lastHooks |-> {}]
    /\ v3 = [enable |-> IF Version3(env) THEN 1 ELSE 0, first |-> TRUE, training |-> FALSE, outer |-> {},
             marks |-> {}, names |-> {}, visited |-> <<>>, hooks |-> <<>>, filter |-> -1,
             interval |-> IF Version3(env) THEN _prase_asd_config(_parse_config(env.asd[1].items)).interval ELSE 3]
    /\ inBackward = FALSE
    /\ stack = <<>> /\ back = <<>> /\ calls = 0
    /\ checks = [m \in Roots |-> 0]
    /\ done = [m \in Roots |-> 0]

(***************************************************************************)
(* The performance dump.                                                   *)
(***************************************************************************)
\* An outermost call of a module that is no part of one called before starts a step;
\* the first step has no line of its own.
PerfEnter(m) ==
    LET step == m \notin perf.children /\ ~Tree[m].loss
    IN IF ~perf.on \/ ~perf.outer THEN perf
       ELSE [perf EXCEPT !.outer = FALSE, !.visited = @ \cup {m},
                         !.last = @ \/ step,
                         !.lines = IF step /\ perf.last THEN @ + 1 ELSE @,
                         !.children = IF step THEN @ \cup Below(m) ELSE @]

PerfLeave(m) == IF perf.on /\ m \in perf.visited
                THEN [perf EXCEPT !.outer = TRUE, !.visited = @ \ {m}] ELSE perf

(***************************************************************************)
(* Version two: hooks on the first and the last weight of a module.        *)
(***************************************************************************)
Half(m) == \E k \in DOMAIN Weights(m) : Weights(m)[k].grad /\ Weights(m)[k].dt = "half"

init_module_info(s, m) == [s EXCEPT !.id = m, !.first = FALSE, !.training = Tree[m].training]

\* The first call is the outer one; a half precision weight ends the check for good.
V2Enter(m) ==
    LET s == IF v2.first THEN [init_module_info(v2, m) EXCEPT !.outer = @ \cup {m}] ELSE v2
    IN IF v2.enable = 0 \/ inBackward THEN v2
       ELSE IF s.training /\ s.id \notin s.marks /\ Half(m)
            THEN [s EXCEPT !.firstHooks = {}, !.lastHooks = {}, !.enable = 0]
            ELSE s

Trainable(m) == SelectSeq(Weights(m), LAMBDA w : w.grad)

\* Autograd: the weights of a module in the order their gradients arrive.
RECURSIVE Forwards(_)
Forwards(m) ==
    LET kids == Tree[m].kids
    IN (IF kids = <<>> THEN <<>> ELSE FlattenSeq([k \in DOMAIN kids |-> Forwards(kids[k])])) \o Trainable(m)
Gradients(m) == Reverse(Forwards(m))

search_first_weight(s, m) ==
    IF s.id \notin s.marks /\ s.firstWeight = NoWeight /\ Trainable(m) # <<>>
    THEN [s EXCEPT !.firstWeight = Trainable(m)[1].id] ELSE s

search_last_weight(s, m) ==
    IF s.id \notin s.marks /\ IsInner(m) /\ Trainable(m) # <<>>
    THEN [s EXCEPT !.lastWeight = Last(Trainable(m)).id] ELSE s

\* Each module gets its two hooks once, and none if it has a single weight.
init_all_hook(s) ==
    LET new == s.firstWeight # s.lastWeight /\ NoWeight \notin {s.firstWeight, s.lastWeight}
        Add(hooks, w) == IF new /\ \A h \in hooks : h[1] # s.id THEN hooks \cup {<<s.id, w>>} ELSE hooks
    IN IF ~s.training THEN s
       ELSE [s EXCEPT !.firstHooks = Add(@, s.firstWeight), !.lastHooks = Add(@, s.lastWeight),
                      !.marks = @ \cup {s.id}]

init_param(s) == [s EXCEPT !.first = TRUE, !.training = FALSE, !.id = NoModule,
                           !.firstWeight = NoWeight, !.lastWeight = NoWeight]

V2Leave(m) ==
    LET s == IF v2.training THEN search_last_weight(search_first_weight(v2, m), m) ELSE v2
    IN IF v2.enable = 0 \/ inBackward THEN v2
       ELSE IF m \in s.outer THEN [init_param(init_all_hook(s)) EXCEPT !.outer = @ \ {m}] ELSE s

(***************************************************************************)
(* Version three: a backward hook on the module of every few matrices.     *)
(***************************************************************************)
RECURSIVE NamedModules(_)
NamedModules(m) ==
    LET kids == Tree[m].kids
    IN <<m>> \o (IF kids = <<>> THEN <<>> ELSE FlattenSeq([k \in DOMAIN kids |-> NamedModules(kids[k])]))

parameter_filtering(s) == [s EXCEPT !.filter = (@ + 1) % s.interval]

\* Over the weights of one leaf: a half precision one takes all hooks away.
RECURSIVE RegisterParams(_, _, _)
RegisterParams(s, m, ws) ==
    LET t == parameter_filtering(s)
        u == IF t.filter = 0 THEN [t EXCEPT !.hooks = Append(@, m), !.names = @ \cup {Tree[m].name}] ELSE t
    IN IF ws = <<>> THEN s
       ELSE IF ~Head(ws).matrix THEN RegisterParams(s, m, Tail(ws))
       ELSE IF Head(ws).dt = "half" THEN [u EXCEPT !.hooks = <<>>, !.enable = 0]
       ELSE RegisterParams(u, m, Tail(ws))

RECURSIVE RegisterHooks(_, _)
RegisterHooks(s, ms) ==
    IF ms = <<>> \/ s.enable = 0 THEN s
    ELSE LET m == Head(ms)
         IN IF IsInner(m) /\ Tree[m].name \notin s.names /\ m \notin ToSet(s.visited)
            THEN RegisterHooks(RegisterParams([s EXCEPT !.visited = Append(@, m)], m, Weights(m)), Tail(ms))
            ELSE RegisterHooks(s, Tail(ms))

V3Enter(m) ==
    IF v3.enable = 0 \/ ~v3.first THEN v3
    ELSE LET s == [v3 EXCEPT !.first = FALSE, !.training = Tree[m].training, !.outer = @ \cup {m}]
         IN IF s.training /\ m \notin s.marks
            THEN [RegisterHooks(s, NamedModules(m)) EXCEPT !.marks = @ \cup {m}]
            ELSE s

V3Leave(m) == IF v3.enable # 0 /\ m \in v3.outer
              THEN [v3 EXCEPT !.first = TRUE, !.training = FALSE, !.outer = @ \ {m}] ELSE v3

(***************************************************************************)
(* Calls.  A call enters the three wrappers, calls the submodules in order *)
(* and leaves the wrappers.                                                *)
(***************************************************************************)
Enter(m) ==
    /\ stack' = Append(stack, [m |-> m, next |-> 1])
    /\ IF Wrapped(env) THEN perf' = PerfEnter(m) /\ v2' = V2Enter(m) /\ v3' = V3Enter(m)
                       ELSE UNCHANGED <<perf, v2, v3>>
    /\ UNCHANGED <<env, v1, inBackward, back, checks, done>>

\* The program calls a root, or the backward calls a checkpointed module again when
\* it comes to its weights.
Recomputed(b) == {m \in Checkpointed \cap Below(b.root) :
                     /\ b.left # <<>> /\ Forwards(m) # <<>>
                     /\ Head(b.left) = Last(Forwards(m))}

Call == /\ stack = <<>> /\ calls < MaxCalls
        /\ \E m \in IF back = <<>> THEN Roots ELSE Recomputed(back[1]) : Enter(m)
        /\ calls' = calls + 1

Top == stack[Len(stack)]

CallChild ==
    /\ stack # <<>> /\ Top.next <= Len(Tree[Top.m].kids)
    /\ LET kid == Tree[Top.m].kids[Top.next]
       IN /\ stack' = [stack EXCEPT ![Len(stack)].next = @ + 1] \o <<[m |-> kid, next |-> 1]>>
          /\ IF Wrapped(env) THEN perf' = PerfEnter(kid) /\ v2' = V2Enter(kid) /\ v3' = V3Enter(kid)
                             ELSE UNCHANGED <<perf, v2, v3>>
    /\ UNCHANGED <<env, v1, inBackward, back, calls, checks, done>>

\* An outermost call of a root leaves a graph that a backward may walk.
Return ==
    /\ stack # <<>> /\ Top.next > Len(Tree[Top.m].kids)
    /\ stack' = Front(stack)
    /\ IF Wrapped(env) THEN perf' = PerfLeave(Top.m) /\ v2' = V2Leave(Top.m) /\ v3' = V3Leave(Top.m)
                       ELSE UNCHANGED <<perf, v2, v3>>
    /\ back' = IF Len(stack) = 1 /\ back = <<>> /\ Tree[Top.m].training
               THEN <<[root |-> Top.m, left |-> Gradients(Top.m)]>> ELSE back
    /\ UNCHANGED <<env, v1, inBackward, calls, checks, done>>

(***************************************************************************)
(* The backward: the weights get their gradients, the last one first.      *)
(***************************************************************************)
\* Version one warms up over MinStep rounds of the weights seen so far, plus one.
V1Check(w) ==
    LET seen == v1.seen \cup {w.id}
    IN IF ~v1.on \/ ~w.sampled \/ w.dt = "half" THEN v1
       ELSE IF v1.global <= MinStep
            THEN [v1 EXCEPT !.seen = seen, !.samples = @ + 1, !.step = @ + 1,
                            !.global = (v1.step + 1) \div (Cardinality(seen) + 1)]
            ELSE [v1 EXCEPT !.seen = seen, !.samples = @ + 1, !.judged = @ + 1]

\* _input_hook and _output_hook: the last weight's gradient opens the backward, the
\* first one's ends it and is checked.
Gradient ==
    /\ back # <<>> /\ back[1].left # <<>> /\ stack = <<>>
    /\ LET w == Head(back[1].left)
           ended == {h \in v2.firstHooks : h[2] = w.id}
           opened == \E h \in v2.lastHooks : h[2] = w.id
       IN /\ back' = [back EXCEPT ![1].left = Tail(@)]
          /\ v1' = V1Check(w)
          /\ inBackward' = IF ended # {} THEN FALSE ELSE inBackward \/ opened
          /\ checks' = [m \in Roots |-> checks[m] + IF \E h \in ended : h[1] = m /\ w.dt # "half" THEN 1 ELSE 0]
    /\ UNCHANGED <<env, perf, v2, v3, stack, calls, done>>

BackwardEnds ==
    /\ back # <<>> /\ back[1].left = <<>> /\ stack = <<>>
    /\ back' = <<>>
    /\ done' = [done EXCEPT ![back[1].root] = @ + 1]
    /\ UNCHANGED <<env, perf, v1, v2, v3, inBackward, stack, calls, checks>>

\* Gradients are dropped: a forward of which no backward is taken.
NoBackward ==
    /\ back # <<>> /\ stack = <<>> /\ back[1].left = Gradients(back[1].root)
    /\ back' = <<>>
    /\ UNCHANGED <<env, perf, v1, v2, v3, inBackward, stack, calls, checks, done>>

Next == Call \/ CallChild \/ Return \/ Gradient \/ BackwardEnds \/ NoBackward
Spec == Init /\ [][Next]_vars

(***************************************************************************)
(* Properties.                                                             *)
(***************************************************************************)
\* Once no call is in flight every wrapper is ready for the next outermost one
\* (is_outer_call, first_forward and the flags on the modules are reset).
Ready == stack = <<>> => /\ perf.outer /\ perf.visited = {}
                         /\ v2.enable # 0 => v2.first /\ v2.outer = {}
                         /\ v3.enable # 0 => v3.first /\ v3.outer = {}

\* A root has one pair of version two's hooks, on the two ends of its backward,
\* whatever the backward recomputes.
HooksAtEnds ==
    /\ \A h \in v2.firstHooks : Last(Gradients(h[1])).id = h[2]
    /\ \A h \in v2.lastHooks : Head(Gradients(h[1])).id = h[2]
    /\ {h[1] : h \in v2.firstHooks} = {h[1] : h \in v2.lastHooks}
    /\ {h[1] : h \in v2.firstHooks} \subseteq Roots

\* Every backward of a hooked root is checked exactly once under its own id, and no
\* other is: silent_fault_check neither misses one nor runs in the middle of one.
CheckedOnce ==
    back = <<>> => /\ ~inBackward
                   /\ v2.enable # 0 =>
                        \A r \in Roots : checks[r] = IF \E h \in v2.firstHooks : h[1] = r THEN done[r] ELSE 0

\* Version three samples every interval-th matrix, and none once it is off.
SampledEvenly ==
    IF v3.enable = 0 THEN v3.hooks = <<>>
    ELSE LET matrices == SelectSeq(FlattenSeq([k \in DOMAIN v3.visited |-> Weights(v3.visited[k])]),
                                   LAMBDA w : w.matrix)
         IN Len(v3.hooks) = (Len(matrices) + v3.interval - 1) \div v3.interval

\* Version one judges no gradient before it has seen MinStep of them per weight.
WarmedUp == v1.judged > 0 => v1.samples - v1.judged > MinStep * Cardinality(v1.seen)

\* The wrappers around Module.__call__ leave no trace behind, hook the weights they
\* mean to, and check each backward once.
HooksSound == Ready /\ HooksAtEnds /\ CheckedOnce /\ SampledEvenly /\ WarmedUp
=============================================================================
