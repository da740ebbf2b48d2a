----------------------------- MODULE FusedOptim -----------------------------
(***************************************************************************)
(* The fused optimizers, optim/npu_fused_optim_base.py and its subclasses. *)
(* A fused optimizer lays the parameters, the gradients and the state      *)
(* tensors of all its groups out in one combined tensor per type, the      *)
(* first time it needs them, and from then on works on the combined        *)
(* tensors alone.  The question is whether that is the same as one update  *)
(* per parameter: ref is the state an optimizer without combined tensors   *)
(* would have.  A value of a gradient is the set of backward passes that   *)
(* went into it (Clipped when it was clipped), a value of a state tensor   *)
(* the sequence of gradients it has absorbed.                              *)
(***************************************************************************)
EXTENDS Naturals, Sequences, SequencesExt, FiniteSets, FiniteSetsExt

CONSTANTS Groups,              \* param_groups: a sequence of sequences
          DtypeOf, SizeOf,     \* of a parameter
          Kinds,               \* the optimizers to check
          PassSets,            \* sets of parameters that a backward pass may reach
          MaxPasses, MaxSteps, MaxEvents \* bounds

Params == UNION {Range(Groups[g]) : g \in DOMAIN Groups}
Dtypes == {"fp32", "fp16"}
Clipped == 0

VARIABLES kind,
          has, grad,   \* p.grad: whether it is a tensor, and its value
          linked,      \* parameters whose p.grad lies in the combined gradients
          slot,        \* the values of the combined gradients
          comb,        \* [dtype -> the combined parameters, in order]
          isComb, isStates, isMasks,  \* the flags is_..._combined
          inState,     \* _momentum_buffer_already_in_state
          st,          \* self.state: [parameter -> its state]
          cst,         \* combined states: [group -> [dtype -> state]]
          ref,         \* the states of the reference optimizer
          wrong,       \* parameters updated otherwise than by the reference
          odd,         \* parameters outside what combining supports
          disk, passes, steps, events, raised

vars == <<kind, has, grad, linked, slot, comb, isComb, isStates, isMasks, inState,
          st, cst, ref, wrong, odd, disk, passes, steps, events, raised>>

NoState == [some |-> FALSE, step |-> 0, m |-> << >>]
NoCombined == [some |-> FALSE, step |-> 0]

\* What tells the optimizers apart: whether _group_step counts the steps of each
\* parameter, where the update reads the combined count (after it is incremented,
\* before, or not at all), and whether the first momentum is the gradient itself.
Adam == [counts |-> TRUE, reads |-> "after", seeds |-> FALSE]
AdamW == [counts |-> TRUE, reads |-> "after", seeds |-> FALSE]
AdamP == [counts |-> TRUE, reads |-> "after", seeds |-> FALSE]
Lamb == [counts |-> TRUE, reads |-> "never", seeds |-> FALSE]
Adadelta == [counts |-> TRUE, reads |-> "never", seeds |-> FALSE]
RMSprop == [counts |-> TRUE, reads |-> "never", seeds |-> FALSE]
RMSpropTF == [counts |-> TRUE, reads |-> "never", seeds |-> FALSE]
BertAdam == [counts |-> FALSE, reads |-> "before", seeds |-> FALSE]
SGD == [counts |-> FALSE, reads |-> "never", seeds |-> TRUE]

Optimizer == [adam |-> Adam, adamw |-> AdamW, adamp |-> AdamP, lamb |-> Lamb,
              adadelta |-> Adadelta, rmsprop |-> RMSprop, rmsproptf |-> RMSpropTF,
              bertadam |-> BertAdam, sgd |-> SGD]
Traits == Optimizer[kind]

NewOptimizer ==
    /\ comb = [d \in Dtypes |-> << >>]
    /\ isComb = FALSE /\ isStates = FALSE /\ isMasks = FALSE /\ inState = FALSE
    /\ cst = [g \in DOMAIN Groups |-> [d \in Dtypes |-> NoCombined]]

Init ==
    /\ kind \in Kinds
    /\ has = [p \in Params |-> FALSE] /\ grad = [p \in Params |-> {}]
    /\ linked = {} /\ slot = [p \in Params |-> {}]
    /\ NewOptimizer
    /\ st = [p \in Params |-> NoState] /\ ref = st
    /\ wrong = {} /\ odd = {} /\ disk = [st |-> st, ref |-> ref]
    /\ passes = 0 /\ steps = 0 /\ events = 0 /\ raised = FALSE

\* The program goes on until an operation fails; a program that has taken every
\* parameter out of what SameUpdates is about is followed no further.
Running == ~raised /\ odd /= Params

-----------------------------------------------------------------------------
(***************************************************************************)
(* Combining parameters and gradients.                                     *)
(***************************************************************************)
OfGroup(g, d) == SelectSeq(Groups[g], LAMBDA p : has[p] /\ DtypeOf[p] = d)

\* Parameters without a gradient are passed over.
Combinable(d) == FlattenSeq([g \in DOMAIN Groups |-> OfGroup(g, d)])

\* _maybe_init_combined_params_and_grads: what is combined afterwards.
CombinedNow == IF isComb THEN comb ELSE [d \in Dtypes |-> Combinable(d)]
Members(c) == UNION {Range(c[d]) : d \in Dtypes}

Combine ==
    /\ comb' = CombinedNow
    /\ isComb' = (Members(CombinedNow) /= {})
    /\ linked' = IF isComb THEN linked ELSE Members(CombinedNow)

\* The combined gradients before and after they are combined.
SlotNow(p) == IF isComb /\ p \notin linked THEN slot[p] ELSE grad[p]

\* The storage of a combined tensor, one entry for each element.
Storage(c, d) == FlattenSeq([i \in DOMAIN c[d] |-> [k \in 1..SizeOf[c[d][i]] |-> c[d][i]]])

GroupSize(c, g, d) ==
    MapThenSumSet(LAMBDA p : SizeOf[p], Range(Groups[g]) \intersect Range(c[d]))

SliceFromStart(c, g, d) == SubSeq(Storage(c, d), 1, GroupSize(c, g, d))

\* get_part_combined_tensor: the part of the combined tensor that group g works on.
Slice(c, g, d) ==
    LET before == MapThenSumSet(LAMBDA h : GroupSize(c, h, d), 1..(g - 1))
    IN SubSeq(Storage(c, d), before + 1, before + GroupSize(c, g, d))

-----------------------------------------------------------------------------
(***************************************************************************)
(* Combining states.                                                       *)
(***************************************************************************)
\* The parameters of a group whose states are combined.
Stateful(c, g, d) == SelectSeq(Groups[g], LAMBDA p : p \in Range(c[d]) /\ has[p])

\* _init_param_state: a new state, or a copy of the one that was loaded.
InitParamState(p) ==
    IF st[p].some THEN st[p]
    ELSE [some |-> TRUE, step |-> 0, m |-> IF Traits.seeds THEN <<SlotNow(p)>> ELSE << >>]

\* The combined count of steps is the one of the first parameter.
CombineGroup(c, g, d) ==
    LET ps == Stateful(c, g, d)
    IN [some |-> ps /= << >>,
        step |-> IF ps = << >> THEN 0 ELSE InitParamState(ps[1]).step]

\* The parameters in the order in which their states are combined.
InOrder(c) == FlattenSeq([g \in DOMAIN Groups |-> Stateful(c, g, "fp32") \o Stateful(c, g, "fp16")])
AllStateful(c) == Range(InOrder(c))

\* Whether momentum was there already: NpuFusedSGD asks the last parameter for all.
BufferInState(c) == IF InOrder(c) = << >> THEN inState ELSE st[Last(InOrder(c))].some

\* The parameters combined with others that have not taken the same steps.
Uneven(c) ==
    LET with(p) == IF Traits.seeds THEN AllStateful(c)
                   ELSE UNION {Range(Stateful(c, g, DtypeOf[p])) :
                                  g \in {h \in DOMAIN Groups : p \in Range(Groups[h])}}
    IN {p \in AllStateful(c) :
           \E q \in with(p) : st[p].some /= st[q].some \/ st[p].step /= st[q].step}

-----------------------------------------------------------------------------
(***************************************************************************)
(* step().                                                                 *)
(***************************************************************************)
\* Parameters with a gradient but no state: state_p['step'] += 1 fails on them,
\* as does an update whose combined states are None.
Fails(c, s, k, g) ==
    \/ Traits.counts /\ \E p \in Range(Groups[g]) : has[p] /\ ~s[p].some
    \/ \E d \in Dtypes : Slice(c, g, d) /= << >> /\ ~k[g][d].some

\* The groups whose step is reached: the first that fails ends step().
Reached(c, s, k) ==
    {g \in DOMAIN Groups : \A h \in 1..g : ~Fails(c, s, k, h)}

\* The parameters that the combined update of group g and type d works on.
Updated(c, g, d) == Range(Slice(c, g, d))

ReadStep(k, g, d) ==
    CASE Traits.reads = "after" -> k[g][d].step + 1
      [] Traits.reads = "before" -> k[g][d].step
      [] OTHER -> 0

RefRead(p) ==
    CASE Traits.reads = "after" -> ref[p].step + 1
      [] Traits.reads = "before" -> ref[p].step
      [] OTHER -> 0

RefMoment(p) == Append(ref[p].m, grad[p])

OwnGroup(p) == CHOOSE g \in DOMAIN Groups : p \in Range(Groups[g])
Moment(s, absorbs, p) == IF absorbs THEN Append(s[p].m, SlotNow(p)) ELSE s[p].m

\* The groups in go are reached and the parameters in hit updated; s and k are the
\* states of the parameters and of the combined tensors by then.
Apply(c, s, k, absorbs, go, hit) ==
    /\ st' = [p \in Params |->
                 [s[p] EXCEPT
                    !.m = IF p \in hit THEN Moment(s, absorbs, p) ELSE @,
                    !.step = IF OwnGroup(p) \in go /\ Traits.counts /\ has[p] THEN @ + 1 ELSE @]]
    /\ cst' = [g \in DOMAIN Groups |-> [d \in Dtypes |->
                 IF g \in go /\ Slice(c, g, d) /= << >>
                 THEN [k[g][d] EXCEPT !.step = @ + 1] ELSE k[g][d]]]
    /\ raised' = (go /= DOMAIN Groups)
    /\ wrong' = wrong \union
         {p \in Params : OwnGroup(p) \in go /\
             IF p \in hit
             THEN ~(has[p] /\ grad[p] = SlotNow(p) /\ Moment(s, absorbs, p) = RefMoment(p)
                      /\ ReadStep(k, OwnGroup(p), DtypeOf[p]) = RefRead(p))
             ELSE has[p]}
ApplyTo(c, s, k, absorbs, go) ==
    Apply(c, s, k, absorbs, go, UNION {Updated(c, g, d) : g \in go, d \in Dtypes})
StepWith(c, s, k, already) == ApplyTo(c, s, k, ~Traits.seeds \/ already, Reached(c, s, k))

\* The state is combined on the first step.
StepOn(c) ==
    /\ IF isStates THEN StepWith(c, st, cst, inState)
       ELSE StepWith(c, [p \in Params |-> IF p \in AllStateful(c) THEN InitParamState(p) ELSE st[p]],
                     [g \in DOMAIN Groups |-> [d \in Dtypes |-> CombineGroup(c, g, d)]],
                     BufferInState(c))
    /\ odd' = odd \union (IF isStates THEN {} ELSE Uneven(c))
                  \union {p \in Params : has[p] /\ p \notin Members(c)}
Step ==
    /\ Running /\ steps < MaxSteps
    /\ steps' = steps + 1
    /\ Combine
    /\ StepOn(CombinedNow)
    /\ isStates' = TRUE /\ inState' = TRUE
    /\ ref' = [p \in Params |->
                 IF has[p] THEN [some |-> TRUE, step |-> ref[p].step + 1, m |-> RefMoment(p)]
                 ELSE ref[p]]
    /\ slot' = [p \in Params |-> SlotNow(p)]
    /\ UNCHANGED <<kind, has, grad, isMasks, disk, passes, events>>

-----------------------------------------------------------------------------
(***************************************************************************)
(* The other operations on gradients.                                      *)
(***************************************************************************)
\* A backward pass accumulates into the gradients of the parameters S: in place,
\* or in a tensor that is not part of the combined one when there was none.
Backward(S) ==
    /\ Running /\ passes < MaxPasses
    /\ passes' = passes + 1
    /\ has' = [p \in Params |-> has[p] \/ p \in S]
    /\ grad' = [p \in Params |-> IF p \in S THEN grad[p] \union {passes + 1} ELSE grad[p]]
    /\ UNCHANGED <<kind, linked, slot, comb, isComb, isStates, isMasks, inState, st,
                   cst, ref, wrong, odd, disk, steps, events, raised>>

\* A value v of all the combined gradients, seen through the gradients linked to them.
SetCombined(v(_)) ==
    /\ slot' = [p \in Params |-> IF p \in Members(CombinedNow) THEN v(SlotNow(p)) ELSE {}]
    /\ grad' = [p \in Params |->
                  IF p \in (IF isComb THEN linked ELSE Members(CombinedNow))
                  THEN v(grad[p]) ELSE grad[p]]

\* zero_grad: gradients that are not part of the combined ones keep their value,
\* unless nothing is combined at all.
ZeroGrad ==
    /\ Running /\ events < MaxEvents
    /\ events' = events + 1
    /\ Combine
    /\ IF Members(CombinedNow) = {}
       THEN UNCHANGED <<slot, grad>>
       ELSE SetCombined(LAMBDA v : {})
    /\ odd' = odd \union {p \in Params : has[p] /\ p \notin Members(CombinedNow)}
    /\ UNCHANGED <<kind, has, isStates, isMasks, inState, st, cst, ref, wrong, disk,
                   passes, steps, raised>>

\* clip_grad_norm_fused_ with a norm above the limit.  The first call makes the
\* masks, from the gradients of all the combined parameters.
Clip ==
    /\ Running /\ events < MaxEvents
    /\ events' = events + 1
    /\ Combine
    /\ IF ~isMasks /\ (\/ Members(CombinedNow) = {}
                       \/ \E p \in Members(CombinedNow) : ~has[p])
       THEN raised' = TRUE /\ UNCHANGED <<slot, grad, isMasks, odd>>
       ELSE /\ SetCombined(LAMBDA v : v \union {Clipped})
            /\ isMasks' = TRUE
            /\ odd' = odd \union {p \in Params : has[p] /\ p \notin Members(CombinedNow)}
            /\ UNCHANGED raised
    /\ UNCHANGED <<kind, has, isStates, inState, st, cst, ref, wrong, disk, passes, steps>>

\* The program drops the gradients itself, as Module.zero_grad does.
DropGrads ==
    /\ Running /\ events < MaxEvents /\ \E p \in Params : has[p]
    /\ events' = events + 1
    /\ has' = [p \in Params |-> FALSE] /\ grad' = [p \in Params |-> {}]
    /\ slot' = [p \in Params |-> SlotNow(p)]
    /\ linked' = {}
    /\ odd' = odd \union linked
    /\ UNCHANGED <<kind, comb, isComb, isStates, isMasks, inState, st, cst, ref, wrong,
                   disk, passes, steps, raised>>

Save ==
    /\ Running /\ events < MaxEvents
    /\ events' = events + 1
    /\ disk' = [st |-> st, ref |-> ref]
    /\ UNCHANGED <<kind, has, grad, linked, slot, comb, isComb, isStates, isMasks, inState,
                   st, cst, ref, wrong, odd, passes, steps, raised>>

\* load_state_dict replaces self.state; the combined states stay what they are.
Load ==
    /\ Running /\ events < MaxEvents
    /\ events' = events + 1
    /\ st' = disk.st
    /\ ref' = disk.ref
    /\ odd' = IF isStates THEN Params ELSE odd
    /\ UNCHANGED <<kind, has, grad, linked, slot, comb, isComb, isStates, isMasks, inState,
                   cst, wrong, disk, passes, steps, raised>>

\* A new process makes the optimizer anew and loads the states saved last.  A count
\* of steps that only the combined states keep is not among them.
Resume ==
    /\ Running /\ events < MaxEvents
    /\ events' = events + 1
    /\ has' = [p \in Params |-> FALSE] /\ grad' = [p \in Params |-> {}]
    /\ linked' = {} /\ slot' = grad'
    /\ comb' = [d \in Dtypes |-> << >>]
    /\ isComb' = FALSE /\ isStates' = FALSE /\ isMasks' = FALSE /\ inState' = FALSE
    /\ cst' = [g \in DOMAIN Groups |-> [d \in Dtypes |-> NoCombined]]
    /\ st' = disk.st /\ ref' = disk.ref
    /\ odd' = IF Traits.reads /= "never" /\ ~Traits.counts THEN Params ELSE odd
    /\ UNCHANGED <<kind, wrong, disk, passes, steps, raised>>

Next ==
    \/ Step \/ ZeroGrad \/ Clip \/ DropGrads \/ Save \/ Load \/ Resume
    \/ \E S \in PassSets : Backward(S)

Spec == Init /\ [][Next]_vars

-----------------------------------------------------------------------------
\* Combining changes nothing: every parameter is updated from its own gradient,
\* its own momentum and its own count of steps, in the steps in which an optimizer
\* that goes parameter by parameter would update it.  The cases that the combined
\* layout does not follow are those of odd: a gradient that appears after the
\* layout is fixed or is dropped by the program, states of unequal age in one
\* group, states loaded after they were combined, and NpuFusedBertAdam's count of
\* steps after it is resumed.
SameUpdates == wrong \subseteq odd

\* The parts of the groups partition the combined tensor of each type: no element
\* is stepped by two groups, none is left out, and none by another group.
SlicesPartition ==
    isComb => \A g \in DOMAIN Groups, d \in Dtypes :
        LET own == {i \in DOMAIN Slice(comb, g, d) : Slice(comb, g, d)[i] \in Range(Groups[g])}
        IN Cardinality(own) = GroupSize(comb, g, d)
=============================================================================
