------------------------- MODULE GraphedCallables --------------------------
(***************************************************************************)
(* make_graphed_callables (torch_npu/npu/graphs.py): the forward passes of *)
(* several callables are captured in order and their backward passes in    *)
(* reverse order, all in one memory pool; a training loop then replays     *)
(* them.  Memory a capture has freed is reused by the captures after it,   *)
(* so a replay overwrites what an earlier capture left there.              *)
(***************************************************************************)
EXTENDS Integers, SequencesExt, FiniteSetsExt

CONSTANTS
    Shapes,     \* callables: [args, params, outs: Seq(requires_grad), used: Seq(BOOLEAN)]
    N,          \* number of callables
    MaxIters    \* bound: iterations of the training loop

VARIABLES
    conf,       \* the callables
    phase,      \* "fwd", "bwd": capturing; "loop": training
    at,         \* the callable the phase has reached
    plan,       \* per callable: the pool cells its two graphs use
    free,       \* pool cells that are free
    mem,        \* contents of the pool cells
    inputs,     \* per callable: contents of its static input buffers
    gradOut,    \* per callable: contents of its static grad outputs
    params,     \* per callable: contents of its parameters
    training,   \* the modules are in the mode they were graphed in
    iter,       \* [n, dir]: iteration and direction ("fwd" or "bwd")
    live,       \* ghost: per callable, <<inputs, params>> eager execution would have used
    lastGrad,   \* ghost: per callable, the gradients of its outputs
    eager       \* callables whose last forward ran the original method

vars == <<conf, phase, at, plan, free, mem, inputs, gradOut, params, training, iter,
          live, lastGrad, eager>>

None == 0
Cells == 1 .. 8 * N
Callables == 1 .. N

Surface(c) == c.args \o c.params    \* the full input surface: arguments, then parameters

\* Values are terms; eager execution of callable i on inputs x and parameters p.
Activation(i, x, p) == <<"act", i, x, p>>
Output(i, j, x, p) == <<"out", i, j, x, p>>
Grad(i, j, act, g) == <<"grad", i, j, act, g>>

NeedsGrad(c) == \E j \in DOMAIN c.outs : c.outs[j]

\* The gradient slots of a callable that are not None.
GradSlots(c) == {j \in DOMAIN Surface(c) : Surface(c)[j] /\ c.used[j] /\ NeedsGrad(c)}

\* The lowest free cells.
Alloc(cells, n) ==
    [k \in 1 .. n |-> CHOOSE c \in cells : Cardinality({d \in cells : d < c}) = k - 1]

Fresh(what, i, j) == <<what, i, j, iter.n>>

-----------------------------------------------------------------------------
Init ==
    /\ conf \in [Callables -> Shapes]
    /\ phase = "fwd"
    /\ at = 1
    /\ plan = [i \in Callables |-> [tmp |-> None, saved |-> None, outs |-> <<>>,
                                    btmp |-> None, gins |-> <<>>]]
    /\ free = Cells
    /\ mem = [c \in Cells |-> <<>>]
    /\ inputs = [i \in Callables |-> [j \in DOMAIN conf[i].args |-> <<"sample", i, j>>]]
    /\ gradOut = [i \in Callables |-> [j \in DOMAIN conf[i].outs |-> <<>>]]
    /\ params = [i \in Callables |-> [j \in DOMAIN conf[i].params |-> <<"param", i, j, 0>>]]
    /\ training = TRUE
    /\ iter = [n |-> 0, dir |-> "fwd"]
    /\ live = [i \in Callables |-> <<>>]
    /\ lastGrad = [i \in Callables |-> <<>>]
    /\ eager = {}

dataVars == <<mem, inputs, gradOut, params, training, iter, live, lastGrad, eager>>

\* Captures callable at's forward pass: the outputs and what autograd saves stay
\* allocated, the temporary is freed when the capture ends.
CaptureForward ==
    /\ phase = "fwd"
    /\ LET got == Alloc(free, 2 + Len(conf[at].outs)) IN
       /\ plan' = [plan EXCEPT ![at].tmp = got[1], ![at].saved = got[2],
                               ![at].outs = SubSeq(got, 3, Len(got))]
       /\ free' = free \ (ToSet(got) \ {got[1]})
    /\ phase' = IF at = N THEN "bwd" ELSE "fwd"
    /\ at' = IF at = N THEN N ELSE at + 1
    /\ UNCHANGED <<conf, dataVars>>

\* Pads the gradients with None for the inputs that do not require one.
StaticGradInputs(c, cells) ==
    [j \in DOMAIN Surface(c) |->
        IF j \in GradSlots(c)
        THEN cells[Cardinality({k \in GradSlots(c) : k <= j})] ELSE None]

\* Captures callable at's backward pass; autograd then drops what it saved.
CaptureBackward ==
    /\ phase = "bwd"
    /\ LET c == conf[at]
           n == Cardinality(GradSlots(c))
           got == Alloc(free, 1 + n)
       IN IF NeedsGrad(c)
          THEN /\ plan' = [plan EXCEPT ![at].btmp = got[1],
                               ![at].gins = StaticGradInputs(c, SubSeq(got, 2, 1 + n))]
               /\ free' = (free \ (ToSet(got) \ {got[1]})) \cup {plan[at].saved}
          ELSE /\ plan' = [plan EXCEPT ![at].gins = [j \in DOMAIN Surface(c) |-> None]]
               /\ free' = free \cup {plan[at].saved}
    /\ phase' = IF at = 1 THEN "loop" ELSE "bwd"
    /\ at' = IF at = 1 THEN 1 ELSE at - 1
    /\ UNCHANGED <<conf, dataVars>>

\* What the training loop passes to callable i: the first argument is the first
\* output of the callable before it, the others are new every iteration.
UserArg(i, j, prev) == IF i > 1 /\ j = 1 THEN prev ELSE Fresh("arg", i, j)

\* The forward call of callable at.  Graphed.forward copies an argument that is
\* not already in the static buffer and replays; in the other mode new_fwd runs
\* the original method.
Forward ==
    LET c == conf[at]
        eagerOut == IF at = 1 THEN <<>>
                    ELSE Output(at - 1, 1, live[at - 1][1], live[at - 1][2])
        prev == IF at = 1 \/ at - 1 \in eager THEN eagerOut ELSE mem[plan[at - 1].outs[1]]
        x == [j \in DOMAIN c.args |-> UserArg(at, j, prev)]
        p == params[at]
    IN /\ phase = "loop"
       /\ iter.dir = "fwd"
       /\ iter.n < MaxIters
       /\ live' = [live EXCEPT ![at] = <<[j \in DOMAIN c.args |-> UserArg(at, j, eagerOut)], p>>]
       /\ IF training
          THEN /\ inputs' = [inputs EXCEPT ![at] = x]
               /\ mem' = [cell \in Cells |->
                     CASE cell = plan[at].saved -> Activation(at, x, p)
                       [] cell \in ToSet(plan[at].outs) ->
                            Output(at, CHOOSE j \in DOMAIN plan[at].outs :
                                            plan[at].outs[j] = cell, x, p)
                       [] cell = plan[at].tmp -> <<"tmp", at>>
                       [] OTHER -> mem[cell]]
               /\ eager' = eager \ {at}
          ELSE eager' = eager \cup {at} /\ UNCHANGED <<inputs, mem>>
       /\ at' = IF at = N THEN N ELSE at + 1
       /\ iter' = IF at = N THEN [iter EXCEPT !.dir = "bwd"] ELSE iter
       /\ UNCHANGED <<conf, phase, plan, free, gradOut, params, training, lastGrad>>

\* The gradient eager execution gives slot j of callable i.
EagerGrad(i, j) == Grad(i, j, Activation(i, live[i][1], live[i][2]), lastGrad[i])

\* The gradient of output j of callable i: of the first, what the callable after
\* it returned for its first argument.
OutGrad(i, j, next) == IF i < N /\ j = 1 THEN next ELSE Fresh("gout", i, j)

\* The backward call of callable at: Graphed.backward copies the gradients,
\* replays and returns the static gradients.
Backward ==
    LET c == conf[at]
        chained == at < N /\ 1 \in GradSlots(conf[at + 1])
        next == IF ~chained THEN <<>> ELSE IF at + 1 \in eager THEN EagerGrad(at + 1, 1)
                ELSE mem[plan[at + 1].gins[1]]
        want == IF ~chained THEN <<>> ELSE EagerGrad(at + 1, 1)
        g == [j \in DOMAIN c.outs |-> IF c.outs[j] THEN OutGrad(at, j, next) ELSE <<>>]
        temped == IF plan[at].btmp = None THEN mem
                  ELSE [mem EXCEPT ![plan[at].btmp] = <<"tmp", at>>]
    IN /\ phase = "loop"
       /\ iter.dir = "bwd"
       /\ lastGrad' = [lastGrad EXCEPT ![at] =
                          [j \in DOMAIN c.outs |-> IF c.outs[j] THEN OutGrad(at, j, want) ELSE <<>>]]
       /\ IF at \in eager \/ ~NeedsGrad(c) THEN UNCHANGED <<gradOut, mem>>
          ELSE /\ gradOut' = [gradOut EXCEPT ![at] = g]
               /\ mem' = [cell \in Cells |->
                     IF \E j \in DOMAIN plan[at].gins : plan[at].gins[j] = cell
                     THEN Grad(at, CHOOSE j \in DOMAIN plan[at].gins : plan[at].gins[j] = cell,
                               temped[plan[at].saved], g)
                     ELSE temped[cell]]
       /\ at' = IF at = 1 THEN 1 ELSE at - 1
       /\ iter' = IF at = 1 THEN [iter EXCEPT !.dir = "step"] ELSE iter
       /\ UNCHANGED <<conf, phase, plan, free, inputs, params, training, live, eager>>

\* The optimizer updates the parameters in place; the program may change the mode.
OptimizerStep(mode) ==
    /\ phase = "loop"
    /\ iter.dir = "step"
    /\ params' = [i \in Callables |-> [j \in DOMAIN params[i] |-> <<"param", i, j, iter.n + 1>>]]
    /\ training' = mode
    /\ iter' = [n |-> iter.n + 1, dir |-> "fwd"]
    /\ at' = 1
    /\ UNCHANGED <<conf, phase, plan, free, mem, inputs, gradOut, live, lastGrad, eager>>

Next ==
    \/ CaptureForward
    \/ CaptureBackward
    \/ Forward
    \/ Backward
    \/ \E mode \in BOOLEAN : OptimizerStep(mode)

Spec == Init /\ [][Next]_vars

-----------------------------------------------------------------------------
\* When the backward passes of an iteration are done, every output and every
\* gradient a graphed callable has returned, which are views of static buffers,
\* is what the original callable would have returned, and an input that needs no
\* gradient got None (make_graphed_callables, Graphed.forward, Graphed.backward).
GraphedLikeEager ==
    iter.dir = "step" =>
        \A i \in Callables \ eager :
            /\ \A j \in DOMAIN conf[i].outs :
                   mem[plan[i].outs[j]] = Output(i, j, live[i][1], live[i][2])
            /\ \A j \in DOMAIN Surface(conf[i]) :
                   IF j \in GradSlots(conf[i])
                   THEN /\ plan[i].gins[j] # None
                        /\ mem[plan[i].gins[j]] = EagerGrad(i, j)
                   ELSE plan[i].gins[j] = None

=============================================================================
