----------------------------- MODULE GradScaler -----------------------------
(***************************************************************************)
(* Loss scaling over the ranks of a job: npu/amp/grad_scaler.py and        *)
(* npu/amp/sharded_grad_scaler.py.  Every rank runs the same program (a    *)
(* sequence of calls, produced as the fastest rank needs it and kept until *)
(* the slowest has made them) on its own scaler.  A value of the scale is  *)
(* its exponent.  The variants are the ways gradients and their overflow   *)
(* checks meet the ranks:                                                  *)
(*   flag    DDP on a device without inf/nan: a sticky status flag         *)
(*   infnan  DDP on a device with inf/nan: reduced gradients carry the inf *)
(*   custom  as infnan, with optimizers that handle the scale themselves   *)
(*   fsdp    sharded gradients, on the device                              *)
(*   fsdpcpu sharded gradients, offloaded to the host                      *)
(***************************************************************************)
EXTENDS Integers, Sequences, FiniteSets, FiniteSetsExt

CONSTANTS Ranks, Opts, Variants, Dynamics, NewScales,
          InitScale, MaxScale, GrowthInterval,
          MaxIters, MaxRestarts,               \* bounds
          MaxAccumulate  \* bounds the backward passes of the first iteration, each later one has one less

VARIABLES variant,   \* which scaler the job uses
          dynamic,   \* the constructor's argument
          sc,        \* [rank -> the scaler object]
          flag,      \* [rank -> the device's float status]
          grads,     \* [rank -> [optimizer -> its gradients]]
          prog, at,  \* calls still needed by some rank; how many each has made
          iter,      \* [rank -> iterations finished]
          did,       \* [rank -> [optimizer -> what step() did this iteration]]
          saved,     \* a state_dict on disk
          restarts

vars == <<variant, dynamic, sc, flag, grads, prog, at, iter, did, saved, restarts>>

Inf == MaxScale + 1
NotChecked == -1
Sharded == variant \in {"fsdp", "fsdpcpu"}
Collective == Sharded \/ (variant = "flag" /\ dynamic)

RefreshPerOptimizerState ==
    [o \in Opts |-> [stage |-> "READY", found |-> NotChecked]]

NewScaler(scale, tracker) ==
    [ready |-> FALSE, scale |-> scale, tracker |-> tracker, ovf |-> FALSE,
     cleared |-> FALSE, opt |-> RefreshPerOptimizerState, wait |-> "no",
     live |-> TRUE]

\* Whether the gradients of an optimizer overflowed, how many backward passes they
\* accumulate, and the power of the scale that they are multiplied by.
NoGrads == [o \in Opts |-> [bad |-> FALSE, passes |-> 0, power |-> 0]]
Undecided == [o \in Opts |-> "none"]

Init ==
    /\ variant \in Variants
    /\ dynamic \in IF Sharded THEN {TRUE} ELSE Dynamics
    /\ sc = [r \in Ranks |-> NewScaler(InitScale, 0)]
    /\ flag = [r \in Ranks |-> FALSE]
    /\ grads = [r \in Ranks |-> NoGrads]
    /\ prog = << >>
    /\ at = [r \in Ranks |-> 0]
    /\ iter = [r \in Ranks |-> 0]
    /\ did = [r \in Ranks |-> Undecided]
    /\ saved = [scale |-> NotChecked, tracker |-> 0]
    /\ restarts = 0

-----------------------------------------------------------------------------
(***************************************************************************)
(* The program.                                                            *)
(***************************************************************************)
\* Rank r makes the call c: the next one of the program, or one it adds to it.
Call(r, c) ==
    /\ sc[r].live /\ sc[r].wait = "no" /\ sc[r].ready /\ iter[r] < MaxIters
    /\ LET longer == IF at[r] < Len(prog) THEN prog ELSE Append(prog, c)
           now    == [at EXCEPT ![r] = @ + 1]
           past   == Min({now[q] : q \in Ranks})
       IN /\ longer[at[r] + 1] = c
          /\ prog' = SubSeq(longer, past + 1, Len(longer))
          /\ at' = [q \in Ranks |-> now[q] - past]

-----------------------------------------------------------------------------
(***************************************************************************)
(* scale() and the backward pass of the scaled loss.                       *)
(***************************************************************************)
ScaleOutputs(r) ==
    [sc[r] EXCEPT !.ready = TRUE, !.cleared = @ \/ dynamic]

ShardedScaleOutputs(r) == [sc[r] EXCEPT !.ready = TRUE]

ClearsFlag(r) == variant = "flag" /\ dynamic /\ ~sc[r].cleared

\* The gradients arrive on all the ranks together: DDP reduces them, FSDP
\* scatters them.  Reduced gradients of a device with inf/nan agree on the ranks.
Backward ==
    /\ prog = << >>
    /\ \A r \in Ranks :
           /\ sc[r].live /\ sc[r].wait = "no" /\ iter[r] < MaxIters
           /\ \A o \in Opts :
                sc[r].opt[o].stage = "READY" /\ iter[r] + grads[r][o].passes < MaxAccumulate
    /\ \E bad \in [Ranks -> SUBSET Opts] :
        /\ variant \in {"infnan", "custom"} => \A r, q \in Ranks : bad[r] = bad[q]
        /\ \A r \in Ranks : sc[r].scale = Inf => bad[r] = Opts
        /\ grads' = [r \in Ranks |-> [o \in Opts |->
                        [bad |-> grads[r][o].bad \/ o \in bad[r],
                         passes |-> grads[r][o].passes + 1, power |-> 1]]]
        /\ flag' = [r \in Ranks |-> (flag[r] /\ ~ClearsFlag(r)) \/ bad[r] /= {}]
    /\ sc' = [r \in Ranks |->
                IF Sharded THEN ShardedScaleOutputs(r) ELSE ScaleOutputs(r)]
    /\ UNCHANGED <<variant, dynamic, prog, at, iter, did, saved, restarts>>

-----------------------------------------------------------------------------
(***************************************************************************)
(* unscale_() and step().                                                  *)
(***************************************************************************)
Found(r, o) == IF variant = "flag" THEN flag[r] ELSE grads[r][o].bad

\* _unscale_grads_ up to the point where the ranks meet.
UnscaleGrads(r, o) ==
    LET bad == dynamic /\ Found(r, o)
    IN [sc[r] EXCEPT !.opt[o].found = IF bad THEN 1 ELSE 0, !.ovf = @ \/ bad]

ShardedUnscaleGrads(r, o) ==
    [sc[r] EXCEPT !.opt[o].found = IF Found(r, o) THEN 1 ELSE 0]

CheckGrads(r, o) == IF Sharded THEN ShardedUnscaleGrads(r, o) ELSE UnscaleGrads(r, o)

FinishUnscaleAlone(s, o, sum) ==
    [s EXCEPT !.opt[o].stage = "UNSCALED",
              !.opt[o].found = IF s.ovf THEN @ + 1 ELSE @,
              !.wait = "no"]

\* The rest of unscale_(), given the sum of what the ranks have found.
FinishUnscale(s, o, sum) ==
    LET over == s.ovf \/ (variant = "flag" /\ sum > 0)
    IN [s EXCEPT !.ovf = over,
                 !.opt[o].stage = "UNSCALED",
                 !.opt[o].found = IF over THEN @ + 1 ELSE @,
                 !.wait = "no"]

ShardedFinishUnscale(s, o, sum) ==
    [s EXCEPT !.opt[o].stage = "UNSCALED", !.opt[o].found = sum, !.wait = "no"]

Finish(s, o, sum) ==
    IF Sharded THEN ShardedFinishUnscale(s, o, sum) ELSE FinishUnscale(s, o, sum)

MaybeOptStep(s, o) ==
    IF dynamic /\ (s.opt[o].found > 0 \/ s.ovf) THEN "skip" ELSE "step"

Decide(r, s, o) ==
    /\ did' = [did EXCEPT ![r][o] = MaybeOptStep(s, o)]
    /\ sc' = [sc EXCEPT ![r] = [s EXCEPT !.opt[o].stage = "STEPPED"]]

Raise(r) == sc' = [sc EXCEPT ![r].live = FALSE] /\ UNCHANGED <<grads, did>>

\* The gradients are multiplied by the inverse of the scale.
Divide(r, o) == grads' = [grads EXCEPT ![r][o].power = @ - 1]

Unscale(r, o) ==
    /\ Call(r, <<"unscale", o>>)
    /\ grads[r][o].passes > 0
    /\ \/ sc[r].opt[o].stage /= "READY" /\ Raise(r)
       \/ /\ sc[r].opt[o].stage = "READY"
          /\ Divide(r, o)
          /\ sc' = [sc EXCEPT ![r] =
                       IF Collective THEN [CheckGrads(r, o) EXCEPT !.wait = "unscale"]
                       ELSE Finish(CheckGrads(r, o), o, 0)]
          /\ UNCHANGED did
    /\ UNCHANGED <<variant, dynamic, flag, iter, saved, restarts>>

\* An optimizer with _step_supports_amp_scaling is left to do it all.
ScalesItself == variant = "custom"

StepItself(r, o) ==
    /\ did' = [did EXCEPT ![r][o] = "own"]
    /\ sc' = [sc EXCEPT ![r].opt[o].stage = "STEPPED"]
    /\ UNCHANGED grads

Step(r, o) ==
    /\ Call(r, <<"step", o>>)
    /\ grads[r][o].passes > 0
    /\ \/ sc[r].opt[o].stage = "STEPPED" /\ Raise(r)
       \/ sc[r].opt[o].stage /= "STEPPED" /\ ScalesItself /\ StepItself(r, o)
       \/ sc[r].opt[o].stage = "UNSCALED" /\ ~ScalesItself /\ Decide(r, sc[r], o) /\ UNCHANGED grads
       \/ /\ sc[r].opt[o].stage = "READY" /\ ~ScalesItself
          /\ Divide(r, o)
          /\ LET s == CheckGrads(r, o)
             IN IF Collective
                THEN sc' = [sc EXCEPT ![r] = [s EXCEPT !.wait = "step"]] /\ UNCHANGED did
                ELSE Decide(r, Finish(s, o, 0), o)
    /\ UNCHANGED <<variant, dynamic, flag, iter, saved, restarts>>

\* What a rank contributes to the sum: _dist_overflow_count, or found_inf.
Contribution(r, o) ==
    IF Sharded THEN sc[r].opt[o].found ELSE IF sc[r].ovf THEN 1 ELSE 0

\* What a rank reads of the sum.  The copy of an offloaded found_inf is made
\* while the reduction runs on another stream: it is the sum, or what the rank
\* itself had found.
Readable(r, o, sum) ==
    IF variant = "fsdpcpu" THEN {sum, sc[r].opt[o].found} ELSE {sum}

AllReduce(o) ==
    /\ \A r \in Ranks : sc[r].wait /= "no" /\ sc[r].opt[o].stage = "READY"
                        /\ sc[r].opt[o].found /= NotChecked
    /\ LET sum == MapThenSumSet(LAMBDA r : Contribution(r, o), Ranks)
       IN \E read \in [Ranks -> 0..Cardinality(Ranks)] :
            /\ \A r \in Ranks : read[r] \in Readable(r, o, sum)
            /\ LET done(r) == Finish(sc[r], o, read[r])
               IN /\ sc' = [r \in Ranks |->
                              IF sc[r].wait = "step"
                              THEN [done(r) EXCEPT !.opt[o].stage = "STEPPED"]
                              ELSE done(r)]
                  /\ did' = [r \in Ranks |->
                              IF sc[r].wait = "step"
                              THEN [did[r] EXCEPT ![o] = MaybeOptStep(done(r), o)]
                              ELSE did[r]]
    /\ UNCHANGED <<variant, dynamic, flag, grads, prog, at, iter, saved, restarts>>

-----------------------------------------------------------------------------
(***************************************************************************)
(* update().                                                               *)
(***************************************************************************)
BackOff(s) == [s EXCEPT !.scale = IF @ = Inf THEN Inf ELSE @ - 1, !.tracker = 0]

\* GradScaler does not grow the scale to infinity, _ShardedGradScaler does.
GrowUnbounded(s) ==
    IF s.tracker + 1 = GrowthInterval
    THEN [s EXCEPT !.scale = IF @ >= MaxScale THEN Inf ELSE @ + 1, !.tracker = 0]
    ELSE [s EXCEPT !.tracker = @ + 1]

Grow(s) ==
    IF s.tracker + 1 = GrowthInterval
    THEN [s EXCEPT !.scale = IF @ >= MaxScale THEN @ ELSE @ + 1, !.tracker = 0]
    ELSE [s EXCEPT !.tracker = @ + 1]

NpuUpdateScale(s) == IF s.ovf THEN BackOff(s) ELSE Grow(s)

Checked(s) == {o \in Opts : s.opt[o].found /= NotChecked}

ShardedUpdateScale(s) ==
    IF \E o \in Checked(s) : s.opt[o].found > 0 THEN BackOff(s) ELSE GrowUnbounded(s)

UpdateScale(s) ==
    IF Sharded THEN ShardedUpdateScale(s) ELSE IF dynamic THEN NpuUpdateScale(s) ELSE s

NextIteration(s) ==
    [s EXCEPT !.opt = RefreshPerOptimizerState, !.ovf = FALSE, !.cleared = FALSE]

\* An update to a scale chosen by the program.
SetScale(r, v) ==
    /\ Call(r, <<"update", v>>)
    /\ sc' = [sc EXCEPT ![r] = NextIteration([sc[r] EXCEPT !.scale = v])]
    /\ grads' = [grads EXCEPT ![r] = NoGrads]
    /\ did' = [did EXCEPT ![r] = Undecided]
    /\ iter' = [iter EXCEPT ![r] = @ + 1]
    /\ UNCHANGED <<variant, dynamic, flag, saved, restarts>>

Update(r) ==
    /\ Call(r, <<"update">>)
    /\ \/ Sharded /\ Checked(sc[r]) = {} /\ Raise(r) /\ UNCHANGED iter
       \/ /\ ~(Sharded /\ Checked(sc[r]) = {})
          /\ sc' = [sc EXCEPT ![r] = NextIteration(UpdateScale(sc[r]))]
          /\ grads' = [grads EXCEPT ![r] = NoGrads]
          /\ did' = [did EXCEPT ![r] = Undecided]
          /\ iter' = [iter EXCEPT ![r] = @ + 1]
    /\ UNCHANGED <<variant, dynamic, flag, saved, restarts>>

-----------------------------------------------------------------------------
(***************************************************************************)
(* A checkpoint of one rank, and a job restarted from it.                  *)
(***************************************************************************)
StateDict(s) == [scale |-> s.scale, tracker |-> s.tracker]
LoadStateDict(d) == NewScaler(d.scale, d.tracker)

Saver == CHOOSE r \in Ranks : TRUE

Save ==
    /\ sc[Saver].live /\ sc[Saver].ready /\ sc[Saver].wait = "no"
    /\ restarts < MaxRestarts
    /\ saved' = StateDict(sc[Saver])
    /\ UNCHANGED <<variant, dynamic, sc, flag, grads, prog, at, iter, did, restarts>>

Restart ==
    /\ saved.scale /= NotChecked /\ restarts < MaxRestarts
    /\ restarts' = restarts + 1
    /\ sc' = [r \in Ranks |-> LoadStateDict(saved)]
    /\ flag' = [r \in Ranks |-> FALSE]
    /\ grads' = [r \in Ranks |-> NoGrads]
    /\ prog' = << >> /\ at' = [r \in Ranks |-> 0]
    /\ iter' = [r \in Ranks |-> 0]
    /\ did' = [r \in Ranks |-> Undecided]
    /\ UNCHANGED <<variant, dynamic, saved>>

-----------------------------------------------------------------------------
Next ==
    \/ Backward \/ Save \/ Restart
    \/ \E o \in Opts : AllReduce(o)
    \/ \E r \in Ranks :
           \/ Update(r)
           \/ \E v \in NewScales : SetScale(r, v)
           \/ \E o \in Opts : Unscale(r, o) \/ Step(r, o)

Spec == Init /\ [][Next]_vars

-----------------------------------------------------------------------------
SameIteration(r, q) == iter[r] = iter[q] /\ sc[r].live /\ sc[q].live

\* The replicas stay replicas: ranks in the same iteration have the same scale and
\* growth tracker, and an optimizer that both have stepped was either applied by
\* both or skipped by both, however far one rank runs ahead of another.
RanksAgree ==
    \A r, q \in Ranks : SameIteration(r, q) =>
        /\ sc[r].scale = sc[q].scale /\ sc[r].tracker = sc[q].tracker
        /\ \A o \in Opts : "none" \notin {did[r][o], did[q][o]} => did[r][o] = did[q][o]

\* With dynamic scaling the parameters are only ever updated from gradients that
\* did not overflow in any of the accumulated passes, divided by the scale once;
\* and an update is skipped only when gradients of this iteration overflowed.
StepsIffClean ==
    \A r \in Ranks, o \in Opts :
        /\ did[r][o] = "step" => grads[r][o].power = 0 /\ (dynamic => ~grads[r][o].bad)
        /\ did[r][o] = "skip" =>
               \E q \in Ranks : iter[q] /= iter[r] \/ \E p \in Opts : grads[q][p].bad

\* An update after a skipped step backs the scale off and restarts the count of
\* good iterations; one after only applied steps counts towards growth, which
\* comes after GrowthInterval of them and leaves the scale of GradScaler finite.
UpdateBacksOff ==
    \A r \in Ranks :
      iter'[r] = iter[r] + 1 /\ dynamic /\ sc'[r].scale \notin NewScales =>
         /\ (\E o \in Opts : did[r][o] = "skip") =>
                sc'[r].tracker = 0 /\ sc'[r].scale \in {sc[r].scale - 1, Inf}
         /\ (\A o \in Opts : did[r][o] = "step") =>
                /\ sc'[r].scale >= sc[r].scale
                /\ sc'[r].tracker = (sc[r].tracker + 1) % GrowthInterval
         /\ ~Sharded => sc'[r].scale <= MaxScale
=============================================================================
