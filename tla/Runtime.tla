------------------------------ MODULE Runtime ------------------------------
(***************************************************************************)
(* The Python front end of the device runtime (torch_npu/npu): lazy        *)
(* initialisation with its queue of deferred calls, the random generators, *)
(* device and stream contexts, the device count and the deterministic      *)
(* level.  Several Python threads of one process call it; a fork leaves a  *)
(* child with one of them.                                                 *)
(*                                                                         *)
(* A program is the set of families of calls it makes (Programs), so that  *)
(* one run can go deep into each family.                                   *)
(***************************************************************************)
EXTENDS Integers, SequencesExt, FiniteSetsExt

CONSTANTS
    Threads,        \* Python threads
    Devices,        \* the devices of the machine, 0 .. n-1
    StreamIds,      \* stream 0 is every device's default stream
    Seeds,          \* seeds a program passes, and those seed() may draw
    Programs,       \* sets of families of {"rng", "ctx", "count", "det", "fork"}
    Texts,          \* values of ASCEND_RT_VISIBLE_DEVICES, see Comma
    MaxCalls,       \* bound: calls of the program
    MaxNest,        \* bound: contexts a thread is inside of
    ForkAnywhere    \* a fork may hit a thread inside _lazy_init

VARIABLES
    uses,           \* the families of calls this program makes
    init,           \* [done, badFork, holder, queue, at]: npu/__init__'s globals
    pend,           \* [Threads -> <<>> or <<call>>]: found uninitialised, not yet deferred
    gen,            \* default_generators: [Devices -> <<seed, offset>>]
    asked,          \* ghost: what the calls, in order, ask of gen (but see LazyCallDefers)
    saved,          \* the state get_rng_state_all returned, or <<>>
    dev,            \* [Threads -> [local, target]]: NPUFunctions.cpp's thread locals
    active,         \* devices whose primary context is active
    strm,           \* [Threads -> [Devices -> StreamIds]]: the current streams
    ctx,            \* [Threads -> Seq(frame)]: contexts entered and not left
    count,          \* [text, cached, answer, from]: the device count, -1 for None
    det,            \* [flag, level, answer]: torch's flag, the level and its getter
    alive,          \* threads of this process (a fork keeps one)
    calls           \* calls made so far

vars == <<uses, init, pend, gen, asked, saved, dev, active, strm, ctx, count, det, alive, calls>>

None == -1
Nobody == "nobody"

-----------------------------------------------------------------------------
(* The device a thread is on (csrc/core/npu/NPUFunctions.cpp).             *)

\* GetDeviceWithoutSet: -1 while the thread has never selected one.
GetDeviceWithoutSet(t) ==
    IF dev[t].target >= 0 THEN dev[t].target ELSE dev[t].local

\* GetDevice: a thread that has selected nothing is on device 0.
GetDevice(t) == Max({0, GetDeviceWithoutSet(t)})

\* SetDevice selects the device and activates its context.
SetDevice(d) == [local |-> d, target |-> None]

\* MaybeExchangeDevice: a device without an active context is only noted as the
\* target.
MaybeExchangeDevice(t, d, act) ==
    IF d = GetDeviceWithoutSet(t) THEN dev[t]
    ELSE IF d \in act THEN SetDevice(d) ELSE [dev[t] EXCEPT !.target = d]

-----------------------------------------------------------------------------
(* Random generators (npu/random.py).  A deferred call is a record: what   *)
(* to do, the device index it names (None: the current one) and a value.   *)

ManualSeed(s) == [op |-> "manual_seed", idx |-> None, val |-> <<s, 0>>]
ManualSeedAll(s) == [op |-> "manual_seed_all", idx |-> None, val |-> <<s, 0>>]
SetRngState(v, d) == [op |-> "set_rng_state", idx |-> d, val |-> v]
SetOffset(o, d) == [op |-> "set_offset", idx |-> d, val |-> <<0, o>>]

\* seed and seed_all draw a seed; the same one goes to every device.
SeedNow(s) == [op |-> "seed", idx |-> None, val |-> <<s, 0>>]
SeedAll(s) == [op |-> "seed_all", idx |-> None, val |-> <<s, 0>>]

\* default_generators[idx] raises for an index beyond the devices.
Raises(c) == c.idx # None /\ c.idx \notin Devices

\* One callback run by a thread on device cur.
Applied(c, g, cur) ==
    LET d == IF c.idx = None THEN cur ELSE c.idx IN
    CASE Raises(c) -> g
      [] c.op \in {"manual_seed_all", "seed_all"} -> [e \in Devices |-> c.val]
      [] c.op = "set_offset" -> [g EXCEPT ![d] = <<g[d][1], c.val[2]>>]
      [] OTHER -> [g EXCEPT ![d] = c.val]

RngCalls ==
    {ManualSeed(s) : s \in Seeds} \cup {ManualSeedAll(s) : s \in Seeds}
      \cup {SeedNow(s) : s \in Seeds} \cup {SeedAll(s) : s \in Seeds}
      \cup {SetOffset(1, d) : d \in Devices \cup {None}}

-----------------------------------------------------------------------------
(* Initialisation.                                                         *)

Init ==
    /\ uses \in Programs
    /\ init = [done |-> FALSE, badFork |-> FALSE, holder |-> Nobody, queue |-> <<>>, at |-> 0]
    /\ pend = [t \in Threads |-> <<>>]
    /\ gen = [d \in Devices |-> <<0, 0>>]
    /\ asked = gen
    /\ saved = <<>>
    /\ dev = [t \in Threads |-> [local |-> None, target |-> None]]
    /\ active = {}
    /\ strm = [t \in Threads |-> [d \in Devices |-> 0]]
    /\ ctx = [t \in Threads |-> <<>>]
    /\ count = [text |-> <<>>, cached |-> None, answer |-> None, from |-> <<>>]
    /\ det = [flag |-> FALSE, level |-> 0, answer |-> None]
    /\ alive = Threads
    /\ calls = 0

\* The program makes one more call of a family, from a thread that is free.
Calls(t, family) ==
    /\ family \in uses
    /\ t \in alive
    /\ init.holder # t
    /\ pend[t] = <<>>
    /\ calls < MaxCalls
    /\ calls' = calls + 1

rngVars == <<gen, asked, saved>>
ctxVars == <<dev, active, strm, ctx>>

\* _lazy_init takes the lock, refuses a forked child and runs _npu_init, which
\* selects device 0 for this thread unless devices are set lazily.
LazyInitBegins(t, lazily) ==
    /\ t \in alive
    /\ pend[t] = <<>>
    /\ ~init.done
    /\ init.holder = Nobody
    /\ ~init.badFork
    /\ init' = [init EXCEPT !.holder = t, !.at = 1]
    /\ dev' = IF lazily THEN dev ELSE [dev EXCEPT ![t] = SetDevice(0)]
    /\ active' = IF lazily THEN active ELSE active \cup {0}
    /\ UNCHANGED <<uses, pend, rngVars, strm, ctx, count, det, alive, calls>>

\* The replay loop runs the next deferred call; the list may still grow.
LazyInitReplays(t) ==
    /\ t \in alive
    /\ init.holder = t
    /\ init.at \in 1 .. Len(init.queue)
    /\ ~Raises(init.queue[init.at])
    /\ gen' = Applied(init.queue[init.at], gen, GetDevice(t))
    /\ init' = [init EXCEPT !.at = @ + 1]
    /\ UNCHANGED <<uses, pend, asked, saved, ctxVars, count, det, alive, calls>>

\* A deferred call that raises ends the initialisation: the lock is released,
\* the queue is kept, and the next attempt replays it from the start.
LazyInitFails(t) ==
    /\ t \in alive
    /\ init.holder = t
    /\ init.at \in 1 .. Len(init.queue)
    /\ Raises(init.queue[init.at])
    /\ init' = [init EXCEPT !.holder = Nobody, !.at = 0]
    /\ UNCHANGED <<uses, pend, rngVars, ctxVars, count, det, alive, calls>>

\* The loop has seen the end of the list.
LazyInitEnds(t) ==
    /\ t \in alive
    /\ init.holder = t
    /\ init.at > Len(init.queue)
    /\ init' = [init EXCEPT !.at = 0]
    /\ UNCHANGED <<uses, pend, rngVars, ctxVars, count, det, alive, calls>>

\* _initialized becomes true and the lock is released.
LazyInitDone(t) ==
    /\ t \in alive
    /\ init.holder = t
    /\ init.at = 0
    /\ init' = [init EXCEPT !.done = TRUE, !.holder = Nobody]
    /\ UNCHANGED <<uses, pend, rngVars, ctxVars, count, det, alive, calls>>

\* Once the loop has seen the end of the list nobody will replay a call.
ReplayOver == init.done \/ (init.holder # Nobody /\ init.at = 0)

\* _lazy_call: run the callback, or find that it has to be deferred.
LazyCall(t, c) ==
    /\ Calls(t, "rng")
    /\ IF init.done
       THEN /\ gen' = Applied(c, gen, GetDevice(t))
            /\ asked' = Applied(c, asked, GetDevice(t))
            /\ UNCHANGED pend
       ELSE pend' = [pend EXCEPT ![t] = <<c>>] /\ UNCHANGED <<gen, asked>>
    /\ UNCHANGED <<uses, init, saved, ctxVars, count, det, alive>>

\* Then, without a lock, it is appended, initialised or not by now; asked leaves
\* out a call that comes too late to be replayed.
LazyCallDefers(t) ==
    /\ t \in alive
    /\ pend[t] # <<>>
    /\ init' = [init EXCEPT !.queue = Append(@, pend[t][1])]
    /\ pend' = [pend EXCEPT ![t] = <<>>]
    /\ asked' = IF ReplayOver THEN asked ELSE Applied(pend[t][1], asked, GetDevice(t))
    /\ UNCHANGED <<uses, gen, saved, ctxVars, count, det, alive, calls>>

\* set_rng_state with a device the machine does not have.
SetRngStateBeyond(t) ==
    LazyCall(t, SetRngState(<<0, 0>>, Cardinality(Devices)))

\* get_rng_state_all initialises and copies every state.
GetRngStateAll(t) ==
    /\ Calls(t, "rng")
    /\ init.done
    /\ saved' = <<gen>>
    /\ UNCHANGED <<uses, init, pend, gen, asked, ctxVars, count, det, alive>>

\* set_rng_state_all sets one device after the other.
SetRngStateAll(t) ==
    /\ Calls(t, "rng")
    /\ init.done
    /\ saved # <<>>
    /\ gen' = [d \in Devices |-> Applied(SetRngState(saved[1][d], d), gen, 0)[d]]
    /\ asked' = saved[1]
    /\ UNCHANGED <<uses, init, pend, saved, ctxVars, count, det, alive>>

\* A fork: the child has the forking thread only.  multiprocessing runs _after_fork,
\* which marks a child of an initialised parent; os.fork does not.
Fork(t, multiprocessing) ==
    /\ Calls(t, "fork")
    /\ Cardinality(alive) > 1
    /\ init.holder # Nobody => ForkAnywhere
    /\ alive' = {t}
    /\ init' = IF multiprocessing /\ init.done THEN [init EXCEPT !.done = FALSE, !.badFork = TRUE]
               ELSE init
    /\ UNCHANGED <<uses, pend, rngVars, ctxVars, count, det>>

-----------------------------------------------------------------------------
(* Device and stream contexts (npu/utils.py).  A frame keeps what the      *)
(* object keeps, and as a ghost what the thread was on when it was         *)
(* entered; clean says that the body has not called set_device or          *)
(* set_stream itself.                                                      *)

View(t) == <<GetDevice(t), strm[t]>>

\* The frames of a thread after a set_device or set_stream of its body.
Touched(t) == [i \in DOMAIN ctx[t] |-> [ctx[t][i] EXCEPT !.clean = FALSE]]

Ready(t) == Calls(t, "ctx") /\ init.done

set_device(t, d) ==
    /\ Ready(t)
    /\ dev' = [dev EXCEPT ![t] = SetDevice(d)]
    /\ active' = active \cup {d}
    /\ ctx' = [ctx EXCEPT ![t] = Touched(t)]
    /\ UNCHANGED <<uses, init, pend, rngVars, strm, count, det, alive>>

\* device.__enter__ keeps the device the thread was on.
DeviceEnter(t, d) ==
    /\ Ready(t)
    /\ Len(ctx[t]) < MaxNest
    /\ ctx' = [ctx EXCEPT ![t] = Append(@, [kind |-> "device", idx |-> d,
                  prev |-> GetDeviceWithoutSet(t), src |-> <<>>, dst |-> <<>>,
                  view |-> View(t), clean |-> TRUE])]
    /\ IF GetDeviceWithoutSet(t) # d
       THEN dev' = [dev EXCEPT ![t] = SetDevice(d)] /\ active' = active \cup {d}
       ELSE UNCHANGED <<dev, active>>
    /\ UNCHANGED <<uses, init, pend, rngVars, strm, count, det, alive>>

Left(t) == [ctx EXCEPT ![t] = Front(@)]

\* device.__exit__ goes back to it, to device 0 if there was none.
DeviceExit(t) ==
    /\ t \in alive
    /\ ctx[t] # <<>>
    /\ Last(ctx[t]).kind = "device"
    /\ dev' = [dev EXCEPT ![t] = MaybeExchangeDevice(t, Max({0, Last(ctx[t]).prev}), active)]
    /\ ctx' = Left(t)
    /\ UNCHANGED <<uses, init, pend, rngVars, active, strm, count, det, alive, calls>>

\* set_stream of a stream <<device, id>> selects its device too.
set_stream(t, s) ==
    /\ Ready(t)
    /\ dev' = IF GetDevice(t) # s[1] THEN [dev EXCEPT ![t] = SetDevice(s[1])] ELSE dev
    /\ active' = active \cup {s[1]}
    /\ strm' = [strm EXCEPT ![t][s[1]] = s[2]]
    /\ ctx' = [ctx EXCEPT ![t] = Touched(t)]
    /\ UNCHANGED <<uses, init, pend, rngVars, count, det, alive>>

\* StreamContext.__enter__ keeps the current stream, and that of the stream's
\* device when it is another one.
StreamEnter(t, s) ==
    LET cur == GetDevice(t)
        src == <<cur, strm[t][cur]>>
        dst == IF cur # s[1] THEN <<s[1], strm[t][s[1]]>> ELSE <<>>
    IN /\ Ready(t)
       /\ Len(ctx[t]) < MaxNest
       /\ ctx' = [ctx EXCEPT ![t] = Append(@, [kind |-> "stream", idx |-> s[1],
                     prev |-> None, src |-> src, dst |-> dst,
                     view |-> View(t), clean |-> TRUE])]
       /\ dev' = IF cur # s[1] THEN [dev EXCEPT ![t] = SetDevice(s[1])] ELSE dev
       /\ active' = active \cup {s[1]}
       /\ strm' = [strm EXCEPT ![t][s[1]] = s[2]]
       /\ UNCHANGED <<uses, init, pend, rngVars, count, det, alive>>

\* A mutant: only the stream that was current is set again.
StreamExitSrcOnly(t) ==
    /\ t \in alive
    /\ ctx[t] # <<>>
    /\ Last(ctx[t]).kind = "stream"
    /\ LET f == Last(ctx[t]) IN
          /\ strm' = [strm EXCEPT ![t][f.src[1]] = f.src[2]]
          /\ dev' = [dev EXCEPT ![t] = SetDevice(f.src[1])]
          /\ active' = active \cup {f.src[1]}
    /\ ctx' = Left(t)
    /\ UNCHANGED <<uses, init, pend, rngVars, count, det, alive, calls>>

\* StreamContext.__exit__: the stream of the other device first, then the one
\* that was current, whose device is selected again.
StreamExit(t) ==
    /\ t \in alive
    /\ ctx[t] # <<>>
    /\ Last(ctx[t]).kind = "stream"
    /\ LET f == Last(ctx[t])
           s1 == IF f.dst = <<>> THEN strm[t]
                 ELSE [strm[t] EXCEPT ![f.dst[1]] = f.dst[2]]
       IN /\ strm' = [strm EXCEPT ![t] = [s1 EXCEPT ![f.src[1]] = f.src[2]]]
          /\ dev' = IF f.dst = <<>> /\ GetDevice(t) = f.src[1] THEN dev
                    ELSE [dev EXCEPT ![t] = SetDevice(f.src[1])]
          /\ active' = active \cup {f.src[1]}
    /\ ctx' = Left(t)
    /\ UNCHANGED <<uses, init, pend, rngVars, count, det, alive, calls>>

-----------------------------------------------------------------------------
(* The device count (npu/__init__.py).  A text is a sequence of characters: *)
(* a digit, Comma, or anything else (Other).                               *)

Comma == 10
Other == 11

\* _parse_visible_devices: the characters before the first one that is neither a
\* digit nor a comma, split at the commas, up to the first empty element.
Readable(text) ==
    SubSeq(text, 1, Min({i \in 1 .. Len(text) : text[i] = Other} \cup {Len(text) + 1}) - 1)

Digits(s) == FoldLeft(LAMBDA n, c : 10 * n + c, 0, s)

Element(s, ends, e) == SubSeq(s, Max({i \in ends \cup {0} : i < e}) + 1, e - 1)
Elements(s, ends) ==
    [k \in 1 .. Cardinality(ends) |-> Element(s, ends, SetToSortSeq(ends, <)[k])]
UpToEmpty(es) == SubSeq(es, 1, Min({k \in 1 .. Len(es) : es[k] = <<>>} \cup {Len(es) + 1}) - 1)
Split(s) == UpToEmpty(Elements(s, {i \in 1 .. Len(s) + 1 : i = Len(s) + 1 \/ s[i] = Comma}))

Numbers(es) == [k \in DOMAIN es |-> Digits(es[k])]
_parse_visible_devices(text) == Numbers(Split(Readable(text)))

\* _device_count_ascend_hal: the visible devices up to the first that the machine
\* does not have; a list that does not ascend counts as none.
CountUpTo(v, stop) == IF stop > 1 /\ stop <= Len(v) /\ v[stop] <= v[stop - 1] THEN 0 ELSE stop - 1
CountVisible(v) ==
    CountUpTo(v, Min({i \in 1 .. Len(v) : \/ i > 1 /\ v[i] <= v[i - 1]
                                         \/ v[i] >= Cardinality(Devices)} \cup {Len(v) + 1}))
_device_count_ascend_hal(text) == CountVisible(_parse_visible_devices(text))

SetVisible(t, text) ==
    /\ Calls(t, "count")
    /\ count' = [count EXCEPT !.text = text]
    /\ UNCHANGED <<uses, init, pend, rngVars, ctxVars, det, alive>>

\* device_count caches the count once the runtime is initialised.
device_count(t) ==
    /\ Calls(t, "count")
    /\ LET r == IF count.cached # None THEN count.cached
                ELSE _device_count_ascend_hal(count.text)
       IN count' = [count EXCEPT !.answer = r,
                                 !.from = IF count.cached # None THEN @ ELSE count.text,
                                 !.cached = IF init.done THEN r ELSE @]
    /\ UNCHANGED <<uses, init, pend, rngVars, ctxVars, det, alive>>

-----------------------------------------------------------------------------
(* The deterministic level and torch's own flag.                           *)

\* set_deterministic_level makes torch's flag follow the level.
set_deterministic_level(t, l) ==
    /\ Calls(t, "det")
    /\ det' = [det EXCEPT !.flag = l >= 1, !.level = l]
    /\ UNCHANGED <<uses, init, pend, rngVars, ctxVars, count, alive>>

use_deterministic_algorithms(t, b) ==
    /\ Calls(t, "det")
    /\ det' = [det EXCEPT !.flag = b]
    /\ UNCHANGED <<uses, init, pend, rngVars, ctxVars, count, alive>>

\* _get_deterministic_level makes the level follow the flag.
_get_deterministic_level(t) ==
    /\ Calls(t, "det")
    /\ LET l == IF det.level = 0 /\ det.flag THEN 1
                ELSE IF det.level >= 1 /\ ~det.flag THEN 0 ELSE det.level
       IN det' = [det EXCEPT !.level = l, !.answer = l]
    /\ UNCHANGED <<uses, init, pend, rngVars, ctxVars, count, alive>>

-----------------------------------------------------------------------------
Streams == Devices \X StreamIds

Next ==
    \E t \in Threads :
        \/ \E lazily \in BOOLEAN : LazyInitBegins(t, lazily)
        \/ LazyInitReplays(t) \/ LazyInitFails(t)
        \/ LazyInitEnds(t) \/ LazyInitDone(t)
        \/ \E c \in RngCalls : LazyCall(t, c)
        \/ LazyCallDefers(t)
        \/ SetRngStateBeyond(t) \/ GetRngStateAll(t) \/ SetRngStateAll(t)
        \/ \E multiprocessing \in BOOLEAN : Fork(t, multiprocessing)
        \/ \E d \in Devices : set_device(t, d) \/ DeviceEnter(t, d)
        \/ DeviceExit(t)
        \/ \E s \in Streams : set_stream(t, s) \/ StreamEnter(t, s)
        \/ StreamExit(t)
        \/ \E x \in Texts : SetVisible(t, x)
        \/ device_count(t)
        \/ \E l \in 0 .. 2 : set_deterministic_level(t, l)
        \/ \E b \in BOOLEAN : use_deterministic_algorithms(t, b)
        \/ _get_deterministic_level(t)

Spec == Init /\ [][Next]_vars

-----------------------------------------------------------------------------
(* Properties.                                                             *)

\* Once the runtime is initialised every generator is in the state the calls, in
\* the order the program made them, ask for: whichever thread initialises, no call
\* deferred by _lazy_call is overtaken, and none is lost but one that its thread
\* appended after the replay loop had seen the end of the list.
SeedsHonoured == init.done => gen = asked

\* Nobody waits for a lock that will never be released: the thread inside
\* _lazy_init is one of the process.  A child that multiprocessing forked from an
\* initialised process never counts as initialised (_after_fork).
InitSound ==
    /\ init.holder # Nobody => init.holder \in alive
    /\ init.badFork => ~init.done /\ init.holder = Nobody

\* Leaving a device or stream context puts the thread back on the device and
\* every device back on the stream it was on when the context was entered, unless
\* the body itself called set_device or set_stream (device.__exit__,
\* StreamContext.__exit__).
\* And a reading of the deterministic level that changes agrees with torch's own
\* flag (_get_deterministic_level).
LeaveRestores ==
    \A t \in Threads :
        /\ Len(ctx'[t]) < Len(ctx[t])
        /\ Last(ctx[t]).clean
        => View(t)' = Last(ctx[t]).view

LevelFollowsFlag ==
    det'.answer # det.answer => (det'.answer >= 1 <=> det'.flag)

\* The devices counted are devices of the machine, in ascending order, and the
\* first visible id that is not counted is one the machine does not have.  Once
\* counted with the runtime initialised, the answer is the cached one whatever
\* becomes of ASCEND_RT_VISIBLE_DEVICES (device_count, _device_count_ascend_hal).
CountExact ==
    /\ count.answer > 0 =>
        LET v == _parse_visible_devices(count.from) IN
        /\ \A i \in 1 .. count.answer : /\ v[i] \in Devices
                                        /\ i > 1 => v[i - 1] < v[i]
        /\ count.answer < Len(v) => v[count.answer + 1] \notin Devices
    /\ count.cached # None => count.answer = count.cached

=============================================================================
