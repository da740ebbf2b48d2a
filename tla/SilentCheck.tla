----------------------------- MODULE SilentCheck -----------------------------
(***************************************************************************)
(* Silent fault detection on one rank, class _MatmulSilentCheck of         *)
(* asd/asd.py.  Backward hooks sample gradients into a ring whose values   *)
(* are copied from the device asynchronously, the checking thread takes    *)
(* them out, and abnormal samples are counted into strikes.  Whether a     *)
(* sample is abnormal is decided by its value alone and left open here.    *)
(***************************************************************************)
EXTENDS Integers, Sequences, SequencesExt, FiniteSets

CONSTANTS QueueLen, StrikesNums, Cooldown, StrikesWindow,
          MaxSamples, MaxClock \* bounds

VARIABLES num,        \* strikes_num, as configured
          ring,       \* statistic_cpu_value and name_list, slot by slot
          head, tail,
          copies,     \* copies to the host that the device has not made yet
          hook,       \* the training thread: "run", "put" with a sample just put, or
                      \* "sync" in synchronize()
          lock,       \* whether the checking thread holds the lock
          running,    \* check_thread_running
          hist,       \* history_abnormal_list
          clock,
          sent, got,  \* samples put into and taken out of the ring
          overran,    \* a sample was put on top of another
          strikes     \* the times of the abnormals of every strike

vars == <<num, ring, head, tail, copies, hook, lock, running, hist, clock, sent, got,
          overran, strikes>>

Slots == 0..(QueueLen - 1)
Empty == [value |-> -1, named |-> FALSE]

Init ==
    /\ num \in StrikesNums
    /\ ring = [i \in Slots |-> Empty]
    /\ head = 0 /\ tail = 0
    /\ copies = << >>
    /\ hook = "run" /\ lock = FALSE /\ running = TRUE
    /\ hist = << >> /\ clock = 0
    /\ sent = << >> /\ got = << >> /\ overran = FALSE
    /\ strikes = << >>

-----------------------------------------------------------------------------
(***************************************************************************)
(* The training thread and the device.                                     *)
(***************************************************************************)
\* A sample is numbered by its place in sent.
DetectGrad ==
    /\ hook = "run" /\ ~lock /\ Len(sent) < MaxSamples
    /\ LET v == Len(sent) + 1
       IN /\ copies' = Append(copies, [slot |-> tail, value |-> v])
          /\ sent' = Append(sent, v)
    /\ ring' = [ring EXCEPT ![tail].named = TRUE]
    /\ overran' = (overran \/ ring[tail].named)
    /\ tail' = (tail + 1) % QueueLen
    /\ hook' = "put"
    /\ UNCHANGED <<num, head, lock, running, hist, clock, got, strikes>>

\* With the lock released, a ring that still is full makes the training thread wait
\* for the device.
TestFull ==
    /\ hook = "put"
    /\ hook' = IF tail = head THEN "sync" ELSE "run"
    /\ UNCHANGED <<num, ring, head, tail, copies, lock, running, hist, clock, sent, got,
                   overran, strikes>>

Synchronize ==
    /\ hook = "sync" /\ copies = << >>
    /\ hook' = "run"
    /\ UNCHANGED <<num, ring, head, tail, copies, lock, running, hist, clock, sent, got,
                   overran, strikes>>

CopyLands ==
    /\ copies /= << >>
    /\ ring' = [ring EXCEPT ![Head(copies).slot].value = Head(copies).value]
    /\ copies' = Tail(copies)
    /\ UNCHANGED <<num, head, tail, hook, lock, running, hist, clock, sent, got, overran,
                   strikes>>

-----------------------------------------------------------------------------
(***************************************************************************)
(* Strikes.                                                                *)
(***************************************************************************)
Distance(t, u) == IF t > u THEN t - u ELSE u - t

\* The latest abnormal of h that counts, or 0.
LastCounted(h) == SelectLastInSeq(h, LAMBDA a : a.counted)

\* The places of the abnormals that a strike at time now would be made of, the last
\* counted one first: then those not yet struck, until there are enough of them.
CountingFrom(h, i) ==
    LET older == {j \in 1..(i - 1) : h[j].counted /\ ~h[j].striked}
        \* the number of abnormals collected when the search has come down to j
        have(j) == 1 + Cardinality({k \in older : k >= j})
        stops == {j \in 1..(i - 1) : have(j) = num - 1}
        low == IF stops = {} THEN 1 ELSE CHOOSE j \in stops : \A k \in stops : k <= j
    IN [at |-> {i} \union {k \in older : k >= low},
        last |-> IF i = 1 THEN 1 ELSE low]

Abnormal(t, counted, striked) == [time |-> t, counted |-> counted, striked |-> striked]

\* Abnormals that have left the window are dropped from the front.
DropExpired(h, now) ==
    LET live == {i \in DOMAIN h : Distance(now, h[i].time) <= StrikesWindow}
        first == IF live = {} THEN Len(h) + 1
                 ELSE CHOOSE i \in live : \A j \in live : i <= j
    IN SubSeq(h, first, Len(h))

CooldownOver(h, now) == Distance(now, h[LastCounted(h)].time) >= Cooldown

\* _abnormal_process: the new history, and the strike it completes (or none).
AbnormalProcess(h, now) ==
    IF h = << >> THEN
        [hist |-> <<Abnormal(now, TRUE, num = 1)>>,
         strike |-> IF num = 1 THEN {now} ELSE {}]
    ELSE IF LastCounted(h) = 0 THEN
        [hist |-> DropExpired(Append(h, Abnormal(now, TRUE, FALSE)), now), strike |-> {}]
    ELSE IF ~CooldownOver(h, now) THEN
        [hist |-> DropExpired(Append(h, Abnormal(now, FALSE, FALSE)), now), strike |-> {}]
    ELSE IF num = 1 THEN
        [hist |-> DropExpired(Append(h, Abnormal(now, TRUE, TRUE)), now), strike |-> {now}]
    ELSE LET c == CountingFrom(h, LastCounted(h))
             hit == Cardinality(c.at) = num - 1
                    /\ Distance(now, h[c.last].time) <= StrikesWindow
             marked == [i \in DOMAIN h |->
                          [h[i] EXCEPT !.striked = @ \/ (hit /\ i \in c.at)]]
         IN [hist |-> DropExpired(Append(marked, Abnormal(now, TRUE, hit)), now),
             strike |-> IF hit THEN {h[i].time : i \in c.at} \union {now} ELSE {}]

-----------------------------------------------------------------------------
(***************************************************************************)
(* The checking thread, _async_detect.                                     *)
(***************************************************************************)
SampledNamed == ring[head].named

\* The copy of the oldest sample has landed.
Sampled == ring[head].value /= -1 /\ ring[head].named

\* A turn of the loop that finds nothing changes nothing.
Acquire ==
    /\ running /\ ~lock /\ Sampled
    /\ lock' = TRUE
    /\ UNCHANGED <<num, ring, head, tail, copies, hook, running, hist, clock, sent, got,
                   overran, strikes>>

\* What an abnormal sample makes of the history, and the strike it leads to.
Judge(p) ==
    /\ hist' = p.hist
    /\ strikes' = IF p.strike = {} THEN strikes ELSE Append(strikes, p.strike)

\* One sample, which the value shows to be normal or abnormal.
CheckOne(abnormal) ==
    /\ lock /\ Sampled
    /\ got' = Append(got, ring[head].value)
    /\ ring' = [ring EXCEPT ![head] = Empty]
    /\ head' = (head + 1) % QueueLen
    /\ IF abnormal THEN Judge(AbnormalProcess(hist, clock)) ELSE UNCHANGED <<hist, strikes>>
    /\ UNCHANGED <<num, tail, copies, hook, lock, running, clock, sent, overran>>

Release ==
    /\ lock /\ ~Sampled
    /\ lock' = FALSE
    /\ UNCHANGED <<num, ring, head, tail, copies, hook, running, hist, clock, sent, got,
                   overran, strikes>>

\* _cleanup stops the thread, which first finishes the samples it is at.
Cleanup ==
    /\ running /\ ~lock
    /\ running' = FALSE
    /\ UNCHANGED <<num, ring, head, tail, copies, hook, lock, hist, clock, sent, got,
                   overran, strikes>>

Startup ==
    /\ ~running /\ hook = "run"
    /\ running' = TRUE
    /\ UNCHANGED <<num, ring, head, tail, copies, hook, lock, hist, clock, sent, got,
                   overran, strikes>>

Tick ==
    /\ clock < MaxClock
    /\ clock' = clock + 1
    /\ UNCHANGED <<num, ring, head, tail, copies, hook, lock, running, hist, sent, got,
                   overran, strikes>>

Next ==
    \/ DetectGrad \/ TestFull \/ Synchronize \/ CopyLands
    \/ Acquire \/ (\E abnormal \in BOOLEAN : CheckOne(abnormal)) \/ Release
    \/ Cleanup \/ Startup \/ Tick

Spec == Init /\ [][Next]_vars

-----------------------------------------------------------------------------
\* Until the ring overruns, the samples are checked in the order in which the hooks
\* took them and none is skipped, although each is seen only when its copy lands.
SamplesInOrder == ~overran => IsPrefix(got, sent)

\* A strike is made of num abnormals, no two of them within the cooldown and all of
\* them within the window; no abnormal is used for two strikes, and no num abnormals
\* that could make a strike are left without one.  The search for older abnormals is
\* wrong for num = 2 in both last respects: it collects the last counted abnormal even
\* if it is struck, and compares the window with the abnormal before that one.
StrikesSound ==
    /\ \A i \in DOMAIN strikes :
           /\ Cardinality(strikes[i]) = num
           /\ \A t, u \in strikes[i] :
                  Distance(t, u) <= StrikesWindow /\ (t /= u => Distance(t, u) >= Cooldown)
    /\ num /= 2 =>
           /\ \A i, j \in DOMAIN strikes : i /= j => strikes[i] \intersect strikes[j] = {}
           /\ Cardinality({i \in DOMAIN hist : hist[i].counted /\ ~hist[i].striked}) < num
=============================================================================
