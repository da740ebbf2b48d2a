--------------------------- MODULE ChecksumRounds ---------------------------
(***************************************************************************)
(* The ranks of silent fault detection agree on when to check the products *)
(* of their matrices: _tcp_comm_checksum_state of asd/asd.py.  One thread  *)
(* per rank adds the rank's state to a sum in the TCP store, and two       *)
(* counters in the store serve as the barriers before and after the sum is *)
(* read.  Rank 0 resets all three.                                         *)
(***************************************************************************)
EXTENDS Integers, FiniteSets

CONSTANTS World,   \* world_size
          MaxStops \* bound on _cleanup

Ranks == 0..(World - 1)

VARIABLES store,   \* checksum_state, counter and counter2 in the TCP store
          pc,      \* where each rank's thread is
          running, \* checksum_state_thread_running
          bf16,    \* matmul_with_bf16
          state,   \* checksum_state of the rank itself
          global,  \* global_state, as the rank read it
          checked, \* last_checksum_time is not None
          lap,     \* parity of the round the rank is in
          cleared, \* parity of the last round that rank 0 has reset
          posted,  \* the ranks that added 1 in this round
          skewed,  \* a thread left a barrier early, or rank 0 restarted
          stops

vars == <<store, pc, running, bf16, state, global, checked, lap, cleared, posted, skewed, stops>>

Init ==
    /\ store = [sum |-> 0, counter |-> 0, counter2 |-> 0]
    /\ pc = [r \in Ranks |-> "start"]
    /\ running = [r \in Ranks |-> TRUE]
    /\ bf16 = [r \in Ranks |-> FALSE]
    /\ state = [r \in Ranks |-> 0]
    /\ global = [r \in Ranks |-> 0]
    /\ checked = [r \in Ranks |-> FALSE]
    /\ lap = [r \in Ranks |-> 0] /\ cleared = 0
    /\ posted = {} /\ skewed = FALSE /\ stops = 0

At(r, from, to) == pc[r] = from /\ pc' = [pc EXCEPT ![r] = to]

-----------------------------------------------------------------------------
\* The thread of rank 0 starts with the second barrier open.
Start(r) ==
    /\ At(r, "start", "top")
    /\ store' = IF r = 0 THEN [store EXCEPT !.counter2 = @ + World] ELSE store
    /\ UNCHANGED <<running, bf16, state, global, checked, lap, cleared, posted, skewed, stops>>

\* A rank without bfloat16 parameters takes no part: it sleeps and looks again.
Post(r) ==
    /\ At(r, "top", IF r = 0 THEN "close" ELSE "arrive")
    /\ running[r] /\ bf16[r]
    /\ store' = [store EXCEPT !.sum = @ + state[r]]
    /\ posted' = (IF \A q \in Ranks : lap[q] = lap[r] THEN {} ELSE posted)
                    \union {q \in {r} : state[q] = 1}
    /\ lap' = [lap EXCEPT ![r] = 1 - @]
    /\ UNCHANGED <<running, bf16, state, global, checked, cleared, skewed, stops>>

\* Rank 0 closes the second barrier before it arrives at the first.
CloseBarrier(r) ==
    /\ At(r, "close", "arrive")
    /\ store' = [store EXCEPT !.counter2 = @ - World]
    /\ UNCHANGED <<running, bf16, state, global, checked, lap, cleared, posted, skewed, stops>>

Arrive(r) ==
    /\ At(r, "arrive", "wait")
    /\ store' = [store EXCEPT !.counter = @ + 1]
    /\ UNCHANGED <<running, bf16, state, global, checked, lap, cleared, posted, skewed, stops>>

PassAny(r) ==
    /\ At(r, "wait", "read")
    /\ UNCHANGED <<store, running, bf16, state, global, checked, lap, cleared, posted, skewed,
                   stops>>

\* A thread that is being stopped does not wait for the others.
Pass(r) ==
    /\ At(r, "wait", "read")
    /\ store.counter >= World \/ ~running[r]
    /\ skewed' = (skewed \/ store.counter < World)
    /\ UNCHANGED <<store, running, bf16, state, global, checked, lap, cleared, posted, stops>>

\* The rank reads the sum, and checks its products for a while unless it has done so
\* lately.  Either way its own state is answered.
Read(r) ==
    /\ pc[r] = "read"
    /\ global' = [global EXCEPT ![r] = store.sum]
    /\ \E lately \in IF checked[r] THEN BOOLEAN ELSE {FALSE} :
          LET check == store.sum /= 0 /\ ~lately
          IN /\ pc' = [pc EXCEPT ![r] = IF check THEN "check" ELSE "leave"]
             /\ checked' = [checked EXCEPT ![r] = @ \/ check]
             /\ state' = IF store.sum /= 0 /\ lately THEN [state EXCEPT ![r] = 0] ELSE state
    /\ UNCHANGED <<store, running, bf16, lap, cleared, posted, skewed, stops>>

CheckEnds(r) ==
    /\ At(r, "check", "leave")
    /\ state' = [state EXCEPT ![r] = 0]
    /\ UNCHANGED <<store, running, bf16, global, checked, lap, cleared, posted, skewed, stops>>

Leave(r) ==
    /\ At(r, "leave", "wait2")
    /\ store' = [store EXCEPT !.counter2 = @ + 1]
    /\ UNCHANGED <<running, bf16, state, global, checked, lap, cleared, posted, skewed, stops>>

Pass2(r) ==
    /\ At(r, "wait2", IF r = 0 THEN "clear" ELSE "sleep")
    /\ store.counter2 >= World \/ ~running[r]
    /\ skewed' = (skewed \/ store.counter2 < World)
    /\ UNCHANGED <<store, running, bf16, state, global, checked, lap, cleared, posted, stops>>

\* Rank 0 takes what it read from the sum, then opens the round for the next.
ClearSum(r) ==
    /\ At(r, "clear", "reset")
    /\ store' = [store EXCEPT !.sum = @ - global[r]]
    /\ UNCHANGED <<running, bf16, state, global, checked, lap, cleared, posted, skewed, stops>>

ResetCounter(r) ==
    /\ At(r, "reset", "sleep")
    /\ store' = [store EXCEPT !.counter = @ - World]
    /\ cleared' = lap[r]
    /\ UNCHANGED <<running, bf16, state, global, checked, lap, posted, skewed, stops>>

\* The ten seconds of sleep are taken to outlast what nothing else orders before the
\* next round: rank 0's two resets, and the last look at the second barrier of the
\* ranks that wait there, who look every tenth of a second.
SleepOutlasts(r) ==
    /\ cleared = lap[r]
    /\ \A q \in Ranks : pc[q] /= "wait2"

Wake(r) ==
    /\ At(r, "sleep", IF running[r] THEN "top" ELSE "off")
    /\ SleepOutlasts(r)
    /\ UNCHANGED <<store, running, bf16, state, global, checked, lap, cleared, posted, skewed,
                   stops>>

\* A stopped thread ends at the top of its loop.
Ends(r) ==
    /\ At(r, "top", "off") /\ ~running[r]
    /\ UNCHANGED <<store, running, bf16, state, global, checked, lap, cleared, posted, skewed,
                   stops>>

-----------------------------------------------------------------------------
\* The checking thread reports a strike.
Strike(r) ==
    /\ state[r] = 0
    /\ state' = [state EXCEPT ![r] = 1]
    /\ UNCHANGED <<store, pc, running, bf16, global, checked, lap, cleared, posted, skewed, stops>>

\* The first forward pass finds a bfloat16 parameter.
Forward(r) ==
    /\ ~bf16[r]
    /\ bf16' = [bf16 EXCEPT ![r] = TRUE]
    /\ UNCHANGED <<store, pc, running, state, global, checked, lap, cleared, posted, skewed, stops>>

\* _cleanup, when the object is pickled or copied: the caller waits for the thread.
Cleanup(r) ==
    /\ stops < MaxStops /\ running[r]
    /\ running' = [running EXCEPT ![r] = FALSE]
    /\ stops' = stops + 1
    /\ UNCHANGED <<store, pc, bf16, state, global, checked, lap, cleared, posted, skewed>>

\* The next forward pass starts a new thread.  That of rank 0 adds to the second
\* counter again, and the second barrier stays open from then on.
Startup(r) ==
    /\ At(r, "off", "start")
    /\ running' = [running EXCEPT ![r] = TRUE]
    /\ checked' = [checked EXCEPT ![r] = FALSE]
    /\ skewed' = (skewed \/ r = 0)
    /\ UNCHANGED <<store, bf16, state, global, lap, cleared, posted, stops>>

Thread(r) ==
    \/ Start(r) \/ Post(r) \/ CloseBarrier(r) \/ Arrive(r) \/ Pass(r) \/ Read(r)
    \/ CheckEnds(r) \/ Leave(r) \/ Pass2(r) \/ ClearSum(r) \/ ResetCounter(r)
    \/ Wake(r) \/ Ends(r)

Next ==
    \E r \in Ranks : ~skewed /\ (Thread(r) \/ Strike(r) \/ Forward(r) \/ Cleanup(r) \/ Startup(r))

\* Every rank's thread goes on, and a training loop makes another forward pass.
GoesOn(r) == ~skewed /\ Thread(r)
PassesAgain(r) == ~skewed /\ Startup(r)
Fairness == \A r \in Ranks : WF_vars(GoesOn(r)) /\ WF_vars(PassesAgain(r))

Spec == Init /\ [][Next]_vars /\ Fairness

-----------------------------------------------------------------------------
PastRead(r) == pc[r] \in {"check", "leave", "wait2", "clear", "reset"}

\* In every round each rank reads the sum of what all the ranks added in that round, so
\* that all of them start checking their products or none does: the barriers let no
\* rank read too early, nor add to or reset the sum before all have read it.
RoundsAgree ==
    ~skewed => \A r \in Ranks :
        PastRead(r) => (global[r] = Cardinality(posted)
                        /\ \A q \in Ranks : lap[q] = lap[r])

\* A strike waits for an answer, once every rank has found a bfloat16 parameter (without
\* one such rank the others wait in the first barrier for good); it has one when a rank
\* has read a sum that is not zero, or when the rounds are out of step.
StrikePending == ~skewed /\ (\A q \in Ranks : bf16[q]) /\ \E r \in Ranks : state[r] = 1
StrikeAnswered == skewed \/ \E r \in Ranks : PastRead(r) /\ global[r] # 0

\* There is a rank, and rank 0 is one.
Populated == World \in Nat \ {0}
=============================================================================
