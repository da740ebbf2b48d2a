------------------------ MODULE ChecksumRoundsProofs ------------------------
(***************************************************************************)
(* A proof about ChecksumRounds for any number of ranks: the two counters  *)
(* in the TCP store make rounds of what the threads of the ranks do.       *)
(***************************************************************************)
EXTENDS ChecksumRounds, FiniteSetTheorems, TLAPS

\* The steps that are not pure logic name the SMT solver.
USE Zenon
Labels == {"start", "top", "off", "close", "arrive", "wait", "read", "check", "leave", "wait2",
           "clear", "reset", "sleep"}

\* The rank has added its state in a round that rank 0 has not reset yet.
Inside(r) == lap[r] # cleared

\* It has passed the increment of the first counter, of the second counter.
Arrived == {r \in Ranks : Inside(r) /\ pc[r] \notin {"close", "arrive"}}
Left == {r \in Ranks : Inside(r) /\ pc[r] \in {"wait2", "clear", "reset", "sleep"}}

Types ==
    /\ store \in [sum : Int, counter : Int, counter2 : Int]
    /\ pc \in [Ranks -> Labels] /\ lap \in [Ranks -> {0, 1}] /\ cleared \in {0, 1}
    /\ state \in [Ranks -> {0, 1}] /\ global \in [Ranks -> Int] /\ posted \in SUBSET Ranks

Places ==
    /\ \A r \in Ranks : Inside(r) => pc[r] \notin {"start", "top", "off"}
    /\ \A r \in Ranks : ~Inside(r) => pc[r] \in {"start", "top", "off", "sleep", "wait2"}
    /\ \A r \in Ranks : r # 0 => pc[r] \notin {"close", "clear", "reset"}
    /\ pc[0] = "sleep" => ~Inside(0)
    /\ pc[0] = "wait2" => Inside(0)

\* Once a rank has passed the first barrier of a round all have arrived there, once one
\* has passed the second all have left the first.  A rank that is still at the second
\* barrier of a round that was reset keeps all the others asleep.
Barriers ==
    /\ \A r, q \in Ranks :
          Inside(r) /\ pc[r] \notin {"close", "arrive", "wait"} => q \in Arrived
    /\ \A r, q \in Ranks :
          Inside(r) /\ pc[r] \in {"clear", "reset", "sleep"} => q \in Left
    /\ \A r, q \in Ranks :
          ~Inside(r) /\ pc[r] = "wait2" => ~Inside(q) /\ pc[q] \in {"wait2", "sleep"}

\* The second counter is at World, or more, from the start of rank 0's thread to its
\* decrement in the first round, and from one reset to the decrement of the next round.
Counters ==
    /\ store.counter = Cardinality(Arrived)
    /\ store.counter2 = IF pc[0] = "start" THEN 0
                        ELSE IF ~Inside(0) \/ pc[0] = "close" THEN World
                        ELSE Cardinality(Left)

\* The sum is what was posted in the round, until rank 0 takes it back.
Sums ==
    /\ \A r \in Ranks : Inside(r) => posted \subseteq {q \in Ranks : Inside(q)}
    /\ \A r \in Ranks : Inside(r) /\ pc[0] # "reset" => store.sum = Cardinality(posted)
    /\ (\A r \in Ranks : ~Inside(r)) \/ pc[0] = "reset" => store.sum = 0
    /\ \A r \in Ranks : PastRead(r) => global[r] = Cardinality(posted)

RoundInv == Types /\ Places /\ Barriers /\ Counters /\ Sums
RoundsIInv == skewed \/ RoundInv

(***************************************************************************)
(* Counting ranks.                                                         *)
(***************************************************************************)

\* A set of ranks is all of them when it is as large.
LEMMA Counting ==
    ASSUME Populated
    PROVE  /\ \A S \in SUBSET Ranks : /\ IsFiniteSet(S) /\ Cardinality(S) \in Nat
                                      /\ Cardinality(S) >= World => S = Ranks
           /\ Cardinality(Ranks) = World
           /\ 0 \in Ranks
<1>1. IsFiniteSet(Ranks) /\ Cardinality(Ranks) = World
  BY SMT, FS_Interval DEF Populated, Ranks
<1>2. ASSUME NEW S \in SUBSET Ranks
      PROVE  /\ IsFiniteSet(S) /\ Cardinality(S) \in Nat
             /\ Cardinality(S) >= World => S = Ranks
  <2>1. IsFiniteSet(S) /\ Cardinality(S) <= World /\ (Cardinality(S) = World => S = Ranks)
    BY <1>1, FS_Subset
  <2>2. Cardinality(S) \in Nat
    BY <2>1, FS_CardinalityType
  <2> QED
    BY SMT, <2>1, <2>2 DEF Populated
<1>3. 0 \in Ranks
  BY SMT DEF Populated, Ranks
<1> QED
  BY <1>1, <1>2, <1>3

\* One rank more.
LEMMA OneMore ==
    ASSUME Populated, NEW S \in SUBSET Ranks, NEW r \in Ranks, r \notin S
    PROVE  Cardinality(S \cup {r}) = Cardinality(S) + 1
BY Counting, FS_AddElement

\* What a step of one thread, which posts and resets nothing, does to the two sets.
LEMMA SetsMove ==
    ASSUME Types, NEW r \in Ranks, NEW b \in Labels, pc' = [pc EXCEPT ![r] = b],
           UNCHANGED <<lap, cleared>>
    PROVE  /\ \A q \in Ranks : Inside(q)' = Inside(q)
           /\ Arrived' = IF Inside(r) /\ b \notin {"close", "arrive"} THEN Arrived \cup {r} ELSE Arrived \ {r}
           /\ Left' = IF Inside(r) /\ b \in {"wait2", "clear", "reset", "sleep"} THEN Left \cup {r} ELSE Left \ {r}
<1>1. \A q \in Ranks : pc'[q] = IF q = r THEN b ELSE pc[q]
  BY DEF Types
<1> QED
  BY <1>1 DEF Arrived, Left, Inside

\* The set of those that arrived, or left, is a set of ranks.
LEMMA SetsOfRanks == Arrived \in SUBSET Ranks /\ Left \in SUBSET Ranks
BY DEF Arrived, Left

-----------------------------------------------------------------------------
\* The rounds before the first.
LEMMA RoundsInit == ASSUME Populated PROVE Init => RoundInv
<1> SUFFICES ASSUME Init PROVE RoundInv
  OBVIOUS
<1>1. 0 \in Ranks /\ \A r \in Ranks : pc[r] = "start" /\ lap[r] = 0 /\ ~Inside(r)
  BY Counting DEF Init, Inside
<1>2. Types
  BY SMT DEF Init, Types, Labels
<1>3. Arrived = {} /\ Left = {}
  BY <1>1 DEF Arrived, Left
<1>4. Places /\ Barriers
  BY <1>1 DEF Places, Barriers
<1>5. Counters
  BY <1>1, <1>3, FS_EmptySet DEF Counters, Init
<1>6. Sums
  BY <1>1 DEF Sums, Init, PastRead
<1> QED
  BY <1>2, <1>4, <1>5, <1>6 DEF RoundInv

\* Steps that leave the store, the threads and the rounds alone.
LEMMA RoundsQuiet ==
    ASSUME RoundInv, UNCHANGED <<store, pc, lap, cleared, global, posted>>, state' \in [Ranks -> {0, 1}]
    PROVE  RoundInv'
<1>1. Arrived' = Arrived /\ Left' = Left
  BY DEF Arrived, Left, Inside
<1>2. Types' /\ Places'
  BY DEF RoundInv, Types, Places, Inside
<1>3. Barriers'
  BY <1>1 DEF RoundInv, Barriers, Inside
<1>4. Counters'
  BY <1>1 DEF RoundInv, Counters, Inside
<1>5. Sums'
  BY DEF RoundInv, Sums, Inside, PastRead
<1> QED
  BY <1>2, <1>3, <1>4, <1>5 DEF RoundInv

\* A thread starts, ends, or goes on after its sleep.
LEMMA RoundsOutside ==
    ASSUME Populated, RoundInv, NEW r \in Ranks, NEW b \in {"start", "top", "off"},
           pc' = [pc EXCEPT ![r] = b], ~Inside(r),
           r = 0 => b # "start",
           \A q \in Ranks : ~Inside(q) => pc[q] # "wait2",
           store' = IF pc[0] = "start" /\ r = 0 THEN [store EXCEPT !.counter2 = @ + World] ELSE store,
           UNCHANGED <<lap, cleared, state, global, posted>>
    PROVE  RoundInv'
<1>0. b \in Labels /\ 0 \in Ranks /\ World \in Nat
  BY Counting DEF Labels, Populated
<1>1. \A q \in Ranks : pc'[q] = IF q = r THEN b ELSE pc[q]
  BY DEF RoundInv, Types
<1>2. /\ \A q \in Ranks : Inside(q)' = Inside(q)
      /\ Arrived' = Arrived /\ Left' = Left
  BY <1>0, SetsMove DEF RoundInv, Arrived, Left
<1>3. /\ store' \in [sum : Int, counter : Int, counter2 : Int]
      /\ store'.sum = store.sum /\ store'.counter = store.counter
      /\ store'.counter2 = IF pc[0] = "start" /\ r = 0 THEN store.counter2 + World ELSE store.counter2
  BY SMT, <1>0 DEF RoundInv, Types
<1>4. Types'
  BY <1>0, <1>3 DEF RoundInv, Types
<1>5. Places'
  BY SMT, <1>0, <1>1, <1>2 DEF RoundInv, Places
<1>6. Barriers'
  BY SMT, <1>0, <1>1, <1>2 DEF RoundInv, Barriers
<1>7. Counters'
  BY SMT, <1>0, <1>1, <1>2, <1>3 DEF RoundInv, Counters, Places
<1>8. \A q \in Ranks : PastRead(q)' => PastRead(q)
  BY <1>1 DEF PastRead
<1>9. pc'[0] = "reset" <=> pc[0] = "reset"
  <2>1. CASE r = 0
    BY <1>1, <2>1 DEF RoundInv, Places
  <2>2. CASE r # 0
    BY <1>0, <1>1, <2>2
  <2> QED
    BY <2>1, <2>2
<1>10. Sums'
  BY <1>0, <1>2, <1>3, <1>8, <1>9 DEF RoundInv, Sums
<1> QED
  BY <1>4, <1>5, <1>6, <1>7, <1>10 DEF RoundInv

\* A rank adds its state: nobody is between the read of the sum and the next round.
LEMMA RoundsPost ==
    ASSUME Populated, RoundInv, NEW r \in Ranks, Post(r)
    PROVE  RoundInv'
<1> DEFINE b == IF r = 0 THEN "close" ELSE "arrive"
<1>0. b \in Labels /\ 0 \in Ranks /\ World \in Nat
  BY Counting DEF Labels, Populated
<1>1. /\ pc[r] = "top" /\ pc' = [pc EXCEPT ![r] = b]
      /\ store' = [store EXCEPT !.sum = @ + state[r]]
      /\ posted' = (IF \A q \in Ranks : lap[q] = lap[r] THEN {} ELSE posted)
                    \union {q \in {r} : state[q] = 1}
      /\ lap' = [lap EXCEPT ![r] = 1 - @]
      /\ UNCHANGED <<state, global, cleared>>
  BY DEF Post, At
<1> HIDE DEF b
<1>2. \A q \in Ranks : pc'[q] = IF q = r THEN b ELSE pc[q]
  BY <1>1 DEF RoundInv, Types
<1>3. ~Inside(r)
  BY <1>1 DEF RoundInv, Places
<1>4. /\ lap' \in [Ranks -> {0, 1}]
      /\ \A q \in Ranks : Inside(q)' <=> (q = r \/ Inside(q))
  BY SMT, <1>1, <1>3 DEF RoundInv, Types, Inside
<1>5. \A q \in Ranks : /\ Inside(q) => pc[q] \in {"close", "arrive", "wait"}
                       /\ ~Inside(q) => pc[q] # "wait2"
  BY <1>1, <1>3 DEF RoundInv, Barriers, Arrived, Types, Labels
<1>6. Arrived' = Arrived
  <2>1. \A q \in Ranks : q \in Arrived' <=> q \in Arrived
    BY <1>2, <1>3, <1>4 DEF Arrived, b
  <2> QED
    BY <2>1, SetsOfRanks DEF Arrived
<1>7. Left = {} /\ Left' = {}
  BY <1>2, <1>4, <1>5 DEF Left, b
<1>8. /\ store' \in [sum : Int, counter : Int, counter2 : Int]
      /\ store'.sum = store.sum + state[r] /\ store'.counter = store.counter
      /\ store'.counter2 = store.counter2 /\ state[r] \in {0, 1}
  BY SMT, <1>1 DEF RoundInv, Types
<1>9. posted' \in SUBSET Ranks
  BY <1>1 DEF RoundInv, Types
<1>10. Types'
  BY <1>0, <1>1, <1>4, <1>8, <1>9 DEF RoundInv, Types
<1>11. Places'
  BY <1>0, <1>2, <1>4 DEF RoundInv, Places, b
<1>12. Barriers'
  BY <1>2, <1>4, <1>5 DEF Barriers, b
<1>13. Counters'
  <2>1. store'.counter = Cardinality(Arrived')
    BY <1>6, <1>8 DEF RoundInv, Counters
  <2>2. CASE r = 0
    BY SMT, <1>0, <1>1, <1>2, <1>3, <1>8, <2>1, <2>2 DEF RoundInv, Counters, b
  <2>3. CASE r # 0
    <3>1. pc'[0] = pc[0] /\ Left' = Left
      BY <1>0, <1>2, <1>7, <2>3
    <3>2. Inside(0)' <=> Inside(0)
      BY <1>0, <1>4, <2>3
    <3> QED
      BY <1>8, <2>1, <3>1, <3>2 DEF RoundInv, Counters
  <2> QED
    BY <2>2, <2>3
<1>14. pc[0] # "reset" /\ pc'[0] # "reset"
  <2>1. Inside(0) => pc[0] # "reset"
    BY <1>0, <1>5
  <2>2. ~Inside(0) => pc[0] # "reset"
    BY <1>0 DEF RoundInv, Places
  <2> QED
    BY <1>0, <1>2, <2>1, <2>2 DEF b
<1>15. store'.sum = Cardinality(posted') /\ posted' \subseteq {q \in Ranks : Inside(q)'}
  <2>1. \E P \in SUBSET {q \in Ranks : Inside(q)} :
           store.sum = Cardinality(P) /\ posted' = P \cup {q \in {r} : state[q] = 1}
    <3>1. CASE \A q \in Ranks : lap[q] = lap[r]
      <4>1. \A q \in Ranks : ~Inside(q)
        BY <1>3, <3>1 DEF Inside
      <4>2. store.sum = Cardinality({})
        BY <4>1, FS_EmptySet DEF RoundInv, Sums
      <4> QED
        BY <1>1, <3>1, <4>2
    <3>2. CASE ~\A q \in Ranks : lap[q] = lap[r]
      <4>1. PICK q \in Ranks : Inside(q)
        BY <1>3, <3>2 DEF Inside
      <4>2. store.sum = Cardinality(posted) /\ posted \subseteq {p \in Ranks : Inside(p)}
        BY <1>14, <4>1 DEF RoundInv, Sums
      <4> QED
        BY <1>1, <3>2, <4>2
    <3> QED
      BY <3>1, <3>2
  <2>2. PICK P \in SUBSET {q \in Ranks : Inside(q)} :
           store.sum = Cardinality(P) /\ posted' = P \cup {q \in {r} : state[q] = 1}
    BY <2>1
  <2>3. P \in SUBSET Ranks /\ r \notin P
    BY <1>3
  <2>4. posted' \subseteq {q \in Ranks : Inside(q)'}
    BY <1>4, <2>2
  <2>5. CASE state[r] = 1
    <3>1. posted' = P \cup {r}
      BY <2>2, <2>5
    <3>2. Cardinality(posted') = Cardinality(P) + 1
      BY <2>3, <3>1, OneMore
    <3> QED
      BY <1>8, <2>2, <2>4, <2>5, <3>2
  <2>6. CASE state[r] # 1
    <3>1. posted' = P
      BY <2>2, <2>6
    <3>2. store'.sum = store.sum
      BY SMT, <1>8, <2>6 DEF RoundInv, Types
    <3> QED
      BY <2>2, <2>4, <3>1, <3>2
  <2> QED
    BY <2>5, <2>6
<1>16. \A q \in Ranks : ~PastRead(q)'
  <2> SUFFICES ASSUME NEW q \in Ranks PROVE pc'[q] \notin {"check", "leave", "wait2", "clear", "reset"}
    BY DEF PastRead
  <2>1. pc[q] \notin {"check", "leave", "wait2", "clear", "reset"}
    BY <1>5 DEF RoundInv, Places
  <2> QED
    BY <1>2, <2>1 DEF b
<1>17. Sums'
  BY <1>4, <1>14, <1>15, <1>16 DEF Sums
<1> QED
  BY <1>10, <1>11, <1>12, <1>13, <1>17 DEF RoundInv

\* A thread goes on within a round, and no further than the barriers allow.
LEMMA RoundsInside ==
    ASSUME Populated, RoundInv, NEW r \in Ranks, Inside(r),
           NEW b \in Labels \ {"start", "top", "off", "close"}, pc' = [pc EXCEPT ![r] = b],
           r # 0 => b \notin {"clear", "reset"}, r = 0 => b # "sleep",
           r \in Arrived => b # "arrive",
           r \in Left => b \in {"wait2", "clear", "reset", "sleep"},
           b \notin {"arrive", "wait"} => Arrived = Ranks,
           b \in {"clear", "reset", "sleep"} => Left = Ranks,
           UNCHANGED <<lap, cleared>>
    PROVE  /\ Places' /\ Barriers'
           /\ \A q \in Ranks : Inside(q)' <=> Inside(q)
           /\ b = "arrive" => Arrived' = Arrived
           /\ b # "arrive" => Arrived' = Arrived \cup {r}
           /\ b \in {"wait2", "clear", "reset", "sleep"} => Left' = Left \cup {r}
           /\ b \notin {"wait2", "clear", "reset", "sleep"} => Left' = Left
<1>0. 0 \in Ranks /\ b \in Labels
  BY Counting
<1>1. \A q \in Ranks : pc'[q] = IF q = r THEN b ELSE pc[q]
  BY DEF RoundInv, Types
<1>2. \A q \in Ranks : Inside(q)' <=> Inside(q)
  BY DEF Inside
<1>3. Arrived' = IF b = "arrive" THEN Arrived ELSE Arrived \cup {r}
  <2>1. Arrived' = IF b \notin {"close", "arrive"} THEN Arrived \cup {r} ELSE Arrived \ {r}
    BY <1>0, SetsMove DEF RoundInv
  <2> QED
    BY <2>1
<1>4. Left' = IF b \in {"wait2", "clear", "reset", "sleep"} THEN Left \cup {r} ELSE Left
  <2>1. Left' = IF b \in {"wait2", "clear", "reset", "sleep"} THEN Left \cup {r} ELSE Left \ {r}
    BY <1>0, SetsMove DEF RoundInv
  <2> QED
    BY <2>1
<1>5. Places'
  BY <1>0, <1>1, <1>2 DEF RoundInv, Places
<1>6. Barriers'
  <2>1. ASSUME NEW s \in Ranks, NEW q \in Ranks, Inside(s), pc'[s] \notin {"close", "arrive", "wait"}
        PROVE  q \in Arrived'
    <3>1. q \in Arrived
      BY SMT, <1>1, <2>1 DEF RoundInv, Barriers
    <3> QED
      BY <1>3, <3>1
  <2>2. ASSUME NEW s \in Ranks, NEW q \in Ranks, Inside(s), pc'[s] \in {"clear", "reset", "sleep"}
        PROVE  q \in Left'
    <3>1. q \in Left
      BY <1>1, <2>2 DEF RoundInv, Barriers
    <3> QED
      BY <1>4, <3>1
  <2>3. ASSUME NEW s \in Ranks, ~Inside(s), pc'[s] = "wait2"
        PROVE  FALSE
    BY <1>1, <2>3 DEF RoundInv, Barriers
  <2> QED
    BY <1>2, <2>1, <2>2, <2>3 DEF Barriers
<1> QED
  BY <1>2, <1>3, <1>4, <1>5, <1>6

\* What is left to show of such a step is what it does to the store.
LEMMA RoundsStore ==
    ASSUME Populated, RoundInv, NEW r \in Ranks, Inside(r), NEW b \in Labels, pc' = [pc EXCEPT ![r] = b],
           \A q \in Ranks : Inside(q)' <=> Inside(q),
           Types', Places', Barriers', Counters', UNCHANGED posted,
           b # "reset" => store'.sum = store.sum,
           b = "reset" => store'.sum = 0,
           pc[r] # "reset",
           \A q \in Ranks : global'[q] = global[q] \/ (q = r /\ global'[r] = Cardinality(posted)),
           PastRead(r) \/ ~PastRead(r)' \/ global'[r] = Cardinality(posted)
    PROVE  RoundInv'
<1>0. 0 \in Ranks
  BY Counting
<1>1. \A q \in Ranks : pc'[q] = IF q = r THEN b ELSE pc[q]
  BY DEF RoundInv, Types
<1>2. \A q \in Ranks : PastRead(q)' => global'[q] = Cardinality(posted)
  BY <1>1 DEF RoundInv, Sums, PastRead
<1>3. CASE b = "reset"
  <2>1. r = 0
    BY <1>1, <1>3 DEF Places
  <2>2. pc'[0] = "reset"
    BY <1>1, <1>3, <2>1
  <2> QED
    BY <1>2, <1>3, <2>2 DEF RoundInv, Sums
<1>4. CASE b # "reset"
  <2>1. pc'[0] = "reset" <=> pc[0] = "reset"
    BY <1>0, <1>1, <1>4
  <2> QED
    BY <1>2, <1>4, <2>1 DEF RoundInv, Sums
<1> QED
  BY <1>3, <1>4

\* Rank 0 closes the second barrier: nobody has left the first.
LEMMA RoundsClose ==
    ASSUME Populated, RoundInv, NEW r \in Ranks, CloseBarrier(r)
    PROVE  RoundInv'
<1>1. /\ pc[r] = "close" /\ pc' = [pc EXCEPT ![r] = "arrive"]
      /\ store' = [store EXCEPT !.counter2 = @ - World]
      /\ UNCHANGED <<lap, cleared, state, global, posted>>
  BY DEF CloseBarrier, At
<1>2. r = 0 /\ Inside(0) /\ r \notin Arrived
  BY <1>1 DEF RoundInv, Places, Arrived
<1>3. Left = {}
  BY <1>2 DEF RoundInv, Barriers, Left
<1>4. /\ Places' /\ Barriers' /\ Arrived' = Arrived /\ Left' = Left
      /\ \A q \in Ranks : Inside(q)' <=> Inside(q)
  BY <1>1, <1>2, <1>3, RoundsInside DEF Labels
<1>5. pc'[0] = "arrive" /\ pc' \in [Ranks -> Labels]
  BY <1>1, <1>2 DEF RoundInv, Types, Labels
<1>6. /\ store' \in [sum : Int, counter : Int, counter2 : Int]
      /\ store'.sum = store.sum /\ store'.counter = store.counter
      /\ store'.counter2 = store.counter2 - World
  BY SMT, <1>1 DEF RoundInv, Types, Populated
<1>7. Types'
  BY <1>1, <1>5, <1>6 DEF RoundInv, Types
<1>8. Counters'
  <2>1. store.counter2 = World
    BY <1>1, <1>2 DEF RoundInv, Counters
  <2>2. store'.counter2 = Cardinality(Left')
    BY SMT, <1>3, <1>4, <1>6, <2>1, FS_EmptySet DEF Populated
  <2> QED
    BY <1>2, <1>4, <1>5, <1>6, <2>2 DEF RoundInv, Counters
<1>9. ~PastRead(r)'
  BY <1>2, <1>5 DEF PastRead
<1> QED
  BY <1>1, <1>2, <1>4, <1>6, <1>7, <1>8, <1>9, RoundsStore DEF Labels

\* A rank arrives at the first barrier.
LEMMA RoundsArrive ==
    ASSUME Populated, RoundInv, NEW r \in Ranks, Arrive(r)
    PROVE  RoundInv'
<1>0. 0 \in Ranks
  BY Counting
<1>1. /\ pc[r] = "arrive" /\ pc' = [pc EXCEPT ![r] = "wait"]
      /\ store' = [store EXCEPT !.counter = @ + 1]
      /\ UNCHANGED <<lap, cleared, state, global, posted>>
  BY DEF Arrive, At
<1>2. Inside(r) /\ r \notin Arrived /\ r \notin Left
  BY <1>1 DEF RoundInv, Places, Arrived, Left
<1>3. /\ Places' /\ Barriers' /\ Arrived' = Arrived \cup {r} /\ Left' = Left
      /\ \A q \in Ranks : Inside(q)' <=> Inside(q)
  <2>1. PICK b \in Labels \ {"start", "top", "off", "close"} : b = "wait"
    BY DEF Labels
  <2>2. /\ Places' /\ Barriers' /\ \A q \in Ranks : Inside(q)' <=> Inside(q)
        /\ b # "arrive" => Arrived' = Arrived \cup {r}
        /\ b \notin {"wait2", "clear", "reset", "sleep"} => Left' = Left
    <3>1. pc' = [pc EXCEPT ![r] = b] /\ UNCHANGED <<lap, cleared>>
      BY <1>1, <2>1
    <3>2. /\ r # 0 => b \notin {"clear", "reset"}
          /\ r = 0 => b # "sleep"
          /\ b \in {"arrive", "wait"} /\ b # "arrive"
      BY <2>1
    <3> QED
      BY <1>2, <3>1, <3>2, RoundsInside
  <2> QED
    BY <2>1, <2>2
<1>4. pc' \in [Ranks -> Labels] /\ \A q \in Ranks : pc'[q] = IF q = r THEN "wait" ELSE pc[q]
  BY <1>1 DEF RoundInv, Types, Labels
<1>5. /\ store' \in [sum : Int, counter : Int, counter2 : Int]
      /\ store'.sum = store.sum /\ store'.counter = store.counter + 1
      /\ store'.counter2 = store.counter2
  BY SMT, <1>1 DEF RoundInv, Types
<1>6. Types'
  BY <1>1, <1>4, <1>5 DEF RoundInv, Types
<1>7. Counters'
  <2>1. Cardinality(Arrived') = Cardinality(Arrived) + 1
    BY <1>2, <1>3, OneMore, SetsOfRanks
  <2>2. /\ pc'[0] = "start" <=> pc[0] = "start"
        /\ pc'[0] = "close" <=> pc[0] = "close"
    BY <1>0, <1>1, <1>4
  <2> QED
    BY <1>0, <1>3, <1>5, <2>1, <2>2 DEF RoundInv, Counters
<1>8. ~PastRead(r)'
  BY <1>4 DEF PastRead
<1> QED
  BY <1>1, <1>2, <1>3, <1>5, <1>6, <1>7, <1>8, RoundsStore DEF Labels

\* A step within a round that leaves the store alone: after the first barrier, or past
\* the second.
LEMMA RoundsSilent ==
    ASSUME Populated, RoundInv, NEW r \in Ranks, Inside(r), Arrived = Ranks,
           NEW b \in {"read", "check", "leave", "clear", "sleep"}, pc' = [pc EXCEPT ![r] = b],
           \/ pc[r] \in {"wait", "read", "check"} /\ b \in {"read", "check", "leave"}
           \/ pc[r] = "wait2" /\ b = (IF r = 0 THEN "clear" ELSE "sleep") /\ Left = Ranks,
           UNCHANGED <<store, lap, cleared, posted>>,
           state' \in [Ranks -> {0, 1}], global' \in [Ranks -> Int],
           \A q \in Ranks : global'[q] = global[q] \/ (q = r /\ global'[r] = Cardinality(posted)),
           PastRead(r) \/ ~PastRead(r)' \/ global'[r] = Cardinality(posted)
    PROVE  RoundInv'
<1>0. 0 \in Ranks /\ b \in Labels \ {"start", "top", "off", "close"} /\ b \in Labels
  BY Counting DEF Labels
<1>1. r \in Left <=> pc[r] = "wait2"
  BY DEF Left
<1>2. /\ Places' /\ Barriers' /\ \A q \in Ranks : Inside(q)' <=> Inside(q)
      /\ b = "arrive" => Arrived' = Arrived
      /\ b # "arrive" => Arrived' = Arrived \cup {r}
      /\ b \in {"wait2", "clear", "reset", "sleep"} => Left' = Left \cup {r}
      /\ b \notin {"wait2", "clear", "reset", "sleep"} => Left' = Left
  BY <1>0, <1>1, RoundsInside
<1>3. Arrived' = Arrived /\ Left' = Left
  BY <1>1, <1>2
<1>4. pc' \in [Ranks -> Labels] /\ \A q \in Ranks : pc'[q] = IF q = r THEN b ELSE pc[q]
  BY <1>0 DEF RoundInv, Types
<1>5. Types'
  BY <1>4 DEF RoundInv, Types
<1>6. Counters'
  <2>1. /\ pc'[0] = "start" <=> pc[0] = "start"
        /\ pc'[0] = "close" <=> pc[0] = "close"
    BY <1>0, <1>4
  <2> QED
    BY <1>0, <1>2, <1>3, <2>1 DEF RoundInv, Counters
<1> QED
  BY <1>0, <1>2, <1>5, <1>6, RoundsStore

\* The first counter lets a rank pass when all have arrived.
LEMMA RoundsPass ==
    ASSUME Populated, RoundInv, NEW r \in Ranks, Pass(r), ~skewed'
    PROVE  RoundInv'
<1>1. /\ pc[r] = "wait" /\ pc' = [pc EXCEPT ![r] = "read"]
      /\ store.counter >= World
      /\ UNCHANGED <<store, lap, cleared, state, global, posted>>
  <2>1. ~(store.counter < World)
    BY DEF Pass
  <2>2. store.counter >= World
    BY SMT, <2>1 DEF RoundInv, Types, Populated
  <2> QED
    BY <2>2 DEF Pass, At
<1>2. Inside(r)
  BY <1>1 DEF RoundInv, Places
<1>3. Arrived = Ranks
  BY <1>1, Counting, SetsOfRanks DEF RoundInv, Counters
<1>4. ~PastRead(r)' /\ state' \in [Ranks -> {0, 1}] /\ global' \in [Ranks -> Int]
  BY <1>1 DEF RoundInv, Types, PastRead
<1> QED
  BY <1>1, <1>2, <1>3, <1>4, RoundsSilent

\* The sum is read when all have added to it, and before rank 0 resets it.
LEMMA RoundsRead ==
    ASSUME Populated, RoundInv, NEW r \in Ranks, Read(r)
    PROVE  RoundInv'
<1>1. /\ pc[r] = "read" /\ global' = [global EXCEPT ![r] = store.sum]
      /\ UNCHANGED <<store, lap, cleared, posted>>
      /\ state' \in [Ranks -> {0, 1}]
      /\ \E b \in {"check", "leave"} : pc' = [pc EXCEPT ![r] = b]
  BY DEF Read, RoundInv, Types
<1>2. PICK b \in {"check", "leave"} : pc' = [pc EXCEPT ![r] = b]
  BY <1>1
<1>3. Inside(r) /\ r \notin Left
  BY <1>1 DEF RoundInv, Places, Left
<1>4. Arrived = Ranks
  BY <1>1, <1>3, SetsOfRanks DEF RoundInv, Barriers
<1>5. pc[0] # "reset" /\ 0 \in Ranks
  <2>1. 0 \in Ranks /\ Inside(0)
    BY <1>4, Counting DEF Arrived
  <2> QED
    BY <1>3, <2>1 DEF RoundInv, Barriers
<1>6. store.sum = Cardinality(posted)
  BY <1>3, <1>5 DEF RoundInv, Sums
<1>7. /\ global' \in [Ranks -> Int] /\ global'[r] = Cardinality(posted)
      /\ \A q \in Ranks : q # r => global'[q] = global[q]
  BY <1>1, <1>6 DEF RoundInv, Types
<1> QED
  BY <1>1, <1>2, <1>3, <1>4, <1>7, RoundsSilent

\* The end of a check.
LEMMA RoundsCheck ==
    ASSUME Populated, RoundInv, NEW r \in Ranks, CheckEnds(r)
    PROVE  RoundInv'
<1>1. /\ pc[r] = "check" /\ pc' = [pc EXCEPT ![r] = "leave"]
      /\ state' = [state EXCEPT ![r] = 0]
      /\ UNCHANGED <<store, lap, cleared, global, posted>>
  BY DEF CheckEnds, At
<1>2. Inside(r) /\ PastRead(r)
  BY <1>1 DEF RoundInv, Places, PastRead
<1>3. Arrived = Ranks
  BY <1>1, <1>2, SetsOfRanks DEF RoundInv, Barriers
<1>4. state' \in [Ranks -> {0, 1}] /\ global' \in [Ranks -> Int]
  BY <1>1 DEF RoundInv, Types
<1> QED
  BY <1>1, <1>2, <1>3, <1>4, RoundsSilent

\* A rank leaves the first barrier for the second.
LEMMA RoundsLeave ==
    ASSUME Populated, RoundInv, NEW r \in Ranks, Leave(r)
    PROVE  RoundInv'
<1>1. /\ pc[r] = "leave" /\ pc' = [pc EXCEPT ![r] = "wait2"]
      /\ store' = [store EXCEPT !.counter2 = @ + 1]
      /\ UNCHANGED <<lap, cleared, state, global, posted>>
  BY DEF Leave, At
<1>2. Inside(r) /\ r \notin Left /\ PastRead(r)
  BY <1>1 DEF RoundInv, Places, Left, PastRead
<1>3. Arrived = Ranks
  BY <1>1, <1>2, SetsOfRanks DEF RoundInv, Barriers
<1>4. 0 \in Ranks /\ Inside(0) /\ pc[0] # "close" /\ pc[0] # "start"
  BY <1>3, Counting DEF Arrived, RoundInv, Places
<1>5. /\ Places' /\ Barriers' /\ Arrived' = Ranks /\ Left' = Left \cup {r}
      /\ \A q \in Ranks : Inside(q)' <=> Inside(q)
  <2>1. PICK b \in Labels \ {"start", "top", "off", "close"} : b = "wait2"
    BY DEF Labels
  <2>2. /\ Places' /\ Barriers' /\ \A q \in Ranks : Inside(q)' <=> Inside(q)
        /\ b # "arrive" => Arrived' = Arrived \cup {r}
        /\ b \in {"wait2", "clear", "reset", "sleep"} => Left' = Left \cup {r}
    <3>1. pc' = [pc EXCEPT ![r] = b] /\ UNCHANGED <<lap, cleared>>
      BY <1>1, <2>1
    <3>2. /\ r # 0 => b \notin {"clear", "reset"}
          /\ r = 0 => b # "sleep"
          /\ b \notin {"clear", "reset", "sleep"} /\ b # "arrive"
      BY <2>1
    <3> QED
      BY <1>2, <1>3, <3>1, <3>2, RoundsInside
  <2> QED
    BY <1>3, <2>1, <2>2
<1>6. pc' \in [Ranks -> Labels] /\ \A q \in Ranks : pc'[q] = IF q = r THEN "wait2" ELSE pc[q]
  BY <1>1 DEF RoundInv, Types, Labels
<1>7. /\ store' \in [sum : Int, counter : Int, counter2 : Int]
      /\ store'.sum = store.sum /\ store'.counter = store.counter
      /\ store'.counter2 = store.counter2 + 1
  BY SMT, <1>1 DEF RoundInv, Types
<1>8. Types'
  BY <1>1, <1>6, <1>7 DEF RoundInv, Types
<1>9. Counters'
  <2>1. Cardinality(Left') = Cardinality(Left) + 1
    BY <1>2, <1>5, OneMore, SetsOfRanks
  <2>2. pc'[0] # "start" /\ pc'[0] # "close"
    BY <1>4, <1>6
  <2>3. store.counter2 = Cardinality(Left)
    BY <1>4 DEF RoundInv, Counters
  <2> QED
    BY <1>3, <1>4, <1>5, <1>7, <2>1, <2>2, <2>3 DEF RoundInv, Counters
<1> QED
  <2>1. PICK b \in Labels : b = "wait2"
    BY DEF Labels
  <2>2. pc' = [pc EXCEPT ![r] = b] /\ b # "reset" /\ pc[r] # "reset"
    BY <1>1, <2>1
  <2> QED
    BY <1>1, <1>2, <1>5, <1>7, <1>8, <1>9, <2>2, RoundsStore

\* The second counter lets a rank pass when all have left, or when the round is reset.
LEMMA RoundsPass2 ==
    ASSUME Populated, RoundInv, NEW r \in Ranks, Pass2(r), ~skewed'
    PROVE  RoundInv'
<1>0. 0 \in Ranks
  BY Counting
<1>1. /\ pc[r] = "wait2" /\ pc' = [pc EXCEPT ![r] = IF r = 0 THEN "clear" ELSE "sleep"]
      /\ store.counter2 >= World
      /\ UNCHANGED <<store, lap, cleared, state, global, posted>>
  <2>1. ~(store.counter2 < World)
    BY DEF Pass2
  <2>2. store.counter2 >= World
    BY SMT, <2>1 DEF RoundInv, Types, Populated
  <2> QED
    BY <2>2 DEF Pass2, At
<1>2. CASE Inside(r)
  <2>1. Arrived = Ranks
    BY <1>1, <1>2, SetsOfRanks DEF RoundInv, Barriers
  <2>2. Inside(0) /\ pc[0] # "close" /\ pc[0] # "start"
    BY <1>0, <2>1 DEF Arrived, RoundInv, Places
  <2>3. Left = Ranks
    BY <1>1, <2>2, Counting, SetsOfRanks DEF RoundInv, Counters
  <2>4. PastRead(r) /\ state' \in [Ranks -> {0, 1}] /\ global' \in [Ranks -> Int]
    BY <1>1 DEF RoundInv, Types, PastRead
  <2>5. PICK b \in {"read", "check", "leave", "clear", "sleep"} : b = IF r = 0 THEN "clear" ELSE "sleep"
    OBVIOUS
  <2> QED
    BY <1>1, <1>2, <2>1, <2>3, <2>4, <2>5, RoundsSilent
<1>3. CASE ~Inside(r)
  <2>1. r # 0
    BY <1>1, <1>3 DEF RoundInv, Places
  <2>2. pc' = [pc EXCEPT ![r] = "sleep"]
    BY <1>1, <2>1
  <2>3. pc' \in [Ranks -> Labels] /\ \A q \in Ranks : pc'[q] = IF q = r THEN "sleep" ELSE pc[q]
    BY <2>2 DEF RoundInv, Types, Labels
  <2>4. \A q \in Ranks : ~Inside(q) /\ pc[q] \in {"wait2", "sleep"}
    BY <1>1, <1>3 DEF RoundInv, Barriers
  <2>5. \A q \in Ranks : ~Inside(q)' /\ pc'[q] \in {"wait2", "sleep"}
    BY <1>1, <2>3, <2>4 DEF Inside
  <2>6. Arrived' = Arrived /\ Left' = Left
    BY <2>4, <2>5 DEF Arrived, Left
  <2>7. Types'
    BY <1>1, <2>3 DEF RoundInv, Types
  <2>8. pc'[0] = pc[0]
    BY <1>0, <2>1, <2>3
  <2>9. Places' /\ Barriers'
    BY <1>0, <2>4, <2>5, <2>8 DEF RoundInv, Places, Barriers
  <2>10. Counters'
    BY <1>0, <1>1, <2>4, <2>5, <2>6, <2>8 DEF RoundInv, Counters
  <2>11. \A q \in Ranks : PastRead(q)' => PastRead(q)
    BY <2>3 DEF PastRead
  <2>12. Sums'
    BY <1>1, <2>4, <2>5, <2>8, <2>11 DEF RoundInv, Sums
  <2> QED
    BY <2>7, <2>9, <2>10, <2>12 DEF RoundInv
<1> QED
  BY <1>2, <1>3

\* Rank 0 takes back what it read, which is all that was added.
LEMMA RoundsClear ==
    ASSUME Populated, RoundInv, NEW r \in Ranks, ClearSum(r)
    PROVE  RoundInv'
<1>1. /\ pc[r] = "clear" /\ pc' = [pc EXCEPT ![r] = "reset"]
      /\ store' = [store EXCEPT !.sum = @ - global[r]]
      /\ UNCHANGED <<lap, cleared, state, global, posted>>
  BY DEF ClearSum, At
<1>2. r = 0 /\ Inside(r) /\ PastRead(r)
  BY <1>1 DEF RoundInv, Places, PastRead
<1>3. Arrived = Ranks /\ Left = Ranks
  BY <1>1, <1>2, SetsOfRanks DEF RoundInv, Barriers
<1>4. /\ Places' /\ Barriers' /\ Arrived' = Arrived /\ Left' = Left
      /\ \A q \in Ranks : Inside(q)' <=> Inside(q)
  <2>1. PICK b \in Labels \ {"start", "top", "off", "close"} : b = "reset"
    BY DEF Labels
  <2>2. /\ Places' /\ Barriers' /\ \A q \in Ranks : Inside(q)' <=> Inside(q)
        /\ b # "arrive" => Arrived' = Arrived \cup {r}
        /\ b \in {"wait2", "clear", "reset", "sleep"} => Left' = Left \cup {r}
    <3>1. pc' = [pc EXCEPT ![r] = b] /\ UNCHANGED <<lap, cleared>>
      BY <1>1, <2>1
    <3>2. /\ b \in {"wait2", "clear", "reset", "sleep"}
          /\ b # "sleep" /\ b # "arrive"
      BY <2>1
    <3> QED
      BY <1>2, <1>3, <3>1, <3>2, RoundsInside
  <2> QED
    BY <1>3, <2>1, <2>2
<1>5. pc' \in [Ranks -> Labels] /\ pc'[0] = "reset"
  BY <1>1, <1>2 DEF RoundInv, Types, Labels
<1>6. /\ store' \in [sum : Int, counter : Int, counter2 : Int]
      /\ store'.sum = store.sum - global[r] /\ store'.counter = store.counter
      /\ store'.counter2 = store.counter2
  BY SMT, <1>1 DEF RoundInv, Types
<1>7. store'.sum = 0
  <2>1. store.sum = Cardinality(posted) /\ global[r] = Cardinality(posted)
    BY <1>1, <1>2 DEF RoundInv, Sums
  <2>2. Cardinality(posted) \in Nat
    BY Counting DEF RoundInv, Types
  <2> QED
    BY SMT, <1>6, <2>1, <2>2
<1>8. Types'
  BY <1>1, <1>5, <1>6 DEF RoundInv, Types
<1>9. Counters'
  BY <1>1, <1>2, <1>4, <1>5, <1>6 DEF RoundInv, Counters
<1> QED
  <2>1. PICK b \in Labels : b = "reset"
    BY DEF Labels
  <2>2. pc' = [pc EXCEPT ![r] = b] /\ pc[r] # "reset"
    BY <1>1, <2>1
  <2> QED
    BY <1>1, <1>2, <1>4, <1>7, <1>8, <1>9, <2>1, <2>2, RoundsStore

\* Rank 0 opens the next round.
LEMMA RoundsReset ==
    ASSUME Populated, RoundInv, NEW r \in Ranks, ResetCounter(r)
    PROVE  RoundInv'
<1>1. /\ pc[r] = "reset" /\ pc' = [pc EXCEPT ![r] = "sleep"]
      /\ store' = [store EXCEPT !.counter = @ - World] /\ cleared' = lap[r]
      /\ UNCHANGED <<lap, state, global, posted>>
  BY DEF ResetCounter, At
<1>2. r = 0 /\ Inside(r) /\ 0 \in Ranks
  BY <1>1 DEF RoundInv, Places
<1>3. Arrived = Ranks /\ Left = Ranks
  BY <1>1, <1>2, SetsOfRanks DEF RoundInv, Barriers
<1>4. pc' \in [Ranks -> Labels] /\ \A q \in Ranks : pc'[q] = IF q = r THEN "sleep" ELSE pc[q]
  BY <1>1 DEF RoundInv, Types, Labels
<1>5. \A q \in Ranks : Inside(q) /\ pc[q] \in {"wait2", "clear", "reset", "sleep"}
  BY <1>3 DEF Left
<1>6. \A q \in Ranks : pc'[q] \in {"wait2", "sleep"}
  BY <1>2, <1>4, <1>5 DEF RoundInv, Places
<1>7. \A q \in Ranks : ~Inside(q)'
  BY <1>1, <1>2, <1>5 DEF RoundInv, Types, Inside
<1>8. Arrived' = {} /\ Left' = {}
  BY <1>7 DEF Arrived, Left
<1>9. /\ store' \in [sum : Int, counter : Int, counter2 : Int]
      /\ store'.sum = store.sum /\ store'.counter = store.counter - World
      /\ store'.counter2 = store.counter2
  BY SMT, <1>1 DEF RoundInv, Types, Populated
<1>10. store.counter = World /\ store.counter2 = World
  BY <1>1, <1>2, <1>3, Counting DEF RoundInv, Counters
<1>11. pc'[0] = "sleep"
  BY <1>2, <1>4
<1>12. Types'
  BY <1>1, <1>2, <1>4, <1>9 DEF RoundInv, Types
<1>13. Places' /\ Barriers'
  BY <1>2, <1>6, <1>7, <1>11 DEF Places, Barriers
<1>14. Counters'
  <2>1. store'.counter = Cardinality(Arrived')
    BY SMT, <1>8, <1>9, <1>10, FS_EmptySet DEF Populated
  <2> QED
    BY <1>2, <1>7, <1>9, <1>10, <1>11, <2>1 DEF Counters
<1>15. \A q \in Ranks : PastRead(q)' => PastRead(q)
  BY <1>4 DEF PastRead
<1>16. Sums'
  BY <1>1, <1>2, <1>7, <1>9, <1>11, <1>15 DEF RoundInv, Sums
<1> QED
  BY <1>12, <1>13, <1>14, <1>16 DEF RoundInv

-----------------------------------------------------------------------------
\* Every step keeps the rounds, or leaves a barrier early.
LEMMA RoundsNext == ASSUME Populated PROVE RoundsIInv /\ [Next]_vars => RoundsIInv'
<1> SUFFICES ASSUME RoundsIInv, [Next]_vars PROVE RoundsIInv'
  OBVIOUS
<1>1. CASE UNCHANGED vars
  <2>1. RoundInv => RoundInv'
    BY <1>1, RoundsQuiet DEF vars, RoundInv, Types
  <2> QED
    BY <1>1, <2>1 DEF vars, RoundsIInv
<1>2. CASE Next
  <2>1. PICK r \in Ranks : ~skewed /\ (Thread(r) \/ Strike(r) \/ Forward(r) \/ Cleanup(r) \/ Startup(r))
    BY <1>2 DEF Next
  <2>2. RoundInv
    BY <2>1 DEF RoundsIInv
  <2> SUFFICES ASSUME ~skewed' PROVE RoundInv'
    BY DEF RoundsIInv
  <2>3. CASE Strike(r) \/ Forward(r) \/ Cleanup(r)
    <3>1. UNCHANGED <<store, pc, lap, cleared, global, posted>> /\ state' \in [Ranks -> {0, 1}]
      BY <2>2, <2>3 DEF Strike, Forward, Cleanup, RoundInv, Types
    <3> QED
      BY <2>2, <3>1, RoundsQuiet
  <2>4. CASE Start(r) \/ Ends(r) \/ Startup(r) \/ Wake(r)
    <3>1. PICK b \in {"start", "top", "off"} : pc' = [pc EXCEPT ![r] = b] /\ (Startup(r) \/ b # "start")
      BY <2>4 DEF Start, Ends, Startup, Wake, At
    <3>2. r = 0 => b # "start"
      BY <3>1 DEF Startup
    <3>3. UNCHANGED <<lap, cleared, state, global, posted>>
      BY <2>4 DEF Start, Ends, Startup, Wake
    <3>4. pc[r] \in {"start", "top", "off"} \/ (pc[r] = "sleep" /\ SleepOutlasts(r))
      BY <2>4 DEF Start, Ends, Startup, Wake, At
    <3>5. ~Inside(r)
      BY <2>2, <3>4 DEF SleepOutlasts, Inside, RoundInv, Places
    <3>6. \A q \in Ranks : ~Inside(q) => pc[q] # "wait2"
      BY <2>2, <3>4 DEF SleepOutlasts, RoundInv, Barriers
    <3>7. store' = IF pc[0] = "start" /\ r = 0 THEN [store EXCEPT !.counter2 = @ + World] ELSE store
      BY <2>4 DEF Start, Ends, Startup, Wake, At
    <3> QED
      BY <2>2, <3>1, <3>2, <3>3, <3>5, <3>6, <3>7, RoundsOutside
  <2>5. CASE Post(r)
    BY <2>2, <2>5, RoundsPost
  <2>6. CASE CloseBarrier(r)
    BY <2>2, <2>6, RoundsClose
  <2>7. CASE Arrive(r)
    BY <2>2, <2>7, RoundsArrive
  <2>8. CASE Pass(r)
    BY <2>2, <2>8, RoundsPass
  <2>9. CASE Read(r)
    BY <2>2, <2>9, RoundsRead
  <2>10. CASE CheckEnds(r)
    BY <2>2, <2>10, RoundsCheck
  <2>11. CASE Leave(r)
    BY <2>2, <2>11, RoundsLeave
  <2>12. CASE Pass2(r)
    BY <2>2, <2>12, RoundsPass2
  <2>13. CASE ClearSum(r)
    BY <2>2, <2>13, RoundsClear
  <2>14. CASE ResetCounter(r)
    BY <2>2, <2>14, RoundsReset
  <2> QED
    BY <2>1, <2>3, <2>4, <2>5, <2>6, <2>7, <2>8, <2>9, <2>10, <2>11, <2>12, <2>13, <2>14 DEF Thread
<1> QED
  BY <1>1, <1>2

\* A rank that has read the sum is in the same round as all the others, and read what
\* they posted in it.
LEMMA RoundsMeet == RoundsIInv => RoundsAgree
<1> SUFFICES ASSUME RoundInv, NEW r \in Ranks, PastRead(r)
             PROVE  global[r] = Cardinality(posted) /\ \A q \in Ranks : lap[q] = lap[r]
  BY DEF RoundsIInv, RoundsAgree
<1>1. global[r] = Cardinality(posted)
  BY DEF RoundInv, Sums
<1>2. ASSUME NEW q \in Ranks PROVE lap[q] = lap[r]
  <2>1. CASE Inside(r)
    <3>1. Inside(q)
      BY <2>1 DEF RoundInv, Barriers, Arrived, PastRead
    <3> QED
      BY <2>1, <3>1 DEF RoundInv, Types, Inside
  <2>2. CASE ~Inside(r)
    <3>1. pc[r] = "wait2"
      BY <2>2 DEF RoundInv, Places, PastRead
    <3>2. ~Inside(q)
      BY <2>2, <3>1 DEF RoundInv, Barriers
    <3> QED
      BY <2>2, <3>2 DEF Inside
  <2> QED
    BY <2>1, <2>2
<1> QED
  BY <1>1, <1>2

\* _tcp_comm_checksum_state, for any number of ranks: until a thread is stopped inside a
\* barrier or rank 0's is started again, every rank that has read the sum has read what
\* all the ranks added in its round, so all of them check their products or none does.
THEOREM RoundsInStep == ASSUME Populated PROVE Spec => []RoundsAgree
<1>1. Init => RoundsIInv
  BY RoundsInit DEF RoundsIInv
<1>2. RoundsIInv /\ [Next]_vars => RoundsIInv'
  BY RoundsNext
<1>3. RoundsIInv => RoundsAgree
  BY RoundsMeet
<1> QED
  BY <1>1, <1>2, <1>3, PTL DEF Spec
=============================================================================
