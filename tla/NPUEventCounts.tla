--------------------------- MODULE NPUEventCounts ---------------------------
(***************************************************************************)
(* Lemmas about NPUEvent: its types, the counts of NPUEventManager, which  *)
(* are the records and waits that are on their way to the device, and what *)
(* a call saw when it began.                                               *)
(***************************************************************************)
EXTENDS NPUEvent, FiniteSets, TLAPS

\* The steps that are not pure logic name the SMT solver.
USE Zenon
USE DEF counts, manager, queues, device, budget

\* What the proofs use of finite sets. The library's theorems that say so come after the
\* lemmas, which are checked faster without them.
SameSize ==
    \A S, T, f : /\ IsFiniteSet(T) /\ f \in [S -> T]
                 /\ \A x, y \in S : f[x] = f[y] => x = y
                 /\ \A y \in T : \E x \in S : f[x] = y
                 => IsFiniteSet(S) /\ Cardinality(S) = Cardinality(T)
FiniteFacts ==
    /\ IsFiniteSet({}) /\ Cardinality({}) = 0
    /\ \A S : IsFiniteSet(S) => Cardinality(S) \in Nat
    /\ \A S : IsFiniteSet(S) => \A T \in SUBSET S : IsFiniteSet(T) /\ Cardinality(T) <= Cardinality(S)
    /\ \A S, x : IsFiniteSet(S) =>
          /\ IsFiniteSet(S \cup {x}) /\ IsFiniteSet(S \ {x})
          /\ Cardinality(S \cup {x}) = IF x \in S THEN Cardinality(S) ELSE Cardinality(S) + 1
          /\ Cardinality(S \ {x}) = IF x \in S THEN Cardinality(S) - 1 ELSE Cardinality(S)
    /\ SameSize

\* The positions of the queued tasks of a type that concern an event, and the threads
\* that have counted such a task and not yet enqueued it.
Positions == Streams \X (Nat \ {0})
Queued(ts, type, e) ==
    {p \in Positions : /\ p[2] <= Len(ts[p[1]])
                       /\ ts[p[1]][p[2]].type = type /\ ts[p[1]][p[2]].event = e}
Submitting(p, c, type, e) ==
    {t \in Threads : p[t] = "enqueue" /\ c[t].type = type /\ c[t].event = e}

\* The records of an event in queue q in front of position i.
Earlier(ts, e, q, i) == {p \in Queued(ts, "RECORD", e) : p[1] = q /\ p[2] < i}

(***************************************************************************)
(* What appending a task and taking the first one do to those sets.        *)
(***************************************************************************)
Put(ts, q, k) == [ts EXCEPT ![q] = Append(@, k)]
Take(ts, q) == [ts EXCEPT ![q] = Tail(@)]

\* Taking the first task of queue q moves the others of that queue by one.
Moved(S, q) ==
    {p \in Positions : IF p[1] = q THEN <<q, p[2] + 1>> \in S ELSE p \in S}

\* Taking the head of a queue moves the places behind it and drops the first.
LEMMA MovedCount ==
    ASSUME FiniteFacts, NEW S \in SUBSET Positions, IsFiniteSet(S), NEW q \in Streams
    PROVE  /\ IsFiniteSet(Moved(S, q))
           /\ Cardinality(Moved(S, q)) =
                IF <<q, 1>> \in S THEN Cardinality(S) - 1 ELSE Cardinality(S)
<1> DEFINE U == S \ {<<q, 1>>}
           T == Moved(S, q)
           f == [p \in T |-> IF p[1] = q THEN <<q, p[2] + 1>> ELSE p]
<1>1. IsFiniteSet(U)
  BY DEF FiniteFacts
<1>2. f \in [T -> U]
  <2> SUFFICES ASSUME NEW p \in T PROVE f[p] \in U
    OBVIOUS
  <2>1. p \in Positions /\ p[1] \in Streams /\ p[2] \in Nat \ {0} /\ p = <<p[1], p[2]>>
    BY SMT DEF Moved, Positions
  <2>2. CASE p[1] = q
    BY SMT, <2>1, <2>2 DEF Moved
  <2>3. CASE p[1] # q
    BY SMT, <2>1, <2>3 DEF Moved
  <2> QED
    BY <2>2, <2>3
<1>3. \A p, r \in T : f[p] = f[r] => p = r
  <2> SUFFICES ASSUME NEW p \in T, NEW r \in T, f[p] = f[r] PROVE p = r
    OBVIOUS
  <2>1. /\ p[1] \in Streams /\ p[2] \in Nat \ {0} /\ p = <<p[1], p[2]>>
        /\ r[1] \in Streams /\ r[2] \in Nat \ {0} /\ r = <<r[1], r[2]>>
    BY SMT DEF Moved, Positions
  <2> DEFINE next(x) == IF x[1] = q THEN x[2] + 1 ELSE x[2]
  <2>2. f[p] = <<p[1], next(p)>> /\ f[r] = <<r[1], next(r)>>
    BY <2>1
  <2>3. (next(p) = next(r) /\ p[1] = r[1]) => p[2] = r[2]
    BY SMT, <2>1
  <2> HIDE DEF f, next
  <2>4. p[1] = r[1] /\ next(p) = next(r)
    <3>1. \A a, b, c, d : <<a, b>> = <<c, d>> => a = c /\ b = d
      OBVIOUS
    <3>2. <<p[1], next(p)>> = <<r[1], next(r)>>
      BY <2>2
    <3> QED
      BY <3>1, <3>2
  <2>5. p[2] = r[2]
    BY <2>3, <2>4
  <2> QED
    BY <2>1, <2>4, <2>5
<1>4. \A u \in U : \E p \in T : f[p] = u
  <2> SUFFICES ASSUME NEW u \in U PROVE \E p \in T : f[p] = u
    OBVIOUS
  <2>1. u[1] \in Streams /\ u[2] \in Nat \ {0} /\ u = <<u[1], u[2]>> /\ u \in S
    BY SMT DEF Positions
  <2>2. CASE u[1] = q
    <3>1. u[2] - 1 \in Nat \ {0} /\ (u[2] - 1) + 1 = u[2]
      BY SMT, <2>1, <2>2
    <3>2. <<q, u[2] - 1>> \in T
      BY <2>1, <2>2, <3>1 DEF Moved, Positions
    <3>3. f[<<q, u[2] - 1>>] = u
      BY <2>1, <2>2, <3>1, <3>2
    <3> QED
      BY <3>2, <3>3
  <2>3. CASE u[1] # q
    <3>1. u \in T
      BY <2>1, <2>3 DEF Moved, Positions
    <3>2. f[u] = u
      BY <2>3, <3>1
    <3> QED
      BY <3>1, <3>2
  <2> QED
    BY <2>2, <2>3
<1>5. IsFiniteSet(T) /\ Cardinality(T) = Cardinality(U)
  <2> HIDE DEF f, T, U
  <2> QED
    BY SMT, <1>1, <1>2, <1>3, <1>4 DEF FiniteFacts, SameSize
<1> QED
  BY <1>5 DEF FiniteFacts

\* Two sets of positions with the same members are equal.
LEMMA SameMembers ==
    ASSUME NEW A \in SUBSET Positions, NEW B \in SUBSET Positions,
           \A p \in Positions : p \in A <=> p \in B
    PROVE  A = B
OBVIOUS

\* Launching the first task of queue q.
LEMMA TakeFirst ==
    ASSUME NEW ts \in [Streams -> Seq(Tasks)], NEW q \in Streams, ts[q] # <<>>
    PROVE  /\ Take(ts, q) \in [Streams -> Seq(Tasks)]
           /\ \A type, e : Queued(Take(ts, q), type, e) = Moved(Queued(ts, type, e), q)
           /\ \A e : \A r \in Streams : \A i \in Nat \ {0} :
                Earlier(Take(ts, q), e, r, i) = Moved(Earlier(ts, e, r, IF r = q THEN i + 1 ELSE i), q)
           /\ \A type, e : <<q, 1>> \in Queued(ts, type, e) <=>
                Head(ts[q]).type = type /\ Head(ts[q]).event = e
<1> DEFINE us == Take(ts, q)
<1>1. /\ us \in [Streams -> Seq(Tasks)]
      /\ ts[q] \in Seq(Tasks) /\ Len(ts[q]) >= 1 /\ Head(ts[q]) = ts[q][1]
      /\ \A r \in Streams : r # q => us[r] = ts[r]
      /\ Len(us[q]) = Len(ts[q]) - 1
      /\ \A i \in 1 .. Len(ts[q]) - 1 : us[q][i] = ts[q][i + 1]
  BY SMT DEF Take
<1> HIDE DEF us
<1>2. ASSUME NEW type, NEW e, NEW p \in Positions
      PROVE  p \in Queued(us, type, e) <=> p \in Moved(Queued(ts, type, e), q)
  <2>1. p = <<p[1], p[2]>> /\ p[1] \in Streams /\ p[2] \in Nat \ {0}
    BY SMT DEF Positions
  <2>2. CASE p[1] # q
    BY <1>1, <2>1, <2>2 DEF Queued, Moved
  <2>3. CASE p[1] = q
    <3>1. <<q, p[2] + 1>> \in Positions
      BY SMT, <2>1 DEF Positions
    <3>2. p \in Queued(us, type, e) <=>
            p[2] <= Len(ts[q]) - 1 /\ us[q][p[2]].type = type /\ us[q][p[2]].event = e
      BY <1>1, <2>1, <2>3 DEF Queued
    <3>3. <<q, p[2] + 1>> \in Queued(ts, type, e) <=>
            /\ p[2] + 1 <= Len(ts[q])
            /\ ts[q][p[2] + 1].type = type /\ ts[q][p[2] + 1].event = e
      BY <3>1 DEF Queued
    <3>4. Len(ts[q]) \in Nat
      BY SMT, <1>1
    <3>5. p[2] <= Len(ts[q]) - 1 => us[q][p[2]] = ts[q][p[2] + 1]
      BY SMT, <1>1, <2>1, <3>4
    <3> QED
      BY SMT, <2>1, <2>3, <3>2, <3>3, <3>4, <3>5 DEF Moved
  <2> QED
    BY <2>2, <2>3
<1>3. ASSUME NEW type, NEW e
      PROVE  Queued(us, type, e) = Moved(Queued(ts, type, e), q)
  <2> DEFINE A == Queued(us, type, e)
             B == Moved(Queued(ts, type, e), q)
  <2>1. A \in SUBSET Positions /\ B \in SUBSET Positions
    BY DEF Queued, Moved
  <2>2. \A p \in Positions : p \in A <=> p \in B
    BY <1>2
  <2> HIDE DEF A, B
  <2>3. A = B
    BY <2>1, <2>2, SameMembers
  <2> QED
    BY <2>3 DEF A, B
<1>4. ASSUME NEW e, NEW r \in Streams, NEW i \in Nat \ {0}, NEW p \in Positions
      PROVE  p \in Earlier(us, e, r, i) <=>
             p \in Moved(Earlier(ts, e, r, IF r = q THEN i + 1 ELSE i), q)
  <2>1. p = <<p[1], p[2]>> /\ p[1] \in Streams /\ p[2] \in Nat \ {0}
    BY SMT DEF Positions
  <2>2. p \in Earlier(us, e, r, i) <=> p \in Moved(Queued(ts, "RECORD", e), q) /\ p[1] = r /\ p[2] < i
    BY <1>3 DEF Earlier
  <2>3. CASE p[1] # q
    BY <2>1, <2>2, <2>3 DEF Moved, Earlier
  <2>4. CASE p[1] = q
    <3>1. <<q, p[2] + 1>>[1] = q /\ <<q, p[2] + 1>>[2] = p[2] + 1
      OBVIOUS
    <3> QED
      BY SMT, <2>1, <2>2, <2>4, <3>1 DEF Moved, Earlier
  <2> QED
    BY <2>3, <2>4
<1>5. ASSUME NEW e, NEW r \in Streams, NEW i \in Nat \ {0}
      PROVE  Earlier(us, e, r, i) = Moved(Earlier(ts, e, r, IF r = q THEN i + 1 ELSE i), q)
  <2> DEFINE A == Earlier(us, e, r, i)
             B == Moved(Earlier(ts, e, r, IF r = q THEN i + 1 ELSE i), q)
  <2>1. A \in SUBSET Positions /\ B \in SUBSET Positions
    BY DEF Earlier, Queued, Moved
  <2>2. \A p \in Positions : p \in A <=> p \in B
    BY <1>4
  <2> HIDE DEF A, B
  <2>3. A = B
    BY <2>1, <2>2, SameMembers
  <2> QED
    BY <2>3 DEF A, B
<1>6. ASSUME NEW type, NEW e
      PROVE  <<q, 1>> \in Queued(ts, type, e) <=>
             Head(ts[q]).type = type /\ Head(ts[q]).event = e
  <2>1. <<q, 1>> \in Positions
    BY SMT DEF Positions
  <2> QED
    BY <1>1, <2>1 DEF Queued
<1> QED
  BY <1>1, <1>3, <1>5, <1>6 DEF us

\* The tasks of us have the same records in front of them as in ts.
EarlierKept(ts, us) ==
    \A e : \A r \in Streams : \A i \in 1 .. Len(us[r]) : Earlier(us, e, r, i) = Earlier(ts, e, r, i)

\* Enqueueing a task in queue q.
LEMMA PutLast ==
    ASSUME NEW ts \in [Streams -> Seq(Tasks)], NEW q \in Streams, NEW k \in Tasks
    PROVE  /\ Put(ts, q, k) \in [Streams -> Seq(Tasks)]
           /\ \A type, e :
                /\ <<q, Len(ts[q]) + 1>> \notin Queued(ts, type, e)
                /\ Queued(Put(ts, q, k), type, e) =
                     IF k.type = type /\ k.event = e
                     THEN Queued(ts, type, e) \cup {<<q, Len(ts[q]) + 1>>} ELSE Queued(ts, type, e)
           /\ EarlierKept(ts, Put(ts, q, k))
<1> DEFINE n == Len(ts[q]) + 1
           us == Put(ts, q, k)
<1>1. /\ us \in [Streams -> Seq(Tasks)] /\ n \in Nat \ {0}
      /\ \A r \in Streams : r # q => us[r] = ts[r]
      /\ Len(us[q]) = n /\ us[q][n] = k
      /\ \A i \in 1 .. n - 1 : us[q][i] = ts[q][i]
  BY SMT DEF Put
<1> HIDE DEF us
<1>2. ASSUME NEW type, NEW e
      PROVE  /\ <<q, n>> \notin Queued(ts, type, e)
             /\ \A p \in Positions : p \in Queued(us, type, e) <=>
                  p \in Queued(ts, type, e) \/ (p = <<q, n>> /\ k.type = type /\ k.event = e)
  <2>1. <<q, n>>[1] = q /\ <<q, n>>[2] = n /\ <<q, n>> \in Positions
    BY <1>1 DEF Positions
  <2>2. <<q, n>> \notin Queued(ts, type, e)
    BY SMT, <1>1, <2>1 DEF Queued
  <2>3. ASSUME NEW p \in Positions
        PROVE  p \in Queued(us, type, e) <=>
                  p \in Queued(ts, type, e) \/ (p = <<q, n>> /\ k.type = type /\ k.event = e)
    <3>1. p = <<p[1], p[2]>> /\ p[1] \in Streams /\ p[2] \in Nat \ {0}
      BY SMT DEF Positions
    <3>2. CASE p[1] # q
      <4>1. us[p[1]] = ts[p[1]] /\ p # <<q, n>>
        BY <1>1, <2>1, <3>1, <3>2
      <4> QED
        BY <4>1 DEF Queued
    <3>3. CASE p = <<q, n>>
      BY SMT, <1>1, <2>1, <2>2, <3>3 DEF Queued
    <3>4. CASE p[1] = q /\ p[2] # n
      <4>1. p[2] <= n => p[2] \in 1 .. n - 1
        BY SMT, <1>1, <3>1, <3>4
      <4>2. n - 1 = Len(ts[q]) /\ p # <<q, n>>
        BY SMT, <1>1, <2>1, <3>4
      <4>3. p \in Queued(us, type, e) <=>
              p[2] <= n /\ us[q][p[2]].type = type /\ us[q][p[2]].event = e
        BY <1>1, <3>4 DEF Queued
      <4>4. p \in Queued(ts, type, e) <=>
              p[2] <= n - 1 /\ ts[q][p[2]].type = type /\ ts[q][p[2]].event = e
        BY <3>4, <4>2 DEF Queued
      <4>5. p[2] <= n <=> p[2] <= n - 1
        BY SMT, <1>1, <3>1, <3>4
      <4>6. p[2] <= n => us[q][p[2]] = ts[q][p[2]]
        BY <1>1, <4>1
      <4> QED
        BY <4>2, <4>3, <4>4, <4>5, <4>6
    <3> QED
      BY <3>1, <3>2, <3>3, <3>4
  <2> QED
    BY <2>2, <2>3
<1>3. ASSUME NEW type, NEW e
      PROVE  Queued(us, type, e) = IF k.type = type /\ k.event = e
                                THEN Queued(ts, type, e) \cup {<<q, n>>} ELSE Queued(ts, type, e)
  <2>1. /\ Queued(us, type, e) \subseteq Positions /\ Queued(ts, type, e) \subseteq Positions
        /\ <<q, n>> \in Positions
    BY <1>1 DEF Queued, Positions
  <2> DEFINE A == Queued(us, type, e)
             B == IF k.type = type /\ k.event = e
                  THEN Queued(ts, type, e) \cup {<<q, n>>} ELSE Queued(ts, type, e)
  <2>2. A \in SUBSET Positions /\ B \in SUBSET Positions
    BY <2>1
  <2>3. \A p \in Positions : p \in A <=> p \in B
    BY <1>2
  <2> HIDE DEF A, B
  <2>4. A = B
    BY <2>2, <2>3, SameMembers
  <2> QED
    BY <2>4 DEF A, B
<1>4. ASSUME NEW e, NEW r \in Streams, NEW i \in 1 .. Len(us[r])
      PROVE  Earlier(us, e, r, i) = Earlier(ts, e, r, i)
  <2>1. <<q, n>>[1] = q /\ <<q, n>>[2] = n /\ Len(us[r]) \in Nat
    BY SMT, <1>1
  <2>2. ~(<<q, n>>[1] = r /\ <<q, n>>[2] < i)
    BY SMT, <1>1, <2>1
  <2> QED
    BY ZenonT(60), <1>3, <2>2 DEF Earlier
<1>5. EarlierKept(ts, us)
  BY <1>4 DEF EarlierKept
<1> QED
  BY <1>1, <1>2, <1>3, <1>5 DEF us


\* Only thread t moves.
OthersRest(p, c, p2, c2, t) == \A u \in Threads \ {t} : p2[u] = p[u] /\ c2[u] = c[u]

\* A step of thread t adds it to the threads that submit a task, or removes it.
LEMMA MoveThread ==
    ASSUME FiniteFacts, NEW p, NEW c, NEW p2, NEW c2, NEW t \in Threads, NEW type, NEW e,
           OthersRest(p, c, p2, c2, t),
           IsFiniteSet(Submitting(p, c, type, e))
    PROVE  /\ IsFiniteSet(Submitting(p2, c2, type, e))
           /\ Cardinality(Submitting(p2, c2, type, e)) =
                Cardinality(Submitting(p, c, type, e))
                    + (IF t \in Submitting(p2, c2, type, e) THEN 1 ELSE 0)
                    - (IF t \in Submitting(p, c, type, e) THEN 1 ELSE 0)
<1> DEFINE S == Submitting(p, c, type, e)
           T == Submitting(p2, c2, type, e)
<1>1. S \ {t} = T \ {t}
  BY DEF Submitting, OthersRest
<1>2. Cardinality(S) \in Nat
  BY DEF FiniteFacts
<1>3. IsFiniteSet(S \ {t}) /\ Cardinality(S \ {t}) = IF t \in S THEN Cardinality(S) - 1
                                                    ELSE Cardinality(S)
  BY DEF FiniteFacts
<1>4. t \notin T \ {t}
  OBVIOUS
<1> HIDE DEF S, T
<1>5. CASE t \in T
  <2>1. T = (T \ {t}) \cup {t}
    BY <1>5
  <2>2. IsFiniteSet(T) /\ Cardinality(T) = Cardinality(T \ {t}) + 1
    BY ZenonT(60), <1>1, <1>3, <1>4, <2>1 DEF FiniteFacts
  <2> QED
    BY SMT, <1>1, <1>2, <1>3, <1>5, <2>2 DEF S, T
<1>6. CASE t \notin T
  <2>1. T = T \ {t}
    BY <1>6
  <2> QED
    BY SMT, <1>1, <1>2, <1>3, <1>6, <2>1 DEF S, T
<1> QED
  BY <1>5, <1>6

(***************************************************************************)
(* Types.                                                                  *)
(***************************************************************************)

\* The process starts well typed.
LEMMA TypeInit == Init => TypeOK
<1> SUFFICES ASSUME Init PROVE TypeOK
  OBVIOUS
<1>1. tasks \in [Streams -> Seq(Tasks)] /\ npu_events \in Seq(Events)
  BY SMT DEF Init
<1>2. \A q \in Streams : DOMAIN tasks[q] = {}
  BY SMT DEF Init
<1> QED
  BY <1>1, <1>2 DEF Init, TypeOK

\* A task goes to a queue of the process, the one of its stream.
LEMMA QueueType ==
    ASSUME TypeOK, NEW s \in Streams
    PROVE  QueueOf(s) \in Streams
BY ModeAssumption DEF QueueOf

\* The parts of TypeOK.
Labels == {"idle", "enqueue", "block", "look", "status", "true", "query"}
ThreadsOK ==
    /\ pc \in [Threads -> Labels]
    /\ call \in [Threads -> Tasks \cup {<<>>}]
    /\ \A t \in Threads : pc[t] # "idle" => call[t] \in Tasks
CountersOK ==
    /\ unrecorded \in [Events -> Nat] /\ unwaited \in [Events -> Nat]
    /\ issued \in [Events -> Nat] /\ launched \in [Events -> Nat] /\ done \in [Events -> Nat]
    /\ devwaits \in [Events -> Nat] /\ missed \subseteq Events
ManagerOK == npu_events \in Seq(Events) /\ pool \subseteq Events /\ destroyed \subseteq Events
SettingsOK ==
    /\ mode \in Modes /\ obj \in [Events -> {"new", "live", "dead"}]
    /\ status \in [Streams -> {"RUN", "DEVICE", "ERROR", "EXIT"}]
    /\ consumer \in [Streams -> {"read", "check", "clear", "asleep", "loop"}]

\* The queues keep their type and every task sits in the queue of its stream.
QueuesOK(ts, m) ==
    /\ ts \in [Streams -> Seq(Tasks)]
    /\ \A q \in Streams : \A i \in DOMAIN ts[q] :
         q = IF m.PerStreamQueue THEN ts[q][i].stream ELSE DefaultStream

\* WriteQueue keeps every queue well typed and in the place its tasks belong to.
LEMMA QueuesPut ==
    ASSUME NEW ts, NEW m, QueuesOK(ts, m), NEW k \in Tasks, NEW q \in Streams,
           q = IF m.PerStreamQueue THEN k.stream ELSE DefaultStream
    PROVE  QueuesOK(Put(ts, q, k), m)
<1> DEFINE us == Put(ts, q, k)
<1>1. /\ us \in [Streams -> Seq(Tasks)]
      /\ \A r \in Streams : r # q => us[r] = ts[r]
      /\ ts[q] \in Seq(Tasks) /\ us[q] = Append(ts[q], k)
  BY SMT DEF QueuesOK, Put
<1>2. ASSUME NEW i \in DOMAIN us[q]
      PROVE  us[q][i] = k \/ (i \in DOMAIN ts[q] /\ us[q][i] = ts[q][i])
  BY SMT, <1>1
<1> HIDE DEF us
<1>3. ASSUME NEW r \in Streams, NEW i \in DOMAIN us[r]
      PROVE  r = IF m.PerStreamQueue THEN us[r][i].stream ELSE DefaultStream
  <2>1. CASE r = q
    <3>1. CASE m.PerStreamQueue
      BY SMTT(30), <1>1, <1>2, <1>3, <2>1, <3>1 DEF QueuesOK
    <3>2. CASE ~m.PerStreamQueue
      BY <1>1, <1>2, <1>3, <2>1, <3>2 DEF QueuesOK
    <3> QED
      BY <3>1, <3>2
  <2>2. CASE r # q
    BY SMT, <1>1, <1>3, <2>2 DEF QueuesOK
  <2> QED
    BY <2>1, <2>2
<1>4. QueuesOK(us, m)
  BY <1>1, <1>3 DEF QueuesOK
<1> QED
  BY <1>4 DEF us

\* ReadQueue keeps them so, and what it takes is a task.
LEMMA QueuesTake ==
    ASSUME NEW ts, NEW m, QueuesOK(ts, m), NEW q \in Streams, ts[q] # <<>>
    PROVE  QueuesOK(Take(ts, q), m) /\ Head(ts[q]) \in Tasks
<1> DEFINE us == Take(ts, q)
<1>1. /\ us \in [Streams -> Seq(Tasks)] /\ Head(ts[q]) \in Tasks
      /\ \A r \in Streams : r # q => us[r] = ts[r]
      /\ ts[q] \in Seq(Tasks) /\ us[q] = Tail(ts[q])
  BY SMT DEF QueuesOK, Take
<1>2. ASSUME NEW i \in DOMAIN us[q]
      PROVE  i + 1 \in DOMAIN ts[q] /\ us[q][i] = ts[q][i + 1]
  BY SMT, <1>1
<1> HIDE DEF us
<1>3. ASSUME NEW r \in Streams, NEW i \in DOMAIN us[r]
      PROVE  r = IF m.PerStreamQueue THEN us[r][i].stream ELSE DefaultStream
  <2>1. CASE r = q
    <3>1. CASE m.PerStreamQueue
      BY SMT, <1>1, <1>2, <1>3, <2>1, <3>1 DEF QueuesOK
    <3>2. CASE ~m.PerStreamQueue
      BY <1>1, <1>2, <1>3, <2>1, <3>2 DEF QueuesOK
    <3> QED
      BY <3>1, <3>2
  <2>2. CASE r # q
    BY <1>1, <1>3, <2>2 DEF QueuesOK
  <2> QED
    BY <2>1, <2>2
<1>4. QueuesOK(us, m)
  BY <1>1, <1>3 DEF QueuesOK
<1> QED
  BY <1>1, <1>4 DEF us

\* The type invariant by the groups of variables an action writes together.
LEMMA TypeParts ==
    TypeOK <=> ThreadsOK /\ CountersOK /\ ManagerOK /\ SettingsOK /\ QueuesOK(tasks, mode)
BY DEF TypeOK, ThreadsOK, CountersOK, ManagerOK, SettingsOK, QueuesOK, QueueOf, PerStreamQueue, Labels

\* The same after a step.
LEMMA TypePartsNext ==
    ASSUME ThreadsOK', CountersOK', ManagerOK', SettingsOK', QueuesOK(tasks', mode')
    PROVE  TypeOK'
BY DEF TypeOK, ThreadsOK, CountersOK, ManagerOK, SettingsOK, QueuesOK, QueueOf, PerStreamQueue, Labels

\* A thread that begins, continues or ends a call: only its pc and call change.
LEMMA Moves ==
    ASSUME ThreadsOK, NEW t \in Threads, NEW l \in Labels, NEW k, Goto(t, l),
           call' = [call EXCEPT ![t] = k] \/ (UNCHANGED call /\ k = call[t]),
           (k = <<>> /\ l = "idle") \/ k \in Tasks
    PROVE  /\ ThreadsOK'
           /\ pc'[t] = l /\ call'[t] = k
           /\ OthersRest(pc, call, pc', call', t)
BY DEF ThreadsOK, Goto, Labels, OthersRest

\* A thread that ends its call.
LEMMA Returns ==
    ASSUME ThreadsOK, NEW t \in Threads, Return(t)
    PROVE  /\ ThreadsOK'
           /\ pc'[t] = "idle" /\ call'[t] = <<>>
           /\ OthersRest(pc, call, pc', call', t)
BY Moves DEF Return, Labels

\* A call carries its type, event, stream and the records it saw.
LEMMA TaskFields ==
    ASSUME NEW type \in TaskType, NEW e \in Events, NEW s \in Streams, NEW n \in Nat
    PROVE  /\ Task(type, e, s, n) \in Tasks
           /\ Task(type, e, s, n).type = type /\ Task(type, e, s, n).event = e
           /\ Task(type, e, s, n).stream = s /\ Task(type, e, s, n).seen = n
BY DEF Task, Tasks

\* Counting up and down.
LEMMA CountUp ==
    ASSUME NEW f \in [Events -> Nat], NEW e \in Events
    PROVE  [f EXCEPT ![e] = @ + 1] \in [Events -> Nat]
BY SMT

\* A counter that is positive can be decremented.
LEMMA CountDown ==
    ASSUME NEW f \in [Events -> Nat], NEW e \in Events, f[e] > 0
    PROVE  [f EXCEPT ![e] = @ - 1] \in [Events -> Nat]
BY SMT

\* Every step keeps the types.
LEMMA TypeNext == TypeOK /\ [Next]_vars => TypeOK'
<1> SUFFICES ASSUME TypeOK, [Next]_vars PROVE TypeOK'
  OBVIOUS
<1>0. ThreadsOK /\ CountersOK /\ ManagerOK /\ SettingsOK /\ QueuesOK(tasks, mode)
  BY TypeParts
<1>1. ASSUME NEW t \in Threads, NEW e \in Events, NEW s \in Streams, Record(t, e, s), UNCHANGED mode
      PROVE  TypeOK'
  <2>1. ThreadsOK'
    <3>1. CASE s \notin SyncLaunch
      BY SMT, <1>0, <1>1, <3>1, Moves, TaskFields DEF Record, Begin, Labels, TaskType
    <3>2. CASE s \in SyncLaunch
      BY <1>0, <1>1, <3>2, Moves DEF Record, Begin, Labels
    <3> QED
      BY <3>1, <3>2
  <2>2. CountersOK'
    <3>1. CASE s \notin SyncLaunch
      <4>1. unrecorded' = [unrecorded EXCEPT ![e] = @ + 1] /\ UNCHANGED <<issued, device, unwaited>>
        BY <1>1, <3>1 DEF Record, IncreaseUnrecordedCount
      <4> QED
        BY <1>0, <4>1, CountUp DEF CountersOK
    <3>2. CASE s \in SyncLaunch
      <4>1. /\ launched' = [launched EXCEPT ![e] = @ + 1] /\ issued' = [issued EXCEPT ![e] = @ + 1]
            /\ UNCHANGED <<counts, done, devwaits, missed>>
        BY <1>1, <3>2 DEF Record, AclRecord, Issued
      <4> QED
        BY <1>0, <4>1, CountUp DEF CountersOK
    <3> QED
      BY <3>1, <3>2
  <2>3. ManagerOK' /\ SettingsOK' /\ QueuesOK(tasks', mode')
    BY <1>0, <1>1 DEF Record, ManagerOK, SettingsOK
  <2> QED
    BY <2>1, <2>2, <2>3, TypePartsNext
<1>2. ASSUME NEW t \in Threads, NEW e \in Events, NEW s \in Streams, Block(t, e, s), UNCHANGED mode
      PROVE  TypeOK'
  <2>1. ThreadsOK'
    <3>1. issued[e] \in Nat
      BY <1>0 DEF CountersOK
    <3>2. Task("WAIT", e, s, issued[e]) \in Tasks
      BY <3>1, TaskFields DEF TaskType
    <3>3. Goto(t, "block") /\ call' = [call EXCEPT ![t] = Task("WAIT", e, s, issued[e])]
      BY <1>2 DEF Block, Begin
    <3> QED
      BY <1>0, <3>2, <3>3, Moves DEF Labels
  <2>2. CountersOK' /\ ManagerOK' /\ SettingsOK' /\ QueuesOK(tasks', mode')
    BY <1>0, <1>2 DEF Block, CountersOK, ManagerOK, SettingsOK
  <2> QED
    BY <2>1, <2>2, TypePartsNext
<1>3. ASSUME NEW t \in Threads, NEW e \in Events, NEW s \in Streams, Destruct(t, e, s), UNCHANGED mode
      PROVE  TypeOK'
  <2>1. ThreadsOK'
    <3>1. CASE s \notin SyncLaunch
      BY SMT, <1>0, <1>3, <3>1, Moves, TaskFields DEF Destruct, Begin, Labels, TaskType
    <3>2. CASE s \in SyncLaunch /\ DestroyAtOnce(e)
      BY <1>0, <1>3, <3>2, Moves DEF Destruct, Begin, Labels
    <3>3. CASE s \in SyncLaunch /\ ~DestroyAtOnce(e)
      BY SMT, <1>0, <1>3, <3>3, Moves, TaskFields DEF Destruct, Begin, Labels, TaskType
    <3> QED
      BY <3>1, <3>2, <3>3
  <2>2. ManagerOK'
    BY SMTT(30), <1>0, <1>3 DEF Destruct, ManagerOK, LazyDestroy
  <2>3. CountersOK' /\ SettingsOK' /\ QueuesOK(tasks', mode')
    BY <1>0, <1>3 DEF Destruct, CountersOK, SettingsOK
  <2> QED
    BY <2>1, <2>2, <2>3, TypePartsNext
<1>4. ASSUME NEW t \in Threads, NEW e \in Events, NEW op \in {"query", "synchronize"},
             Look(t, op, e), UNCHANGED mode
      PROVE  TypeOK'
  <2>1. ThreadsOK'
    <3>1. issued[e] \in Nat /\ DefaultStream \in Streams
      BY <1>0, ModeAssumption DEF CountersOK
    <3>2. Task(op, e, DefaultStream, issued[e]) \in Tasks
      BY <3>1, TaskFields DEF TaskType
    <3>3. Goto(t, "look") /\ call' = [call EXCEPT ![t] = Task(op, e, DefaultStream, issued[e])]
      BY <1>4 DEF Look, Begin
    <3> QED
      BY <1>0, <3>2, <3>3, Moves DEF Labels
  <2>2. CountersOK' /\ ManagerOK' /\ SettingsOK' /\ QueuesOK(tasks', mode')
    BY <1>0, <1>4 DEF Look, CountersOK, ManagerOK, SettingsOK
  <2> QED
    BY <2>1, <2>2, TypePartsNext
<1>5. ASSUME NEW t \in Threads, LaunchWaitTask(t), UNCHANGED mode
      PROVE  TypeOK'
  <2>0. call[t] \in Tasks /\ call[t].event \in Events
    BY <1>0, <1>5 DEF LaunchWaitTask, ThreadsOK, Tasks
  <2>1. ThreadsOK'
    <3>1. CASE call[t].stream \notin SyncLaunch
      BY <1>0, <1>5, <2>0, <3>1, Moves DEF LaunchWaitTask, Labels
    <3>2. CASE call[t].stream \in SyncLaunch
      BY <1>0, <1>5, <3>2, Returns DEF LaunchWaitTask
    <3> QED
      BY <3>1, <3>2
  <2>2. CountersOK'
    BY SMT, <1>0, <1>5, <2>0 DEF LaunchWaitTask, CountersOK, IncreaseUnwaitedCount, AclWait
  <2>3. ManagerOK' /\ SettingsOK' /\ QueuesOK(tasks', mode')
    BY <1>0, <1>5 DEF LaunchWaitTask, ManagerOK, SettingsOK
  <2> QED
    BY <2>1, <2>2, <2>3, TypePartsNext
<1>6. ASSUME NEW t \in Threads, Enqueue(t), UNCHANGED mode
      PROVE  TypeOK'
  <2>0. call[t] \in Tasks /\ call[t].event \in Events /\ call[t].stream \in Streams
    BY <1>0, <1>6 DEF Enqueue, ThreadsOK, Tasks
  <2> DEFINE q == QueueOf(call[t].stream)
  <2>1. q \in Streams /\ q = IF mode.PerStreamQueue THEN call[t].stream ELSE DefaultStream
    BY <2>0, QueueType DEF QueueOf, PerStreamQueue
  <2>2. ThreadsOK'
    <3>1. CASE Return(t)
      BY <1>0, <3>1, Returns
    <3>2. CASE Goto(t, "query") /\ UNCHANGED call
      BY <1>0, <2>0, <3>2, Moves DEF Labels
    <3> QED
      BY <1>6, <3>1, <3>2 DEF Enqueue
  <2>3. QueuesOK(tasks', mode')
    <3>1. CASE status[q] = "RUN"
      <4>1. tasks' = [tasks EXCEPT ![q] = Append(@, call[t])]
        BY <1>6, <3>1 DEF Enqueue
      <4> QED
        BY ZenonT(60), <1>0, <1>6, <2>0, <2>1, <4>1, QueuesPut DEF Put
    <3>2. CASE status[q] # "RUN"
      <4>1. tasks' = tasks
        BY <1>6, <3>2 DEF Enqueue
      <4> QED
        BY <1>0, <1>6, <4>1
    <3> QED
      BY <3>1, <3>2
  <2>4. CountersOK'
    <3>1. UNCHANGED issued \/ Issued(call[t].event)
      BY <1>6 DEF Enqueue
    <3>2. issued' \in [Events -> Nat]
      BY SMT, <1>0, <2>0, <3>1 DEF CountersOK, Issued
    <3> QED
      BY <1>0, <1>6, <3>2 DEF Enqueue, CountersOK
  <2>5. SettingsOK'
    BY <1>0, <1>6, <2>1 DEF Enqueue, SettingsOK
  <2>6. ManagerOK'
    BY <1>0, <1>6 DEF Enqueue, ManagerOK
  <2> QED
    BY <2>2, <2>3, <2>4, <2>5, <2>6, TypePartsNext
<1>7. ASSUME NEW t \in Threads, LookCount(t) \/ LookStatus(t), UNCHANGED mode
      PROVE  TypeOK'
  <2>0. call[t] \in Tasks
    BY <1>0, <1>7 DEF LookCount, LookStatus, ThreadsOK
  <2>1. ThreadsOK'
    <3>1. CASE Return(t)
      BY <1>0, <3>1, Returns
    <3>2. ASSUME NEW l \in {"status", "true"}, Goto(t, l), UNCHANGED call
          PROVE  ThreadsOK'
      BY <1>0, <2>0, <3>2, Moves DEF Labels
    <3> QED
      BY ZenonT(60), <1>7, <3>1, <3>2 DEF LookCount, LookStatus
  <2>2. CountersOK' /\ ManagerOK' /\ SettingsOK' /\ QueuesOK(tasks', mode')
    BY <1>0, <1>7 DEF LookCount, LookStatus, CountersOK, ManagerOK, SettingsOK
  <2> QED
    BY <2>1, <2>2, TypePartsNext
<1>8. ASSUME NEW t \in Threads, QueryAndDestroyEvent(t), UNCHANGED mode
      PROVE  TypeOK'
  <2>1. ThreadsOK'
    BY ZenonT(60), <1>0, <1>8, Returns DEF QueryAndDestroyEvent
  <2>2. ManagerOK'
    <3>1. PICK n \in 0 .. Len(npu_events) :
            /\ pool' = pool \cup {npu_events[i] : i \in 1 .. n}
            /\ npu_events' = SubSeq(npu_events, n + 1, Len(npu_events))
      BY <1>8 DEF QueryAndDestroyEvent
    <3>2. npu_events \in Seq(Events) /\ Len(npu_events) \in Nat /\ n \in Nat
      BY SMT, <1>0 DEF ManagerOK
    <3>3. \A i \in 1 .. n : npu_events[i] \in Events
      BY SMT, <3>2
    <3>4. SubSeq(npu_events, n + 1, Len(npu_events)) \in Seq(Events)
      BY SMT, <3>2
    <3> QED
      BY <1>0, <1>8, <3>1, <3>3, <3>4 DEF ManagerOK, QueryAndDestroyEvent
  <2>3. CountersOK' /\ SettingsOK' /\ QueuesOK(tasks', mode')
    BY <1>0, <1>8 DEF QueryAndDestroyEvent, CountersOK, SettingsOK
  <2> QED
    BY <2>1, <2>2, <2>3, TypePartsNext
<1>9. ASSUME NEW q \in Streams, Launch(q), UNCHANGED mode
      PROVE  TypeOK'
  <2>0. /\ tasks[q] # <<>> /\ tasks' = [tasks EXCEPT ![q] = Tail(@)]
        /\ UNCHANGED <<obj, status, consumer, pc, call, issued, budget>>
    BY <1>9 DEF Launch
  <2>1. QueuesOK(tasks', mode') /\ Head(tasks[q]) \in Tasks
    BY <1>0, <1>9, <2>0, QueuesTake DEF Take
  <2>2. ThreadsOK' /\ SettingsOK'
    BY <1>0, <1>9, <2>0 DEF ThreadsOK, SettingsOK
  <2> DEFINE e == Head(tasks[q]).event
  <2>3. e \in Events
    BY <2>1 DEF Tasks
  <2>4. CountersOK' /\ ManagerOK'
    <3>1. CASE RecordEventFunc(q, e)
      <4>1. /\ launched' = [launched EXCEPT ![e] = @ + 1] /\ unrecorded[e] > 0
            /\ unrecorded' = [unrecorded EXCEPT ![e] = @ - 1]
            /\ UNCHANGED <<unwaited, manager, done, devwaits, missed>>
        BY <3>1 DEF RecordEventFunc, AclRecord, DecreaseUnrecordedCount
      <4> HIDE DEF e
      <4> QED
        BY <1>0, <2>0, <2>3, <4>1, CountUp, CountDown DEF CountersOK, ManagerOK
    <3>2. CASE WaitEventFunc(q, e)
      <4>1. /\ devwaits' = [devwaits EXCEPT ![e] = @ + 1] /\ unwaited[e] > 0
            /\ unwaited' = [unwaited EXCEPT ![e] = @ - 1]
            /\ missed' = missed \/ missed' = missed \cup {e}
            /\ UNCHANGED <<unrecorded, manager, launched, done>>
        BY <3>2 DEF WaitEventFunc, AclWait, DecreaseUnwaitedCount
      <4> HIDE DEF e
      <4>2. missed' \subseteq Events
        BY <1>0, <2>3, <4>1 DEF CountersOK
      <4>3. devwaits' \in [Events -> Nat] /\ unwaited' \in [Events -> Nat]
        BY <1>0, <2>3, <4>1, CountUp, CountDown DEF CountersOK
      <4> QED
        BY <1>0, <2>0, <4>1, <4>2, <4>3 DEF CountersOK, ManagerOK
    <3>3. CASE LazyDestroyEventFunc(q, e)
      <4>1. LazyDestroy(e) /\ UNCHANGED <<counts, device>>
        BY <3>3 DEF LazyDestroyEventFunc
      <4> HIDE DEF e
      <4>2. CountersOK'
        BY <1>0, <2>0, <4>1 DEF CountersOK
      <4>3. ManagerOK'
        BY SMT, <1>0, <2>3, <4>1 DEF LazyDestroy, ManagerOK
      <4> QED
        BY <4>2, <4>3
    <3> QED
      BY <1>9, <3>1, <3>2, <3>3 DEF Launch
  <2> QED
    BY <2>1, <2>2, <2>4, TypePartsNext
<1>10. ASSUME NEW q \in Streams, FailureStep(q), UNCHANGED mode
       PROVE  TypeOK'
  <2>1. QueuesOK(tasks', mode')
    <3>0. CASE CheckDeviceError(q)
      BY <1>0, <1>10, <3>0 DEF CheckDeviceError
    <3>1. CASE tasks' = [tasks EXCEPT ![q] = <<>>]
      <4>2. tasks' \in [Streams -> Seq(Tasks)]
        BY SMT, <1>0, <3>1 DEF QueuesOK
      <4>3. DOMAIN tasks'[q] = {} /\ \A r \in Streams : r # q => tasks'[r] = tasks[r]
        BY SMT, <1>0, <3>1 DEF QueuesOK
      <4>4. ASSUME NEW r \in Streams, NEW i \in DOMAIN tasks'[r]
            PROVE  r = IF mode.PerStreamQueue THEN tasks'[r][i].stream ELSE DefaultStream
        BY <1>0, <4>3, <4>4 DEF QueuesOK
      <4> QED
        BY <1>10, <4>2, <4>4 DEF QueuesOK
    <3> QED
      BY <1>10, <3>0, <3>1 DEF FailureStep, LaunchFails, ClearAfterError, DeviceErrorLoop, Drop
  <2>2. CountersOK'
    <3>1. CASE LaunchFails(q) /\ tasks[q] # <<>>
      <4>1. Head(tasks[q]) \in Tasks
        BY <1>0, <3>1, QueuesTake
      <4>2. PICK e \in Events : e = Head(tasks[q]).event
        BY <4>1 DEF Tasks
      <4>3. /\ \/ unrecorded[e] > 0 /\ unrecorded' = [unrecorded EXCEPT ![e] = @ - 1]
               \/ UNCHANGED unrecorded
            /\ \/ unwaited[e] > 0 /\ unwaited' = [unwaited EXCEPT ![e] = @ - 1]
               \/ UNCHANGED unwaited
            /\ UNCHANGED <<issued, device>>
        BY ZenonT(60), <3>1, <4>2 DEF LaunchFails, DecreaseUnrecordedCount, DecreaseUnwaitedCount, counts
      <4>4. unrecorded' \in [Events -> Nat] /\ unwaited' \in [Events -> Nat]
        <5>1. unrecorded \in [Events -> Nat] /\ unwaited \in [Events -> Nat]
          BY <1>0 DEF CountersOK
        <5>2. unrecorded' \in [Events -> Nat]
          BY SMT, <4>2, <4>3, <5>1
        <5>3. unwaited' \in [Events -> Nat]
          BY SMT, <4>2, <4>3, <5>1
        <5> QED
          BY <5>2, <5>3
      <4> QED
        BY <1>0, <4>3, <4>4 DEF CountersOK, device
    <3>2. CASE LaunchFails(q) /\ tasks[q] = <<>>
      BY <1>0, <3>2 DEF LaunchFails, CountersOK, counts, device
    <3>3. CASE CheckDeviceError(q)
      BY <1>0, <3>3 DEF CheckDeviceError, CountersOK, counts, device
    <3>4. CASE ClearAfterError(q) \/ DeviceErrorLoop(q)
      BY SMT, <1>0, <3>4 DEF ClearAfterError, DeviceErrorLoop, ClearUnrecordedCount, CountersOK, device
    <3> QED
      BY <1>10, <3>1, <3>2, <3>3, <3>4 DEF FailureStep
  <2>3. SettingsOK'
    <3>1. /\ consumer' = consumer \/ \E c \in {"check", "clear", "asleep", "loop"} :
                consumer' = [consumer EXCEPT ![q] = c]
          /\ status' = status \/ \E s \in FailStatus : status' = [status EXCEPT ![q] = s]
          /\ UNCHANGED obj
      BY <1>10 DEF FailureStep, LaunchFails, CheckDeviceError, ClearAfterError, DeviceErrorLoop, Consumer
    <3> QED
      BY <1>0, <1>10, <3>1, StatusAssumption DEF SettingsOK
  <2>4. ManagerOK' /\ ThreadsOK'
    BY <1>0, <1>10 DEF FailureStep, LaunchFails, CheckDeviceError, ClearAfterError, DeviceErrorLoop, ManagerOK, ThreadsOK
  <2> QED
    BY <2>1, <2>2, <2>3, <2>4, TypePartsNext
<1>11. ASSUME NEW e \in Events, Run(e) \/ DeviceRecord(e) \/ DeviceWait(e), UNCHANGED mode
       PROVE  TypeOK'
  <2>1. CountersOK'
    BY SMT, <1>0, <1>11 DEF Run, DeviceRecord, DeviceWait, CountersOK
  <2>2. ManagerOK'
    BY <1>0, <1>11 DEF Run, DeviceRecord, DeviceWait, ManagerOK
  <2>3. ThreadsOK' /\ SettingsOK' /\ QueuesOK(tasks', mode')
    BY <1>0, <1>11 DEF Run, DeviceRecord, DeviceWait, ThreadsOK, SettingsOK
  <2> QED
    BY <2>1, <2>2, <2>3, TypePartsNext
<1>12. CASE UNCHANGED vars
  BY <1>0, <1>12, TypePartsNext DEF vars, ThreadsOK, CountersOK, ManagerOK, SettingsOK
<1> QED
  BY <1>1, <1>2, <1>3, <1>4, <1>5, <1>6, <1>7, <1>8, <1>9, <1>10, <1>11, <1>12 DEF Next, ThreadStep

(***************************************************************************)
(* Without failures the queues run, and threads submit what they count.    *)
(***************************************************************************)

\* No launch fails, and a stream bypasses the task queue only if each has its own.
Ordered == MaxFaults = 0 /\ \A m \in Modes : m.SyncLaunch # {} => m.PerStreamQueue

Submitted == {"RECORD", "WAIT", "DESTROY"}
Healthy ==
    /\ faults = 0
    /\ \A q \in Streams : status[q] = "RUN" /\ consumer[q] = "read"
    /\ \A t \in Threads :
        /\ pc[t] = "enqueue" => call[t].type \in Submitted
        /\ pc[t] = "block" => call[t].type = "WAIT"
        /\ pc[t] = "query" => call[t].type = "DESTROY"
        /\ pc[t] \in {"look", "status", "true"} => call[t].type \in {"query", "synchronize"}

\* The queues stay as they are at the start, and a call is what its thread does.
LEMMA HealthyInit == ASSUME MaxFaults = 0 PROVE Init => Healthy
BY DEF Init, Healthy

\* Without faults no queue leaves RUN and no submission is refused.
LEMMA HealthyNext == TypeOK /\ Healthy /\ [Next]_vars => Healthy'
<1> SUFFICES ASSUME TypeOK, Healthy, [Next]_vars PROVE Healthy'
  OBVIOUS
<1>0. ThreadsOK /\ CountersOK
  BY TypeParts
<1>1. ASSUME NEW t \in Threads, NEW e \in Events, NEW s \in Streams, Record(t, e, s)
      PROVE  Healthy'
  <2>1. UNCHANGED <<status, consumer, faults>>
    BY <1>1 DEF Record
  <2>2. CASE s \notin SyncLaunch
    <3>1. Goto(t, "enqueue") /\ call' = [call EXCEPT ![t] = Task("RECORD", e, s, 0)]
      BY <1>1, <2>2 DEF Record, Begin
    <3> QED
      BY <1>0, <2>1, <3>1 DEF Healthy, Goto, Task, Submitted, ThreadsOK
  <2>3. CASE s \in SyncLaunch
    <3>1. Goto(t, "idle") /\ call' = [call EXCEPT ![t] = <<>>]
      BY <1>1, <2>3 DEF Record, Begin
    <3> QED
      BY <1>0, <2>1, <3>1 DEF Healthy, Goto, ThreadsOK
  <2> QED
    BY <2>2, <2>3
<1>2. ASSUME NEW t \in Threads, NEW e \in Events, NEW s \in Streams, Block(t, e, s)
      PROVE  Healthy'
  BY <1>0, <1>2 DEF Block, Begin, Healthy, Goto, Task, ThreadsOK
<1>3. ASSUME NEW t \in Threads, NEW e \in Events, NEW s \in Streams, Destruct(t, e, s)
      PROVE  Healthy'
  <2>1. UNCHANGED <<status, consumer, faults>>
    BY <1>3 DEF Destruct
  <2>2. CASE Goto(t, "idle") /\ call' = [call EXCEPT ![t] = <<>>]
    BY <1>0, <2>1, <2>2 DEF Healthy, Goto, ThreadsOK
  <2>3. ASSUME NEW l \in {"enqueue", "query"}, Goto(t, l),
               call' = [call EXCEPT ![t] = Task("DESTROY", e, s, 0)]
        PROVE  Healthy'
    BY <1>0, <2>1, <2>3 DEF Healthy, Goto, Task, Submitted, ThreadsOK
  <2> QED
    BY <1>3, <2>2, <2>3 DEF Destruct, Begin
<1>4. ASSUME NEW t \in Threads, NEW e \in Events, NEW op \in {"query", "synchronize"}, Look(t, op, e)
      PROVE  Healthy'
  BY <1>0, <1>4 DEF Look, Begin, Healthy, Goto, Task, ThreadsOK
<1>5. ASSUME NEW t \in Threads, LaunchWaitTask(t)
      PROVE  Healthy'
  BY SMT, <1>0, <1>5 DEF LaunchWaitTask, Return, Healthy, Goto, Submitted, ThreadsOK
<1>6. ASSUME NEW t \in Threads, Enqueue(t)
      PROVE  Healthy'
  <2>1. call[t].stream \in Streams
    BY ZenonT(60), <1>0, <1>6 DEF Enqueue, ThreadsOK, Tasks
  <2>2. status[QueueOf(call[t].stream)] = "RUN"
    BY <2>1, QueueType DEF Healthy
  <2>3. UNCHANGED <<status, consumer, faults>>
    BY <1>6, <2>2 DEF Enqueue
  <2>4. CASE Return(t)
    BY <1>0, <2>3, <2>4 DEF Healthy, Return, Goto, ThreadsOK
  <2>5. CASE Goto(t, "query") /\ UNCHANGED call /\ call[t].type = "DESTROY"
    BY <1>0, <2>3, <2>5 DEF Healthy, Goto, ThreadsOK
  <2> QED
    BY <1>6, <2>4, <2>5 DEF Enqueue
<1>7. ASSUME NEW t \in Threads, LookCount(t) \/ LookStatus(t) \/ QueryAndDestroyEvent(t)
      PROVE  Healthy'
  BY SMT, <1>0, <1>7 DEF LookCount, LookStatus, QueryAndDestroyEvent, Return, Healthy, Goto, ThreadsOK
<1>8. ASSUME NEW q \in Streams, Launch(q)
      PROVE  Healthy'
  BY ZenonT(60), <1>8 DEF Launch, Healthy
<1>9. ASSUME NEW q \in Streams, FailureStep(q)
      PROVE  Healthy'
  BY SMT, <1>9 DEF FailureStep, LaunchFails, CheckDeviceError, ClearAfterError, DeviceErrorLoop, Healthy
<1>10. ASSUME NEW e \in Events, Run(e) \/ DeviceRecord(e) \/ DeviceWait(e)
       PROVE  Healthy'
  BY <1>10 DEF Run, DeviceRecord, DeviceWait, Healthy
<1>11. CASE UNCHANGED vars
  BY ZenonT(60), <1>11 DEF vars, Healthy
<1> QED
  BY <1>1, <1>2, <1>3, <1>4, <1>5, <1>6, <1>7, <1>8, <1>9, <1>10, <1>11 DEF Next, ThreadStep

(***************************************************************************)
(* The counts of NPUEventManager are the tasks on their way.               *)
(***************************************************************************)

\* n counts the tasks of a type for an event that are queued or being submitted.
Counted(n, ts, p, c, type, e) ==
    /\ IsFiniteSet(Queued(ts, type, e)) /\ IsFiniteSet(Submitting(p, c, type, e))
    /\ n = Cardinality(Queued(ts, type, e)) + Cardinality(Submitting(p, c, type, e))

\* unrecorded and unwaited count the records and waits on their way; the records
\* that were made and not launched are queued.
CountInv ==
    \A e \in Events :
        /\ Counted(unrecorded[e], tasks, pc, call, "RECORD", e)
        /\ Counted(unwaited[e], tasks, pc, call, "WAIT", e)
        /\ issued[e] = launched[e] + Cardinality(Queued(tasks, "RECORD", e))

\* A thread goes from counting a task to submitting it.
LEMMA CountedSubmit ==
    ASSUME FiniteFacts, NEW n, NEW ts, NEW p, NEW c, NEW p2, NEW c2, NEW type, NEW e, NEW t \in Threads,
           Counted(n, ts, p, c, type, e),
           OthersRest(p, c, p2, c2, t),
           p[t] # "enqueue", p2[t] = "enqueue"
    PROVE  Counted(IF c2[t].type = type /\ c2[t].event = e THEN n + 1 ELSE n, ts, p2, c2, type, e)
<1>1. t \notin Submitting(p, c, type, e)
  BY DEF Submitting
<1>2. t \in Submitting(p2, c2, type, e) <=> c2[t].type = type /\ c2[t].event = e
  BY DEF Submitting
<1>3. /\ IsFiniteSet(Submitting(p2, c2, type, e))
      /\ Cardinality(Submitting(p2, c2, type, e)) = Cardinality(Submitting(p, c, type, e))
            + (IF t \in Submitting(p2, c2, type, e) THEN 1 ELSE 0)
            - (IF t \in Submitting(p, c, type, e) THEN 1 ELSE 0)
  BY SMT, MoveThread DEF Counted
<1>4. Cardinality(Submitting(p, c, type, e)) \in Nat /\ Cardinality(Queued(ts, type, e)) \in Nat
  BY DEF Counted, FiniteFacts
<1> QED
  BY SMT, <1>1, <1>2, <1>3, <1>4 DEF Counted

\* A thread that has submitted its task.
LEMMA SubmitEnds ==
    ASSUME FiniteFacts, NEW p, NEW c, NEW p2, NEW c2, NEW type, NEW e, NEW t \in Threads,
           IsFiniteSet(Submitting(p, c, type, e)),
           OthersRest(p, c, p2, c2, t),
           p[t] = "enqueue", p2[t] # "enqueue"
    PROVE  /\ IsFiniteSet(Submitting(p2, c2, type, e))
           /\ Cardinality(Submitting(p2, c2, type, e)) = Cardinality(Submitting(p, c, type, e))
                - (IF c[t].type = type /\ c[t].event = e THEN 1 ELSE 0)
<1>1. t \notin Submitting(p2, c2, type, e)
  BY DEF Submitting
<1>2. t \in Submitting(p, c, type, e) <=> c[t].type = type /\ c[t].event = e
  BY DEF Submitting
<1>3. /\ IsFiniteSet(Submitting(p2, c2, type, e))
      /\ Cardinality(Submitting(p2, c2, type, e)) = Cardinality(Submitting(p, c, type, e))
            + (IF t \in Submitting(p2, c2, type, e) THEN 1 ELSE 0)
            - (IF t \in Submitting(p, c, type, e) THEN 1 ELSE 0)
  BY SMT, MoveThread
<1>4. Cardinality(Submitting(p, c, type, e)) \in Nat
  BY DEF FiniteFacts
<1> QED
  BY SMT, <1>1, <1>2, <1>3, <1>4

\* A task of any type enters a queue.
LEMMA QueuedPut ==
    ASSUME FiniteFacts, NEW ts \in [Streams -> Seq(Tasks)], NEW q \in Streams, NEW k \in Tasks,
           NEW type, NEW e, IsFiniteSet(Queued(ts, type, e))
    PROVE  /\ IsFiniteSet(Queued(Put(ts, q, k), type, e))
           /\ Cardinality(Queued(Put(ts, q, k), type, e)) = Cardinality(Queued(ts, type, e))
                + (IF k.type = type /\ k.event = e THEN 1 ELSE 0)
<1> DEFINE x == <<q, Len(ts[q]) + 1>>
           S == Queued(ts, type, e)
           T == Queued(Put(ts, q, k), type, e)
<1>1. /\ x \notin S
      /\ T = IF k.type = type /\ k.event = e THEN S \cup {x} ELSE S
  BY SMT, PutLast
<1>2. Cardinality(S) \in Nat
  BY DEF FiniteFacts
<1> HIDE DEF x, S, T
<1>3. CASE k.type = type /\ k.event = e
  <2>1. T = S \cup {x}
    BY <1>1, <1>3
  <2> QED
    BY SMTT(30), <1>1, <1>3, <2>1 DEF S, T, FiniteFacts
<1>4. CASE ~(k.type = type /\ k.event = e)
  <2>1. T = S
    BY <1>1, <1>4
  <2> QED
    BY SMT, <1>2, <1>4, <2>1 DEF S, T
<1> QED
  BY <1>3, <1>4

\* The first task of a queue leaves it.
LEMMA QueuedTake ==
    ASSUME FiniteFacts, NEW ts \in [Streams -> Seq(Tasks)], NEW q \in Streams, ts[q] # <<>>,
           NEW type, NEW e, IsFiniteSet(Queued(ts, type, e))
    PROVE  /\ IsFiniteSet(Queued(Take(ts, q), type, e))
           /\ Cardinality(Queued(Take(ts, q), type, e)) = Cardinality(Queued(ts, type, e))
                - (IF Head(ts[q]).type = type /\ Head(ts[q]).event = e THEN 1 ELSE 0)
<1> DEFINE S == Queued(ts, type, e)
           T == Queued(Take(ts, q), type, e)
<1>1. T = Moved(S, q) /\ (<<q, 1>> \in S <=> Head(ts[q]).type = type /\ Head(ts[q]).event = e)
  BY SMT, TakeFirst
<1>2. Cardinality(S) \in Nat /\ S \in SUBSET Positions
  BY DEF Queued, FiniteFacts
<1> HIDE DEF S, T
<1>3. IsFiniteSet(S)
  BY DEF S
<1>4. IsFiniteSet(T) /\ Cardinality(T) = IF <<q, 1>> \in S THEN Cardinality(S) - 1 ELSE Cardinality(S)
  BY <1>1, <1>2, <1>3, MovedCount
<1> QED
  BY SMTT(30), <1>1, <1>2, <1>4 DEF S, T

\* A thread that submitted its task has moved it from its own hands into a queue.
LEMMA CountedEnqueue ==
    ASSUME FiniteFacts, NEW n, NEW ts \in [Streams -> Seq(Tasks)], NEW q \in Streams,
           NEW p, NEW c, NEW p2, NEW c2, NEW type, NEW e, NEW t \in Threads,
           Counted(n, ts, p, c, type, e), c[t] \in Tasks,
           OthersRest(p, c, p2, c2, t),
           p[t] = "enqueue", p2[t] # "enqueue"
    PROVE  Counted(n, Put(ts, q, c[t]), p2, c2, type, e)
<1>1. IsFiniteSet(Queued(ts, type, e)) /\ IsFiniteSet(Submitting(p, c, type, e))
  BY ZenonT(60) DEF Counted
<1>2. Cardinality(Queued(ts, type, e)) \in Nat /\ Cardinality(Submitting(p, c, type, e)) \in Nat
  BY ZenonT(60), <1>1 DEF FiniteFacts
<1>3. /\ IsFiniteSet(Submitting(p2, c2, type, e))
      /\ Cardinality(Submitting(p2, c2, type, e)) = Cardinality(Submitting(p, c, type, e))
           - (IF c[t].type = type /\ c[t].event = e THEN 1 ELSE 0)
  BY SMTT(30), <1>1, SubmitEnds
<1>4. /\ IsFiniteSet(Queued(Put(ts, q, c[t]), type, e))
      /\ Cardinality(Queued(Put(ts, q, c[t]), type, e)) = Cardinality(Queued(ts, type, e))
           + (IF c[t].type = type /\ c[t].event = e THEN 1 ELSE 0)
  BY SMTT(30), <1>1, QueuedPut
<1> QED
  BY SMT, <1>2, <1>3, <1>4 DEF Counted

\* A launched task is no longer counted, and it was.
LEMMA CountedTake ==
    ASSUME FiniteFacts, NEW n, NEW ts \in [Streams -> Seq(Tasks)], NEW q \in Streams, ts[q] # <<>>,
           NEW p, NEW c, NEW type, NEW e, Counted(n, ts, p, c, type, e)
    PROVE  IF Head(ts[q]).type = type /\ Head(ts[q]).event = e
           THEN Counted(n - 1, Take(ts, q), p, c, type, e) /\ n > 0
           ELSE Counted(n, Take(ts, q), p, c, type, e)
<1>1. IsFiniteSet(Queued(ts, type, e)) /\ IsFiniteSet(Submitting(p, c, type, e))
  BY DEF Counted
<1>2. /\ IsFiniteSet(Queued(Take(ts, q), type, e))
      /\ Cardinality(Queued(Take(ts, q), type, e)) = Cardinality(Queued(ts, type, e))
           - (IF Head(ts[q]).type = type /\ Head(ts[q]).event = e THEN 1 ELSE 0)
  BY SMT, <1>1, QueuedTake
<1>3. /\ Cardinality(Queued(ts, type, e)) \in Nat /\ Cardinality(Submitting(p, c, type, e)) \in Nat
      /\ Cardinality(Queued(Take(ts, q), type, e)) \in Nat
  BY <1>1, <1>2 DEF FiniteFacts
<1> QED
  BY SMT, <1>1, <1>2, <1>3 DEF Counted

\* No thread starts or ends submitting.
Steady(p, c, p2, c2) ==
    \A u \in Threads : /\ p2[u] = "enqueue" <=> p[u] = "enqueue"
                       /\ p[u] = "enqueue" => c2[u] = c[u]

\* Steps that neither submit nor launch leave the count of a type and event alone.
LEMMA CountedKeep ==
    ASSUME NEW n, NEW ts, NEW p, NEW c, NEW p2, NEW c2, NEW type, NEW e,
           Counted(n, ts, p, c, type, e), Steady(p, c, p2, c2)
    PROVE  Counted(n, ts, p2, c2, type, e)
<1>1. Submitting(p2, c2, type, e) = Submitting(p, c, type, e)
  BY DEF Steady, Submitting
<1> QED
  BY <1>1 DEF Counted

\* A thread that was not submitting and does not start to, and no other moves.
LEMMA SteadyMove ==
    ASSUME NEW p, NEW c, NEW p2, NEW c2, NEW t \in Threads,
           OthersRest(p, c, p2, c2, t),
           p[t] # "enqueue", p2[t] # "enqueue"
    PROVE  Steady(p, c, p2, c2)
BY ZenonT(60) DEF Steady, OthersRest

\* Nothing is counted and nothing is queued at the start.
LEMMA CountInit == ASSUME FiniteFacts PROVE Init => CountInv
<1> SUFFICES ASSUME Init, NEW e \in Events
             PROVE  /\ Counted(unrecorded[e], tasks, pc, call, "RECORD", e)
                    /\ Counted(unwaited[e], tasks, pc, call, "WAIT", e)
                    /\ issued[e] = launched[e] + Cardinality(Queued(tasks, "RECORD", e))
  BY DEF CountInv
<1>1. \A q \in Streams : Len(tasks[q]) = 0
  BY DEF Init
<1>2. ASSUME NEW type PROVE Queued(tasks, type, e) = {} /\ Submitting(pc, call, type, e) = {}
  <2>1. \A p \in Positions : p[1] \in Streams /\ p[2] \in Nat \ {0}
    BY DEF Positions
  <2>2. Queued(tasks, type, e) = {}
    BY SMT, <1>1, <2>1 DEF Queued
  <2> QED
    BY <2>2 DEF Init, Submitting
<1>3. IsFiniteSet({}) /\ Cardinality({}) = 0
  BY DEF FiniteFacts
<1>4. unrecorded[e] = 0 /\ unwaited[e] = 0 /\ issued[e] = 0 /\ launched[e] = 0
  BY DEF Init
<1>5. /\ Queued(tasks, "RECORD", e) = {} /\ Submitting(pc, call, "RECORD", e) = {}
      /\ Queued(tasks, "WAIT", e) = {} /\ Submitting(pc, call, "WAIT", e) = {}
  BY <1>2
<1> QED
  BY SMT, <1>3, <1>4, <1>5 DEF Counted

\* A step that leaves the counts, the queues and the records alone, while no thread
\* starts or ends submitting.
LEMMA CountQuiet ==
    ASSUME CountInv, UNCHANGED <<counts, tasks, issued, launched>>, Steady(pc, call, pc', call')
    PROVE  CountInv'
<1> SUFFICES ASSUME NEW e \in Events
             PROVE  /\ Counted(unrecorded'[e], tasks', pc', call', "RECORD", e)
                    /\ Counted(unwaited'[e], tasks', pc', call', "WAIT", e)
                    /\ issued'[e] = launched'[e] + Cardinality(Queued(tasks', "RECORD", e))
  BY ZenonT(60) DEF CountInv
<1>1. /\ Counted(unrecorded[e], tasks, pc, call, "RECORD", e)
      /\ Counted(unwaited[e], tasks, pc, call, "WAIT", e)
      /\ issued[e] = launched[e] + Cardinality(Queued(tasks, "RECORD", e))
  BY ZenonT(60) DEF CountInv
<1> QED
  BY ZenonT(60), <1>1, CountedKeep

\* A thread counts a task and starts submitting it.
LEMMA CountSubmit ==
    ASSUME FiniteFacts, CountInv, CountersOK, NEW t \in Threads, NEW k \in Tasks,
           OthersRest(pc, call, pc', call', t), pc[t] # "enqueue", pc'[t] = "enqueue", call'[t] = k,
           UNCHANGED <<tasks, issued, launched>>,
           unrecorded' = IF k.type = "RECORD" THEN [unrecorded EXCEPT ![k.event] = @ + 1] ELSE unrecorded,
           unwaited' = IF k.type = "WAIT" THEN [unwaited EXCEPT ![k.event] = @ + 1] ELSE unwaited
    PROVE  CountInv'
<1> SUFFICES ASSUME NEW e \in Events
             PROVE  /\ Counted(unrecorded'[e], tasks', pc', call', "RECORD", e)
                    /\ Counted(unwaited'[e], tasks', pc', call', "WAIT", e)
                    /\ issued'[e] = launched'[e] + Cardinality(Queued(tasks', "RECORD", e))
  BY ZenonT(60) DEF CountInv
<1>1. /\ Counted(unrecorded[e], tasks, pc, call, "RECORD", e)
      /\ Counted(unwaited[e], tasks, pc, call, "WAIT", e)
      /\ issued[e] = launched[e] + Cardinality(Queued(tasks, "RECORD", e))
  BY ZenonT(60) DEF CountInv
<1>2. /\ unrecorded'[e] = IF k.type = "RECORD" /\ k.event = e THEN unrecorded[e] + 1 ELSE unrecorded[e]
      /\ unwaited'[e] = IF k.type = "WAIT" /\ k.event = e THEN unwaited[e] + 1 ELSE unwaited[e]
  BY ZenonT(60) DEF CountersOK
<1>3. Counted(IF k.type = "RECORD" /\ k.event = e THEN unrecorded[e] + 1 ELSE unrecorded[e],
              tasks, pc', call', "RECORD", e)
  BY SMTT(30), <1>1, CountedSubmit
<1>4. Counted(IF k.type = "WAIT" /\ k.event = e THEN unwaited[e] + 1 ELSE unwaited[e],
              tasks, pc', call', "WAIT", e)
  BY SMT, <1>1, CountedSubmit
<1> QED
  BY ZenonT(60), <1>1, <1>2, <1>3, <1>4

\* A thread enqueues its task; if that is a record, it is made.
LEMMA CountEnqueue ==
    ASSUME FiniteFacts, TypeOK, Healthy, CountInv, NEW t \in Threads, Enqueue(t)
    PROVE  CountInv'
<1>0. ThreadsOK /\ CountersOK /\ tasks \in [Streams -> Seq(Tasks)]
  BY TypeParts DEF QueuesOK
<1>1. call[t] \in Tasks /\ call[t].event \in Events /\ call[t].stream \in Streams
  BY ZenonT(60), <1>0 DEF Enqueue, ThreadsOK, Tasks
<1> DEFINE q == QueueOf(call[t].stream)
<1>2. q \in Streams /\ status[q] = "RUN"
  BY <1>1, QueueType DEF Healthy
<1>3. /\ tasks' = Put(tasks, q, call[t]) /\ UNCHANGED <<unrecorded, unwaited, launched>>
      /\ issued' = IF call[t].type = "RECORD" THEN [issued EXCEPT ![call[t].event] = @ + 1] ELSE issued
      /\ pc[t] = "enqueue"
  BY ZenonT(60), <1>2 DEF Enqueue, Put, Issued
<1>4. OthersRest(pc, call, pc', call', t) /\ pc'[t] # "enqueue"
  <2>1. CASE Return(t)
    BY <1>0, <2>1, Returns
  <2>2. CASE Goto(t, "query") /\ UNCHANGED call
    BY ZenonT(60), <1>0, <1>1, <2>2, Moves DEF Labels
  <2> QED
    BY ZenonT(60), <2>1, <2>2 DEF Enqueue
<1> HIDE DEF q
<1> SUFFICES ASSUME NEW e \in Events
             PROVE  /\ Counted(unrecorded'[e], tasks', pc', call', "RECORD", e)
                    /\ Counted(unwaited'[e], tasks', pc', call', "WAIT", e)
                    /\ issued'[e] = launched'[e] + Cardinality(Queued(tasks', "RECORD", e))
  BY ZenonT(60) DEF CountInv
<1>5. /\ Counted(unrecorded[e], tasks, pc, call, "RECORD", e)
      /\ Counted(unwaited[e], tasks, pc, call, "WAIT", e)
      /\ issued[e] = launched[e] + Cardinality(Queued(tasks, "RECORD", e))
  BY ZenonT(60) DEF CountInv
<1>6. /\ Counted(unrecorded[e], Put(tasks, q, call[t]), pc', call', "RECORD", e)
      /\ Counted(unwaited[e], Put(tasks, q, call[t]), pc', call', "WAIT", e)
  BY ZenonT(60), <1>0, <1>1, <1>2, <1>3, <1>4, <1>5, CountedEnqueue
<1>7. /\ IsFiniteSet(Queued(tasks, "RECORD", e))
      /\ Cardinality(Queued(tasks, "RECORD", e)) \in Nat
  BY ZenonT(60), <1>5 DEF Counted, FiniteFacts
<1>8. Cardinality(Queued(Put(tasks, q, call[t]), "RECORD", e)) =
        Cardinality(Queued(tasks, "RECORD", e))
            + (IF call[t].type = "RECORD" /\ call[t].event = e THEN 1 ELSE 0)
  BY SMT, <1>0, <1>1, <1>2, <1>7, QueuedPut
<1>9. /\ issued'[e] = IF call[t].type = "RECORD" /\ call[t].event = e THEN issued[e] + 1 ELSE issued[e]
      /\ issued[e] \in Nat /\ launched[e] \in Nat
  BY ZenonT(60), <1>0, <1>1, <1>3 DEF CountersOK
<1>10. issued'[e] = launched'[e] + Cardinality(Queued(tasks', "RECORD", e))
  BY SMT, <1>3, <1>5, <1>7, <1>8, <1>9
<1> QED
  BY <1>3, <1>6, <1>10

\* The consumer launches the first task of a queue.
LEMMA CountLaunch ==
    ASSUME FiniteFacts, TypeOK, Healthy, CountInv, NEW q \in Streams, Launch(q)
    PROVE  CountInv'
<1>0. CountersOK /\ tasks \in [Streams -> Seq(Tasks)]
  BY TypeParts DEF QueuesOK
<1> DEFINE k == Head(tasks[q])
<1>1. tasks[q] # <<>> /\ tasks' = Take(tasks, q) /\ UNCHANGED <<pc, call, issued>> /\ k \in Tasks
  BY SMT, <1>0 DEF Launch, Take
<1>2. k.event \in Events
  BY <1>1 DEF Tasks
<1>3. /\ unrecorded' = IF k.type = "RECORD" THEN [unrecorded EXCEPT ![k.event] = @ - 1] ELSE unrecorded
      /\ unwaited' = IF k.type = "WAIT" THEN [unwaited EXCEPT ![k.event] = @ - 1] ELSE unwaited
      /\ launched' = IF k.type = "RECORD" THEN [launched EXCEPT ![k.event] = @ + 1] ELSE launched
  BY ZenonT(60) DEF Launch, RecordEventFunc, WaitEventFunc, LazyDestroyEventFunc, AclRecord, AclWait,
         DecreaseUnrecordedCount, DecreaseUnwaitedCount
<1> HIDE DEF k
<1> SUFFICES ASSUME NEW e \in Events
             PROVE  /\ Counted(unrecorded'[e], tasks', pc', call', "RECORD", e)
                    /\ Counted(unwaited'[e], tasks', pc', call', "WAIT", e)
                    /\ issued'[e] = launched'[e] + Cardinality(Queued(tasks', "RECORD", e))
  BY DEF CountInv
<1>4. /\ Counted(unrecorded[e], tasks, pc, call, "RECORD", e)
      /\ Counted(unwaited[e], tasks, pc, call, "WAIT", e)
      /\ issued[e] = launched[e] + Cardinality(Queued(tasks, "RECORD", e))
  BY DEF CountInv
<1>5. IF k.type = "RECORD" /\ k.event = e
      THEN Counted(unrecorded[e] - 1, Take(tasks, q), pc, call, "RECORD", e)
      ELSE Counted(unrecorded[e], Take(tasks, q), pc, call, "RECORD", e)
  BY ZenonT(60), <1>0, <1>1, <1>4, CountedTake DEF k
<1>6. IF k.type = "WAIT" /\ k.event = e
      THEN Counted(unwaited[e] - 1, Take(tasks, q), pc, call, "WAIT", e)
      ELSE Counted(unwaited[e], Take(tasks, q), pc, call, "WAIT", e)
  BY ZenonT(60), <1>0, <1>1, <1>4, CountedTake DEF k
<1>7. /\ unrecorded'[e] = IF k.type = "RECORD" /\ k.event = e THEN unrecorded[e] - 1 ELSE unrecorded[e]
      /\ unwaited'[e] = IF k.type = "WAIT" /\ k.event = e THEN unwaited[e] - 1 ELSE unwaited[e]
      /\ launched'[e] = IF k.type = "RECORD" /\ k.event = e THEN launched[e] + 1 ELSE launched[e]
      /\ launched[e] \in Nat
  BY ZenonT(60), <1>0, <1>2, <1>3 DEF CountersOK
<1>8. /\ IsFiniteSet(Queued(tasks, "RECORD", e))
      /\ Cardinality(Queued(tasks, "RECORD", e)) \in Nat
  BY <1>4 DEF Counted, FiniteFacts
<1>9. Cardinality(Queued(Take(tasks, q), "RECORD", e)) = Cardinality(Queued(tasks, "RECORD", e))
           - (IF k.type = "RECORD" /\ k.event = e THEN 1 ELSE 0)
  BY SMTT(30), <1>0, <1>1, <1>8, QueuedTake DEF k
<1>10. issued'[e] = launched'[e] + Cardinality(Queued(tasks', "RECORD", e))
  BY SMT, <1>1, <1>4, <1>7, <1>8, <1>9
<1>11. Counted(unrecorded'[e], Take(tasks, q), pc, call, "RECORD", e)
  BY <1>5, <1>7
<1>12. Counted(unwaited'[e], Take(tasks, q), pc, call, "WAIT", e)
  BY <1>6, <1>7
<1> QED
  BY <1>1, <1>10, <1>11, <1>12

\* Every step keeps the counts.
LEMMA CountNext == ASSUME FiniteFacts PROVE TypeOK /\ Healthy /\ CountInv /\ [Next]_vars => CountInv'
<1> SUFFICES ASSUME TypeOK, Healthy, CountInv, [Next]_vars PROVE CountInv'
  OBVIOUS
<1>0. ThreadsOK /\ CountersOK
  BY TypeParts
<1>1. ASSUME NEW t \in Threads, NEW e \in Events, NEW s \in Streams, Record(t, e, s)
      PROVE  CountInv'
  <2>1. CASE s \notin SyncLaunch
    <3> DEFINE k == Task("RECORD", e, s, 0)
    <3>1. k \in Tasks /\ k.type = "RECORD" /\ k.event = e
      BY SMT, TaskFields DEF TaskType
    <3>2. /\ Goto(t, "enqueue") /\ call' = [call EXCEPT ![t] = k] /\ pc[t] = "idle"
          /\ unrecorded' = [unrecorded EXCEPT ![e] = @ + 1] /\ UNCHANGED <<unwaited, tasks, issued, launched>>
      BY <1>1, <2>1 DEF Record, Begin, IncreaseUnrecordedCount
    <3> HIDE DEF k
    <3>3. OthersRest(pc, call, pc', call', t) /\ pc'[t] = "enqueue" /\ call'[t] = k
      BY ZenonT(60), <1>0, <3>1, <3>2, Moves DEF Labels
    <3> QED
      BY <1>0, <3>1, <3>2, <3>3, CountSubmit
  <2>2. CASE s \in SyncLaunch
    <3>1. /\ Goto(t, "idle") /\ call' = [call EXCEPT ![t] = <<>>] /\ pc[t] = "idle"
          /\ issued' = [issued EXCEPT ![e] = @ + 1] /\ launched' = [launched EXCEPT ![e] = @ + 1]
          /\ UNCHANGED <<counts, tasks>>
      BY <1>1, <2>2 DEF Record, Begin, Issued, AclRecord
    <3>2. Steady(pc, call, pc', call')
      BY ZenonT(60), <1>0, <3>1, Moves, SteadyMove DEF Labels
    <3> SUFFICES ASSUME NEW d \in Events
                 PROVE  /\ Counted(unrecorded'[d], tasks', pc', call', "RECORD", d)
                        /\ Counted(unwaited'[d], tasks', pc', call', "WAIT", d)
                        /\ issued'[d] = launched'[d] + Cardinality(Queued(tasks', "RECORD", d))
      BY DEF CountInv
    <3>3. /\ Counted(unrecorded[d], tasks, pc, call, "RECORD", d)
          /\ Counted(unwaited[d], tasks, pc, call, "WAIT", d)
          /\ issued[d] = launched[d] + Cardinality(Queued(tasks, "RECORD", d))
      BY DEF CountInv
    <3>4. Cardinality(Queued(tasks, "RECORD", d)) \in Nat
      BY <3>3 DEF Counted, FiniteFacts
    <3>5. /\ issued'[d] = IF d = e THEN issued[d] + 1 ELSE issued[d]
          /\ launched'[d] = IF d = e THEN launched[d] + 1 ELSE launched[d]
          /\ launched[d] \in Nat
      BY <1>0, <3>1 DEF CountersOK
    <3>6. issued'[d] = launched'[d] + Cardinality(Queued(tasks', "RECORD", d))
      BY SMT, <3>1, <3>3, <3>4, <3>5
    <3> QED
      BY ZenonT(60), <3>1, <3>2, <3>3, <3>6, CountedKeep
  <2> QED
    BY <2>1, <2>2
<1>2. ASSUME NEW t \in Threads, NEW e \in Events, NEW s \in Streams, Block(t, e, s)
      PROVE  CountInv'
  <2>1. issued[e] \in Nat
    BY <1>0 DEF CountersOK
  <2>2. Task("WAIT", e, s, issued[e]) \in Tasks
    BY <2>1, TaskFields DEF TaskType
  <2>3. /\ Goto(t, "block") /\ call' = [call EXCEPT ![t] = Task("WAIT", e, s, issued[e])] /\ pc[t] = "idle"
        /\ UNCHANGED <<counts, tasks, issued, launched>>
    BY ZenonT(60), <1>2 DEF Block, Begin
  <2>4. Steady(pc, call, pc', call')
    BY ZenonT(60), <1>0, <2>2, <2>3, Moves, SteadyMove DEF Labels
  <2> QED
    BY <2>3, <2>4, CountQuiet
<1>3. ASSUME NEW t \in Threads, NEW e \in Events, NEW s \in Streams, Destruct(t, e, s)
      PROVE  CountInv'
  <2> DEFINE k == Task("DESTROY", e, s, 0)
  <2>1. k \in Tasks /\ k.type = "DESTROY" /\ k.event = e
    BY SMT, TaskFields DEF TaskType
  <2>2. UNCHANGED <<counts, tasks, issued, launched>> /\ pc[t] = "idle"
    BY <1>3 DEF Destruct
  <2>3. \/ Goto(t, "enqueue") /\ call' = [call EXCEPT ![t] = k]
        \/ Goto(t, "idle") /\ call' = [call EXCEPT ![t] = <<>>]
        \/ Goto(t, "query") /\ call' = [call EXCEPT ![t] = k]
    BY <1>3 DEF Destruct, Begin
  <2> HIDE DEF k
  <2>4. CASE Goto(t, "enqueue") /\ call' = [call EXCEPT ![t] = k]
    <3>1. OthersRest(pc, call, pc', call', t) /\ pc'[t] = "enqueue" /\ call'[t] = k
      BY <1>0, <2>1, <2>4, Moves DEF Labels
    <3> QED
      BY ZenonT(60), <1>0, <2>1, <2>2, <3>1, CountSubmit
  <2>5. CASE Goto(t, "idle") /\ call' = [call EXCEPT ![t] = <<>>]
    <3>1. Steady(pc, call, pc', call')
      BY ZenonT(60), <1>0, <2>2, <2>5, Moves, SteadyMove DEF Labels
    <3> QED
      BY <2>2, <3>1, CountQuiet
  <2>6. CASE Goto(t, "query") /\ call' = [call EXCEPT ![t] = k]
    <3>1. Steady(pc, call, pc', call')
      BY <1>0, <2>1, <2>2, <2>6, Moves, SteadyMove DEF Labels
    <3> QED
      BY <2>2, <3>1, CountQuiet
  <2> QED
    BY <2>3, <2>4, <2>5, <2>6
<1>4. ASSUME NEW t \in Threads, NEW e \in Events, NEW op \in {"query", "synchronize"}, Look(t, op, e)
      PROVE  CountInv'
  <2> DEFINE k == Task(op, e, DefaultStream, issued[e])
  <2>1. issued[e] \in Nat /\ DefaultStream \in Streams
    BY <1>0, ModeAssumption DEF CountersOK
  <2>2. k \in Tasks
    BY <2>1, TaskFields DEF TaskType
  <2>3. /\ Goto(t, "look") /\ call' = [call EXCEPT ![t] = k] /\ pc[t] = "idle"
        /\ UNCHANGED <<counts, tasks, issued, launched>>
    BY ZenonT(60), <1>4 DEF Look, Begin
  <2> HIDE DEF k
  <2>4. Steady(pc, call, pc', call')
    BY <1>0, <2>2, <2>3, Moves, SteadyMove DEF Labels
  <2> QED
    BY <2>3, <2>4, CountQuiet
<1>5. ASSUME NEW t \in Threads, LaunchWaitTask(t)
      PROVE  CountInv'
  <2>1. call[t] \in Tasks /\ call[t].type = "WAIT" /\ pc[t] = "block"
    BY <1>0, <1>5 DEF LaunchWaitTask, ThreadsOK, Healthy
  <2>2. CASE call[t].stream \notin SyncLaunch
    <3>1. /\ Goto(t, "enqueue") /\ UNCHANGED <<call, unrecorded, tasks, issued, launched>>
          /\ unwaited' = [unwaited EXCEPT ![call[t].event] = @ + 1]
      BY ZenonT(60), <1>5, <2>2 DEF LaunchWaitTask, IncreaseUnwaitedCount
    <3>2. OthersRest(pc, call, pc', call', t) /\ pc'[t] = "enqueue" /\ call'[t] = call[t]
      BY <1>0, <2>1, <3>1, Moves DEF Labels
    <3> QED
      BY ZenonT(60), <1>0, <2>1, <3>1, <3>2, CountSubmit
  <2>3. CASE call[t].stream \in SyncLaunch
    <3>1. Return(t) /\ UNCHANGED <<counts, tasks, issued, launched>>
      BY <1>5, <2>3 DEF LaunchWaitTask, AclWait
    <3>2. Steady(pc, call, pc', call')
      BY <1>0, <2>1, <3>1, Returns, SteadyMove
    <3> QED
      BY <3>1, <3>2, CountQuiet
  <2> QED
    BY <2>2, <2>3
<1>6. ASSUME NEW t \in Threads, Enqueue(t)
      PROVE  CountInv'
  BY <1>6, CountEnqueue
<1>7. ASSUME NEW t \in Threads, LookCount(t) \/ LookStatus(t) \/ QueryAndDestroyEvent(t)
      PROVE  CountInv'
  <2>1. UNCHANGED <<counts, tasks, issued, launched>> /\ pc[t] # "enqueue" /\ pc[t] # "idle"
    BY ZenonT(60), <1>7 DEF LookCount, LookStatus, QueryAndDestroyEvent
  <2>2. \/ Return(t)
        \/ \E l \in {"status", "true"} : Goto(t, l) /\ UNCHANGED call
    BY <1>7 DEF LookCount, LookStatus, QueryAndDestroyEvent
  <2>3. CASE Return(t)
    <3>1. Steady(pc, call, pc', call')
      BY ZenonT(60), <1>0, <2>1, <2>3, Returns, SteadyMove
    <3> QED
      BY <2>1, <3>1, CountQuiet
  <2>4. ASSUME NEW l \in {"status", "true"}, Goto(t, l), UNCHANGED call
        PROVE  CountInv'
    <3>1. call[t] \in Tasks
      BY <1>0, <2>1 DEF ThreadsOK
    <3>2. Steady(pc, call, pc', call')
      BY <1>0, <2>1, <2>4, <3>1, Moves, SteadyMove DEF Labels
    <3> QED
      BY <2>1, <3>2, CountQuiet
  <2> QED
    BY <2>2, <2>3, <2>4
<1>8. ASSUME NEW q \in Streams, Launch(q)
      PROVE  CountInv'
  BY <1>8, CountLaunch
<1>9. ASSUME NEW q \in Streams, FailureStep(q)
      PROVE  CountInv'
  BY SMT, <1>9 DEF FailureStep, LaunchFails, CheckDeviceError, ClearAfterError, DeviceErrorLoop, Healthy
<1>10. ASSUME NEW e \in Events, Run(e) \/ DeviceRecord(e) \/ DeviceWait(e)
       PROVE  CountInv'
  <2>1. UNCHANGED <<pc, call, counts, tasks, issued, launched>>
    BY <1>10 DEF Run, DeviceRecord, DeviceWait
  <2> QED
    BY <2>1, CountQuiet DEF Steady
<1>11. CASE UNCHANGED vars
  BY <1>11, CountQuiet DEF vars, Steady
<1> QED
  BY <1>1, <1>2, <1>3, <1>4, <1>5, <1>6, <1>7, <1>8, <1>9, <1>10, <1>11 DEF Next, ThreadStep

\* The counts say what EnqueueBeforeDequeue asks.
LEMMA CountedFirst == ASSUME FiniteFacts PROVE TypeOK /\ CountInv => EnqueueBeforeDequeue
<1> SUFFICES ASSUME TypeOK, CountInv, NEW q \in Streams, tasks[q] # <<>>
             PROVE  /\ Head(tasks[q]).type = "RECORD" => unrecorded[Head(tasks[q]).event] > 0
                    /\ Head(tasks[q]).type = "WAIT" => unwaited[Head(tasks[q]).event] > 0
  BY DEF EnqueueBeforeDequeue
<1>1. tasks \in [Streams -> Seq(Tasks)] /\ Head(tasks[q]) \in Tasks
  BY SMT, TypeParts DEF QueuesOK
<1>2. PICK e \in Events : e = Head(tasks[q]).event
  BY <1>1 DEF Tasks
<1>3. /\ Counted(unrecorded[e], tasks, pc, call, "RECORD", e)
      /\ Counted(unwaited[e], tasks, pc, call, "WAIT", e)
  BY ZenonT(60), <1>2 DEF CountInv
<1>4. Head(tasks[q]).type = "RECORD" => unrecorded[e] > 0
  <2>1. IF Head(tasks[q]).type = "RECORD" /\ Head(tasks[q]).event = e
        THEN Counted(unrecorded[e] - 1, Take(tasks, q), pc, call, "RECORD", e) /\ unrecorded[e] > 0
        ELSE Counted(unrecorded[e], Take(tasks, q), pc, call, "RECORD", e)
    BY ZenonT(60), <1>1, <1>3, CountedTake
  <2> QED
    BY <1>2, <2>1
<1>5. Head(tasks[q]).type = "WAIT" => unwaited[e] > 0
  <2>1. IF Head(tasks[q]).type = "WAIT" /\ Head(tasks[q]).event = e
        THEN Counted(unwaited[e] - 1, Take(tasks, q), pc, call, "WAIT", e) /\ unwaited[e] > 0
        ELSE Counted(unwaited[e], Take(tasks, q), pc, call, "WAIT", e)
    BY <1>1, <1>3, CountedTake
  <2> QED
    BY <1>2, <2>1
<1> QED
  BY <1>2, <1>4, <1>5

(***************************************************************************)
(* What a call saw when it began is launched when it looks at the device.  *)
(***************************************************************************)

\* The records a thread saw when its call began: made, and launched once the count said so.
Seen(p, k, i, l, d, m) ==
    /\ p \in {"block", "look"} => k.seen <= i[k.event]
    /\ p = "enqueue" /\ k.type = "WAIT" => k.seen <= IF m.PerStreamQueue THEN l[k.event] ELSE i[k.event]
    /\ p = "status" => k.seen <= l[k.event]
    /\ p = "true" => k.seen <= d[k.event]

\* A queued wait: the records it saw are launched or in front of it in its own queue.
WaitsBehind(ts, l) ==
    \A q \in Streams : \A i \in 1 .. Len(ts[q]) : ts[q][i].type = "WAIT" =>
        ts[q][i].seen <= l[ts[q][i].event] + Cardinality(Earlier(ts, ts[q][i].event, q, i))

SeenInv ==
    /\ \A e \in Events : done[e] <= launched[e]
    /\ \A t \in Threads : Seen(pc[t], call[t], issued, launched, done, mode)
    /\ WaitsBehind(tasks, launched)
    /\ Ordered => missed = {}

\* The numbers of records made, launched and completed only grow.
Grows(f, g) == \A e \in Events : f[e] <= g[e]

\* What a thread read of the counters stays a lower bound as they grow.
LEMMA SeenStays ==
    ASSUME NEW p, NEW k \in Tasks, NEW m,
           NEW i \in [Events -> Nat], NEW l \in [Events -> Nat], NEW d \in [Events -> Nat],
           NEW i2 \in [Events -> Nat], NEW l2 \in [Events -> Nat], NEW d2 \in [Events -> Nat],
           Seen(p, k, i, l, d, m), Grows(i, i2), Grows(l, l2), Grows(d, d2)
    PROVE  Seen(p, k, i2, l2, d2, m)
<1> DEFINE e == k.event
<1>1. e \in Events /\ k.seen \in Nat
  BY DEF Tasks
<1>2. /\ i[e] \in Nat /\ l[e] \in Nat /\ d[e] \in Nat /\ i2[e] \in Nat /\ l2[e] \in Nat /\ d2[e] \in Nat
      /\ i[e] <= i2[e] /\ l[e] <= l2[e] /\ d[e] <= d2[e]
  BY <1>1 DEF Grows
<1> QED
  BY SMT, <1>1, <1>2 DEF Seen

\* A thread without a call has seen nothing.
LEMMA SeenIdle ==
    ASSUME NEW k, NEW i, NEW l, NEW d, NEW m
    PROVE  Seen("idle", k, i, l, d, m) /\ Seen("query", k, i, l, d, m)
BY DEF Seen

\* IsEventRecorded: when the count is zero, every record made is launched.
LEMMA RecordedLaunched ==
    ASSUME FiniteFacts, TypeOK, CountInv, NEW e \in Events, IsEventRecorded(e)
    PROVE  issued[e] = launched[e]
<1>1. /\ Counted(unrecorded[e], tasks, pc, call, "RECORD", e)
      /\ issued[e] = launched[e] + Cardinality(Queued(tasks, "RECORD", e))
  BY DEF CountInv
<1>2. /\ Cardinality(Queued(tasks, "RECORD", e)) \in Nat
      /\ Cardinality(Submitting(pc, call, "RECORD", e)) \in Nat
      /\ 0 = Cardinality(Queued(tasks, "RECORD", e)) + Cardinality(Submitting(pc, call, "RECORD", e))
  BY <1>1 DEF Counted, IsEventRecorded, FiniteFacts
<1>3. Cardinality(Queued(tasks, "RECORD", e)) = 0 /\ launched[e] \in Nat
  BY SMT, <1>2, TypeParts DEF CountersOK
<1> QED
  BY SMT, <1>1, <1>3

\* The records in front of a task are finitely many.
LEMMA EarlierFinite ==
    ASSUME FiniteFacts, NEW ts, NEW e, NEW q, NEW i, IsFiniteSet(Queued(ts, "RECORD", e))
    PROVE  /\ IsFiniteSet(Earlier(ts, e, q, i)) /\ Cardinality(Earlier(ts, e, q, i)) \in Nat
           /\ Earlier(ts, e, q, i) \in SUBSET Positions
<1>1. Earlier(ts, e, q, i) \subseteq Queued(ts, "RECORD", e)
  BY DEF Earlier
<1>2. Queued(ts, "RECORD", e) \subseteq Positions
  BY DEF Queued
<1> QED
  BY <1>1, <1>2 DEF FiniteFacts

\* The tasks of a queue after one was enqueued, and after the first was taken.
LEMMA PutItems ==
    ASSUME NEW ts \in [Streams -> Seq(Tasks)], NEW q \in Streams, NEW k \in Tasks,
           NEW r \in Streams, NEW i \in 1 .. Len(Put(ts, q, k)[r])
    PROVE  \/ r = q /\ i = Len(ts[q]) + 1 /\ Put(ts, q, k)[r][i] = k
           \/ i \in 1 .. Len(ts[r]) /\ Put(ts, q, k)[r][i] = ts[r][i]
<1> DEFINE us == Put(ts, q, k)
<1>1. ts[q] \in Seq(Tasks) /\ ts[r] \in Seq(Tasks)
  OBVIOUS
<1>2. us[r] = IF r = q THEN Append(ts[q], k) ELSE ts[r]
  BY DEF Put
<1>3. CASE r = q
  <2>1. Len(Append(ts[q], k)) = Len(ts[q]) + 1
    BY SMT, <1>1
  <2>2. i \in 1 .. Len(ts[q]) + 1
    BY <1>2, <1>3, <2>1
  <2>3. Append(ts[q], k)[i] = IF i = Len(ts[q]) + 1 THEN k ELSE ts[q][i]
    BY SMT, <1>1, <2>2
  <2> QED
    BY SMT, <1>1, <1>2, <1>3, <2>2, <2>3
<1>4. CASE r # q
  BY <1>2, <1>4
<1> QED
  BY <1>3, <1>4

\* The tasks that stay in the queues when a head is taken, by their old places.
LEMMA TakeItems ==
    ASSUME NEW ts \in [Streams -> Seq(Tasks)], NEW q \in Streams, ts[q] # <<>>,
           NEW r \in Streams, NEW i \in 1 .. Len(Take(ts, q)[r])
    PROVE  /\ (IF r = q THEN i + 1 ELSE i) \in 1 .. Len(ts[r])
           /\ Take(ts, q)[r][i] = ts[r][IF r = q THEN i + 1 ELSE i]
           /\ Take(ts, q)[r][i] \in Tasks /\ i \in Nat \ {0}
<1> DEFINE us == Take(ts, q)
<1>1. ts[q] \in Seq(Tasks) /\ ts[r] \in Seq(Tasks) /\ us[r] \in Seq(Tasks)
  <2>1. us \in [Streams -> Seq(Tasks)]
    BY TakeFirst
  <2> HIDE DEF us
  <2> QED
    BY <2>1
<1>2. us[r] = IF r = q THEN Tail(ts[q]) ELSE ts[r]
  BY DEF Take
<1>3. CASE r = q
  <2>1. Len(Tail(ts[q])) = Len(ts[q]) - 1
    BY SMT, <1>1
  <2>2. i \in 1 .. Len(ts[q]) - 1
    BY <1>2, <1>3, <2>1
  <2>3. Tail(ts[q])[i] = ts[q][i + 1]
    BY SMT, <1>1, <2>1, <2>2
  <2> QED
    BY SMT, <1>1, <1>2, <1>3, <2>2, <2>3
<1>4. CASE r # q
  BY SMT, <1>1, <1>2, <1>4
<1> QED
  BY <1>3, <1>4

\* A task goes behind what its queue holds.
LEMMA WaitsPut ==
    ASSUME NEW ts \in [Streams -> Seq(Tasks)], NEW l, NEW q \in Streams, NEW k \in Tasks,
           WaitsBehind(ts, l),
           k.type = "WAIT" =>
               k.seen <= l[k.event] + Cardinality(Earlier(ts, k.event, q, Len(ts[q]) + 1))
    PROVE  WaitsBehind(Put(ts, q, k), l)
<1> DEFINE us == Put(ts, q, k)
<1>1. us \in [Streams -> Seq(Tasks)]
  BY PutLast
<1>2. ASSUME NEW r \in Streams, NEW i \in 1 .. Len(us[r])
      PROVE  \/ r = q /\ i = Len(ts[q]) + 1 /\ us[r][i] = k
             \/ i \in 1 .. Len(ts[r]) /\ us[r][i] = ts[r][i]
  BY PutItems
<1>3. \A e : \A r \in Streams : \A i \in 1 .. Len(us[r]) : Earlier(us, e, r, i) = Earlier(ts, e, r, i)
  <2>1. EarlierKept(ts, us)
    BY PutLast
  <2> HIDE DEF us
  <2> QED
    BY <2>1 DEF EarlierKept
<1> HIDE DEF us
<1> SUFFICES ASSUME NEW r \in Streams, NEW i \in 1 .. Len(us[r]), us[r][i].type = "WAIT"
             PROVE  us[r][i].seen <=
                        l[us[r][i].event] + Cardinality(Earlier(us, us[r][i].event, r, i))
  BY DEF WaitsBehind, us
<1>4. Earlier(us, us[r][i].event, r, i) = Earlier(ts, us[r][i].event, r, i)
  BY <1>3
<1>5. CASE r = q /\ i = Len(ts[q]) + 1 /\ us[r][i] = k
  BY <1>4, <1>5
<1>6. CASE i \in 1 .. Len(ts[r]) /\ us[r][i] = ts[r][i]
  BY <1>4, <1>6 DEF WaitsBehind
<1> QED
  BY <1>2, <1>5, <1>6

\* A launch takes the first task; a record that leaves the queue is launched.
LEMMA WaitsTake ==
    ASSUME FiniteFacts, NEW ts \in [Streams -> Seq(Tasks)], NEW q \in Streams, ts[q] # <<>>,
           NEW l \in [Events -> Nat], NEW l2 \in [Events -> Nat], WaitsBehind(ts, l), Grows(l, l2),
           \A e \in Events : IsFiniteSet(Queued(ts, "RECORD", e)),
           \A e \in Events : Head(ts[q]).type = "RECORD" /\ Head(ts[q]).event = e => l2[e] = l[e] + 1
    PROVE  /\ WaitsBehind(Take(ts, q), l2)
           /\ Head(ts[q]).type = "WAIT" => Head(ts[q]).seen <= l[Head(ts[q]).event]
<1> DEFINE us == Take(ts, q)
<1>1. us \in [Streams -> Seq(Tasks)]
  BY TakeFirst
<1>2. ASSUME NEW r \in Streams, NEW i \in 1 .. Len(us[r])
      PROVE  /\ (IF r = q THEN i + 1 ELSE i) \in 1 .. Len(ts[r])
             /\ us[r][i] = ts[r][IF r = q THEN i + 1 ELSE i]
             /\ us[r][i] \in Tasks /\ i \in Nat \ {0}
  BY TakeItems
<1>3. \A e : \A r \in Streams : \A i \in Nat \ {0} :
         Earlier(us, e, r, i) = Moved(Earlier(ts, e, r, IF r = q THEN i + 1 ELSE i), q)
  BY TakeFirst
<1>4. ASSUME NEW e PROVE <<q, 1>> \in Queued(ts, "RECORD", e) =>
                             Head(ts[q]).type = "RECORD" /\ Head(ts[q]).event = e
  BY SMT, TakeFirst
<1> HIDE DEF us
<1>5. ASSUME NEW r \in Streams, NEW i \in 1 .. Len(us[r]), us[r][i].type = "WAIT"
      PROVE  us[r][i].seen <= l2[us[r][i].event] + Cardinality(Earlier(us, us[r][i].event, r, i))
  <2>1. PICK j \in 1 .. Len(ts[r]) : j = (IF r = q THEN i + 1 ELSE i) /\ us[r][i] = ts[r][j]
    BY SMT, <1>2
  <2>2. PICK e \in Events : us[r][i].event = e
    BY <1>2 DEF Tasks
  <2>3. us[r][i].seen \in Nat /\ l[e] \in Nat /\ l2[e] \in Nat /\ l[e] <= l2[e]
    BY <1>2 DEF Tasks, Grows
  <2> DEFINE S == Earlier(ts, e, r, j)
  <2>4. us[r][i].seen <= l[e] + Cardinality(S)
    BY <1>5, <2>1, <2>2 DEF WaitsBehind
  <2>5. IsFiniteSet(S) /\ Cardinality(S) \in Nat /\ S \in SUBSET Positions
    BY EarlierFinite
  <2>6. Earlier(us, e, r, i) = Moved(S, q)
    BY SMT, <1>2, <1>3, <2>1
  <2>7. <<q, 1>> \in S => l2[e] = l[e] + 1
    BY <1>4 DEF Earlier
  <2> HIDE DEF S
  <2>8. Cardinality(Moved(S, q)) = IF <<q, 1>> \in S THEN Cardinality(S) - 1 ELSE Cardinality(S)
    BY <2>5, MovedCount
  <2>9. us[r][i].seen <= l2[e] + Cardinality(Moved(S, q))
    BY SMTT(30), <2>3, <2>4, <2>5, <2>7, <2>8
  <2> QED
    BY <2>2, <2>6, <2>9
<1>6. ASSUME Head(ts[q]).type = "WAIT" PROVE Head(ts[q]).seen <= l[Head(ts[q]).event]
  <2>1. ts[q] \in Seq(Tasks) /\ 1 \in 1 .. Len(ts[q]) /\ Head(ts[q]) = ts[q][1] /\ ts[q][1] \in Tasks
    BY SMT
  <2>2. PICK e \in Events : ts[q][1].event = e
    BY <2>1 DEF Tasks
  <2>3. ts[q][1].seen <= l[e] + Cardinality(Earlier(ts, e, q, 1))
    BY <1>6, <2>1, <2>2 DEF WaitsBehind
  <2>4. Earlier(ts, e, q, 1) = {}
    BY SMT DEF Earlier, Queued, Positions
  <2>5. Cardinality(Earlier(ts, e, q, 1)) = 0 /\ l[e] \in Nat /\ ts[q][1].seen \in Nat
    BY <2>1, <2>4 DEF Tasks, FiniteFacts
  <2>6. ts[q][1].seen <= l[e]
    BY SMT, <2>3, <2>5
  <2> QED
    BY <2>1, <2>2, <2>6
<1> QED
  BY <1>5, <1>6 DEF WaitsBehind, us

\* More launched records do not hurt a queued wait.
LEMMA WaitsGrow ==
    ASSUME FiniteFacts, NEW ts \in [Streams -> Seq(Tasks)], NEW l \in [Events -> Nat], NEW l2 \in [Events -> Nat],
           WaitsBehind(ts, l), Grows(l, l2),
           \A e \in Events : IsFiniteSet(Queued(ts, "RECORD", e))
    PROVE  WaitsBehind(ts, l2)
<1> SUFFICES ASSUME NEW q \in Streams, NEW i \in 1 .. Len(ts[q]), ts[q][i].type = "WAIT"
             PROVE  ts[q][i].seen <= l2[ts[q][i].event] + Cardinality(Earlier(ts, ts[q][i].event, q, i))
  BY DEF WaitsBehind
<1>1. ts[q][i] \in Tasks
  BY SMT
<1>2. PICK e \in Events : e = ts[q][i].event
  BY <1>1 DEF Tasks
<1>3. /\ ts[q][i].seen \in Nat /\ l[e] \in Nat /\ l2[e] \in Nat /\ l[e] <= l2[e]
      /\ Cardinality(Earlier(ts, e, q, i)) \in Nat
  BY <1>1, EarlierFinite DEF Tasks, Grows
<1>4. ts[q][i].seen <= l[e] + Cardinality(Earlier(ts, e, q, i))
  BY <1>2 DEF WaitsBehind
<1>5. ts[q][i].seen <= l2[e] + Cardinality(Earlier(ts, e, q, i))
  BY SMT, <1>3, <1>4
<1> QED
  BY <1>2, <1>5

\* A counter that is left alone has not shrunk.
LEMMA GrowSame ==
    ASSUME NEW f \in [Events -> Nat] PROVE Grows(f, f)
BY SMT DEF Grows

\* A counter that is incremented has not shrunk.
LEMMA GrowUp ==
    ASSUME NEW f \in [Events -> Nat], NEW e \in Events
    PROVE  Grows(f, [f EXCEPT ![e] = @ + 1])
BY SMT DEF Grows

\* What the threads other than t have seen, they have still seen.
LEMMA SeenOthers ==
    ASSUME ThreadsOK, CountersOK, CountersOK', UNCHANGED mode,
           \A u \in Threads : Seen(pc[u], call[u], issued, launched, done, mode),
           Grows(issued, issued'), Grows(launched, launched'), Grows(done, done'),
           NEW t, OthersRest(pc, call, pc', call', t)
    PROVE  \A u \in Threads \ {t} : Seen(pc'[u], call'[u], issued', launched', done', mode')
<1> SUFFICES ASSUME NEW u \in Threads, u # t
             PROVE  Seen(pc'[u], call'[u], issued', launched', done', mode')
  OBVIOUS
<1>1. pc'[u] = pc[u] /\ call'[u] = call[u] /\ Seen(pc[u], call[u], issued, launched, done, mode)
  BY DEF OthersRest
<1>2. CASE pc[u] = "idle"
  BY <1>1, <1>2, SeenIdle
<1>3. CASE pc[u] # "idle"
  <2>1. call[u] \in Tasks
    BY <1>3 DEF ThreadsOK
  <2>2. Seen(pc[u], call[u], issued', launched', done', mode)
    BY <1>1, <2>1, SeenStays DEF CountersOK
  <2> QED
    BY <1>1, <2>2
<1> QED
  BY <1>2, <1>3

\* A step of thread t that changes no queue and launches or completes nothing.
LEMMA SeenQuiet ==
    ASSUME ThreadsOK, CountersOK, SeenInv, UNCHANGED <<mode, tasks, issued, launched, done>>,
           Ordered => UNCHANGED missed,
           NEW t \in Threads, OthersRest(pc, call, pc', call', t),
           Seen(pc'[t], call'[t], issued, launched, done, mode)
    PROVE  SeenInv'
<1>1. \A u \in Threads \ {t} : Seen(pc'[u], call'[u], issued', launched', done', mode')
  <2>1. \A u \in Threads \ {t} : pc'[u] = pc[u] /\ call'[u] = call[u]
    BY DEF OthersRest
  <2> QED
    BY <2>1 DEF SeenInv
<1> QED
  BY <1>1 DEF SeenInv

\* The queued records of an event are finitely many.
LEMMA QueuedFinite == ASSUME CountInv PROVE \A e \in Events : IsFiniteSet(Queued(tasks, "RECORD", e))
BY DEF CountInv, Counted

\* A thread puts its wait behind the records it saw: they are launched when every stream
\* has a queue, and otherwise launched or in the one queue.
LEMMA SeenEnqueue ==
    ASSUME FiniteFacts, TypeOK, Healthy, CountInv, SeenInv, CountersOK', UNCHANGED mode, NEW t \in Threads, Enqueue(t)
    PROVE  SeenInv'
<1>0. ThreadsOK /\ CountersOK /\ QueuesOK(tasks, mode) /\ tasks \in [Streams -> Seq(Tasks)]
  BY TypeParts DEF QueuesOK
<1>1. call[t] \in Tasks /\ call[t].event \in Events /\ call[t].stream \in Streams /\ call[t].seen \in Nat
  BY <1>0 DEF Enqueue, ThreadsOK, Tasks
<1>2. PICK q \in Streams : q = QueueOf(call[t].stream) /\ status[q] = "RUN"
  BY <1>1, QueueType DEF Healthy
<1>3. /\ tasks' = Put(tasks, q, call[t]) /\ UNCHANGED <<launched, done, missed>>
      /\ issued' = IF call[t].type = "RECORD" THEN [issued EXCEPT ![call[t].event] = @ + 1] ELSE issued
      /\ pc[t] = "enqueue"
  BY <1>2 DEF Enqueue, Put, Issued
<1>4. OthersRest(pc, call, pc', call', t) /\ (pc'[t] = "idle" \/ pc'[t] = "query")
  <2>1. CASE Return(t)
    BY <1>0, <2>1, Returns
  <2>2. CASE Goto(t, "query") /\ UNCHANGED call
    BY <1>0, <1>1, <2>2, Moves DEF Labels
  <2> QED
    BY <2>1, <2>2 DEF Enqueue
<1>5. Grows(issued, issued') /\ Grows(launched, launched') /\ Grows(done, done')
  BY <1>0, <1>1, <1>3, GrowSame, GrowUp DEF CountersOK
<1>6. \A u \in Threads : Seen(pc'[u], call'[u], issued', launched', done', mode')
  <2>1. \A u \in Threads \ {t} : Seen(pc'[u], call'[u], issued', launched', done', mode')
    BY <1>0, <1>4, <1>5, SeenOthers DEF SeenInv
  <2>2. Seen(pc'[t], call'[t], issued', launched', done', mode')
    BY <1>4, SeenIdle
  <2> QED
    BY <2>1, <2>2
<1>7. ASSUME call[t].type = "WAIT"
      PROVE  call[t].seen <= launched[call[t].event]
                                + Cardinality(Earlier(tasks, call[t].event, q, Len(tasks[q]) + 1))
  <2>1. PICK e \in Events : e = call[t].event
    BY <1>1
  <2> DEFINE S == Earlier(tasks, e, q, Len(tasks[q]) + 1)
  <2>2. call[t].seen <= IF mode.PerStreamQueue THEN launched[e] ELSE issued[e]
    BY <1>3, <1>7, <2>1 DEF SeenInv, Seen
  <2>3. launched[e] \in Nat /\ issued[e] \in Nat /\ Cardinality(S) \in Nat
    BY <1>0, QueuedFinite, EarlierFinite DEF CountersOK
  <2>4. CASE mode.PerStreamQueue
    <3> HIDE DEF S
    <3>1. call[t].seen <= launched[e] + Cardinality(S)
      BY SMT, <1>1, <2>2, <2>3, <2>4
    <3> QED
      BY <2>1, <3>1 DEF S
  <2>5. CASE ~mode.PerStreamQueue
    <3>1. q = DefaultStream
      BY <1>2, <2>5 DEF QueueOf, PerStreamQueue
    <3>2. ASSUME NEW p \in Queued(tasks, "RECORD", e)
          PROVE  p[1] = q /\ p[2] < Len(tasks[q]) + 1
      <4>1. p[1] \in Streams /\ p[2] \in Nat \ {0} /\ p[2] <= Len(tasks[p[1]])
        BY DEF Queued, Positions
      <4>2. p[2] \in DOMAIN tasks[p[1]]
        BY SMT, <1>0, <4>1
      <4>3. p[1] = DefaultStream
        BY <1>0, <2>5, <4>1, <4>2 DEF QueuesOK
      <4> QED
        BY SMT, <1>0, <3>1, <4>1, <4>3
    <3>3. S = Queued(tasks, "RECORD", e)
      BY <3>2 DEF Earlier
    <3>4. issued[e] = launched[e] + Cardinality(Queued(tasks, "RECORD", e))
      BY DEF CountInv
    <3> HIDE DEF S
    <3>5. call[t].seen <= launched[e] + Cardinality(S)
      BY <2>2, <2>5, <3>3, <3>4
    <3> QED
      BY <2>1, <3>5 DEF S
  <2> QED
    BY <2>4, <2>5
<1>8. WaitsBehind(Put(tasks, q, call[t]), launched)
  BY <1>0, <1>1, <1>7, WaitsPut DEF SeenInv
<1> QED
  BY <1>3, <1>6, <1>8 DEF SeenInv

\* The consumer launches a record, or a wait all of whose records are launched.
LEMMA SeenLaunch ==
    ASSUME FiniteFacts, TypeOK, CountInv, SeenInv, CountersOK', UNCHANGED mode, NEW q \in Streams, Launch(q)
    PROVE  SeenInv'
<1>0. ThreadsOK /\ CountersOK /\ tasks \in [Streams -> Seq(Tasks)]
  BY TypeParts DEF QueuesOK
<1>1. /\ tasks[q] # <<>> /\ tasks' = Take(tasks, q) /\ UNCHANGED <<pc, call, issued, done>>
      /\ Head(tasks[q]) \in Tasks
  BY SMT, <1>0 DEF Launch, Take, RecordEventFunc, WaitEventFunc, LazyDestroyEventFunc, AclRecord, AclWait
<1>2. PICK k \in Tasks : k = Head(tasks[q])
  BY <1>1
<1>3. k.event \in Events
  BY <1>2 DEF Tasks
<1>4. /\ launched' = IF k.type = "RECORD" THEN [launched EXCEPT ![k.event] = @ + 1] ELSE launched
      /\ missed' = IF k.type = "WAIT" /\ launched[k.event] < k.seen THEN missed \cup {k.event} ELSE missed
  BY <1>2 DEF Launch, RecordEventFunc, WaitEventFunc, LazyDestroyEventFunc, AclRecord, AclWait
<1>5. Grows(issued, issued') /\ Grows(launched, launched') /\ Grows(done, done')
  BY <1>0, <1>1, <1>3, <1>4, GrowSame, GrowUp DEF CountersOK
<1>6. \A e \in Events : k.type = "RECORD" /\ k.event = e => launched'[e] = launched[e] + 1
  BY <1>0, <1>4 DEF CountersOK
<1>7. /\ WaitsBehind(Take(tasks, q), launched')
      /\ k.type = "WAIT" => k.seen <= launched[k.event]
  BY <1>0, <1>1, <1>2, <1>5, <1>6, WaitsTake, QueuedFinite DEF SeenInv, CountersOK
<1>8. Ordered => missed' = {}
  <2>1. k.seen \in Nat /\ launched[k.event] \in Nat
    BY <1>0, <1>3 DEF Tasks, CountersOK
  <2> QED
    BY SMT, <1>4, <1>7, <2>1 DEF SeenInv
<1>9. \A u \in Threads : Seen(pc'[u], call'[u], issued', launched', done', mode')
  <2>1. PICK t : t \notin Threads
    BY NoSetContainsEverything
  <2>2. OthersRest(pc, call, pc', call', t)
    BY <1>1 DEF OthersRest
  <2>3. \A u \in Threads \ {t} : Seen(pc'[u], call'[u], issued', launched', done', mode')
    BY <1>0, <1>5, <2>2, SeenOthers DEF SeenInv
  <2> QED
    BY <2>1, <2>3
<1>10. \A e \in Events : done'[e] <= launched'[e]
  <2> TAKE e \in Events
  <2>1. done[e] <= launched[e] /\ launched[e] <= launched'[e] /\ done'[e] = done[e]
    BY <1>1, <1>5 DEF SeenInv, Grows
  <2>2. done[e] \in Nat /\ launched[e] \in Nat /\ launched'[e] \in Nat
    BY <1>0 DEF CountersOK
  <2> QED
    BY SMT, <2>1, <2>2
<1> QED
  BY <1>1, <1>7, <1>8, <1>9, <1>10 DEF SeenInv

\* Nothing is seen and nothing queued at the start.
LEMMA SeenInit == Init => SeenInv
<1> SUFFICES ASSUME Init PROVE SeenInv
  OBVIOUS
<1>1. /\ \A e \in Events : done[e] = 0 /\ launched[e] = 0
      /\ \A t \in Threads : pc[t] = "idle"
      /\ \A q \in Streams : tasks[q] = <<>>
      /\ missed = {}
  BY DEF Init
<1>2. \A t \in Threads : Seen(pc[t], call[t], issued, launched, done, mode)
  BY <1>1, SeenIdle
<1>3. WaitsBehind(tasks, launched)
  <2>1. \A q \in Streams : Len(tasks[q]) = 0
    BY SMT, <1>1
  <2> QED
    BY SMT, <2>1 DEF WaitsBehind
<1> QED
  BY SMT, <1>1, <1>2, <1>3 DEF SeenInv

\* Every step keeps it; a stream that bypasses the queue needs Ordered.
LEMMA SeenNext == ASSUME FiniteFacts PROVE TypeOK /\ Healthy /\ CountInv /\ SeenInv /\ [Next]_vars => SeenInv'
<1> SUFFICES ASSUME TypeOK, Healthy, CountInv, SeenInv, [Next]_vars PROVE SeenInv'
  OBVIOUS
<1>0. ThreadsOK /\ CountersOK /\ tasks \in [Streams -> Seq(Tasks)] /\ mode \in Modes
  BY TypeParts DEF QueuesOK, SettingsOK
<1>a. CountersOK' /\ UNCHANGED mode
  <2>1. TypeOK'
    BY TypeNext
  <2> QED
    BY <2>1 DEF TypeOK, CountersOK, Next, vars
<1>1. ASSUME NEW t \in Threads, NEW e \in Events, NEW s \in Streams, Record(t, e, s)
      PROVE  SeenInv'
  <2>1. CASE s \notin SyncLaunch
    <3> DEFINE k == Task("RECORD", e, s, 0)
    <3>1. k \in Tasks /\ k.type = "RECORD"
      BY SMT, TaskFields DEF TaskType
    <3>2. /\ Goto(t, "enqueue") /\ call' = [call EXCEPT ![t] = k]
          /\ UNCHANGED <<tasks, issued, launched, done, missed>>
      BY <1>1, <2>1 DEF Record, Begin
    <3> HIDE DEF k
    <3>3. OthersRest(pc, call, pc', call', t) /\ pc'[t] = "enqueue" /\ call'[t] = k
      BY <1>0, <3>1, <3>2, Moves DEF Labels
    <3>4. Seen(pc'[t], call'[t], issued, launched, done, mode)
      BY <3>1, <3>3 DEF Seen
    <3> QED
      BY <1>0, <1>a, <3>2, <3>3, <3>4, SeenQuiet
  <2>2. CASE s \in SyncLaunch
    <3>1. /\ Goto(t, "idle") /\ call' = [call EXCEPT ![t] = <<>>]
          /\ issued' = [issued EXCEPT ![e] = @ + 1] /\ launched' = [launched EXCEPT ![e] = @ + 1]
          /\ UNCHANGED <<tasks, done, missed>>
      BY <1>1, <2>2 DEF Record, Begin, Issued, AclRecord
    <3>2. OthersRest(pc, call, pc', call', t) /\ pc'[t] = "idle"
      BY <1>0, <3>1, Moves DEF Labels
    <3>3. Grows(issued, issued') /\ Grows(launched, launched') /\ Grows(done, done')
      BY <1>0, <3>1, GrowSame, GrowUp DEF CountersOK
    <3>4. \A u \in Threads : Seen(pc'[u], call'[u], issued', launched', done', mode')
      <4>1. \A u \in Threads \ {t} : Seen(pc'[u], call'[u], issued', launched', done', mode')
        BY <1>0, <1>a, <3>2, <3>3, SeenOthers DEF SeenInv
      <4>2. Seen(pc'[t], call'[t], issued', launched', done', mode')
        BY <3>2, SeenIdle
      <4> QED
        BY <4>1, <4>2
    <3>5. WaitsBehind(tasks, launched')
      BY <1>0, <1>a, <3>3, WaitsGrow, QueuedFinite DEF SeenInv, CountersOK
    <3>6. \A d \in Events : done'[d] <= launched'[d]
      <4> TAKE d \in Events
      <4>1. done[d] <= launched[d] /\ launched[d] <= launched'[d] /\ done'[d] = done[d]
        BY <3>1, <3>3 DEF SeenInv, Grows
      <4>2. done[d] \in Nat /\ launched[d] \in Nat /\ launched'[d] \in Nat
        BY <1>0, <1>a DEF CountersOK
      <4> QED
        BY SMT, <4>1, <4>2
    <3> QED
      BY <3>1, <3>4, <3>5, <3>6 DEF SeenInv
  <2> QED
    BY <2>1, <2>2
<1>2. ASSUME NEW t \in Threads, NEW e \in Events, NEW s \in Streams, Block(t, e, s)
      PROVE  SeenInv'
  <2> DEFINE k == Task("WAIT", e, s, issued[e])
  <2>1. issued[e] \in Nat
    BY <1>0 DEF CountersOK
  <2>2. k \in Tasks /\ k.event = e /\ k.seen = issued[e]
    BY SMT, <2>1, TaskFields DEF TaskType
  <2>3. /\ Goto(t, "block") /\ call' = [call EXCEPT ![t] = k]
        /\ UNCHANGED <<tasks, issued, launched, done, missed>>
    BY <1>2 DEF Block, Begin
  <2> HIDE DEF k
  <2>4. OthersRest(pc, call, pc', call', t) /\ pc'[t] = "block" /\ call'[t] = k
    BY <1>0, <2>2, <2>3, Moves DEF Labels
  <2>5. Seen(pc'[t], call'[t], issued, launched, done, mode)
    BY SMT, <2>1, <2>2, <2>4 DEF Seen
  <2> QED
    BY <1>0, <1>a, <2>3, <2>4, <2>5, SeenQuiet
<1>3. ASSUME NEW t \in Threads, NEW e \in Events, NEW s \in Streams, Destruct(t, e, s)
      PROVE  SeenInv'
  <2> DEFINE k == Task("DESTROY", e, s, 0)
  <2>1. k \in Tasks /\ k.type = "DESTROY"
    BY SMT, TaskFields DEF TaskType
  <2>2. UNCHANGED <<tasks, issued, launched, done, missed>>
    BY <1>3 DEF Destruct
  <2>3. \/ Goto(t, "enqueue") /\ call' = [call EXCEPT ![t] = k]
        \/ Goto(t, "idle") /\ call' = [call EXCEPT ![t] = <<>>]
        \/ Goto(t, "query") /\ call' = [call EXCEPT ![t] = k]
    BY <1>3 DEF Destruct, Begin
  <2> HIDE DEF k
  <2>4. OthersRest(pc, call, pc', call', t) /\ Seen(pc'[t], call'[t], issued, launched, done, mode)
    <3>1. CASE Goto(t, "enqueue") /\ call' = [call EXCEPT ![t] = k]
      <4>1. OthersRest(pc, call, pc', call', t) /\ pc'[t] = "enqueue" /\ call'[t] = k
        BY <1>0, <2>1, <3>1, Moves DEF Labels
      <4> QED
        BY <2>1, <4>1 DEF Seen
    <3>2. CASE Goto(t, "idle") /\ call' = [call EXCEPT ![t] = <<>>]
      <4>1. OthersRest(pc, call, pc', call', t) /\ pc'[t] = "idle"
        BY <1>0, <3>2, Moves DEF Labels
      <4> QED
        BY <4>1, SeenIdle
    <3>3. CASE Goto(t, "query") /\ call' = [call EXCEPT ![t] = k]
      <4>1. OthersRest(pc, call, pc', call', t) /\ pc'[t] = "query"
        BY <1>0, <2>1, <3>3, Moves DEF Labels
      <4> QED
        BY <4>1, SeenIdle
    <3> QED
      BY <2>3, <3>1, <3>2, <3>3
  <2> QED
    BY <1>0, <1>a, <2>2, <2>4, SeenQuiet
<1>4. ASSUME NEW t \in Threads, NEW e \in Events, NEW op \in {"query", "synchronize"}, Look(t, op, e)
      PROVE  SeenInv'
  <2> DEFINE k == Task(op, e, DefaultStream, issued[e])
  <2>1. issued[e] \in Nat /\ DefaultStream \in Streams
    BY <1>0, ModeAssumption DEF CountersOK
  <2>2. k \in Tasks /\ k.event = e /\ k.seen = issued[e]
    BY SMT, <2>1, TaskFields DEF TaskType
  <2>3. /\ Goto(t, "look") /\ call' = [call EXCEPT ![t] = k]
        /\ UNCHANGED <<tasks, issued, launched, done, missed>>
    BY <1>4 DEF Look, Begin
  <2> HIDE DEF k
  <2>4. OthersRest(pc, call, pc', call', t) /\ pc'[t] = "look" /\ call'[t] = k
    BY <1>0, <2>2, <2>3, Moves DEF Labels
  <2>5. Seen(pc'[t], call'[t], issued, launched, done, mode)
    BY SMT, <2>1, <2>2, <2>4 DEF Seen
  <2> QED
    BY <1>0, <1>a, <2>3, <2>4, <2>5, SeenQuiet
<1>5. ASSUME NEW t \in Threads, LaunchWaitTask(t)
      PROVE  SeenInv'
  <2>1. /\ call[t] \in Tasks /\ pc[t] = "block" /\ call[t].event \in Events
        /\ call[t].seen \in Nat /\ call[t].seen <= issued[call[t].event]
    BY <1>0, <1>5 DEF LaunchWaitTask, ThreadsOK, Tasks, SeenInv, Seen
  <2>2. mode.PerStreamQueue => call[t].seen <= launched[call[t].event]
    BY <1>5, <2>1, RecordedLaunched DEF LaunchWaitTask, BlockMayGo, PerStreamQueue
  <2>3. CASE call[t].stream \notin SyncLaunch
    <3>1. Goto(t, "enqueue") /\ UNCHANGED <<call, tasks, issued, launched, done, missed>>
      BY <1>5, <2>3 DEF LaunchWaitTask
    <3>2. OthersRest(pc, call, pc', call', t) /\ pc'[t] = "enqueue" /\ call'[t] = call[t]
      BY <1>0, <2>1, <3>1, Moves DEF Labels
    <3>3. Seen(pc'[t], call'[t], issued, launched, done, mode)
      BY <2>1, <2>2, <3>2 DEF Seen
    <3> QED
      BY <1>0, <1>a, <3>1, <3>2, <3>3, SeenQuiet
  <2>4. CASE call[t].stream \in SyncLaunch
    <3>1. /\ Return(t) /\ UNCHANGED <<tasks, issued, launched, done>>
          /\ missed' = IF launched[call[t].event] < call[t].seen
                       THEN missed \cup {call[t].event} ELSE missed
      BY <1>5, <2>4 DEF LaunchWaitTask, AclWait
    <3>2. Ordered => mode.PerStreamQueue
      BY <1>0, <2>4 DEF Ordered, SyncLaunch
    <3>3. Ordered => UNCHANGED missed
      <4>1. launched[call[t].event] \in Nat
        BY <1>0, <2>1 DEF CountersOK
      <4> QED
        BY SMT, <2>1, <2>2, <3>1, <3>2, <4>1
    <3>4. OthersRest(pc, call, pc', call', t) /\ Seen(pc'[t], call'[t], issued, launched, done, mode)
      BY <1>0, <3>1, Returns, SeenIdle
    <3> QED
      BY <1>0, <1>a, <3>1, <3>3, <3>4, SeenQuiet
  <2> QED
    BY <2>3, <2>4
<1>6. ASSUME NEW t \in Threads, Enqueue(t)
      PROVE  SeenInv'
  BY <1>a, <1>6, SeenEnqueue
<1>7. ASSUME NEW t \in Threads, LookCount(t) \/ LookStatus(t) \/ QueryAndDestroyEvent(t)
      PROVE  SeenInv'
  <2>1. UNCHANGED <<tasks, issued, launched, done, missed>> /\ pc[t] # "idle"
    BY <1>7 DEF LookCount, LookStatus, QueryAndDestroyEvent
  <2>2. call[t] \in Tasks /\ call[t].event \in Events
    BY <1>0, <2>1 DEF ThreadsOK, Tasks
  <2>3. CASE Return(t)
    <3>1. OthersRest(pc, call, pc', call', t) /\ Seen(pc'[t], call'[t], issued, launched, done, mode)
      BY <1>0, <2>3, Returns, SeenIdle
    <3> QED
      BY <1>0, <1>a, <2>1, <3>1, SeenQuiet
  <2>4. CASE Goto(t, "status") /\ UNCHANGED call /\ pc[t] = "look" /\ IsEventRecorded(call[t].event)
    <3>1. OthersRest(pc, call, pc', call', t) /\ pc'[t] = "status" /\ call'[t] = call[t]
      BY <1>0, <2>2, <2>4, Moves DEF Labels
    <3>2. call[t].seen <= launched[call[t].event]
      BY <2>2, <2>4, RecordedLaunched DEF SeenInv, Seen
    <3>3. Seen(pc'[t], call'[t], issued, launched, done, mode)
      BY <3>1, <3>2 DEF Seen
    <3> QED
      BY <1>0, <1>a, <2>1, <3>1, <3>3, SeenQuiet
  <2>5. CASE Goto(t, "true") /\ UNCHANGED call /\ pc[t] = "status" /\ Complete(call[t].event)
    <3>1. OthersRest(pc, call, pc', call', t) /\ pc'[t] = "true" /\ call'[t] = call[t]
      BY <1>0, <2>2, <2>5, Moves DEF Labels
    <3>2. call[t].seen <= done[call[t].event]
      BY <2>5 DEF SeenInv, Seen, Complete
    <3>3. Seen(pc'[t], call'[t], issued, launched, done, mode)
      BY <3>1, <3>2 DEF Seen
    <3> QED
      BY <1>0, <1>a, <2>1, <3>1, <3>3, SeenQuiet
  <2> QED
    BY <1>7, <2>3, <2>4, <2>5 DEF LookCount, LookStatus, QueryAndDestroyEvent
<1>8. ASSUME NEW q \in Streams, Launch(q)
      PROVE  SeenInv'
  BY <1>a, <1>8, SeenLaunch
<1>9. ASSUME NEW q \in Streams, FailureStep(q)
      PROVE  SeenInv'
  BY SMT, <1>9 DEF FailureStep, LaunchFails, CheckDeviceError, ClearAfterError, DeviceErrorLoop, Healthy
<1>10. ASSUME NEW e \in Events, DeviceRecord(e)
       PROVE  SeenInv'
  <2>1. /\ done' = [done EXCEPT ![e] = launched[e]]
        /\ UNCHANGED <<pc, call, tasks, issued, launched, missed>>
    BY <1>10 DEF DeviceRecord
  <2>2. \A d \in Events : done'[d] = IF d = e THEN launched[d] ELSE done[d]
    BY <1>0, <2>1 DEF CountersOK
  <2>3. \A d \in Events : done'[d] <= launched'[d] /\ done[d] <= done'[d]
    BY SMTT(30), <1>0, <2>1, <2>2 DEF CountersOK, SeenInv
  <2>4. Grows(issued, issued') /\ Grows(launched, launched') /\ Grows(done, done')
    BY <1>0, <2>1, <2>3, GrowSame DEF CountersOK, Grows
  <2>5. PICK t : t \notin Threads
    BY NoSetContainsEverything
  <2>6. OthersRest(pc, call, pc', call', t)
    BY <2>1 DEF OthersRest
  <2>7. \A u \in Threads \ {t} : Seen(pc'[u], call'[u], issued', launched', done', mode')
    BY <1>0, <1>a, <2>4, <2>6, SeenOthers DEF SeenInv
  <2> QED
    BY <2>1, <2>3, <2>5, <2>7 DEF SeenInv
<1>11. ASSUME NEW e \in Events, Run(e) \/ DeviceWait(e)
       PROVE  SeenInv'
  BY <1>a, <1>11 DEF Run, DeviceWait, SeenInv
<1>12. CASE UNCHANGED vars
  BY <1>12 DEF vars, SeenInv
<1> QED
  BY <1>1, <1>2, <1>3, <1>4, <1>5, <1>6, <1>7, <1>8, <1>9, <1>10, <1>11, <1>12 DEF Next, ThreadStep

\* What is seen answers a wait and a query.
LEMMA SeenHonest == TypeOK /\ SeenInv => QueryHonest /\ (Ordered => WaitSeesRecord)
<1> SUFFICES ASSUME TypeOK, SeenInv, NEW t \in Threads, pc[t] = "true"
             PROVE  done[call[t].event] >= call[t].seen
  BY DEF WaitSeesRecord, QueryHonest, SeenInv
<1>1. call[t] \in Tasks
  BY DEF TypeOK
<1>2. call[t].seen \in Nat /\ done[call[t].event] \in Nat
  BY <1>1 DEF TypeOK, Tasks
<1>3. call[t].seen <= done[call[t].event]
  BY DEF SeenInv, Seen
<1> QED
  BY <1>2, <1>3
=============================================================================
