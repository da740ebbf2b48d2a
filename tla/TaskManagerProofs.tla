-------------------------- MODULE TaskManagerProofs --------------------------
(***************************************************************************)
(* Proofs about TaskManager for every task graph, every mode of its tasks  *)
(* and any number of faults: a task that counts as succeeded did return    *)
(* success, and every task that is started is handed all the outputs of    *)
(* its prerequisites.                                                      *)
(***************************************************************************)
EXTENDS TaskManager, TLAPS

\* The steps that are not pure logic name the SMT solver.
USE Zenon
USE DEF Tasks

\* What the proofs use of finite sets. The library's theorems that say so come after the
\* lemmas, which are checked faster without them.
FiniteFacts ==
    /\ IsFiniteSet({}) /\ Cardinality({}) = 0
    /\ \A S : IsFiniteSet(S) => Cardinality(S) \in Nat
    /\ \A S : IsFiniteSet(S) => \A T \in SUBSET S : IsFiniteSet(T) /\ Cardinality(T) <= Cardinality(S)
    /\ \A S : IsFiniteSet(S) => \A x : x \notin S => Cardinality(S \cup {x}) = Cardinality(S) + 1

Statuses == {"Init", "Running", "Succeed", "Failed", "Stopped"}
Places == {"none", "running", "send1", "send2", "ret", "close", "exited"}
Messages == {"out1", "out2", "ret"}

Types ==
    /\ graph \in Graphs
    /\ status \in [Tasks -> Statuses] /\ output \in [Tasks -> BOOLEAN]
    /\ child \in [Tasks -> Places] /\ result \in [Tasks -> {0, 1}]
    /\ pre \in [Tasks -> SUBSET Tasks] /\ post \in [Tasks -> SUBSET Tasks]
    /\ input \in [Tasks -> SUBSET Tasks]
    /\ pipe \in [Tasks -> Seq(Messages)] /\ buffer \in [Tasks -> Seq(Messages)]
    /\ ready \in Seq(Tasks) /\ batch \in Seq(Tasks) /\ waiting \in Seq(Tasks)
    /\ listening \in SUBSET Tasks
    /\ writers \in [Tasks -> SUBSET (Tasks \cup {"main"})]

\* What of a task's messages has been sent and not acted upon.
Nothing == <<>>
Half == <<"out1">>
Whole == <<"out1", "out2">>
All == <<"out1", "out2", "ret">>
Code == <<"ret">>

\* It agrees with where the task's code is.  When the return code is on the way, so is
\* the output, or it was received before.
StreamOK(rcv, at, stat, out, ret, gives) ==
    /\ rcv \in {Nothing, Half, Whole, All, Code}
    /\ at \in {"none", "running", "send1"} => rcv = Nothing
    /\ at \in {"none", "running", "send1", "send2"} /\ stat # "Succeed" => ~out
    /\ at \in {"send1", "send2"} => ret = 0 /\ gives
    /\ at = "send2" => rcv = Half
    /\ at = "ret" => rcv \in {Nothing, Whole} /\ (ret = 0 => (gives <=> out \/ rcv = Whole))
    /\ rcv \in {All, Code} => at \in {"close", "exited"} /\ (ret = 0 => (gives <=> out \/ rcv = All))
    /\ stat = "Succeed" => rcv = Nothing
    /\ stat = "Init" => at = "none"
Stream(t) == StreamOK(Received(t), child[t], status[t], output[t], result[t], graph.gives[t])

Streams == \A t \in Tasks : Stream(t)
\* What is listened to was started in a process or a thread.
Listened ==
    /\ \A t \in listening : child[t] # "none"
    /\ \A t \in Tasks : child[t] # "none" => Sub(t) \/ Pthread(t)

\* A task whose code runs holds the write end of its own pipe open and is listened to,
\* and the batch that is being started has a channel for each of its tasks.
Holder(t) == IF Sub(t) THEN t ELSE "main"
Held ==
    /\ \A t \in Tasks : Alive(t) => Holder(t) \in writers[t]
    /\ ~Over => \A t \in Tasks : Alive(t) => t \in listening
    /\ Cardinality(listening) + (IF pc = "run" THEN Len(batch) ELSE 0) <= MaxConcurrent

\* pre_tasks and post_tasks follow the statuses, and a result is kept for whoever needs it.
Followed ==
    pc # "cleared" =>
        /\ \A t, d \in Tasks : d \in pre[t] <=> d \in graph.deps[t] /\ status[d] # "Succeed"
        /\ \A t, d \in Tasks : t \in post[d] <=> d \in graph.deps[t] /\ status[t] # "Succeed"
        /\ \A d \in Tasks : status[d] = "Succeed" /\ post[d] # {} => output[d] = graph.gives[d]
        /\ \A t \in Tasks : pre[t] # {} => status[t] = "Init"

\* While the manager loops, the tasks it is going to start are different ones that have
\* not been started and wait for nothing.
Looping == pc \in {"schedule", "run", "listen", "sleep", "poll"}
Line == IF pc = "run" THEN batch \o waiting ELSE ready
Lined ==
    Looping => /\ Distinct(Line)
               /\ \A i \in 1 .. Len(Line) : status[Line[i]] = "Init" /\ pre[Line[i]] = {}

ManagerIInv ==
    /\ Types /\ Streams /\ Listened /\ Held /\ Followed /\ Lined
    /\ SuccessIsReal /\ InputsDelivered

(***************************************************************************)
(* The messages of a task.                                                 *)
(***************************************************************************)

\* What Append makes, told by its elements.
LEMMA AppendIs ==
    ASSUME NEW S, NEW s \in Seq(S), NEW r \in Seq(S), NEW x \in S, Len(r) = Len(s) + 1,
           \A i \in 1 .. Len(s) : r[i] = s[i], r[Len(s) + 1] = x
    PROVE  Append(s, x) = r
<1>1. /\ Append(s, x) \in Seq(S) /\ Len(Append(s, x)) = Len(s) + 1 /\ Len(s) \in Nat
      /\ \A i \in 1 .. Len(s) : Append(s, x)[i] = s[i]
      /\ Append(s, x)[Len(s) + 1] = x
  BY SMT
<1>2. \A i \in 1 .. Len(s) + 1 : Append(s, x)[i] = r[i]
  BY SMT, <1>1
<1> QED
  BY SMT, <1>1, <1>2

\* They are different sequences, each the one before and one message more.
LEMMA Forms ==
    /\ Nothing # Half /\ Nothing # Whole /\ Nothing # All /\ Nothing # Code
    /\ Half # Whole /\ Half # All /\ Half # Code /\ Whole # All /\ Whole # Code /\ All # Code
    /\ Append(Nothing, "out1") = Half /\ Append(Half, "out2") = Whole
    /\ Append(Whole, "ret") = All /\ Append(Nothing, "ret") = Code
<1>1. Len(Nothing) = 0 /\ Len(Half) = 1 /\ Len(Whole) = 2 /\ Len(All) = 3 /\ Len(Code) = 1
  BY DEF Nothing, Half, Whole, All, Code
<1>2. Half[1] # Code[1]
  BY DEF Half, Code
<1>3. {Nothing, Half, Whole, All, Code} \subseteq Seq(Messages)
  BY SMT DEF Nothing, Half, Whole, All, Code, Messages
<1>4. /\ Half[1] = "out1" /\ Code[1] = "ret"
      /\ Whole[1] = "out1" /\ Whole[2] = "out2"
      /\ All[1] = "out1" /\ All[2] = "out2" /\ All[3] = "ret"
  BY DEF Half, Whole, All, Code
<1>5. Append(Nothing, "out1") = Half
  BY SMT, <1>1, <1>3, <1>4, AppendIs DEF Messages
<1>6. Append(Half, "out2") = Whole
  BY SMTT(30), <1>1, <1>3, <1>4, AppendIs DEF Messages
<1>7. Append(Whole, "ret") = All
  <2>1. \A i \in 1 .. Len(Whole) : All[i] = Whole[i]
    BY SMT, <1>1, <1>4
  <2>2. "ret" \in Messages /\ Len(All) = Len(Whole) + 1 /\ All[Len(Whole) + 1] = "ret"
    BY SMT, <1>1, <1>4 DEF Messages
  <2> QED
    BY SMT, <1>3, <2>1, <2>2, AppendIs
<1>8. Append(Nothing, "ret") = Code
  BY SMT, <1>1, <1>3, <1>4, AppendIs DEF Messages
<1> QED
  BY SMT, <1>1, <1>2, <1>5, <1>6, <1>7, <1>8

\* What __on_recv_msg finds in them.
LEMMA Found ==
    /\ \A s \in {Nothing, Half, Whole} : "ret" \notin Range(s)
    /\ \A s \in {All, Code} : "ret" \in Range(s)
    /\ \A s \in {Nothing, Half, Code} : ~("out1" \in Range(s) /\ "out2" \in Range(s))
    /\ \A s \in {Whole, All} : "out1" \in Range(s) /\ "out2" \in Range(s)
BY SMT DEF Range, Nothing, Half, Whole, All, Code

\* A message is sent.
LEMMA ReceivedSend ==
    ASSUME Types, NEW t \in Tasks, NEW x \in Messages,
           pipe' = [pipe EXCEPT ![t] = Append(@, x)], UNCHANGED <<graph, buffer>>
    PROVE  /\ Received(t)' = Append(Received(t), x)
           /\ \A u \in Tasks : u # t => Received(u)' = Received(u)
           /\ pipe' \in [Tasks -> Seq(Messages)]
<1>1. pipe'[t] = Append(pipe[t], x) /\ \A u \in Tasks : u # t => pipe'[u] = pipe[u]
  BY DEF Types
<1>2. pipe[t] \in Seq(Messages) /\ buffer[t] \in Seq(Messages)
  BY DEF Types
<1>3. buffer[t] \o Append(pipe[t], x) = Append(buffer[t] \o pipe[t], x)
  <2>1. PICK b \in Seq(Messages), p \in Seq(Messages) : b = buffer[t] /\ p = pipe[t]
    BY <1>2
  <2>2. /\ Append(p, x) = p \o <<x>> /\ <<x>> \in Seq(Messages) /\ b \o p \in Seq(Messages)
        /\ Append(b \o p, x) = (b \o p) \o <<x>>
    BY SMTT(30)
  <2>3. (b \o p) \o <<x>> = b \o (p \o <<x>>)
    BY SMT, <2>2
  <2> QED
    BY <2>1, <2>2, <2>3
<1>4. pipe' \in [Tasks -> Seq(Messages)]
  BY SMT, <1>2 DEF Types
<1> QED
  BY <1>1, <1>3, <1>4 DEF Received

\* The pipe of a task is read: an incomplete message is kept.
LEMMA ReceivedPoll ==
    ASSUME Types, NEW t \in Tasks, UNCHANGED graph,
           pipe' = [pipe EXCEPT ![t] = <<>>], buffer' = [buffer EXCEPT ![t] = Incomplete(t)]
    PROVE  /\ Received(t)' = IF Received(t) = Half THEN Half ELSE Nothing
           /\ \A u \in Tasks : u # t => Received(u)' = Received(u)
           /\ pipe' \in [Tasks -> Seq(Messages)] /\ buffer' \in [Tasks -> Seq(Messages)]
<1>1. pipe'[t] = <<>> /\ buffer'[t] = Incomplete(t)
  BY DEF Types
<1>2. \A u \in Tasks : u # t => pipe'[u] = pipe[u] /\ buffer'[u] = buffer[u]
  BY DEF Types
<1>3. Incomplete(t) = IF Received(t) = Half THEN Half ELSE Nothing
  BY DEF Incomplete, Half, Nothing
<1>4. Half \in Seq(Messages) /\ Nothing \in Seq(Messages)
  BY SMT DEF Half, Nothing, Messages
<1>5. Incomplete(t) \in Seq(Messages)
  BY <1>3, <1>4
<1>6. Incomplete(t) \o <<>> = Incomplete(t)
  BY SMT, <1>5
<1>7. pipe' \in [Tasks -> Seq(Messages)] /\ buffer' \in [Tasks -> Seq(Messages)]
  BY <1>4, <1>5 DEF Types, Nothing
<1> QED
  BY <1>1, <1>2, <1>3, <1>6, <1>7 DEF Received

-----------------------------------------------------------------------------
\* What WellFormed says of the graph that was chosen.
LEMMA GraphFacts ==
    ASSUME WellFormed, Types
    PROVE  IsFiniteSet(Tasks) /\ "main" \notin Tasks /\ graph.deps \in [Tasks -> SUBSET Tasks] /\ graph.gives \in [Tasks -> BOOLEAN]
BY DEF WellFormed, Types

\* The tasks before the first is started.
LEMMA ManagerInit == ASSUME FiniteFacts, WellFormed, MaxConcurrent \in Nat PROVE Init => ManagerIInv
<1> SUFFICES ASSUME Init PROVE ManagerIInv
  OBVIOUS
<1>1. PICK g \in Graphs : AddTasks(g)
  BY DEF Init
<1>2. graph = g /\ Tasks = Range(g.order)
  BY <1>1 DEF AddTasks
<1>3. /\ g.deps \in [Tasks -> SUBSET Tasks] /\ g.gives \in [Tasks -> BOOLEAN]
      /\ First(g) \in Seq(Tasks) /\ Distinct(First(g))
      /\ \A i \in 1 .. Len(First(g)) : g.deps[First(g)[i]] = {}
  BY <1>2 DEF WellFormed
<1>4. /\ status = [t \in Tasks |-> "Init"] /\ pre = g.deps /\ ready = First(g)
      /\ post = [t \in Tasks |-> {u \in Tasks : t \in g.deps[u]}]
      /\ output = [t \in Tasks |-> FALSE] /\ pipe = [t \in Tasks |-> <<>>] /\ buffer = [t \in Tasks |-> <<>>]
      /\ child = [t \in Tasks |-> "none"] /\ result = [t \in Tasks |-> 0] /\ input = [t \in Tasks |-> {}]
      /\ writers = [t \in Tasks |-> {}]
  BY <1>1, <1>2 DEF AddTasks
<1> HIDE DEF Tasks
<1>5. Types
  <2>1. batch = <<>> /\ waiting = <<>> /\ listening = {}
    BY DEF Init
  <2>2. status \in [Tasks -> Statuses] /\ output \in [Tasks -> BOOLEAN] /\ child \in [Tasks -> Places] /\ result \in [Tasks -> {0, 1}]
    BY <1>4 DEF Statuses, Places
  <2>3. pre \in [Tasks -> SUBSET Tasks] /\ post \in [Tasks -> SUBSET Tasks] /\ input \in [Tasks -> SUBSET Tasks]
    BY <1>3, <1>4
  <2>4. /\ pipe \in [Tasks -> Seq(Messages)] /\ buffer \in [Tasks -> Seq(Messages)]
        /\ writers \in [Tasks -> SUBSET (Tasks \cup {"main"})]
    BY SMT, <1>4
  <2> QED
    BY SMT, <1>2, <1>3, <1>4, <2>1, <2>2, <2>3, <2>4 DEF Types
<1>6. Streams
  <2> SUFFICES ASSUME NEW t \in Tasks PROVE Stream(t)
    BY DEF Streams
  <2>1. Received(t) = Nothing
    BY SMT, <1>4 DEF Received, Nothing
  <2>2. child[t] = "none" /\ status[t] = "Init" /\ output[t] = FALSE
    BY <1>4
  <2> QED
    BY <2>1, <2>2, Forms DEF Stream, StreamOK
<1>7. Listened
  BY <1>4 DEF Init, Listened
<1>8. Followed
  BY <1>2, <1>3, <1>4 DEF Followed
<1>9. Lined
  <2>1. Line = First(g)
    BY <1>4 DEF Init, Line
  <2>2. \A i \in 1 .. Len(First(g)) : First(g)[i] \in Tasks
    BY SMT, <1>3
  <2> QED
    BY <1>3, <1>4, <2>1, <2>2 DEF Lined
<1>10. SuccessIsReal /\ InputsDelivered
  BY <1>4 DEF SuccessIsReal, InputsDelivered, Started
<1>11. Held
  BY SMT, <1>4 DEF Init, Held, Alive, FiniteFacts
<1> QED
  BY <1>5, <1>6, <1>7, <1>8, <1>9, <1>10, <1>11 DEF ManagerIInv

-----------------------------------------------------------------------------
\* The streams of the tasks that a step does not touch.
LEMMA OtherStreams ==
    ASSUME NEW u, Stream(u), UNCHANGED graph, Received(u)' = Received(u),
           child'[u] = child[u], status'[u] = status[u], output'[u] = output[u], result'[u] = result[u]
    PROVE  Stream(u)'
BY DEF Stream

\* A step of the code of one task, which the manager does not see yet.
LEMMA ManagerChild ==
    ASSUME ManagerIInv, NEW t \in Tasks, NEW c \in Places, ManagerUnchanged,
           child' = [child EXCEPT ![t] = c], child[t] # "none", c # "none",
           c # "exited" => Alive(t), writers' \in [Tasks -> SUBSET (Tasks \cup {"main"})],
           \A u \in Tasks : Alive(u)' => (Holder(u) \in writers[u] => Holder(u) \in writers'[u]),
           pipe' \in [Tasks -> Seq(Messages)], output' \in [Tasks -> BOOLEAN], result' \in [Tasks -> {0, 1}],
           \A u \in Tasks : u # t => /\ Received(u)' = Received(u)
                                     /\ output'[u] = output[u] /\ result'[u] = result[u],
           Stream(t)',
           status[t] = "Succeed" => output'[t] = output[t] /\ result'[t] = result[t] /\ c \in {"close", "exited"}
    PROVE  ManagerIInv'
<1>1. UNCHANGED <<graph, status, pre, post, ready, batch, waiting, listening, buffer, input, pc>>
  BY DEF ManagerUnchanged
<1>2. child' \in [Tasks -> Places] /\ \A u \in Tasks : child'[u] = IF u = t THEN c ELSE child[u]
  BY DEF ManagerIInv, Types
<1>3. Types'
  BY <1>1, <1>2 DEF ManagerIInv, Types
<1>4. Streams'
  <2> SUFFICES ASSUME NEW u \in Tasks, u # t PROVE Stream(u)'
    BY <1>1 DEF Streams
  <2> QED
    BY ZenonT(60), <1>1, <1>2, OtherStreams DEF ManagerIInv, Streams
<1>5. Listened'
  <2>1. \A u \in Tasks : child'[u] # "none" => Sub(u)' \/ Pthread(u)'
    BY <1>1, <1>2 DEF ManagerIInv, Listened, Sub, Pthread
  <2> QED
    BY <1>1, <1>2, <2>1 DEF ManagerIInv, Types, Listened
<1>6. Followed'
  <2>1. \A d \in Tasks : status[d] = "Succeed" => output'[d] = output[d]
    OBVIOUS
  <2>2. graph' = graph /\ pc' = pc /\ status' = status /\ pre' = pre /\ post' = post /\ Tasks' = Tasks
    BY <1>1
  <2>3. ASSUME pc # "cleared", NEW d \in Tasks, status[d] = "Succeed", post[d] # {}
        PROVE  output'[d] = graph.gives[d]
    <3>1. output[d] = graph.gives[d]
      BY <2>3 DEF ManagerIInv, Followed
    <3> QED
      BY <2>1, <2>3, <3>1
  <2> QED
    BY SMT, <2>2, <2>3 DEF ManagerIInv, Followed
<1>7. Lined'
  BY <1>1 DEF ManagerIInv, Lined, Looping, Line
<1>8. SuccessIsReal'
  BY ZenonT(60), <1>1, <1>2 DEF ManagerIInv, SuccessIsReal
<1>9. InputsDelivered'
  BY <1>1 DEF ManagerIInv, InputsDelivered, Started
<1>10. Held'
  <2>1. \A u \in Tasks : Alive(u)' => Alive(u)
    BY <1>2 DEF Alive
  <2>2. \A u \in Tasks : Holder(u)' = Holder(u)
    BY <1>1 DEF Holder, Sub
  <2> QED
    BY <1>1, <2>1, <2>2 DEF ManagerIInv, Held, Over
<1> QED
  BY <1>3, <1>4, <1>5, <1>6, <1>7, <1>8, <1>9, <1>10 DEF ManagerIInv

\* The code of a task ends, regularly or not.
LEMMA ManagerExits ==
    ASSUME ManagerIInv, NEW t \in Tasks, ManagerUnchanged, child' = [child EXCEPT ![t] = "exited"],
           child[t] # "none", UNCHANGED <<pipe, output>>,
           NEW ret \in {0, 1}, result' = [result EXCEPT ![t] = ret],
           child[t] \in {"close", "exited"} => ret = result[t],
           writers' \in [Tasks -> SUBSET (Tasks \cup {"main"})],
           \A u \in Tasks : u # t => (Holder(u) \in writers[u] => Holder(u) \in writers'[u])
    PROVE  ManagerIInv'
<1>1. UNCHANGED <<graph, buffer, status>> /\ child'[t] = "exited"
  BY DEF ManagerUnchanged, ManagerIInv, Types
<1>2. \A u \in Tasks : Received(u)' = Received(u)
  BY <1>1 DEF Received
<1>r. \A u \in Tasks : result'[u] = IF u = t THEN ret ELSE result[u]
  BY DEF ManagerIInv, Types
<1>3. Stream(t)'
  <2>1. StreamOK(Received(t), child[t], status[t], output[t], result[t], graph.gives[t])
    BY DEF ManagerIInv, Streams, Stream
  <2>2. StreamOK(Received(t), "exited", status[t], output[t], ret, graph.gives[t])
    <3>1. Received(t) \in {All, Code} => ret = result[t]
      BY <2>1 DEF StreamOK
    <3> QED
      BY <2>1, <3>1, Forms DEF StreamOK
  <2> QED
    BY <1>1, <1>2, <1>r, <2>2 DEF Stream
<1>4. "exited" \in Places /\ pipe' \in [Tasks -> Seq(Messages)] /\ output' \in [Tasks -> BOOLEAN]
      /\ result' \in [Tasks -> {0, 1}]
  BY DEF ManagerIInv, Types, Places
<1>6. status[t] = "Succeed" => result'[t] = result[t]
  BY <1>r DEF ManagerIInv, SuccessIsReal
<1>5. \A u \in Tasks : Alive(u)' => u # t
  BY <1>1 DEF Alive
<1> QED
  BY <1>r, <1>2, <1>3, <1>4, <1>5, <1>6, ManagerChild

\* The run of a task returns.
LEMMA ManagerReturns ==
    ASSUME FiniteFacts, WellFormed, ManagerIInv, NEW t \in Tasks, NEW ret \in {0, 1}, RunReturns(t, ret)
    PROVE  ManagerIInv'
<1> DEFINE c == IF Sub(t) /\ ret = 0 /\ graph.gives[t] THEN "send1" ELSE "ret"
           out == IF Pthread(t) /\ ret = 0 THEN graph.gives[t] ELSE output[t]
<1>1. /\ child[t] = "running" /\ child' = [child EXCEPT ![t] = c]
      /\ result' = [result EXCEPT ![t] = ret]
      /\ output' = IF Pthread(t) /\ ret = 0 THEN [output EXCEPT ![t] = graph.gives[t]] ELSE output
      /\ pipe' = pipe /\ ManagerUnchanged /\ UNCHANGED <<graph, buffer, status, writers>>
  BY DEF RunReturns, ManagerUnchanged
<1>2. graph.gives[t] \in BOOLEAN
  BY GraphFacts DEF ManagerIInv
<1>3. /\ result' \in [Tasks -> {0, 1}] /\ result'[t] = ret /\ child'[t] = c
      /\ \A u \in Tasks : u # t => result'[u] = result[u]
  BY <1>1 DEF ManagerIInv, Types
<1>4. /\ output' \in [Tasks -> BOOLEAN] /\ output'[t] = out
      /\ \A u \in Tasks : u # t => output'[u] = output[u]
  BY <1>1, <1>2 DEF ManagerIInv, Types
<1>5. \A u \in Tasks : Received(u)' = Received(u)
  BY <1>1 DEF Received
<1>6. status[t] # "Succeed"
  BY <1>1 DEF ManagerIInv, SuccessIsReal
<1>7. StreamOK(Received(t), "running", status[t], output[t], result[t], graph.gives[t])
  BY <1>1 DEF ManagerIInv, Streams, Stream
<1>8. Received(t) = Nothing /\ ~output[t] /\ status[t] # "Init"
  BY <1>6, <1>7 DEF StreamOK
<1>9. Sub(t) \/ Pthread(t)
  BY <1>1 DEF ManagerIInv, Listened
<1>10. StreamOK(Nothing, c, status[t], out, ret, graph.gives[t])
  <2>1. CASE Sub(t)
    <3>1. ~Pthread(t)
      BY <2>1 DEF Pthread
    <3> QED
      BY <1>2, <1>6, <1>8, <2>1, <3>1, Forms DEF StreamOK
  <2>2. CASE Pthread(t)
    <3>1. ~Sub(t)
      BY <2>2 DEF Pthread
    <3> QED
      BY <1>2, <1>6, <1>8, <2>2, <3>1, Forms DEF StreamOK
  <2> QED
    BY <1>9, <2>1, <2>2
<1>11. Stream(t)'
  BY <1>1, <1>3, <1>4, <1>5, <1>8, <1>10 DEF Stream
<1>12. c \in Places /\ c # "none"
  BY DEF Places
<1>13. pipe' \in [Tasks -> Seq(Messages)] /\ writers' \in [Tasks -> SUBSET (Tasks \cup {"main"})] /\ Alive(t)
  BY <1>1 DEF ManagerIInv, Types, Alive
<1> HIDE DEF c, out
<1> QED
  BY <1>1, <1>3, <1>4, <1>5, <1>6, <1>11, <1>12, <1>13, ManagerChild

\* It sends its output and its return code.
LEMMA ManagerSend ==
    ASSUME ManagerIInv, NEW t \in Tasks, Send(t)
    PROVE  ManagerIInv'
<1>1. /\ child[t] \in {"send1", "send2", "ret"}
      /\ pipe' = [pipe EXCEPT ![t] = Append(@, Sent[child[t]])]
      /\ child' = [child EXCEPT ![t] = NextSend[child[t]]]
      /\ UNCHANGED <<output, result>> /\ ManagerUnchanged /\ UNCHANGED <<graph, buffer, status, writers>>
  BY DEF Send, Sent, ManagerUnchanged
<1>2. PICK x \in Messages, c \in Places : x = Sent[child[t]] /\ c = NextSend[child[t]]
  BY SMT, <1>1 DEF Sent, NextSend, Messages, Places
<1>3. \/ child[t] = "send1" /\ x = "out1" /\ c = "send2"
      \/ child[t] = "send2" /\ x = "out2" /\ c = "ret"
      \/ child[t] = "ret" /\ x = "ret" /\ c = "close"
  BY SMT, <1>1, <1>2 DEF Sent, NextSend
<1>4. /\ Received(t)' = Append(Received(t), x)
      /\ \A u \in Tasks : u # t => Received(u)' = Received(u)
      /\ pipe' \in [Tasks -> Seq(Messages)]
  BY ZenonT(60), <1>1, <1>2, ReceivedSend DEF ManagerIInv
<1>5. status[t] # "Succeed"
  BY <1>1 DEF ManagerIInv, SuccessIsReal
<1>6. StreamOK(Received(t), child[t], status[t], output[t], result[t], graph.gives[t])
  BY DEF ManagerIInv, Streams, Stream
<1>7. StreamOK(Append(Received(t), x), c, status[t], output[t], result[t], graph.gives[t])
  <2>1. CASE child[t] = "send1" /\ x = "out1" /\ c = "send2"
    BY <1>5, <1>6, <2>1, Forms DEF StreamOK
  <2>2. CASE child[t] = "send2" /\ x = "out2" /\ c = "ret"
    BY <1>5, <1>6, <2>2, Forms DEF StreamOK
  <2>3. CASE child[t] = "ret" /\ x = "ret" /\ c = "close"
    BY <1>5, <1>6, <2>3, Forms DEF StreamOK
  <2> QED
    BY <1>3, <2>1, <2>2, <2>3
<1>8. child'[t] = c
  BY <1>1, <1>2 DEF ManagerIInv, Types
<1>9. Stream(t)'
  BY <1>1, <1>4, <1>7, <1>8 DEF Stream
<1>10. /\ output' \in [Tasks -> BOOLEAN] /\ result' \in [Tasks -> {0, 1}] /\ c # "none" /\ child[t] # "none"
       /\ writers' \in [Tasks -> SUBSET (Tasks \cup {"main"})] /\ Alive(t)
  BY <1>1, <1>3 DEF ManagerIInv, Types, Alive
<1> QED
  BY <1>1, <1>2, <1>4, <1>5, <1>9, <1>10, ManagerChild

\* Every step of a task's own code.
LEMMA ManagerTask ==
    ASSUME FiniteFacts, WellFormed, ManagerIInv, NEW t \in Tasks, Child(t) \/ ProcessDies(t) \/ ThreadRaises(t)
    PROVE  ManagerIInv'
<1>1. CASE WriteFiles(t)
  <2>1. /\ child[t] = "running" /\ UNCHANGED <<child, pipe, output, result, graph, buffer, status, writers>>
        /\ ManagerUnchanged
    BY <1>1 DEF WriteFiles, ManagerUnchanged
  <2>2. child' = [child EXCEPT ![t] = "running"] /\ "running" \in Places
    BY <2>1 DEF ManagerIInv, Types, Places
  <2>3. \A u \in Tasks : Received(u)' = Received(u)
    BY <2>1 DEF Received
  <2>4. Stream(t)'
    BY <2>1, <2>3, OtherStreams DEF ManagerIInv, Streams
  <2>5. status[t] # "Succeed"
    BY <2>1 DEF ManagerIInv, SuccessIsReal
  <2>6. /\ pipe' \in [Tasks -> Seq(Messages)] /\ output' \in [Tasks -> BOOLEAN] /\ result' \in [Tasks -> {0, 1}]
        /\ writers' \in [Tasks -> SUBSET (Tasks \cup {"main"})] /\ Alive(t)
    BY <2>1 DEF ManagerIInv, Types, Alive
  <2> QED
    BY <2>1, <2>2, <2>3, <2>4, <2>5, <2>6, ManagerChild
<1>2. ASSUME NEW ret \in {0, 1}, RunReturns(t, ret)
      PROVE  ManagerIInv'
  BY <1>2, ManagerReturns
<1>3. CASE Send(t)
  BY <1>3, ManagerSend
<1>4. CASE ChildExits(t) \/ ProcessDies(t) \/ ThreadRaises(t)
  <2>1. /\ child' = [child EXCEPT ![t] = "exited"] /\ child[t] # "none"
        /\ UNCHANGED <<pipe, output>> /\ ManagerUnchanged
    BY <1>4 DEF ChildExits, ProcessDies, ThreadRaises, Alive
  <2>3. PICK ret \in {0, 1} : /\ result' = [result EXCEPT ![t] = ret]
                              /\ child[t] \in {"close", "exited"} => ret = result[t]
    <3>1. result[t] \in {0, 1} /\ result = [result EXCEPT ![t] = result[t]]
      BY DEF ManagerIInv, Types
    <3>2. \/ result' = result
          \/ child[t] # "close" /\ child[t] # "exited" /\ result' = [result EXCEPT ![t] = 1]
      BY <1>4, <3>1 DEF ChildExits, ProcessDies, ThreadRaises, Alive
    <3> QED
      BY <3>1, <3>2
  <2>2. /\ writers' \in [Tasks -> SUBSET (Tasks \cup {"main"})]
        /\ \A u \in Tasks : u # t => (Holder(u) \in writers[u] => Holder(u) \in writers'[u])
    <3>1. CASE writers' = [u \in Tasks |-> writers[u] \ {t}]
      <4>1. \A u \in Tasks : u # t => Holder(u) # t
        BY GraphFacts DEF Holder, ManagerIInv
      <4> QED
        BY <3>1, <4>1 DEF ManagerIInv, Types
    <3>2. CASE writers' = [writers EXCEPT ![t] = @ \ {"main"}]
      <4>1. writers[t] \ {"main"} \in SUBSET (Tasks \cup {"main"})
        BY DEF ManagerIInv, Types
      <4> QED
        BY <3>2, <4>1 DEF ManagerIInv, Types
    <3>3. CASE writers' = writers
      BY <3>3 DEF ManagerIInv, Types
    <3> QED
      BY <1>4, <3>1, <3>2, <3>3 DEF ChildExits, ProcessDies, ThreadRaises
  <2> QED
    BY <2>1, <2>2, <2>3, ManagerExits
<1> QED
  BY <1>1, <1>2, <1>3, <1>4 DEF Child

-----------------------------------------------------------------------------
\* A function on the numbers from 1 is a sequence.
LEMMA IsSeq ==
    ASSUME NEW S, NEW n \in Nat, NEW f \in [1 .. n -> S]
    PROVE  f \in Seq(S) /\ Len(f) = n
BY SMT

\* The dependents of a task that were waiting for it alone, in some order.
Ready(t, walk) ==
    /\ walk \in Seq(Tasks) /\ Distinct(walk)
    /\ \A i \in 1 .. Len(walk) : walk[i] \in post[t] /\ pre[walk[i]] = {t}
\* Every order in which the set of dependents is walked is one.
LEMMA WalkReady ==
    ASSUME FiniteFacts, WellFormed, Types, NEW t \in Tasks, NEW walk \in Injection(1 .. Cardinality(NowReady(t)), NowReady(t))
    PROVE  Ready(t, walk)
<1>1. NowReady(t) \subseteq Tasks
  BY DEF NowReady, Types
<1>2. IsFiniteSet(NowReady(t))
  BY <1>1, GraphFacts DEF FiniteFacts
<1>3. PICK n \in Nat : n = Cardinality(NowReady(t))
  BY <1>2 DEF FiniteFacts
<1>4. walk \in [1 .. n -> NowReady(t)] /\ \A i, j \in 1 .. n : i # j => walk[i] # walk[j]
  BY <1>3 DEF Injection, IsInjective
<1>5. walk \in [1 .. n -> Tasks]
  BY <1>1, <1>4
<1>6. walk \in Seq(Tasks) /\ Len(walk) = n
  BY <1>5, IsSeq
<1> QED
  BY <1>4, <1>6 DEF Ready, Distinct, NowReady

\* __on_task_done for a task that succeeded, or is about to.
LEMMA DoneSucceeds ==
    ASSUME FiniteFacts, WellFormed, Types, Followed, pc # "cleared", pc' # "cleared", NEW t \in Tasks, NEW out \in BOOLEAN,
           OnTaskDone(t, 0, out), UNCHANGED graph, pre[t] = {}, graph.gives[t] <=> out \/ output[t]
    PROVE  /\ status' = [status EXCEPT ![t] = "Succeed"]
           /\ pre' \in [Tasks -> SUBSET Tasks] /\ post' \in [Tasks -> SUBSET Tasks]
           /\ output' \in [Tasks -> BOOLEAN]
           /\ \E walk : Ready(t, walk) /\ ready' = ready \o walk
           /\ \A u \in Tasks : pre'[u] \subseteq pre[u]
           /\ \A u \in post[t] : t \notin pre'[u]
           /\ \A u \in Tasks : u # t /\ status[u] # "Succeed" => output'[u] = output[u]
           /\ Followed'
<1>1. /\ status' = [status EXCEPT ![t] = "Succeed"]
      /\ pre' = [u \in Tasks |-> IF u \in post[t] THEN pre[u] \ {t} ELSE pre[u]]
      /\ post' = [d \in Tasks |-> IF d \in graph.deps[t] THEN post[d] \ {t} ELSE post[d]]
      /\ output' = [d \in Tasks |-> IF d = t THEN out \/ output[t]
                                     ELSE output[d] /\ ~(d \in graph.deps[t] /\ post[d] = {t})]
      /\ \E walk \in Injection(1 .. Cardinality(NowReady(t)), NowReady(t)) : ready' = ready \o walk
  BY DEF OnTaskDone, PostDone, PreDone
<1>2. graph.deps \in [Tasks -> SUBSET Tasks] /\ graph.gives \in [Tasks -> BOOLEAN]
  BY GraphFacts
<1>3. /\ \A a, d \in Tasks : d \in pre[a] <=> d \in graph.deps[a] /\ status[d] # "Succeed"
      /\ \A a, d \in Tasks : a \in post[d] <=> d \in graph.deps[a] /\ status[a] # "Succeed"
      /\ \A d \in Tasks : status[d] = "Succeed" /\ post[d] # {} => output[d] = graph.gives[d]
      /\ \A a \in Tasks : pre[a] # {} => status[a] = "Init"
  BY DEF Followed
<1>4. \A u \in Tasks : status'[u] = IF u = t THEN "Succeed" ELSE status[u]
  BY <1>1 DEF Types
<1>5. /\ pre' \in [Tasks -> SUBSET Tasks] /\ post' \in [Tasks -> SUBSET Tasks]
      /\ \A u \in Tasks : pre'[u] \subseteq pre[u] /\ post'[u] \subseteq post[u]
      /\ \A u \in Tasks : pre'[u] = IF u \in post[t] THEN pre[u] \ {t} ELSE pre[u]
      /\ \A u \in Tasks : post'[u] = IF u \in graph.deps[t] THEN post[u] \ {t} ELSE post[u]
  BY <1>1 DEF Types
<1>6. /\ output'[t] = (out \/ output[t])
      /\ \A u \in Tasks : u # t => output'[u] = (output[u] /\ ~(u \in graph.deps[t] /\ post[u] = {t}))
  BY ZenonT(60), <1>1
<1>7. output' \in [Tasks -> BOOLEAN]
  <2>1. \A d \in Tasks : (IF d = t THEN out \/ output[t]
                          ELSE output[d] /\ ~(d \in graph.deps[t] /\ post[d] = {t})) \in BOOLEAN
    BY DEF Types
  <2> QED
    BY <1>1, <2>1
<1>8. \E walk : Ready(t, walk) /\ ready' = ready \o walk
  BY <1>1, WalkReady
<1>9. \A u \in Tasks : u # t /\ status[u] # "Succeed" => output'[u] = output[u]
  <2> SUFFICES ASSUME NEW u \in Tasks, u # t, status[u] # "Succeed" PROVE output'[u] = output[u]
    OBVIOUS
  <2>1. u \notin graph.deps[t] /\ output[u] \in BOOLEAN
    BY <1>3 DEF Types
  <2> QED
    BY <1>6, <2>1
<1>10. \A a, d \in Tasks : d \in pre'[a] <=> d \in graph.deps[a] /\ status'[d] # "Succeed"
  <2> SUFFICES ASSUME NEW a \in Tasks, NEW d \in Tasks
               PROVE  d \in pre'[a] <=> d \in graph.deps[a] /\ status'[d] # "Succeed"
    OBVIOUS
  <2>1. CASE d # t
    BY SMT, <1>3, <1>4, <1>5, <2>1
  <2>2. CASE d = t
    <3>1. t \notin pre'[a]
      BY SMT, <1>3, <1>5
    <3> QED
      BY <1>4, <2>2, <3>1
  <2> QED
    BY <2>1, <2>2
<1>11. \A a, d \in Tasks : a \in post'[d] <=> d \in graph.deps[a] /\ status'[a] # "Succeed"
  BY SMT, <1>3, <1>4, <1>5
<1>12. \A d \in Tasks : status'[d] = "Succeed" /\ post'[d] # {} => output'[d] = graph.gives[d]
  <2> SUFFICES ASSUME NEW d \in Tasks, status'[d] = "Succeed", post'[d] # {}
               PROVE  output'[d] = graph.gives[d]
    OBVIOUS
  <2>1. CASE d = t
    <3>1. (out \/ output[t]) = graph.gives[t]
      BY <1>2
    <3> QED
      BY <1>6, <2>1, <3>1
  <2>2. CASE d # t
    <3>1. status[d] = "Succeed" /\ post[d] # {} /\ ~(d \in graph.deps[t] /\ post[d] = {t})
      BY <1>4, <1>5, <2>2
    <3>2. output'[d] = output[d]
      <4>1. output[d] \in BOOLEAN
        BY DEF Types
      <4> QED
        BY <1>6, <2>2, <3>1, <4>1
    <3>3. output[d] = graph.gives[d]
      BY <1>3, <3>1
    <3> QED
      BY <3>2, <3>3
  <2> QED
    BY <2>1, <2>2
<1>13. \A a \in Tasks : pre'[a] # {} => status'[a] = "Init"
  BY SMT, <1>3, <1>4, <1>5
<1>14. Followed'
  BY SMT, <1>10, <1>11, <1>12, <1>13 DEF Followed
<1> QED
  BY ZenonT(60), <1>1, <1>5, <1>7, <1>8, <1>9, <1>14

\* A task has succeeded: what the step has to show besides.
LEMMA ManagerSucceeds ==
    ASSUME FiniteFacts, WellFormed, ManagerIInv, Types', Listened', Held', Followed', Lined', NEW t \in Tasks,
           UNCHANGED <<graph, child>>, status' = [status EXCEPT ![t] = "Succeed"],
           Received(t)' = Nothing, child[t] \in {"none", "close", "exited"}, result'[t] = 0,
           input'[t] = {d \in graph.deps[t] : graph.gives[d]},
           \A u \in Tasks : u # t => /\ Received(u)' = Received(u)
                                     /\ result'[u] = result[u] /\ input'[u] = input[u]
                                     /\ status[u] # "Succeed" => output'[u] = output[u]
    PROVE  ManagerIInv'
<1>1. \A u \in Tasks : status'[u] = IF u = t THEN "Succeed" ELSE status[u]
  BY ZenonT(60) DEF ManagerIInv, Types
<1>2. SuccessIsReal'
  BY SMT, <1>1 DEF ManagerIInv, SuccessIsReal
<1>3. InputsDelivered'
  BY SMT, <1>1 DEF ManagerIInv, InputsDelivered, Started
<1>4. Streams'
  <2> SUFFICES ASSUME NEW u \in Tasks PROVE Stream(u)'
    BY DEF Streams
  <2>1. CASE status'[u] = "Succeed"
    <3>1. Received(u)' = Nothing
      BY SMT, <1>1, <2>1 DEF ManagerIInv, Streams, Stream, StreamOK
    <3>2. child'[u] \in {"none", "close", "exited"}
      BY <1>2, <2>1 DEF SuccessIsReal
    <3> QED
      BY <2>1, <3>1, <3>2, Forms DEF Stream, StreamOK
  <2>2. CASE status'[u] # "Succeed"
    <3>1. u # t /\ status'[u] = status[u]
      BY <1>1, <2>2
    <3> QED
      BY <2>2, <3>1, OtherStreams DEF ManagerIInv, Streams
  <2> QED
    BY <2>1, <2>2
<1> QED
  BY <1>2, <1>3, <1>4 DEF ManagerIInv

\* A step that leaves the statuses alone, or makes a task that runs fail.
LEMMA ManagerFails ==
    ASSUME ManagerIInv, Types', Listened', Held', Lined', Streams', SuccessIsReal', NEW t \in Tasks,
           pc' # "cleared", pc # "cleared", UNCHANGED <<graph, pre, post>>,
           status' = [status EXCEPT ![t] = status'[t]], pre[t] = {},
           status'[t] = "Succeed" <=> status[t] = "Succeed",
           \A u \in Tasks : status[u] = "Succeed" => output'[u] = output[u]
    PROVE  Followed'
<1>1. \A u \in Tasks : u # t => status'[u] = status[u]
  BY DEF ManagerIInv, Types
<1>2. \A u \in Tasks : status'[u] = "Succeed" <=> status[u] = "Succeed"
  BY <1>1
<1>3. /\ \A a, d \in Tasks : d \in pre[a] <=> d \in graph.deps[a] /\ status[d] # "Succeed"
      /\ \A a, d \in Tasks : a \in post[d] <=> d \in graph.deps[a] /\ status[a] # "Succeed"
      /\ \A d \in Tasks : status[d] = "Succeed" /\ post[d] # {} => output[d] = graph.gives[d]
      /\ \A a \in Tasks : pre[a] # {} => status[a] = "Init"
  BY DEF ManagerIInv, Followed
<1>4. \A d \in Tasks : status'[d] = "Succeed" /\ post[d] # {} => output'[d] = graph.gives[d]
  <2> SUFFICES ASSUME NEW d \in Tasks, status'[d] = "Succeed", post[d] # {} PROVE output'[d] = graph.gives[d]
    OBVIOUS
  <2>1. output'[d] = output[d] /\ output[d] = graph.gives[d]
    BY <1>2, <1>3
  <2> QED
    BY <2>1
<1>5. \A a \in Tasks : pre[a] # {} => status'[a] = "Init"
  BY <1>1, <1>3
<1>6. graph' = graph /\ pre' = pre /\ post' = post /\ Tasks' = Tasks
  OBVIOUS
<1> QED
  BY SMT, <1>2, <1>3, <1>4, <1>5, <1>6 DEF Followed

(***************************************************************************)
(* The tasks in line.                                                      *)
(***************************************************************************)

\* The elements of a concatenation.
LEMMA Concat ==
    ASSUME NEW S, NEW r \in Seq(S), NEW w \in Seq(S)
    PROVE  /\ r \o w \in Seq(S) /\ Len(r \o w) = Len(r) + Len(w) /\ Len(r) \in Nat /\ Len(w) \in Nat
           /\ \A i \in 1 .. Len(r) : (r \o w)[i] = r[i]
           /\ \A i \in Len(r) + 1 .. Len(r) + Len(w) : (r \o w)[i] = w[i - Len(r)]
<1>1. /\ r \o w \in Seq(S) /\ Len(r \o w) = Len(r) + Len(w)
      /\ \A i \in 1 .. Len(r) + Len(w) : (r \o w)[i] = IF i <= Len(r) THEN r[i] ELSE w[i - Len(r)]
  BY SMT
<1>2. Len(r) \in Nat /\ Len(w) \in Nat
  BY SMT
<1> QED
  BY SMT, <1>1, <1>2

\* Others are put behind it.
LEMMA DistinctConcat ==
    ASSUME NEW S, NEW r \in Seq(S), NEW w \in Seq(S), Distinct(r), Distinct(w),
           \A i \in 1 .. Len(r), j \in 1 .. Len(w) : r[i] # w[j]
    PROVE  Distinct(r \o w)
<1> DEFINE c == r \o w
<1>1. /\ Len(c) = Len(r) + Len(w) /\ Len(r) \in Nat /\ Len(w) \in Nat
      /\ \A i \in 1 .. Len(r) : c[i] = r[i]
      /\ \A i \in Len(r) + 1 .. Len(r) + Len(w) : c[i] = w[i - Len(r)]
  BY SMT, Concat
<1> HIDE DEF c
<1>2. ASSUME NEW i \in 1 .. Len(c), NEW j \in 1 .. Len(c), c[i] = c[j] PROVE i = j
  <2>1. CASE i <= Len(r) /\ j <= Len(r)
    BY SMT, <1>1, <1>2, <2>1 DEF Distinct
  <2>2. CASE i <= Len(r) /\ j > Len(r)
    BY SMT, <1>1, <1>2, <2>2
  <2>3. CASE i > Len(r) /\ j <= Len(r)
    BY SMT, <1>1, <1>2, <2>3
  <2>4. CASE i > Len(r) /\ j > Len(r)
    <3>1. i - Len(r) \in 1 .. Len(w) /\ j - Len(r) \in 1 .. Len(w) /\ w[i - Len(r)] = w[j - Len(r)]
      BY SMT, <1>1, <1>2, <2>4
    <3>2. i - Len(r) = j - Len(r)
      BY <3>1 DEF Distinct
    <3> QED
      BY SMT, <1>1, <3>2
  <2> QED
    BY SMT, <1>1, <2>1, <2>2, <2>3, <2>4
<1>3. Distinct(c)
  BY <1>2 DEF Distinct
<1> QED
  BY <1>3 DEF c

\* The first leaves it.
LEMMA DistinctTail ==
    ASSUME NEW S, NEW b \in Seq(S), NEW w \in Seq(S), b # <<>>, Distinct(b \o w)
    PROVE  /\ Head(b) \in S /\ Tail(b) \in Seq(S) /\ Len(Tail(b)) = Len(b) - 1
           /\ Head(b) = (b \o w)[1] /\ 1 \in 1 .. Len(b \o w)
           /\ Distinct(Tail(b) \o w)
           /\ \A i \in 1 .. Len(Tail(b) \o w) :
                 /\ i + 1 \in 1 .. Len(b \o w) /\ (Tail(b) \o w)[i] = (b \o w)[i + 1]
                 /\ (Tail(b) \o w)[i] # Head(b)
<1> DEFINE c == b \o w
           d == Tail(b) \o w
<1>1. /\ Head(b) \in S /\ Tail(b) \in Seq(S) /\ Len(Tail(b)) = Len(b) - 1 /\ Len(b) \in Nat \ {0}
      /\ Head(b) = b[1] /\ \A i \in 1 .. Len(Tail(b)) : Tail(b)[i] = b[i + 1]
  BY SMT
<1>2. /\ Len(c) = Len(b) + Len(w) /\ Len(w) \in Nat
      /\ \A i \in 1 .. Len(b) : c[i] = b[i]
      /\ \A i \in Len(b) + 1 .. Len(b) + Len(w) : c[i] = w[i - Len(b)]
  BY Concat
<1>3. /\ Len(d) = Len(Tail(b)) + Len(w)
      /\ \A i \in 1 .. Len(Tail(b)) : d[i] = Tail(b)[i]
      /\ \A i \in Len(Tail(b)) + 1 .. Len(Tail(b)) + Len(w) : d[i] = w[i - Len(Tail(b))]
  BY SMT, <1>1, Concat
<1>4. Distinct(c)
  OBVIOUS
<1> HIDE DEF c, d
<1>5. Len(d) = Len(c) - 1 /\ Len(c) \in Nat /\ Head(b) = c[1] /\ 1 \in 1 .. Len(c)
  BY SMT, <1>1, <1>2, <1>3
<1>6. ASSUME NEW i \in 1 .. Len(d) PROVE i + 1 \in 1 .. Len(c) /\ d[i] = c[i + 1]
  <2>1. CASE i <= Len(Tail(b))
    BY SMT, <1>1, <1>2, <1>3, <2>1
  <2>2. CASE i > Len(Tail(b))
    <3>1. d[i] = w[i - Len(Tail(b))] /\ c[i + 1] = w[i + 1 - Len(b)]
      BY SMT, <1>1, <1>2, <1>3, <2>2
    <3>2. i - Len(Tail(b)) = i + 1 - Len(b)
      BY SMT, <1>1
    <3> QED
      BY SMT, <1>5, <3>1, <3>2
  <2> QED
    BY SMT, <1>1, <2>1, <2>2
<1>7. Distinct(d)
  <2> SUFFICES ASSUME NEW i \in 1 .. Len(d), NEW j \in 1 .. Len(d), d[i] = d[j] PROVE i = j
    BY DEF Distinct
  <2>1. c[i + 1] = c[j + 1] /\ i + 1 \in 1 .. Len(c) /\ j + 1 \in 1 .. Len(c)
    BY <1>6
  <2>2. i + 1 = j + 1
    BY <1>4, <2>1 DEF Distinct
  <2> QED
    BY SMT, <2>2
<1>8. \A i \in 1 .. Len(d) : d[i] # Head(b)
  BY SMT, <1>4, <1>5, <1>6 DEF Distinct
<1> QED
  BY <1>1, <1>5, <1>6, <1>7, <1>8 DEF c, d

\* __schedule splits the line into what it starts now and the rest.
LEMMA Split ==
    ASSUME NEW S, NEW r \in Seq(S), NEW n \in 0 .. Len(r)
    PROVE  /\ SubSeq(r, 1, n) \in Seq(S) /\ Len(SubSeq(r, 1, n)) = n
           /\ SubSeq(r, n + 1, Len(r)) \in Seq(S)
           /\ SubSeq(r, 1, n) \o SubSeq(r, n + 1, Len(r)) = r
<1>1. Len(r) \in Nat /\ \A i \in 1 .. Len(r) : r[i] \in S
  BY SMT
<1>2. SubSeq(r, 1, n) \in Seq(S) /\ Len(SubSeq(r, 1, n)) = n
  BY SMT, <1>1
<1>3. SubSeq(r, n + 1, Len(r)) \in Seq(S)
  BY SMT, <1>1
<1>4. Len(SubSeq(r, n + 1, Len(r))) = Len(r) - n
  BY SMT, <1>1
<1>5. /\ \A i \in 1 .. n : SubSeq(r, 1, n)[i] = r[i]
      /\ \A i \in 1 .. Len(r) - n : SubSeq(r, n + 1, Len(r))[i] = r[n + i]
  BY SMT, <1>1
<1>6. PICK a \in Seq(S), b \in Seq(S) : a = SubSeq(r, 1, n) /\ b = SubSeq(r, n + 1, Len(r))
  BY <1>2, <1>3
<1>7. /\ a \o b \in Seq(S) /\ Len(a \o b) = Len(a) + Len(b)
      /\ \A i \in 1 .. Len(a) : (a \o b)[i] = a[i]
      /\ \A i \in Len(a) + 1 .. Len(a) + Len(b) : (a \o b)[i] = b[i - Len(a)]
  BY Concat
<1>8. Len(a) = n /\ Len(b) = Len(r) - n
  BY <1>2, <1>4, <1>6
<1>9. PICK c \in Seq(S) : c = a \o b
  BY <1>7
<1>10. /\ Len(c) = n + (Len(r) - n)
       /\ \A i \in 1 .. n : c[i] = a[i]
       /\ \A i \in n + 1 .. n + (Len(r) - n) : c[i] = b[i - n]
  BY <1>7, <1>8, <1>9
<1>11. ASSUME NEW i \in 1 .. Len(r) PROVE c[i] = r[i]
  <2>1. CASE i <= n
    <3>1. i \in 1 .. n
      BY SMT, <1>1, <2>1
    <3> QED
      BY <1>5, <1>6, <1>10, <3>1
  <2>2. CASE ~(i <= n)
    <3>1. /\ i - n \in 1 .. Len(r) - n /\ n + (i - n) = i
          /\ i \in n + 1 .. n + (Len(r) - n)
      BY SMT, <1>1, <2>2
    <3>2. b[i - n] = r[i]
      BY <1>5, <1>6, <3>1
    <3> QED
      BY <1>10, <3>1, <3>2
  <2> QED
    BY <2>1, <2>2
<1>12. Len(c) = Len(r)
  BY SMT, <1>1, <1>10
<1>13. c = r
  BY SMTT(30), <1>11, <1>12
<1> QED
  BY <1>2, <1>3, <1>6, <1>9, <1>13

(***************************************************************************)
(* The steps of the manager.                                               *)
(***************************************************************************)


\* Steps that only say what the manager does next.
LEMMA ManagerTurns ==
    ASSUME ManagerIInv, Lined', ~Over, ~Over',
           UNCHANGED <<graph, status, output, pre, post, listening, pipe, buffer, writers, child, result, input>>,
           ready' \in Seq(Tasks), batch' \in Seq(Tasks), waiting' \in Seq(Tasks),
           Cardinality(listening) + (IF pc' = "run" THEN Len(batch') ELSE 0) <= MaxConcurrent
    PROVE  ManagerIInv'
<1>1. Types'
  BY DEF ManagerIInv, Types
<1>2. Streams'
  <2> SUFFICES ASSUME NEW u \in Tasks PROVE Stream(u)'
    BY DEF Streams
  <2>1. Received(u)' = Received(u)
    BY DEF Received
  <2> QED
    BY <2>1, OtherStreams DEF ManagerIInv, Streams
<1>3. Listened'
  BY DEF ManagerIInv, Listened, Sub, Pthread
<1>4. Held'
  BY DEF ManagerIInv, Held, Alive, Holder, Sub
<1>5. Followed'
  BY SMT DEF ManagerIInv, Followed, Over
<1>6. SuccessIsReal' /\ InputsDelivered'
  BY DEF ManagerIInv, SuccessIsReal, InputsDelivered, Started
<1> QED
  BY <1>1, <1>2, <1>3, <1>4, <1>5, <1>6 DEF ManagerIInv

\* __schedule takes as many as there are channels.
LEMMA ManagerSchedule ==
    ASSUME FiniteFacts, WellFormed, MaxConcurrent \in Nat, ManagerIInv, Schedule
    PROVE  ManagerIInv'
<1>1. Cardinality(listening) \in Nat /\ Cardinality(listening) <= MaxConcurrent
  <2>1. IsFiniteSet(listening)
    BY GraphFacts DEF ManagerIInv, Types, FiniteFacts
  <2>2. Cardinality(listening) \in Nat
    BY <2>1 DEF FiniteFacts
  <2>3. Cardinality(listening) + 0 <= MaxConcurrent
    BY DEF ManagerIInv, Held, Schedule
  <2> QED
    BY SMT, <2>2, <2>3
<1>2. ready \in Seq(Tasks) /\ Len(ready) \in Nat
  BY SMT DEF ManagerIInv, Types
<1>3. PICK n \in 0 .. Len(ready) : /\ n <= MaxConcurrent - Cardinality(listening)
                                   /\ batch' = SubSeq(ready, 1, n)
                                   /\ waiting' = SubSeq(ready, n + 1, Len(ready))
  <2> DEFINE free == MaxConcurrent - Cardinality(listening)
             m == IF free < Len(ready) THEN free ELSE Len(ready)
  <2>1. m \in 0 .. Len(ready) /\ m <= free
    BY SMT, <1>1, <1>2
  <2>2. batch' = SubSeq(ready, 1, m) /\ waiting' = SubSeq(ready, m + 1, Len(ready))
    BY DEF Schedule
  <2> QED
    BY <2>1, <2>2
<1>4. /\ batch' \in Seq(Tasks) /\ Len(batch') = n /\ waiting' \in Seq(Tasks)
      /\ batch' \o waiting' = ready
  BY <1>2, <1>3, Split
<1>5. /\ pc = "schedule" /\ pc' = "run"
      /\ UNCHANGED <<graph, status, output, pre, post, ready, listening, pipe, buffer, writers, child, result, input>>
  BY DEF Schedule
<1>6. Line' = Line
  BY <1>4, <1>5 DEF Line
<1>7. Lined'
  BY <1>5, <1>6 DEF ManagerIInv, Lined, Looping
<1>8. Cardinality(listening) + Len(batch') <= MaxConcurrent
  BY SMT, <1>1, <1>3, <1>4
<1>9. ~Over /\ ~Over'
  BY <1>5 DEF Over
<1> QED
  BY <1>2, <1>4, <1>5, <1>7, <1>8, <1>9, ManagerTurns

\* The end of __schedule, the tests of __listen and an interrupt.
LEMMA ManagerTests ==
    ASSUME FiniteFacts, WellFormed, MaxConcurrent \in Nat, ManagerIInv, ScheduleEnds \/ ListenChecks \/ ListenSlept \/ Interrupt
    PROVE  ManagerIInv'
<1>1. /\ UNCHANGED <<graph, status, output, pre, post, listening, pipe, buffer, writers, child, result, input>>
      /\ UNCHANGED <<batch, waiting>> /\ ~Over /\ ~Over' /\ pc' # "run"
      /\ ready' = ready \/ ready' = waiting
  BY DEF ScheduleEnds, ListenChecks, ListenSlept, Interrupt, Over
<1>2. ready' \in Seq(Tasks) /\ batch' \in Seq(Tasks) /\ waiting' \in Seq(Tasks)
  BY <1>1 DEF ManagerIInv, Types
<1>3. Lined'
  <2>1. CASE ScheduleEnds
    <3>1. batch = <<>> /\ pc = "run" /\ ready' = waiting /\ pc' = "listen" /\ waiting \in Seq(Tasks)
      BY <2>1 DEF ScheduleEnds, ManagerIInv, Types
    <3>2. Line' = Line
      BY SMT, <3>1 DEF Line
    <3> QED
      BY <1>1, <3>1, <3>2 DEF ManagerIInv, Lined, Looping
  <2>2. CASE ListenChecks \/ ListenSlept
    <3>1. pc \in {"listen", "sleep"} /\ pc' # "run" /\ UNCHANGED ready
      BY <2>2 DEF ListenChecks, ListenSlept
    <3>2. Line' = Line
      BY <3>1 DEF Line
    <3> QED
      BY <1>1, <3>1, <3>2 DEF ManagerIInv, Lined, Looping
  <2>3. CASE Interrupt
    BY <2>3 DEF Interrupt, Lined, Looping
  <2> QED
    BY <2>1, <2>2, <2>3
<1>4. Cardinality(listening) + 0 <= MaxConcurrent
  <2>1. IsFiniteSet(listening)
    BY GraphFacts DEF ManagerIInv, Types, FiniteFacts
  <2>2. Cardinality(listening) \in Nat /\ Len(batch) \in Nat
    BY SMT, <2>1 DEF ManagerIInv, Types, FiniteFacts
  <2>3. Cardinality(listening) + (IF pc = "run" THEN Len(batch) ELSE 0) <= MaxConcurrent
    BY DEF ManagerIInv, Held
  <2> QED
    BY SMT, <2>2, <2>3
<1> QED
  BY <1>1, <1>2, <1>3, <1>4, ManagerTurns

\* The task that is started next has all it waits for.
Starts(t) ==
    /\ t \in Tasks /\ status[t] = "Init" /\ pre[t] = {} /\ child[t] = "none" /\ t \notin listening
    /\ Received(t) = Nothing /\ ~output[t]
    /\ Inputs(t) = {d \in graph.deps[t] : graph.gives[d]}
\* The head of the batch is such a task, and the rest of the line is unharmed.
LEMMA BatchStarts ==
    ASSUME FiniteFacts, WellFormed, ManagerIInv, RunOneTask
    PROVE  /\ Starts(Head(batch)) /\ pc = "run" /\ pc' = "run"
           /\ batch' \in Seq(Tasks) /\ Len(batch') = Len(batch) - 1
           /\ Distinct(Line')
           /\ \A i \in 1 .. Len(Line') : /\ status[Line'[i]] = "Init" /\ pre[Line'[i]] = {}
                                         /\ Line'[i] \in Tasks /\ Line'[i] # Head(batch)
<1>1. /\ pc = "run" /\ pc' = "run" /\ batch # <<>> /\ batch' = Tail(batch) /\ waiting' = waiting
  BY DEF RunOneTask
<1>2. batch \in Seq(Tasks) /\ waiting \in Seq(Tasks)
  BY DEF ManagerIInv, Types
<1>3. Line = batch \o waiting /\ Line' = Tail(batch) \o waiting
  BY <1>1 DEF Line
<1>4. /\ Distinct(Line)
      /\ \A i \in 1 .. Len(Line) : status[Line[i]] = "Init" /\ pre[Line[i]] = {}
  BY <1>1 DEF ManagerIInv, Lined, Looping
<1>5. /\ Head(batch) \in Tasks /\ Tail(batch) \in Seq(Tasks) /\ Len(Tail(batch)) = Len(batch) - 1
      /\ Head(batch) = Line[1] /\ 1 \in 1 .. Len(Line)
      /\ Distinct(Line')
      /\ \A i \in 1 .. Len(Line') : /\ i + 1 \in 1 .. Len(Line) /\ Line'[i] = Line[i + 1]
                                    /\ Line'[i] # Head(batch)
  <2>1. Distinct(batch \o waiting)
    BY <1>3, <1>4
  <2>2. /\ Head(batch) \in Tasks /\ Tail(batch) \in Seq(Tasks) /\ Len(Tail(batch)) = Len(batch) - 1
        /\ Head(batch) = (batch \o waiting)[1] /\ 1 \in 1 .. Len(batch \o waiting)
        /\ Distinct(Tail(batch) \o waiting)
        /\ \A i \in 1 .. Len(Tail(batch) \o waiting) :
              /\ i + 1 \in 1 .. Len(batch \o waiting) /\ (Tail(batch) \o waiting)[i] = (batch \o waiting)[i + 1]
              /\ (Tail(batch) \o waiting)[i] # Head(batch)
    BY ZenonT(60), <1>1, <1>2, <2>1, DistinctTail
  <2> QED
    BY <1>3, <2>2
<1>6. \A i \in 1 .. Len(Line') : Line'[i] \in Tasks
  BY SMT, <1>2, <1>3, <1>5, Concat
<1>7. Starts(Head(batch))
  <2> DEFINE t == Head(batch)
  <2>1. t \in Tasks /\ status[t] = "Init" /\ pre[t] = {}
    BY <1>4, <1>5
  <2> HIDE DEF t
  <2>2. child[t] = "none" /\ Received(t) = Nothing /\ ~output[t]
    BY <2>1 DEF ManagerIInv, Streams, Stream, StreamOK
  <2>3. t \notin listening
    BY <2>2 DEF ManagerIInv, Listened
  <2>4. ASSUME NEW d \in graph.deps[t] PROVE output[d] = graph.gives[d]
    <3>1. d \in Tasks
      BY <2>1, GraphFacts DEF ManagerIInv
    <3>2. status[d] = "Succeed" /\ t \in post[d]
      BY <1>1, <2>1, <3>1 DEF ManagerIInv, Followed
    <3> QED
      BY <1>1, <3>1, <3>2 DEF ManagerIInv, Followed
  <2>5. Inputs(t) = {d \in graph.deps[t] : graph.gives[d]}
    BY <2>4 DEF Inputs
  <2> QED
    BY <2>1, <2>2, <2>3, <2>5 DEF Starts, t
<1>8. \A i \in 1 .. Len(Line') : status[Line'[i]] = "Init" /\ pre[Line'[i]] = {}
  <2> SUFFICES ASSUME NEW i \in 1 .. Len(Line') PROVE status[Line'[i]] = "Init" /\ pre[Line'[i]] = {}
    OBVIOUS
  <2>1. PICK j \in 1 .. Len(Line) : Line'[i] = Line[j]
    BY <1>5
  <2>2. status[Line[j]] = "Init" /\ pre[Line[j]] = {}
    BY <1>4
  <2> QED
    BY <2>1, <2>2
<1>9. /\ batch' \in Seq(Tasks) /\ Len(batch') = Len(batch) - 1 /\ Distinct(Line')
      /\ \A i \in 1 .. Len(Line') : Line'[i] # Head(batch)
  BY <1>1, <1>5
<1> QED
  BY <1>1, <1>6, <1>7, <1>8, <1>9

\* __run_in_subprocess and __run_in_pthread.
LEMMA ManagerRunChild ==
    ASSUME FiniteFacts, WellFormed, MaxConcurrent \in Nat, ManagerIInv, RunOneTask, NEW t, t = Head(batch), Sub(t) \/ Pthread(t)
    PROVE  ManagerIInv'
<1>1. /\ Starts(t) /\ pc = "run" /\ pc' = "run"
      /\ batch' \in Seq(Tasks) /\ Len(batch') = Len(batch) - 1
      /\ Distinct(Line')
      /\ \A i \in 1 .. Len(Line') : /\ status[Line'[i]] = "Init" /\ pre[Line'[i]] = {}
                                    /\ Line'[i] \in Tasks /\ Line'[i] # t
  BY BatchStarts
<1>2. /\ RunChild(t) /\ UNCHANGED <<graph, waiting, pipe, buffer, files, pc>>
  BY DEF RunOneTask
<1> USE DEF Starts
<1>3. /\ status' = [status EXCEPT ![t] = "Running"]
      /\ input' = [input EXCEPT ![t] = Inputs(t)]
      /\ listening' = listening \cup {t}
      /\ child' = [child EXCEPT ![t] = "running"]
      /\ UNCHANGED <<output, pre, post, ready, result>>
  BY <1>2 DEF RunChild
<1>4. /\ \A u \in Tasks : status'[u] = IF u = t THEN "Running" ELSE status[u]
      /\ \A u \in Tasks : child'[u] = IF u = t THEN "running" ELSE child[u]
      /\ \A u \in Tasks : input'[u] = IF u = t THEN Inputs(t) ELSE input[u]
  BY <1>1, <1>3 DEF ManagerIInv, Types
<1>5. /\ writers' \in [Tasks -> SUBSET (Tasks \cup {"main"})] /\ Holder(t) \in writers'[t]
      /\ \A u \in Tasks : u # t => writers[u] \subseteq writers'[u]
  <2>1. CASE Sub(t)
    <3>1. writers' = [u \in Tasks |-> IF u = t THEN {t} ELSE writers[u] \cup {v \in {t} : "main" \in writers[u]}]
      BY <1>2, <2>1 DEF RunChild
    <3> QED
      BY SMT, <1>1, <2>1, <3>1 DEF ManagerIInv, Types, Holder
  <2>2. CASE ~Sub(t)
    <3>1. writers' = [writers EXCEPT ![t] = {"main"}]
      BY <1>2, <2>2 DEF RunChild
    <3> QED
      BY <1>1, <2>2, <3>1 DEF ManagerIInv, Types, Holder
  <2> QED
    BY <2>1, <2>2
<1>6. Types'
  <2>1. Inputs(t) \subseteq Tasks
    BY <1>1, GraphFacts DEF ManagerIInv, Inputs
  <2>2. /\ status' \in [Tasks -> Statuses] /\ child' \in [Tasks -> Places]
        /\ input' \in [Tasks -> SUBSET Tasks] /\ listening' \in SUBSET Tasks
    BY <1>1, <1>3, <2>1 DEF ManagerIInv, Types, Statuses, Places
  <2> QED
    BY ZenonT(60), <1>1, <1>2, <1>3, <1>5, <2>2 DEF ManagerIInv, Types
<1>7. \A u \in Tasks : Received(u)' = Received(u)
  BY <1>2 DEF Received
<1>8. Streams'
  <2>1. Stream(t)'
    <3>1. /\ Received(t)' = Nothing /\ child'[t] = "running" /\ status'[t] = "Running" /\ ~output'[t]
      BY <1>1, <1>3, <1>4, <1>7
    <3> QED
      BY <3>1, Forms DEF Stream, StreamOK
  <2>2. ASSUME NEW u \in Tasks, u # t PROVE Stream(u)'
    BY <1>2, <1>3, <1>4, <1>7, <2>2, OtherStreams DEF ManagerIInv, Streams
  <2> QED
    BY <1>2, <2>1, <2>2 DEF Streams
<1>9. Listened'
  <2>1. \A u \in listening' : child'[u] # "none"
    BY SMT, <1>1, <1>3, <1>4 DEF ManagerIInv, Listened, Types
  <2>2. \A u \in Tasks : child'[u] # "none" => Sub(u) \/ Pthread(u)
    BY <1>4 DEF ManagerIInv, Listened
  <2> QED
    BY <1>2, <2>1, <2>2 DEF Listened, Sub, Pthread
<1>10. Held'
  <2>1. \A u \in Tasks : Alive(u)' => u = t \/ Alive(u)
    BY <1>4 DEF Alive
  <2>2. \A u \in Tasks : Holder(u)' = Holder(u)
    BY <1>2 DEF Holder, Sub
  <2>3. \A u \in Tasks : Alive(u)' => Holder(u)' \in writers'[u]
    BY <1>5, <2>1, <2>2 DEF ManagerIInv, Held
  <2>4. \A u \in Tasks : Alive(u)' => u \in listening'
    BY <1>1, <1>3, <2>1 DEF ManagerIInv, Held, Over
  <2>5. IsFiniteSet(listening)
    BY GraphFacts DEF ManagerIInv, Types, FiniteFacts
  <2>6. Cardinality(listening') = Cardinality(listening) + 1 /\ Cardinality(listening) \in Nat
    BY <1>1, <1>3, <2>5 DEF FiniteFacts
  <2>7. Cardinality(listening) + Len(batch) <= MaxConcurrent /\ Len(batch) \in Nat
    BY SMTT(30), <1>1 DEF ManagerIInv, Held, Types
  <2>8. Cardinality(listening') + Len(batch') <= MaxConcurrent
    BY SMTT(30), <1>1, <2>6, <2>7
  <2> QED
    BY <1>1, <1>2, <2>3, <2>4, <2>8 DEF Held
<1>11. Lined'
  BY SMTT(30), <1>1, <1>3, <1>4 DEF Lined
<1>12. SuccessIsReal'
  BY SMTT(30), <1>2, <1>3, <1>4 DEF ManagerIInv, SuccessIsReal
<1>13. InputsDelivered'
  BY SMT, <1>1, <1>2, <1>4 DEF ManagerIInv, InputsDelivered, Started
<1>14. Followed'
  <2>1. status' = [status EXCEPT ![t] = status'[t]]
    BY <1>1, <1>3, <1>4
  <2>2. status'[t] = "Running" /\ status[t] = "Init"
    BY <1>1, <1>4
  <2> QED
    BY <1>1, <1>2, <1>3, <1>6, <1>8, <1>9, <1>10, <1>11, <1>12, <2>1, <2>2, ManagerFails
<1> QED
  BY <1>6, <1>8, <1>9, <1>10, <1>11, <1>12, <1>13, <1>14 DEF ManagerIInv

\* __run_in_mainprocess.
LEMMA ManagerRunHere ==
    ASSUME FiniteFacts, WellFormed, MaxConcurrent \in Nat, ManagerIInv, RunOneTask, NEW t, t = Head(batch), ~(Sub(t) \/ Pthread(t))
    PROVE  ManagerIInv'
<1>1. /\ Starts(t) /\ pc = "run" /\ pc' = "run"
      /\ batch' \in Seq(Tasks) /\ Len(batch') = Len(batch) - 1
      /\ Distinct(Line')
      /\ \A i \in 1 .. Len(Line') : /\ status[Line'[i]] = "Init" /\ pre[Line'[i]] = {}
                                    /\ Line'[i] \in Tasks /\ Line'[i] # t
  BY BatchStarts
<1>2. /\ RunHere(t) /\ UNCHANGED <<graph, waiting, pipe, buffer, files, pc, listening, child, writers>>
  BY DEF RunOneTask, RunHere
<1> USE DEF Starts
<1>3. PICK ret \in {0, 1} : OnTaskDone(t, ret, graph.gives[t]) /\ result' = [result EXCEPT ![t] = ret]
  BY <1>2 DEF RunHere
<1>4. input' = [input EXCEPT ![t] = Inputs(t)]
  BY <1>2 DEF RunHere
<1>5. /\ \A u \in Tasks : result'[u] = IF u = t THEN ret ELSE result[u]
      /\ \A u \in Tasks : input'[u] = IF u = t THEN Inputs(t) ELSE input[u]
      /\ result' \in [Tasks -> {0, 1}]
  BY <1>1, <1>3, <1>4 DEF ManagerIInv, Types
<1>6. input' \in [Tasks -> SUBSET Tasks] /\ graph.gives[t] \in BOOLEAN
  <2>1. Inputs(t) \subseteq Tasks /\ graph.gives[t] \in BOOLEAN
    BY <1>1, GraphFacts DEF ManagerIInv, Inputs
  <2> QED
    BY <1>1, <1>4, <2>1 DEF ManagerIInv, Types
<1>7. \A u \in Tasks : Received(u)' = Received(u)
  BY <1>2 DEF Received
<1>8. Listened'
  BY <1>2 DEF ManagerIInv, Listened, Sub, Pthread
<1>9. Held'
  <2>1. \A u \in Tasks : (Alive(u)' <=> Alive(u)) /\ Holder(u)' = Holder(u)
    BY <1>2 DEF Alive, Holder, Sub
  <2>2. /\ \A u \in Tasks : Alive(u)' => Holder(u)' \in writers'[u]
        /\ \A u \in Tasks : Alive(u)' => u \in listening'
    BY ZenonT(60), <1>1, <1>2, <2>1 DEF ManagerIInv, Held, Over
  <2>3. IsFiniteSet(listening)
    BY GraphFacts DEF ManagerIInv, Types, FiniteFacts
  <2>4. Cardinality(listening) \in Nat
    BY <2>3 DEF FiniteFacts
  <2>5. Cardinality(listening) + Len(batch) <= MaxConcurrent /\ Len(batch) \in Nat
    BY SMTT(30), <1>1 DEF ManagerIInv, Held, Types
  <2>6. Cardinality(listening') + Len(batch') <= MaxConcurrent
    BY SMT, <1>1, <1>2, <2>4, <2>5
  <2> QED
    BY <1>1, <1>2, <2>2, <2>6 DEF Held
<1>10. CASE ret = 0
  <2>1. OnTaskDone(t, 0, graph.gives[t])
    BY <1>3, <1>10
  <2>2. graph.gives[t] <=> graph.gives[t] \/ output[t]
    BY ZenonT(60), <1>1
  <2>3. /\ status' = [status EXCEPT ![t] = "Succeed"]
        /\ pre' \in [Tasks -> SUBSET Tasks] /\ post' \in [Tasks -> SUBSET Tasks]
        /\ output' \in [Tasks -> BOOLEAN]
        /\ \E walk : Ready(t, walk) /\ ready' = ready \o walk
        /\ \A u \in Tasks : pre'[u] \subseteq pre[u]
        /\ \A u \in Tasks : u # t /\ status[u] # "Succeed" => output'[u] = output[u]
        /\ Followed'
    BY ZenonT(60), <1>1, <1>2, <1>6, <2>1, <2>2, DoneSucceeds DEF ManagerIInv
  <2>4. ready' \in Seq(Tasks)
    BY SMT, <2>3, Concat DEF Ready, ManagerIInv, Types
  <2>5. \A u \in Tasks : status'[u] = IF u = t THEN "Succeed" ELSE status[u]
    BY <2>3 DEF ManagerIInv, Types
  <2>6. status' \in [Tasks -> Statuses]
    BY <2>3 DEF ManagerIInv, Types, Statuses
  <2>7. Types'
    BY ZenonT(60), <1>1, <1>2, <1>5, <1>6, <2>3, <2>4, <2>6 DEF ManagerIInv, Types
  <2>8. Lined'
    <3>1. ASSUME NEW i \in 1 .. Len(Line') PROVE status'[Line'[i]] = "Init" /\ pre'[Line'[i]] = {}
      <4>1. PICK u \in Tasks : u = Line'[i] /\ u # t /\ status[u] = "Init" /\ pre[u] = {}
        BY ZenonT(60), <1>1
      <4>2. status'[u] = "Init" /\ pre'[u] = {}
        BY <2>3, <2>5, <4>1
      <4> QED
        BY <4>1, <4>2
    <3> QED
      BY ZenonT(60), <1>1, <3>1 DEF Lined
  <2>9. /\ Received(t)' = Nothing /\ child[t] = "none" /\ result'[t] = 0
        /\ input'[t] = {d \in graph.deps[t] : graph.gives[d]}
    BY <1>1, <1>5, <1>7, <1>10
  <2>10. \A u \in Tasks : u # t => /\ Received(u)' = Received(u)
                                   /\ result'[u] = result[u] /\ input'[u] = input[u]
                                   /\ status[u] # "Succeed" => output'[u] = output[u]
    BY <1>5, <1>7, <2>3
  <2> QED
    BY <1>1, <1>2, <1>8, <1>9, <2>3, <2>7, <2>8, <2>9, <2>10, ManagerSucceeds
<1>11. CASE ret = 1
  <2>1. status' = [status EXCEPT ![t] = "Failed"] /\ UNCHANGED <<pre, ready, post, output>>
    BY SMT, <1>3, <1>11 DEF OnTaskDone
  <2>2. \A u \in Tasks : status'[u] = IF u = t THEN "Failed" ELSE status[u]
    BY <2>1 DEF ManagerIInv, Types
  <2>3. status' \in [Tasks -> Statuses]
    BY ZenonT(60), <2>1 DEF ManagerIInv, Types, Statuses
  <2>4. Types'
    BY <1>1, <1>2, <1>5, <1>6, <2>1, <2>3 DEF ManagerIInv, Types
  <2>5. Lined'
    BY <1>1, <2>1, <2>2 DEF Lined
  <2>6. Streams'
    <3>1. Stream(t)'
      <4>1. /\ Received(t)' = Nothing /\ child'[t] = "none" /\ status'[t] = "Failed" /\ ~output'[t]
        BY <1>1, <1>2, <1>7, <2>1, <2>2
      <4> QED
        BY <4>1, Forms DEF Stream, StreamOK
    <3>2. ASSUME NEW u \in Tasks, u # t PROVE Stream(u)'
      BY <1>2, <1>5, <1>7, <2>1, <2>2, <3>2, OtherStreams DEF ManagerIInv, Streams
    <3> QED
      BY <1>2, <3>1, <3>2 DEF Streams
  <2>7. SuccessIsReal'
    BY ZenonT(60), <1>2, <1>5, <2>2 DEF ManagerIInv, SuccessIsReal
  <2>8. InputsDelivered'
    BY SMT, <1>1, <1>2, <1>5, <2>2 DEF ManagerIInv, InputsDelivered, Started
  <2>9. Followed'
    <3>1. status' = [status EXCEPT ![t] = status'[t]]
      BY ZenonT(60), <1>1, <2>1, <2>2
    <3>2. status'[t] = "Failed" /\ status[t] = "Init"
      BY <1>1, <2>2
    <3> QED
      BY <1>1, <1>2, <1>8, <1>9, <2>1, <2>4, <2>5, <2>6, <2>7, <3>1, <3>2, ManagerFails
  <2> QED
    BY <1>8, <1>9, <2>4, <2>5, <2>6, <2>7, <2>8, <2>9 DEF ManagerIInv
<1> QED
  BY <1>3, <1>10, <1>11

\* A task whose messages are read: it was started, and a task is given up by the
\* listener only when its code is over.
LEMMA PollFacts ==
    ASSUME FiniteFacts, WellFormed, MaxConcurrent \in Nat, ManagerIInv, NEW t \in Tasks, Poll(t)
    PROVE  /\ pc = "poll" /\ pc' = "schedule" /\ status[t] # "Init" /\ pre[t] = {} /\ Looping
           /\ UNCHANGED <<graph, batch, waiting, writers, child, result, input>>
           /\ Received(t)' = IF Received(t) = Half THEN Half ELSE Nothing
           /\ \A u \in Tasks : u # t => Received(u)' = Received(u)
           /\ pipe' \in [Tasks -> Seq(Messages)] /\ buffer' \in [Tasks -> Seq(Messages)]
           /\ listening' \in SUBSET Tasks /\ Listened' /\ Held'
<1>1. /\ pc = "poll" /\ pc' = "schedule" /\ t \in listening
      /\ pipe' = [pipe EXCEPT ![t] = <<>>] /\ buffer' = [buffer EXCEPT ![t] = Incomplete(t)]
      /\ listening' = IF writers[t] = {} THEN listening \ {t} ELSE listening
      /\ UNCHANGED <<graph, batch, waiting, writers, child, result, input>>
  BY DEF Poll
<1>2. child[t] # "none"
  BY <1>1 DEF ManagerIInv, Listened
<1>3. status[t] # "Init"
  BY <1>2 DEF ManagerIInv, Streams, Stream, StreamOK
<1>4. pre[t] = {}
  BY ZenonT(60), <1>1, <1>3 DEF ManagerIInv, Followed
<1>5. /\ Received(t)' = IF Received(t) = Half THEN Half ELSE Nothing
      /\ \A u \in Tasks : u # t => Received(u)' = Received(u)
      /\ pipe' \in [Tasks -> Seq(Messages)] /\ buffer' \in [Tasks -> Seq(Messages)]
  BY ZenonT(60), <1>1, ReceivedPoll DEF ManagerIInv
<1>6. listening' \subseteq listening /\ listening \in SUBSET Tasks
  BY <1>1 DEF ManagerIInv, Types
<1>7. Listened'
  BY <1>1, <1>6 DEF ManagerIInv, Listened, Sub, Pthread
<1>8. Held'
  <2>1. \A u \in Tasks : (Alive(u)' <=> Alive(u)) /\ Holder(u)' = Holder(u)
    BY <1>1 DEF Alive, Holder, Sub
  <2>2. \A u \in Tasks : Alive(u) => Holder(u) \in writers[u] /\ u \in listening
    BY <1>1 DEF ManagerIInv, Held, Over
  <2>3. \A u \in Tasks : Alive(u) => u \in listening'
    BY <1>1, <2>2
  <2>4. IsFiniteSet(listening)
    BY <1>6, GraphFacts DEF ManagerIInv, FiniteFacts
  <2>5. Cardinality(listening') <= Cardinality(listening)
    BY <1>6, <2>4 DEF FiniteFacts
  <2>6. Cardinality(listening) \in Nat /\ Cardinality(listening') \in Nat
    BY <1>6, <2>4 DEF FiniteFacts
  <2>7. Cardinality(listening) + 0 <= MaxConcurrent
    BY <1>1 DEF ManagerIInv, Held
  <2>8. Cardinality(listening') + 0 <= MaxConcurrent
    BY SMT, <2>5, <2>6, <2>7
  <2> QED
    BY ZenonT(60), <1>1, <2>1, <2>2, <2>3, <2>8 DEF Held
<1>9. Looping
  BY <1>1 DEF Looping
<1> QED
  BY <1>1, <1>3, <1>4, <1>5, <1>6, <1>7, <1>8, <1>9

\* The return code of a task that succeeded has arrived: its dependents join the line.
LEMMA ManagerPollSucceeds ==
    ASSUME FiniteFacts, WellFormed, MaxConcurrent \in Nat, ManagerIInv, NEW t \in Tasks, Poll(t), RetCodeIn(t), result[t] = 0
    PROVE  ManagerIInv'
<1>1. /\ pc = "poll" /\ pc' = "schedule" /\ status[t] # "Init" /\ pre[t] = {} /\ Looping
      /\ UNCHANGED <<graph, batch, waiting, writers, child, result, input>>
      /\ Received(t)' = IF Received(t) = Half THEN Half ELSE Nothing
      /\ \A u \in Tasks : u # t => Received(u)' = Received(u)
      /\ pipe' \in [Tasks -> Seq(Messages)] /\ buffer' \in [Tasks -> Seq(Messages)]
      /\ listening' \in SUBSET Tasks /\ Listened' /\ Held'
  BY ZenonT(60), PollFacts
<1>2. Received(t) \in {All, Code}
  <2>1. Received(t) \in {Nothing, Half, Whole, All, Code}
    BY DEF ManagerIInv, Streams, Stream, StreamOK
  <2> QED
    BY <2>1, Found DEF RetCodeIn
<1>3. /\ child[t] \in {"close", "exited"} /\ (graph.gives[t] <=> output[t] \/ Received(t) = All)
  BY <1>2 DEF ManagerIInv, Streams, Stream, StreamOK
<1>4. OutputIn(t) <=> Received(t) = All
  BY <1>2, Found, Forms DEF OutputIn
<1>5. Received(t)' = Nothing
  BY <1>1, <1>2, Forms
<1>6. OnTaskDone(t, 0, OutputIn(t))
  BY DEF Poll
<1>7. PICK out \in BOOLEAN : out = OutputIn(t)
  BY ZenonT(60) DEF OutputIn
<1>8. graph.gives[t] <=> out \/ output[t]
  BY <1>3, <1>4, <1>7
<1>9. /\ status' = [status EXCEPT ![t] = "Succeed"]
      /\ pre' \in [Tasks -> SUBSET Tasks] /\ post' \in [Tasks -> SUBSET Tasks]
      /\ output' \in [Tasks -> BOOLEAN]
      /\ \E walk : Ready(t, walk) /\ ready' = ready \o walk
      /\ \A u \in Tasks : pre'[u] \subseteq pre[u]
      /\ \A u \in post[t] : t \notin pre'[u]
      /\ \A u \in Tasks : u # t /\ status[u] # "Succeed" => output'[u] = output[u]
      /\ Followed'
  <2>1. pc # "cleared" /\ pc' # "cleared" /\ OnTaskDone(t, 0, out)
    BY <1>1, <1>6, <1>7
  <2> QED
    BY <1>1, <1>8, <2>1, DoneSucceeds DEF ManagerIInv
<1>10. PICK walk : Ready(t, walk) /\ ready' = ready \o walk
  BY <1>9
<1>11. /\ walk \in Seq(Tasks) /\ Distinct(walk) /\ ready \in Seq(Tasks)
       /\ \A i \in 1 .. Len(walk) : walk[i] \in post[t] /\ pre[walk[i]] = {t} /\ walk[i] \in Tasks
  BY ZenonT(60), <1>10 DEF Ready, ManagerIInv, Types
<1>12. /\ ready' \in Seq(Tasks) /\ Len(ready') = Len(ready) + Len(walk) /\ Len(ready) \in Nat /\ Len(walk) \in Nat
       /\ \A i \in 1 .. Len(ready) : ready'[i] = ready[i]
       /\ \A i \in Len(ready) + 1 .. Len(ready) + Len(walk) : ready'[i] = walk[i - Len(ready)]
  BY SMT, <1>10, <1>11, Concat
<1>13. \A u \in Tasks : status'[u] = IF u = t THEN "Succeed" ELSE status[u]
  BY <1>9 DEF ManagerIInv, Types
<1>14. status' \in [Tasks -> Statuses]
  BY <1>9 DEF ManagerIInv, Types, Statuses
<1>15. Types'
  BY ZenonT(60), <1>1, <1>9, <1>12, <1>14 DEF ManagerIInv, Types
<1>16. Lined'
  <2>1. Line = ready /\ Line' = ready'
    BY <1>1 DEF Line
  <2>2. /\ Distinct(ready)
        /\ \A i \in 1 .. Len(ready) : status[ready[i]] = "Init" /\ pre[ready[i]] = {} /\ ready[i] \in Tasks
    BY SMTT(30), <1>1, <1>11, <2>1 DEF ManagerIInv, Lined
  <2>3. Distinct(ready')
    <3>1. \A i \in 1 .. Len(ready), j \in 1 .. Len(walk) : ready[i] # walk[j]
      BY <1>11, <2>2
    <3>2. Distinct(ready \o walk)
      BY <1>11, <2>2, <3>1, DistinctConcat
    <3> QED
      BY <1>10, <3>2
  <2>4. \A u \in Tasks : status[u] = "Init" /\ pre[u] = {} => status'[u] = "Init" /\ pre'[u] = {}
    BY ZenonT(60), <1>1, <1>9, <1>13
  <2>5. \A u \in Tasks : u \in post[t] /\ pre[u] = {t} => status'[u] = "Init" /\ pre'[u] = {}
    <3> SUFFICES ASSUME NEW u \in Tasks, u \in post[t], pre[u] = {t} PROVE status'[u] = "Init" /\ pre'[u] = {}
      OBVIOUS
    <3>1. status[u] = "Init" /\ u # t
      BY <1>1 DEF ManagerIInv, Followed
    <3> QED
      BY <1>9, <1>13, <3>1
  <2>6. ASSUME NEW i \in 1 .. Len(ready') PROVE status'[ready'[i]] = "Init" /\ pre'[ready'[i]] = {}
    <3>1. CASE i \in 1 .. Len(ready)
      <4>1. PICK u \in Tasks : u = ready'[i] /\ status[u] = "Init" /\ pre[u] = {}
        BY <1>12, <2>2, <3>1
      <4> QED
        BY <2>4, <4>1
    <3>2. CASE i \notin 1 .. Len(ready)
      <4>1. i \in Len(ready) + 1 .. Len(ready) + Len(walk) /\ i - Len(ready) \in 1 .. Len(walk)
        BY SMT, <1>12, <3>2
      <4>2. PICK u \in Tasks : u = ready'[i] /\ u \in post[t] /\ pre[u] = {t}
        BY ZenonT(60), <1>11, <1>12, <4>1
      <4> QED
        BY <2>5, <4>2
    <3> QED
      BY <3>1, <3>2
  <2> QED
    BY ZenonT(60), <2>1, <2>3, <2>6 DEF Lined
<1>17. input'[t] = {d \in graph.deps[t] : graph.gives[d]}
  BY <1>1 DEF ManagerIInv, InputsDelivered, Started
<1>18. \A u \in Tasks : u # t => /\ Received(u)' = Received(u)
                                 /\ result'[u] = result[u] /\ input'[u] = input[u]
                                 /\ status[u] # "Succeed" => output'[u] = output[u]
  BY <1>1, <1>9
<1> QED
  BY ZenonT(60), <1>1, <1>3, <1>5, <1>9, <1>15, <1>16, <1>17, <1>18, ManagerSucceeds

\* What is read is not the return code of a task that succeeded: the status becomes
\* Failed or stays, and an output that is whole is kept.
LEMMA ManagerPollOther ==
    ASSUME FiniteFacts, WellFormed, MaxConcurrent \in Nat, ManagerIInv, NEW t \in Tasks, Poll(t), ~(RetCodeIn(t) /\ result[t] = 0)
    PROVE  ManagerIInv'
<1>1. /\ pc = "poll" /\ pc' = "schedule" /\ status[t] # "Init" /\ pre[t] = {} /\ Looping
      /\ UNCHANGED <<graph, batch, waiting, writers, child, result, input>>
      /\ Received(t)' = IF Received(t) = Half THEN Half ELSE Nothing
      /\ \A u \in Tasks : u # t => Received(u)' = Received(u)
      /\ pipe' \in [Tasks -> Seq(Messages)] /\ buffer' \in [Tasks -> Seq(Messages)]
      /\ listening' \in SUBSET Tasks /\ Listened' /\ Held'
  BY PollFacts
<1>2. Stream(t) /\ result[t] \in {0, 1} /\ output[t] \in BOOLEAN /\ status[t] \in Statuses
  BY DEF ManagerIInv, Streams, Types
<1>3. Received(t) \in {Nothing, Half, Whole, All, Code}
  BY ZenonT(60), <1>2 DEF Stream, StreamOK
<1>4. PICK st \in Statuses, out \in BOOLEAN :
        /\ status' = [status EXCEPT ![t] = st] /\ output' = [output EXCEPT ![t] = out]
        /\ UNCHANGED <<pre, ready, post>>
        /\ st # "Init" /\ (st = "Succeed" <=> status[t] = "Succeed")
        /\ IF Received(t) \in {All, Code} THEN out = output[t] /\ st = "Failed" /\ result[t] = 1
                                         ELSE out <=> output[t] \/ Received(t) = Whole
  <2>1. CASE RetCodeIn(t)
    <3>1. result[t] = 1 /\ result[t] # 0
      BY <1>2, <2>1
    <3>2. Received(t) \in {All, Code}
      BY <1>3, <2>1, Found DEF RetCodeIn
    <3>3. status' = [status EXCEPT ![t] = "Failed"] /\ UNCHANGED <<pre, ready, post, output>>
      BY ZenonT(60), <2>1, <3>1 DEF Poll, OnTaskDone
    <3>4. status[t] # "Succeed"
      BY ZenonT(60), <1>2, <3>2, Forms DEF Stream, StreamOK
    <3>5. output' = [output EXCEPT ![t] = output[t]]
      BY <3>3 DEF ManagerIInv, Types
    <3>6. PICK st \in Statuses : st = "Failed"
      BY DEF Statuses
    <3> QED
      BY ZenonT(60), <1>2, <3>1, <3>2, <3>3, <3>4, <3>5, <3>6
  <2>2. CASE ~RetCodeIn(t)
    <3>1. Received(t) \in {Nothing, Half, Whole} /\ Received(t) \notin {All, Code}
      BY <1>3, <2>2, Found, Forms DEF RetCodeIn
    <3>2. OutputIn(t) <=> Received(t) = Whole
      BY <3>1, Found, Forms DEF OutputIn
    <3>3. /\ output' = [output EXCEPT ![t] = output[t] \/ OutputIn(t)]
          /\ status' = [status EXCEPT ![t] = ExitStatus(t)]
          /\ UNCHANGED <<pre, ready, post>>
      BY <2>2 DEF Poll
    <3>4. PICK out \in BOOLEAN : out = (output[t] \/ OutputIn(t))
      OBVIOUS
    <3>5. PICK st \in Statuses : st = ExitStatus(t) /\ st # "Init" /\ (st = "Succeed" <=> status[t] = "Succeed")
      BY <1>1, <1>2 DEF ExitStatus, Statuses
    <3>6. out <=> output[t] \/ Received(t) = Whole
      BY <3>2, <3>4
    <3> QED
      BY ZenonT(60), <3>1, <3>3, <3>4, <3>5, <3>6
  <2> QED
    BY <2>1, <2>2
<1>5. /\ \A u \in Tasks : status'[u] = IF u = t THEN st ELSE status[u]
      /\ \A u \in Tasks : output'[u] = IF u = t THEN out ELSE output[u]
      /\ status' \in [Tasks -> Statuses] /\ output' \in [Tasks -> BOOLEAN]
  BY <1>4 DEF ManagerIInv, Types
<1>6. Types'
  BY <1>1, <1>4, <1>5 DEF ManagerIInv, Types
<1>7. Stream(t)'
  <2> DEFINE rcv == Received(t)
             new == Received(t)'
             at == child[t]
             gives == graph.gives[t]
             ret == result[t]
  <2>1. /\ child'[t] = at /\ result'[t] = ret /\ graph'.gives[t] = gives
        /\ status'[t] = st /\ output'[t] = out
    BY ZenonT(60), <1>1, <1>5
  <2>2. StreamOK(rcv, at, status[t], output[t], ret, gives)
    BY <1>2 DEF Stream
  <2>3. new = IF rcv = Half THEN Half ELSE Nothing
    BY ZenonT(60), <1>1
  <2>4. /\ st # "Init" /\ (st = "Succeed" <=> status[t] = "Succeed")
        /\ IF rcv \in {All, Code} THEN out = output[t] /\ st = "Failed" /\ ret = 1
                                 ELSE out <=> output[t] \/ rcv = Whole
    BY <1>4
  <2>5. StreamOK(new, at, st, out, ret, gives)
    <3> HIDE DEF rcv, new, at, gives, ret
    <3>1. new \in {Nothing, Half, Whole, All, Code} /\ new \notin {All, Code}
      BY <2>3, Forms
    <3>2. at \in {"none", "running", "send1"} => new = Nothing
      BY <2>2, <2>3, Forms DEF StreamOK
    <3>3. at \in {"none", "running", "send1", "send2"} /\ st # "Succeed" => ~out
      BY <1>2, <2>2, <2>4, Forms DEF StreamOK
    <3>4. at \in {"send1", "send2"} => ret = 0 /\ gives
      BY <2>2 DEF StreamOK
    <3>5. at = "send2" => new = Half
      BY <2>2, <2>3 DEF StreamOK
    <3>6. at = "ret" => new \in {Nothing, Whole} /\ (ret = 0 => (gives <=> out \/ new = Whole))
      BY <2>2, <2>3, <2>4, Forms DEF StreamOK
    <3>7. st = "Succeed" => new = Nothing
      BY <2>2, <2>3, <2>4, Forms DEF StreamOK
    <3> QED
      BY <2>4, <3>1, <3>2, <3>3, <3>4, <3>5, <3>6, <3>7 DEF StreamOK
  <2> QED
    BY ZenonT(60), <2>1, <2>5 DEF Stream
<1>8. Streams'
  <2>1. ASSUME NEW u \in Tasks, u # t PROVE Stream(u)'
    BY ZenonT(60), <1>1, <1>5, <2>1, OtherStreams DEF ManagerIInv, Streams
  <2> QED
    BY ZenonT(60), <1>1, <1>7, <2>1 DEF Streams
<1>9. Lined'
  <2>1. Line = ready /\ Line' = ready /\ ready \in Seq(Tasks)
    BY <1>1, <1>4 DEF Line, ManagerIInv, Types
  <2>2. /\ Distinct(ready)
        /\ \A i \in 1 .. Len(ready) : status[ready[i]] = "Init" /\ pre[ready[i]] = {} /\ ready[i] \in Tasks
    <3>1. Lined /\ Looping
      BY <1>1 DEF ManagerIInv
    <3>2. Distinct(ready) /\ \A i \in 1 .. Len(ready) : status[ready[i]] = "Init" /\ pre[ready[i]] = {}
      BY <2>1, <3>1 DEF Lined
    <3>3. \A i \in 1 .. Len(ready) : ready[i] \in Tasks
      BY SMT, <2>1
    <3> QED
      BY <3>2, <3>3
  <2>3. \A u \in Tasks : status[u] = "Init" => status'[u] = "Init"
    BY <1>1, <1>5
  <2> QED
    BY <1>4, <2>1, <2>2, <2>3 DEF Lined
<1>10. SuccessIsReal'
  BY ZenonT(60), <1>1, <1>4, <1>5 DEF ManagerIInv, SuccessIsReal
<1>11. InputsDelivered'
  BY ZenonT(60), <1>1, <1>5 DEF ManagerIInv, InputsDelivered, Started
<1>12. Followed'
  <2>1. status' = [status EXCEPT ![t] = status'[t]]
    BY <1>4, <1>5
  <2>2. status'[t] = "Succeed" <=> status[t] = "Succeed"
    BY <1>4, <1>5
  <2>3. \A u \in Tasks : status[u] = "Succeed" => output'[u] = output[u]
    <3>1. status[t] = "Succeed" => Received(t) = Nothing
      BY ZenonT(60), <1>2 DEF Stream, StreamOK
    <3>2. status[t] = "Succeed" => out = output[t]
      BY <1>2, <1>4, <3>1, Forms
    <3> QED
      BY <1>5, <3>2
  <2> QED
    BY ZenonT(60), <1>1, <1>4, <1>6, <1>8, <1>9, <1>10, <2>1, <2>2, <2>3, ManagerFails
<1> QED
  BY <1>1, <1>6, <1>8, <1>9, <1>10, <1>11, <1>12 DEF ManagerIInv

\* finalize and clear: tasks that are alive are stopped, those in processes killed.
LEMMA ManagerStops ==
    ASSUME FiniteFacts, WellFormed, MaxConcurrent \in Nat, ManagerIInv, NEW stopped \in SUBSET Tasks, NEW killed,
           \A t \in stopped : Alive(t), killed = {t \in stopped : Sub(t)},
           status' = [t \in Tasks |-> IF t \in stopped THEN "Stopped" ELSE status[t]],
           child' = [t \in Tasks |-> IF t \in killed THEN "exited" ELSE child[t]],
           writers' = [t \in Tasks |-> writers[t] \ killed],
           pc' \in {"done", "cleared"}, pc' = "done" => pc # "cleared" /\ \A t \in stopped : status[t] # "Succeed",
           listening' \in {listening, {}}, ready' \in {ready, <<>>},
           UNCHANGED <<graph, output, pre, post, batch, waiting, pipe, buffer, result, input>>
    PROVE  ManagerIInv'
<1>1. /\ \A t \in Tasks : status'[t] = IF t \in stopped THEN "Stopped" ELSE status[t]
      /\ \A t \in Tasks : child'[t] = IF t \in killed THEN "exited" ELSE child[t]
      /\ \A t \in Tasks : writers'[t] = writers[t] \ killed
      /\ killed \subseteq stopped
  OBVIOUS
<1>2. \A t \in stopped : child[t] \notin {"none", "exited"} /\ status[t] # "Init"
  BY ZenonT(60) DEF Alive, ManagerIInv, Streams, Stream, StreamOK
<1>3. Types'
  <2>1. /\ status' \in [Tasks -> Statuses] /\ child' \in [Tasks -> Places]
        /\ writers' \in [Tasks -> SUBSET (Tasks \cup {"main"})]
    BY DEF ManagerIInv, Types, Statuses, Places
  <2>2. ready' \in Seq(Tasks)
    <3>1. ready \in Seq(Tasks) /\ <<>> \in Seq(Tasks)
      BY SMT DEF ManagerIInv, Types
    <3> QED
      BY <3>1, ZenonT(60)
  <2>3. listening' \in SUBSET Tasks
    BY ZenonT(60) DEF ManagerIInv, Types
  <2> QED
    BY ZenonT(60), <2>1, <2>2, <2>3 DEF ManagerIInv, Types
<1>4. Streams'
  <2> SUFFICES ASSUME NEW u \in Tasks PROVE Stream(u)'
    BY DEF Streams
  <2>1. Received(u)' = Received(u)
    BY DEF Received
  <2>2. Stream(u)
    BY ZenonT(60) DEF ManagerIInv, Streams
  <2>3. CASE u \in stopped
    <3>1. status'[u] = "Stopped" /\ child'[u] \in {child[u], "exited"}
      BY <1>1, <2>3
    <3>2. status[u] = "Succeed" => child[u] = "close"
      BY ZenonT(60), <1>2, <2>3 DEF ManagerIInv, SuccessIsReal
    <3>3. StreamOK(Received(u), child'[u], "Stopped", output[u], result[u], graph.gives[u])
      BY ZenonT(60), <2>2, <3>1, <3>2 DEF Stream, StreamOK
    <3> QED
      BY ZenonT(60), <2>1, <3>1, <3>3 DEF Stream
  <2>4. CASE u \notin stopped
    BY ZenonT(60), <1>1, <2>1, <2>2, <2>4, OtherStreams
  <2> QED
    BY ZenonT(60), <2>3, <2>4
<1>5. Listened'
  <2>1. \A u \in listening' : u \in listening /\ u \in Tasks
    BY DEF ManagerIInv, Types
  <2>2. \A u \in Tasks : child'[u] = "none" <=> child[u] = "none"
    BY ZenonT(60), <1>1, <1>2
  <2> QED
    BY ZenonT(60), <2>1, <2>2 DEF ManagerIInv, Listened, Sub, Pthread
<1>6. Held'
  <2>1. ASSUME NEW u \in Tasks, Alive(u)' PROVE Holder(u)' \in writers'[u]
    <3>1. u \notin killed /\ Alive(u)
      BY <1>1, <2>1 DEF Alive
    <3>2. Holder(u) \in writers[u] /\ Holder(u)' = Holder(u)
      BY <3>1 DEF ManagerIInv, Held, Holder, Sub
    <3>3. "main" \notin killed
      BY ZenonT(60), <1>1, GraphFacts DEF ManagerIInv
    <3> QED
      BY ZenonT(60), <1>1, <3>1, <3>2, <3>3 DEF Holder
  <2>2. Over' /\ pc' # "run"
    BY DEF Over
  <2>3. IsFiniteSet(listening)
    BY ZenonT(60), GraphFacts DEF ManagerIInv, Types, FiniteFacts
  <2>4. Cardinality(listening) \in Nat /\ Len(batch) \in Nat
    BY SMT, <2>3 DEF ManagerIInv, Types, FiniteFacts
  <2>5. Cardinality(listening) + (IF pc = "run" THEN Len(batch) ELSE 0) <= MaxConcurrent
    BY DEF ManagerIInv, Held
  <2>6. Cardinality(listening) + 0 <= MaxConcurrent
    BY SMT, <2>4, <2>5
  <2>7. Cardinality(listening') + 0 <= MaxConcurrent
    <3>1. CASE listening' = listening
      BY <2>6, <3>1
    <3>2. CASE listening' = {}
      <4>1. Cardinality(listening') = 0
        BY <3>2 DEF FiniteFacts
      <4> QED
        BY SMT, <4>1
    <3> QED
      BY <3>1, <3>2
  <2> QED
    BY ZenonT(60), <2>1, <2>2, <2>7 DEF Held
<1>7. Followed'
  <2> SUFFICES ASSUME pc' = "done" PROVE Followed'
    BY DEF Followed
  <2>1. \A u \in Tasks : status'[u] = "Succeed" <=> status[u] = "Succeed"
    BY ZenonT(60), <1>1
  <2>2. \A u \in Tasks : status[u] = "Init" => status'[u] = "Init"
    BY <1>1, <1>2
  <2>3. /\ \A t, d \in Tasks : d \in pre[t] <=> d \in graph.deps[t] /\ status[d] # "Succeed"
        /\ \A t, d \in Tasks : t \in post[d] <=> d \in graph.deps[t] /\ status[t] # "Succeed"
        /\ \A d \in Tasks : status[d] = "Succeed" /\ post[d] # {} => output[d] = graph.gives[d]
        /\ \A t \in Tasks : pre[t] # {} => status[t] = "Init"
    BY ZenonT(60) DEF ManagerIInv, Followed
  <2> QED
    BY SMT, <2>1, <2>2, <2>3 DEF Followed
<1>8. Lined'
  BY ZenonT(60) DEF Lined, Looping
<1>9. SuccessIsReal'
  BY ZenonT(60), <1>1 DEF ManagerIInv, SuccessIsReal
<1>10. InputsDelivered'
  BY <1>1, <1>2 DEF ManagerIInv, InputsDelivered, Started
<1> QED
  BY <1>3, <1>4, <1>5, <1>6, <1>7, <1>8, <1>9, <1>10 DEF ManagerIInv

\* Every step of the manager and of the tasks.
LEMMA ManagerNext ==
    ASSUME FiniteFacts, WellFormed, MaxConcurrent \in Nat, ManagerIInv, [Next]_vars
    PROVE  ManagerIInv'
<1>1. CASE Schedule
  BY <1>1, ManagerSchedule
<1>2. CASE RunOneTask
  BY <1>2, ManagerRunChild, ManagerRunHere
<1>3. CASE ScheduleEnds \/ ListenChecks \/ ListenSlept \/ Interrupt
  BY <1>3, ManagerTests
<1>4. ASSUME NEW t \in Tasks, Poll(t) PROVE ManagerIInv'
  BY <1>4, ManagerPollSucceeds, ManagerPollOther
<1>5. CASE Finalize
  <2> DEFINE stopped == {t \in Tasks : status[t] /= "Succeed" /\ Alive(t)}
             killed == {t \in stopped : Sub(t)}
  <2>1. /\ status' = [t \in Tasks |-> IF t \in stopped THEN "Stopped" ELSE status[t]]
        /\ child' = [t \in Tasks |-> IF t \in killed THEN "exited" ELSE child[t]]
        /\ writers' = [t \in Tasks |-> writers[t] \ killed]
        /\ pc' = "done" /\ pc # "cleared"
        /\ UNCHANGED <<listening, ready, graph, output, pre, post, batch, waiting, pipe, buffer, result, input>>
    BY <1>5 DEF Finalize
  <2>2. stopped \in SUBSET Tasks /\ \A t \in stopped : Alive(t) /\ status[t] # "Succeed"
    OBVIOUS
  <2>3. killed = {t \in stopped : Sub(t)}
    OBVIOUS
  <2> HIDE DEF stopped, killed
  <2> QED
    BY ZenonT(60), <2>1, <2>2, <2>3, ManagerStops
<1>6. CASE Clear
  <2> DEFINE stopped == {t \in listening : Alive(t)}
             killed == {t \in stopped : Sub(t)}
  <2>1. /\ status' = [t \in Tasks |-> IF t \in stopped THEN "Stopped" ELSE status[t]]
        /\ child' = [t \in Tasks |-> IF t \in killed THEN "exited" ELSE child[t]]
        /\ writers' = [t \in Tasks |-> writers[t] \ killed]
        /\ pc' = "cleared" /\ listening' = {} /\ ready' = <<>>
        /\ UNCHANGED <<graph, output, pre, post, batch, waiting, pipe, buffer, result, input>>
    BY ZenonT(60), <1>6 DEF Clear
  <2>2. stopped \in SUBSET Tasks /\ \A t \in stopped : Alive(t)
    BY DEF ManagerIInv, Types
  <2>3. killed = {t \in stopped : Sub(t)}
    OBVIOUS
  <2> HIDE DEF stopped, killed
  <2> QED
    BY ZenonT(60), <2>1, <2>2, <2>3, ManagerStops
<1>7. ASSUME NEW t \in Tasks, Child(t) \/ ProcessDies(t) \/ ThreadRaises(t) PROVE ManagerIInv'
  BY <1>7, ManagerTask
<1>8. CASE UNCHANGED vars
  <2>1. Types' /\ Listened'
    BY ZenonT(60), <1>8 DEF vars, ManagerIInv, Types, Listened, Sub, Pthread
  <2>2. Held'
    BY ZenonT(60), <1>8 DEF vars, ManagerIInv, Held, Alive, Holder, Sub, Over
  <2>3. Followed' /\ SuccessIsReal' /\ InputsDelivered'
    BY SMT, <1>8 DEF vars, ManagerIInv, Followed, SuccessIsReal, InputsDelivered, Started
  <2>4. Lined'
    BY <1>8 DEF vars, ManagerIInv, Lined, Looping, Line
  <2>5. Streams'
    BY ZenonT(60), <1>8 DEF vars, ManagerIInv, Streams, Stream, Received
  <2> QED
    BY <2>1, <2>2, <2>3, <2>4, <2>5 DEF ManagerIInv
<1> QED
  BY <1>1, <1>2, <1>3, <1>4, <1>5, <1>6, <1>7, <1>8 DEF Next, Manager

-----------------------------------------------------------------------------
(* Theorems *)

INSTANCE FiniteSetTheorems

\* Subsets of finite sets, and a set with one element more.
LEMMA FiniteHolds == FiniteFacts
<1>1. IsFiniteSet({}) /\ Cardinality({}) = 0
  BY FS_EmptySet
<1>2. \A S : IsFiniteSet(S) => Cardinality(S) \in Nat
  BY FS_CardinalityType
<1>3. \A S : IsFiniteSet(S) => \A T \in SUBSET S : IsFiniteSet(T) /\ Cardinality(T) <= Cardinality(S)
  BY FS_Subset
<1>4. \A S : IsFiniteSet(S) => \A x : x \notin S => Cardinality(S \cup {x}) = Cardinality(S) + 1
  BY FS_AddElement
<1> QED
  BY <1>1, <1>2, <1>3, <1>4 DEF FiniteFacts

\* The invariant holds in every state of every run, whatever processes die, tasks fail
\* or interrupts arrive.
LEMMA ManagerInvariant == ASSUME WellFormed, MaxConcurrent \in Nat PROVE Spec => []ManagerIInv
<1>1. Init => ManagerIInv
  BY FiniteHolds, ManagerInit
<1>2. ManagerIInv /\ [Next]_vars => ManagerIInv'
  BY FiniteHolds, ManagerNext
<1> QED
  BY <1>1, <1>2, PTL DEF Spec

\* A task counts as succeeded only if its code returned success (__on_recv_msg and
\* __on_task_exit), also when its process dies before or between its messages.
THEOREM SuccessReported == ASSUME WellFormed, MaxConcurrent \in Nat PROVE Spec => []SuccessIsReal
<1>1. ManagerIInv => SuccessIsReal
  BY DEF ManagerIInv
<1> QED
  BY <1>1, ManagerInvariant, PTL

\* A task that was started was handed the output of every prerequisite that returns one
\* (__run_one_task, __on_task_done): none is handed over in part and none is dropped early.
THEOREM InputsComplete == ASSUME WellFormed, MaxConcurrent \in Nat PROVE Spec => []InputsDelivered
<1>1. ManagerIInv => InputsDelivered
  BY DEF ManagerIInv
<1> QED
  BY <1>1, ManagerInvariant, PTL

\* Never more than max_concurrent_num tasks have a channel (__schedule, __remove_listening),
\* and a task that runs has one.
THEOREM ConcurrencyBounded == ASSUME WellFormed, MaxConcurrent \in Nat PROVE Spec => []ChildrenBounded
<1>1. ManagerIInv => ChildrenBounded
  <2> SUFFICES ASSUME ManagerIInv PROVE ChildrenBounded
    OBVIOUS
  <2>1. IsFiniteSet(listening)
    BY ZenonT(60), GraphFacts, FS_Subset DEF ManagerIInv, Types
  <2>2. Cardinality(listening) \in Nat /\ Len(batch) \in Nat
    BY SMTT(30), <2>1, FS_CardinalityType DEF ManagerIInv, Types
  <2>3. Cardinality(listening) + (IF pc = "run" THEN Len(batch) ELSE 0) <= MaxConcurrent
    BY DEF ManagerIInv, Held
  <2>4. Cardinality(listening) <= MaxConcurrent
    BY SMT, <2>2, <2>3
  <2> QED
    BY <2>4 DEF ManagerIInv, Held, ChildrenBounded
<1> QED
  BY <1>1, ManagerInvariant, PTL
=============================================================================
