----------------------------- MODULE TaskManager -----------------------------
(***************************************************************************)
(* ConcurrentTasksManager of the profiler's analysis: it runs a graph of   *)
(* parser tasks, each in a forked process, in a thread or in the caller,   *)
(* hands every task the outputs of its prerequisites, and learns of their  *)
(* results through one pipe per task.                                      *)
(*                                                                         *)
(* A graph is a record: order (the tasks in the order of add_task), deps,  *)
(* mode (a subset of SUB_PROCESS, PTHREAD, NON_BLOCKING; the empty set is  *)
(* MAIN_PROCESS), reads (the results its run takes from its input), gives  *)
(* (it returns a non-empty output), waits (the files it polls for before   *)
(* it returns), makes (the files it writes while it runs), and raises (the *)
(* tasks whose run may raise).                                             *)
(***************************************************************************)
EXTENDS Naturals, FiniteSets, Sequences, Functions

CONSTANTS
    Graphs,          \* the task graphs to run
    MaxConcurrent,   \* max_concurrent_num
    MaxFaults        \* bound: tasks that fail, processes that die, interrupts

VARIABLES
    graph,      \* the tasks that were added, chosen once
    status,     \* TaskInfo.status
    output,     \* TaskInfo.output, and for a process the output it returned
    pre,        \* TaskInfo.pre_tasks
    post,       \* TaskInfo.post_tasks
    ready,      \* ready_tasks
    batch,      \* __schedule's ready_tasks[:num_to_run], not yet run
    waiting,    \* __schedule's tasks_wait_schedule
    listening,  \* listening_infos
    pipe,       \* what was written to the pipe and not read
    buffer,     \* TaskInfo.recv_buffer
    writers,    \* who holds the write end of the pipe open
    child,      \* where the task's own code is
    result,     \* the return code of the task's run, 1 if it ended without reporting one
    input,      \* the prerequisites whose output the task was handed
    files,      \* files written so far
    pc,         \* where the manager is
    faults      \* faults injected so far

vars == <<graph, status, output, pre, post, ready, batch, waiting, listening,
          pipe, buffer, writers, child, result, input, files, pc, faults>>

Tasks == Range(graph.order)
Sub(t) == "SUB_PROCESS" \in graph.mode[t]
Pthread(t) == ~Sub(t) /\ "PTHREAD" \in graph.mode[t]
NonBlocking(t) == "NON_BLOCKING" \in graph.mode[t]

\* add_task, for the tasks of g in order: a task without prerequisites is ready.
First(g) == SelectSeq(g.order, LAMBDA t : g.deps[t] = {})
AddTasks(g) ==
    LET T == Range(g.order)
    IN  /\ graph = g
        /\ status = [t \in T |-> "Init"]
        /\ pre = g.deps
        /\ post = [t \in T |-> {u \in T : t \in g.deps[u]}]
        /\ ready = First(g)
        /\ output = [t \in T |-> FALSE]
        /\ pipe = [t \in T |-> <<>>]
        /\ buffer = [t \in T |-> <<>>]
        /\ writers = [t \in T |-> {}]
        /\ child = [t \in T |-> "none"]
        /\ result = [t \in T |-> 0]
        /\ input = [t \in T |-> {}]

Init ==
    /\ \E g \in Graphs : AddTasks(g)
    /\ batch = <<>>
    /\ waiting = <<>>
    /\ listening = {}
    /\ files = {}
    /\ pc = "schedule"
    /\ faults = 0

-----------------------------------------------------------------------------
(* __on_task_done: the dependents of a task that succeeded lose a          *)
(* prerequisite and become ready when it was the last one; an output that  *)
(* no unfinished task needs is dropped. post_tasks is a set: the order in  *)
(* which it is walked is arbitrary.                                        *)
PostDone(t) == [u \in Tasks |-> IF u \in post[t] THEN pre[u] \ {t} ELSE pre[u]]
NowReady(t) == {u \in post[t] : pre[u] = {t}}
PreDone(t) == [d \in Tasks |-> IF d \in graph.deps[t] THEN post[d] \ {t} ELSE post[d]]

OnTaskDone(t, ret, out) ==
    IF ret = 0
    THEN /\ status' = [status EXCEPT ![t] = "Succeed"]
         /\ pre' = PostDone(t)
         /\ \E walk \in Injection(1 .. Cardinality(NowReady(t)), NowReady(t)) : ready' = ready \o walk
         /\ post' = PreDone(t)
         /\ output' = [d \in Tasks |->
                         IF d = t THEN out \/ output[t]
                         ELSE output[d] /\ ~(d \in graph.deps[t] /\ post[d] = {t})]
    ELSE /\ status' = [status EXCEPT ![t] = "Failed"]
         /\ UNCHANGED <<pre, ready, post, output>>

-----------------------------------------------------------------------------
(* __schedule *)
Schedule ==
    /\ pc = "schedule"
    /\ LET free == MaxConcurrent - Cardinality(listening)
           n == IF free < Len(ready) THEN free ELSE Len(ready)
       IN  /\ batch' = SubSeq(ready, 1, n)
           /\ waiting' = SubSeq(ready, n + 1, Len(ready))
    /\ pc' = "run"
    /\ UNCHANGED <<graph, status, output, pre, post, ready, listening, pipe,
                   buffer, writers, child, result, input, files, faults>>

Inputs(t) == {d \in graph.deps[t] : output[d]}

\* __run_in_subprocess and __run_in_pthread. A fork copies every write end the
\* parent holds; the parent then closes its own copy of this task's.
RunChild(t) ==
    /\ status' = [status EXCEPT ![t] = "Running"]
    /\ input' = [input EXCEPT ![t] = Inputs(t)]
    /\ listening' = listening \cup {t}
    /\ child' = [child EXCEPT ![t] = "running"]
    /\ writers' = IF Sub(t)
                  THEN [u \in Tasks |-> IF u = t THEN {t}
                                       ELSE writers[u] \cup {v \in {t} : "main" \in writers[u]}]
                  ELSE [writers EXCEPT ![t] = {"main"}]
    /\ UNCHANGED <<output, pre, post, ready, result, faults>>

\* A run fails when a result it reads is missing, or for a reason of its own.
Outcome(t, ret, in) ==
    LET missing == ~(graph.reads[t] \cap graph.deps[t] \subseteq in)
    IN  \/ ret = 0 /\ ~missing /\ faults' = faults
        \/ ret = 1 /\ missing /\ faults' = faults
        \/ ret = 1 /\ ~missing /\ faults < MaxFaults /\ faults' = faults + 1

\* __run_in_mainprocess: the caller runs the task before the next one.
RunHere(t) ==
    /\ \E ret \in {0, 1} :
        /\ Outcome(t, ret, Inputs(t))
        /\ OnTaskDone(t, ret, graph.gives[t])
        /\ result' = [result EXCEPT ![t] = ret]
    /\ input' = [input EXCEPT ![t] = Inputs(t)]
    /\ UNCHANGED <<listening, child, writers>>

RunOneTask ==
    /\ pc = "run"
    /\ batch /= <<>>
    /\ LET t == Head(batch)
       IN  IF Sub(t) \/ Pthread(t) THEN RunChild(t) ELSE RunHere(t)
    /\ batch' = Tail(batch)
    /\ UNCHANGED <<graph, waiting, pipe, buffer, files, pc>>

\* The last statement of __schedule: ready_tasks becomes the list that was
\* computed before the tasks of the batch were run.
ScheduleEnds ==
    /\ pc = "run"
    /\ batch = <<>>
    /\ ready' = waiting
    /\ pc' = "listen"
    /\ UNCHANGED <<graph, status, output, pre, post, batch, waiting, listening,
                   pipe, buffer, writers, child, result, input, files, faults>>

-----------------------------------------------------------------------------
(* __listen. When only NON_BLOCKING tasks are listened to it sleeps, asks  *)
(* the same question again and leaves.                                     *)
ListenChecks ==
    /\ pc = "listen"
    /\ pc' = IF \A t \in listening : NonBlocking(t) THEN "sleep" ELSE "poll"
    /\ UNCHANGED <<graph, status, output, pre, post, ready, batch, waiting, listening,
                   pipe, buffer, writers, child, result, input, files, faults>>

ListenSlept ==
    /\ pc = "sleep"
    /\ pc' = IF \A t \in listening : NonBlocking(t) THEN "finalize" ELSE "poll"
    /\ UNCHANGED <<graph, status, output, pre, post, ready, batch, waiting, listening,
                   pipe, buffer, writers, child, result, input, files, faults>>

\* __on_recv_msg reads what is in the pipe behind what it kept, keeps an
\* incomplete message, and acts on the complete ones. An OUTPUT takes two
\* writes ("out1", "out2"); a RET_CODE ("ret") is the last message.
Received(t) == buffer[t] \o pipe[t]
OutputIn(t) == "out1" \in Range(Received(t)) /\ "out2" \in Range(Received(t))
RetCodeIn(t) == "ret" \in Range(Received(t))

IncompleteLost(t) == <<>>
Incomplete(t) == IF Received(t) = <<"out1">> THEN <<"out1">> ELSE <<>>

\* __on_task_exit, for a pipe with no writer left: the status of a task that has
\* not returned success becomes Failed.
ExitUnchecked(t) == IF writers[t] = {} /\ status[t] /= "Failed" THEN "Succeed" ELSE status[t]
ExitStatus(t) == IF writers[t] = {} /\ status[t] /= "Succeed" THEN "Failed" ELSE status[t]

\* One event of __listen: __on_recv_msg, __on_task_exit and __remove_listening.
Poll(t) ==
    /\ pc = "poll"
    /\ t \in listening
    /\ pipe[t] /= <<>> \/ writers[t] = {}
    /\ pipe' = [pipe EXCEPT ![t] = <<>>]
    /\ buffer' = [buffer EXCEPT ![t] = Incomplete(t)]
    /\ IF RetCodeIn(t)
       THEN OnTaskDone(t, result[t], OutputIn(t))
       ELSE /\ output' = [output EXCEPT ![t] = @ \/ OutputIn(t)]
            /\ status' = [status EXCEPT ![t] = ExitStatus(t)]
            /\ UNCHANGED <<pre, ready, post>>
    /\ listening' = IF writers[t] = {} THEN listening \ {t} ELSE listening
    /\ pc' = "schedule"
    /\ UNCHANGED <<graph, batch, waiting, writers, child, result, input, files, faults>>

-----------------------------------------------------------------------------
(* finalize: every task that has not succeeded and is still alive is       *)
(* terminated (a process) or sent an InterruptedError (a thread).          *)
Alive(t) == child[t] \notin {"none", "exited"}

Finalize ==
    /\ pc \in {"finalize", "interrupted"}
    /\ LET stopped == {t \in Tasks : status[t] /= "Succeed" /\ Alive(t)}
           killed == {t \in stopped : Sub(t)}
       IN  /\ status' = [t \in Tasks |-> IF t \in stopped THEN "Stopped" ELSE status[t]]
           /\ child' = [t \in Tasks |-> IF t \in killed THEN "exited" ELSE child[t]]
           /\ writers' = [t \in Tasks |-> writers[t] \ killed]
    /\ pc' = "done"
    /\ UNCHANGED <<graph, output, pre, post, ready, batch, waiting, listening,
                   pipe, buffer, result, input, files, faults>>

\* clear, when the manager is collected: what is still listened to is stopped.
Clear ==
    /\ pc = "done"
    /\ LET stopped == {t \in listening : Alive(t)}
           killed == {t \in stopped : Sub(t)}
       IN  /\ status' = [t \in Tasks |-> IF t \in stopped THEN "Stopped" ELSE status[t]]
           /\ child' = [t \in Tasks |-> IF t \in killed THEN "exited" ELSE child[t]]
           /\ writers' = [t \in Tasks |-> writers[t] \ killed]
    /\ listening' = {}
    /\ ready' = <<>>
    /\ pc' = "cleared"
    /\ UNCHANGED <<graph, output, pre, post, batch, waiting, pipe, buffer, result,
                   input, files, faults>>

\* SIGINT calls finalize with two arguments it does not take: the TypeError ends
\* the loop of run, whose last clause finalizes.
Interrupt ==
    /\ pc \in {"schedule", "run", "listen", "sleep", "poll"}
    /\ faults < MaxFaults
    /\ faults' = faults + 1
    /\ pc' = "interrupted"
    /\ UNCHANGED <<graph, status, output, pre, post, ready, batch, waiting, listening,
                   pipe, buffer, writers, child, result, input, files>>

-----------------------------------------------------------------------------
(* The task's own code, in its process or thread. *)
ManagerUnchanged ==
    UNCHANGED <<graph, status, pre, post, ready, batch, waiting, listening, buffer,
                input, pc>>

\* run writes its files at any moment before it returns.
WriteFiles(t) ==
    /\ child[t] = "running"
    /\ ~(graph.makes[t] \subseteq files)
    /\ files' = files \cup graph.makes[t]
    /\ UNCHANGED <<output, pipe, writers, child, result, faults>>
    /\ ManagerUnchanged

\* run returns. A thread stores its output in TaskInfo before it reports; a
\* process sends it. A run that fails returns no output.
RunReturns(t, ret) ==
    /\ child[t] = "running"
    /\ graph.waits[t] \subseteq files
    /\ ret = 0 => graph.makes[t] \subseteq files
    /\ Outcome(t, ret, input[t])
    /\ result' = [result EXCEPT ![t] = ret]
    /\ output' = IF Pthread(t) /\ ret = 0 THEN [output EXCEPT ![t] = graph.gives[t]] ELSE output
    /\ child' = [child EXCEPT ![t] = IF Sub(t) /\ ret = 0 /\ graph.gives[t]
                                     THEN "send1" ELSE "ret"]
    /\ UNCHANGED <<pipe, writers, files>>
    /\ ManagerUnchanged

\* send_result_to_manager: the output before the return code.
NextSend == [send1 |-> "send2", send2 |-> "ret", ret |-> "close"]
Sent == [send1 |-> "out1", send2 |-> "out2", ret |-> "ret"]

Send(t) ==
    /\ child[t] \in DOMAIN Sent
    /\ pipe' = [pipe EXCEPT ![t] = Append(@, Sent[child[t]])]
    /\ child' = [child EXCEPT ![t] = NextSend[@]]
    /\ UNCHANGED <<output, writers, result, files, faults>>
    /\ ManagerUnchanged

\* A process that exits closes every write end it holds; a thread closes its own.
ChildExits(t) ==
    /\ child[t] = "close"
    /\ child' = [child EXCEPT ![t] = "exited"]
    /\ writers' = IF Sub(t)
                  THEN [u \in Tasks |-> writers[u] \ {t}]
                  ELSE [writers EXCEPT ![t] = @ \ {"main"}]
    /\ UNCHANGED <<output, pipe, result, files, faults>>
    /\ ManagerUnchanged

\* A process may die at any point of its run, between two writes too.
ProcessDies(t) ==
    /\ Sub(t)
    /\ Alive(t)
    /\ pc \notin {"done", "cleared"}
    /\ faults < MaxFaults
    /\ faults' = faults + 1
    /\ child' = [child EXCEPT ![t] = "exited"]
    /\ writers' = [u \in Tasks |-> writers[u] \ {t}]
    /\ result' = [result EXCEPT ![t] = IF child[t] = "close" THEN @ ELSE 1]
    /\ UNCHANGED <<output, pipe, files>>
    /\ ManagerUnchanged

\* A run that raises, or that receives the InterruptedError of finalize, ends its
\* thread without a report: nobody closes the write end of its pipe.
ThreadRaises(t) ==
    /\ Pthread(t)
    /\ child[t] = "running"
    /\ \/ status[t] = "Stopped" /\ UNCHANGED faults
       \/ t \in graph.raises /\ faults < MaxFaults /\ faults' = faults + 1
    /\ child' = [child EXCEPT ![t] = "exited"]
    /\ result' = [result EXCEPT ![t] = 1]
    /\ UNCHANGED <<output, pipe, writers, files>>
    /\ ManagerUnchanged

Child(t) ==
    \/ WriteFiles(t)
    \/ \E ret \in {0, 1} : RunReturns(t, ret)
    \/ Send(t)
    \/ ChildExits(t)

Manager ==
    \/ Schedule
    \/ RunOneTask
    \/ ScheduleEnds
    \/ ListenChecks
    \/ ListenSlept
    \/ \E t \in Tasks : Poll(t)
    \/ Finalize
    \/ Clear

Next ==
    \/ Manager
    \/ Interrupt
    \/ \E t \in Tasks : Child(t) \/ ProcessDies(t) \/ ThreadRaises(t)

\* Nothing stops the manager's loop or a task that has what it waits for.
Fairness ==
    /\ WF_vars(Manager)
    /\ \A g \in Graphs : \A t \in Range(g.order) : WF_vars(t \in Tasks /\ Child(t))

Spec == Init /\ [][Next]_vars /\ Fairness

-----------------------------------------------------------------------------
TypeOK ==
    /\ graph \in Graphs
    /\ status \in [Tasks -> {"Init", "Running", "Succeed", "Failed", "Stopped"}]
    /\ output \in [Tasks -> BOOLEAN]
    /\ listening \subseteq Tasks
    /\ child \in [Tasks -> {"none", "running", "send1", "send2", "ret", "close", "exited"}]
    /\ \A t \in Tasks : /\ pre[t] \subseteq graph.deps[t]
                        /\ post[t] \subseteq Tasks
                        /\ writers[t] \subseteq Tasks \cup {"main"}
                        /\ input[t] \subseteq graph.deps[t]
    /\ Range(ready) \cup Range(batch) \cup Range(waiting) \subseteq Tasks
    /\ pc \in {"schedule", "run", "listen", "sleep", "poll", "finalize",
               "interrupted", "done", "cleared"}
    /\ faults \in 0 .. MaxFaults

Started(t) == status[t] /= "Init"
Over == pc \in {"done", "cleared"}

\* A task is started only after all its prerequisites succeeded, and it is handed
\* every output they returned: an output sent in pieces is whole by then, an output
\* stored by a thread is stored by then, and no output is dropped while a task that
\* needs it has not run.
InputsDelivered ==
    \A t \in Tasks : Started(t) =>
        input[t] = {d \in graph.deps[t] : graph.gives[d]}

\* A task counts as succeeded only if its code returned success and reported it: not
\* when its process died before or between its messages.
SuccessIsReal ==
    \A t \in Tasks : status[t] = "Succeed" =>
        result[t] = 0 /\ child[t] \in {"none", "close", "exited"}

\* No more tasks run at a time than max_concurrent_num, those whose pipe is kept
\* open only by a process forked meanwhile included.
ChildrenBounded ==
    /\ Cardinality(listening) <= MaxConcurrent
    /\ ~Over => {t \in Tasks : Alive(t)} \subseteq listening

\* When the manager leaves its loop by itself and no task is NON_BLOCKING, every
\* task whose prerequisites succeeded has been run to its end: a failed task holds
\* back those that depend on it and nothing else, and none waits for a free channel.
Settled(t) == status[t] \in {"Succeed", "Failed"}
RunnableRan ==
    pc = "finalize" /\ (\A t \in Tasks : ~NonBlocking(t)) =>
        \A t \in Tasks : (\A d \in graph.deps[t] : status[d] = "Succeed") => Settled(t)

\* What the caller's add_task calls make of a graph: tasks with different names, of
\* which the prerequisites are tasks too.
Distinct(s) == \A i, j \in 1 .. Len(s) : s[i] = s[j] => i = j
WellFormed ==
    \A g \in Graphs :
        LET T == Range(g.order)
        IN  /\ IsFiniteSet(T) /\ "main" \notin T
            /\ g.deps \in [T -> SUBSET T] /\ g.gives \in [T -> BOOLEAN]
            /\ First(g) \in Seq(T) /\ Distinct(First(g))
            /\ \A i \in 1 .. Len(First(g)) : g.deps[First(g)[i]] = {}
=============================================================================
