----------------------------- MODULE DataDumper -----------------------------
(***************************************************************************)
(* The profiler's data path: ProfilerMgr hands reports to a DataDumper (or *)
(* TraceDataDumper), whose RingBuffer carries them from the threads that   *)
(* report to the thread that writes them to a file.                        *)
(*                                                                         *)
(* dataReceiver_ is fed by Upload without a lock, dataReceiverWithLock_ by *)
(* UploadWithLock under reportDataMutex_ (constant Locked), and            *)
(* traceDataReceiver_ by the Python tracer (NotifyInterval 0, BatchLen 1). *)
(* A claimed slot is published by counting: write_index_ is incremented,   *)
(* whichever slot was filled.                                              *)
(***************************************************************************)
EXTENDS Integers, Sequences, FiniteSets, Functions, TLAPS

CONSTANTS
    Reporters,         \* threads that report
    Null,              \* the null unique_ptr
    Locked,            \* reports go through UploadWithLock
    LateReports,       \* a report may be under way while the dumper is stopped
    Capacity,          \* slots of the ring, a power of two
    NotifyInterval,    \* kNotifyInterval
    BatchLen,          \* reports that make up kBatchMaxLen bytes
    CycleLimit,        \* cycle_limit of Push
    MaxReports,        \* bound on the reports of each thread
    MaxSessions        \* bound on profiling sessions

VARIABLES
    is_inited, read_index, write_index, idle_write_index, data_queue,   \* RingBuffer
    start, report_enable, enable_warmup,       \* start_ and the switches of ProfilerMgr
    warmup,            \* the session being opened is opened by Warmup
    mutex,             \* reportDataMutex_
    pc,                \* of the reporters, the dumper thread and the control thread
    sent, cycles, at,  \* per reporter: reports begun, turns of the loop, index loaded or claimed
    batch,             \* per consumer: dataMap
    accepted,          \* reports for which Push returned true, in that order
    late,              \* reports that were under way when the dumper was stopped
    file, unwritten,   \* reports written, and those of batches whose file did not open
    sessions

ring == <<is_inited, read_index, write_index, idle_write_index, data_queue>>
manager == <<report_enable, enable_warmup, warmup, sessions>>
reporter == <<sent, cycles, at, mutex, accepted, late>>
output == <<batch, file, unwritten>>
vars == <<ring, start, manager, pc, reporter, output>>

Consumers == {"dumper", "control"}
Items == UNION {{r} \X (1 .. MaxReports[r]) : r \in Reporters}
Empty == [i \in 0 .. Capacity - 1 |-> Null]

Init ==
    /\ is_inited = FALSE /\ read_index = 0 /\ write_index = 0 /\ idle_write_index = 0 /\ data_queue = Empty
    /\ start = FALSE /\ report_enable = FALSE /\ enable_warmup = FALSE /\ warmup = FALSE /\ mutex = Null
    /\ pc = [p \in Reporters \cup Consumers |->
                CASE p = "dumper" -> "exited" [] p = "control" -> "off" [] OTHER -> "idle"]
    /\ sent = [r \in Reporters |-> 0] /\ cycles = [r \in Reporters |-> 0] /\ at = [r \in Reporters |-> 0]
    /\ batch = [c \in Consumers |-> <<>>] /\ accepted = <<>> /\ late = {} /\ file = <<>> /\ unwritten = {}
    /\ sessions = 0

Goto(p, l) == pc' = [pc EXCEPT ![p] = l]

\* mask_ is Capacity - 1 while the ring is initialised and 0 otherwise.
Masked(i) == IF is_inited THEN i % Capacity ELSE 0
Size == IF read_index > write_index
        THEN (IF is_inited THEN Capacity ELSE 0) - Masked(read_index) + Masked(write_index)
        ELSE write_index - read_index

-----------------------------------------------------------------------------
(* Reporters: Upload, UploadWithLock, Report and Push *)

Item(r) == <<r, sent[r]>>
Leave(r) ==
    /\ Goto(r, "idle")
    /\ mutex' = IF mutex = r THEN Null ELSE mutex
    /\ cycles' = [cycles EXCEPT ![r] = 0] /\ at' = [at EXCEPT ![r] = 0]

Upload(r) ==
    /\ pc[r] = "idle" /\ sent[r] < MaxReports[r]
    /\ sent' = [sent EXCEPT ![r] = @ + 1]
    /\ Goto(r, IF enable_warmup THEN "idle" ELSE "report")
    /\ UNCHANGED <<ring, start, manager, cycles, at, mutex, accepted, late, output>>

Lock(r) == IF Locked THEN mutex = Null /\ mutex' = r ELSE UNCHANGED mutex
Report(r) ==
    /\ pc[r] = "report"
    /\ \/ start /\ Lock(r) /\ Goto(r, "push") /\ UNCHANGED <<cycles, at>>
       \/ ~start /\ mutex = Null /\ Leave(r)
    /\ UNCHANGED <<ring, start, manager, sent, accepted, late, output>>

GaveUp(r) == cycles[r] + 1 >= CycleLimit
\* One turn of the loop in Push up to the load of read_index_.
PushLoad(r) ==
    /\ pc[r] = "push"
    /\ IF ~is_inited \/ GaveUp(r)
       THEN Leave(r)
       ELSE /\ cycles' = [cycles EXCEPT ![r] = @ + 1] /\ at' = [at EXCEPT ![r] = read_index]
            /\ Goto(r, "claim") /\ UNCHANGED mutex
    /\ UNCHANGED <<ring, start, manager, sent, accepted, late, output>>

NeverFull(r) == FALSE
Full(r) == Masked(idle_write_index + 1) = Masked(at[r])
\* idle_write_index_ is loaded, tested and exchanged; a successful exchange
\* makes these one step.
PushClaim(r) ==
    /\ pc[r] = "claim"
    /\ IF Full(r)
       THEN Leave(r) /\ UNCHANGED idle_write_index
       ELSE /\ at' = [at EXCEPT ![r] = Masked(idle_write_index)]
            /\ idle_write_index' = idle_write_index + 1
            /\ Goto(r, "store") /\ UNCHANGED <<mutex, cycles>>
    /\ UNCHANGED <<is_inited, read_index, write_index, data_queue, start, manager, sent, accepted, late, output>>

\* compare_exchange_weak failed: another reporter was first, or spuriously.
PushRetry(r) ==
    /\ pc[r] = "claim" /\ ~Full(r)
    /\ Goto(r, "push")
    /\ UNCHANGED <<ring, start, manager, reporter, output>>

\* The vector may have been cleared meanwhile; what is stored then is gone.
PushStore(r) ==
    /\ pc[r] = "store"
    /\ data_queue' = IF is_inited THEN [data_queue EXCEPT ![at[r]] = Item(r)] ELSE data_queue
    /\ Goto(r, "publish")
    /\ UNCHANGED <<is_inited, read_index, write_index, idle_write_index, start, manager, reporter, output>>

PushPublish(r) ==
    /\ pc[r] = "publish"
    /\ write_index' = write_index + 1
    /\ accepted' = Append(accepted, Item(r))
    /\ Leave(r)
    /\ UNCHANGED <<is_inited, read_index, idle_write_index, data_queue, start, manager, sent, late, output>>

-----------------------------------------------------------------------------
(* GatherAndDumpData, run by the dumper thread and, in Flush, by the control thread *)

Caller(c) == IF c = "dumper" THEN "run" ELSE "flush"

NoPop(c) == Masked(read_index) = Masked(write_index) \/ ~is_inited
Pop(c) ==
    /\ pc[c] = "gather" /\ Len(batch[c]) < BatchLen /\ ~NoPop(c)
    /\ LET data == data_queue[Masked(read_index)] IN
         IF data = Null
         THEN Goto(c, "dump") /\ UNCHANGED batch
         ELSE batch' = [batch EXCEPT ![c] = Append(@, data)] /\ UNCHANGED pc
    /\ data_queue' = [data_queue EXCEPT ![Masked(read_index)] = Null]
    /\ read_index' = read_index + 1
    /\ UNCHANGED <<is_inited, write_index, idle_write_index, start, manager, reporter, file, unwritten>>

GatherBreak(c) ==
    /\ pc[c] = "gather" /\ (Len(batch[c]) >= BatchLen \/ NoPop(c))
    /\ Goto(c, "dump")
    /\ UNCHANGED <<ring, start, manager, reporter, output>>

\* The batch is written, or dropped with an error log when its file does not open.
Dump(c) ==
    /\ pc[c] = "dump"
    /\ \/ file' = file \o batch[c] /\ UNCHANGED unwritten
       \/ batch[c] # <<>> /\ unwritten' = unwritten \cup Range(batch[c]) /\ UNCHANGED file
    /\ batch' = [batch EXCEPT ![c] = <<>>]
    /\ Goto(c, Caller(c))
    /\ UNCHANGED <<ring, start, manager, reporter>>

Run ==
    /\ pc["dumper"] = "run"
    /\ Goto("dumper", CASE ~start -> "exited" [] start /\ Size > NotifyInterval -> "gather" [] OTHER -> "run")
    /\ UNCHANGED <<ring, start, manager, reporter, output>>

-----------------------------------------------------------------------------
(* The control thread: ProfilerMgr::Warmup, Start and Stop *)

\* Warmup, or Start without one.  The directory may not be created.
StartDataReceiver ==
    /\ pc["control"] = "off" /\ sessions < MaxSessions
    /\ sessions' = sessions + 1
    /\ warmup' \in BOOLEAN
    /\ \/ /\ is_inited' = TRUE /\ data_queue' = Empty /\ Goto("control", "create")
          /\ UNCHANGED <<read_index, write_index, idle_write_index>>
       \/ Goto("control", "switch") /\ UNCHANGED ring
    /\ UNCHANGED <<start, report_enable, enable_warmup, reporter, output>>

\* Thread::Start; pthread_create may fail.
ThreadStart ==
    /\ pc["control"] = "create"
    /\ \/ pc' = [pc EXCEPT !["dumper"] = "run", !["control"] = "start"]
       \/ Goto("control", "switch")
    /\ UNCHANGED <<ring, start, manager, reporter, output>>

StartStore ==
    /\ pc["control"] = "start"
    /\ start' = TRUE
    /\ Goto("control", "switch")
    /\ UNCHANGED <<ring, manager, reporter, output>>

Switch ==
    /\ pc["control"] = "switch"
    /\ report_enable' = is_inited /\ enable_warmup' = warmup
    /\ Goto("control", "on")
    /\ UNCHANGED <<ring, start, warmup, sessions, reporter, output>>

\* Start after Warmup.
StartAfterWarmup ==
    /\ pc["control"] = "on" /\ enable_warmup
    /\ enable_warmup' = FALSE
    /\ UNCHANGED <<ring, start, report_enable, warmup, sessions, pc, reporter, output>>

Reporting(r) == pc[r] \in {"push", "claim", "store", "publish"}
Stop ==
    /\ pc["control"] = "on"
    /\ LateReports \/ \A r \in Reporters : ~Reporting(r)
    /\ start' = FALSE
    /\ late' = late \cup {Item(r) : r \in {r \in Reporters : Reporting(r)}}
    /\ Goto("control", CASE ~report_enable -> "close" [] report_enable /\ start -> "join" [] OTHER -> "flush")
    /\ UNCHANGED <<ring, manager, sent, cycles, at, mutex, accepted, output>>

NoJoin ==
    /\ pc["control"] = "join"
    /\ Goto("control", "flush")
    /\ UNCHANGED <<ring, start, manager, reporter, output>>
Join ==
    /\ pc["control"] = "join" /\ pc["dumper"] = "exited"
    /\ Goto("control", "flush")
    /\ UNCHANGED <<ring, start, manager, reporter, output>>

Flush ==
    /\ pc["control"] = "flush"
    /\ Goto("control", IF Size # 0 THEN "gather" ELSE "uninit")
    /\ UNCHANGED <<ring, start, manager, reporter, output>>

UnInit ==
    /\ pc["control"] = "uninit"
    /\ is_inited' = FALSE /\ data_queue' = Empty
    /\ read_index' = 0 /\ write_index' = 0 /\ idle_write_index' = 0
    /\ start' = FALSE
    /\ Goto("control", "close")
    /\ UNCHANGED <<manager, reporter, output>>

Close ==
    /\ pc["control"] = "close"
    /\ report_enable' = FALSE /\ enable_warmup' = FALSE /\ warmup' = FALSE
    /\ Goto("control", "off")
    /\ UNCHANGED <<ring, start, sessions, reporter, output>>

-----------------------------------------------------------------------------
Push(r) == PushLoad(r) \/ PushClaim(r) \/ PushRetry(r) \/ PushStore(r) \/ PushPublish(r)
GatherAndDumpData(c) == Pop(c) \/ GatherBreak(c) \/ Dump(c)
Control == ThreadStart \/ StartStore \/ Switch \/ Join \/ Flush \/ UnInit \/ Close

Next ==
    \/ \E r \in Reporters : Upload(r) \/ Report(r) \/ Push(r)
    \/ \E c \in Consumers : GatherAndDumpData(c)
    \/ Run \/ Control
    \/ StartDataReceiver \/ StartAfterWarmup \/ Stop

Spec == Init /\ [][Next]_vars

\* The threads run.  When to report, start or stop is the application's choice.
Fairness ==
    /\ \A r \in Reporters : WF_vars(Report(r) \/ Push(r))
    /\ \A c \in Consumers : WF_vars(GatherAndDumpData(c))
    /\ WF_vars(Run) /\ WF_vars(Control)
FairSpec == Spec /\ Fairness

\* Stop has asked the dumper thread to exit and waits for it; no session is open.
Stopping == pc["control"] = "join"
Stopped == pc["control"] = "off"

-----------------------------------------------------------------------------
TypeOK ==
    /\ is_inited \in BOOLEAN /\ {read_index, write_index, idle_write_index} \subseteq Nat
    /\ data_queue \in [0 .. Capacity - 1 -> Items \cup {Null}]
    /\ {start, report_enable, enable_warmup, warmup} \subseteq BOOLEAN
    /\ mutex \in Reporters \cup {Null}
    /\ \A r \in Reporters : pc[r] \in {"idle", "report", "push", "claim", "store", "publish"}
    /\ pc["dumper"] \in {"run", "gather", "dump", "exited"}
    /\ pc["control"] \in {"off", "create", "start", "switch", "on", "join", "flush", "gather", "dump",
                          "uninit", "close"}
    /\ \A r \in Reporters : cycles[r] < CycleLimit /\ sent[r] <= MaxReports[r] /\ at[r] \in Nat
    /\ \A c \in Consumers : Range(batch[c]) \subseteq Items /\ Len(batch[c]) <= BatchLen
    /\ Range(accepted) \cup Range(file) \cup unwritten \subseteq Items

\* A claim never takes a slot whose report has not been popped: the ring holds
\* at most Capacity - 1 reports (Push compares with a read_index_ it loaded earlier).
RingBounded == is_inited => idle_write_index - read_index < Capacity

\* Pop has one caller at a time: Stop's Flush runs after the dumper thread was joined.
OneConsumer == \E c \in Consumers : pc[c] \notin {"gather", "dump"}

\* Reports reach the file in the order Push accepted them, none twice.
FileInOrder == file = SelectSeq(accepted, LAMBDA i : i \in Range(file))

\* When a session is over, every report Push accepted has been written, or its
\* batch was dropped with an error log.  A report that raced with Stop may be lost.
NoSilentLoss ==
    pc["control"] = "off" /\ (\A r \in Reporters : ~Reporting(r))
        => Range(accepted) \subseteq Range(file) \cup unwritten \cup late

\* The threads are different, and the ring has a slot to keep free.
Distinct == Reporters \cap Consumers = {} /\ Null \notin Reporters
Sized == Capacity \in Nat /\ Capacity > 1

(***************************************************************************)
(* Proofs, for any number of reporting threads, reports and sessions: what *)
(* the lock of UploadWithLock protects in the ring, and that Stop never    *)
(* pops beside the dumper thread. The steps that are not pure logic name   *)
(* the SMT solver.                                                         *)
(***************************************************************************)
USE Zenon
USE DEF ring, manager, reporter, output

Threads == Reporters \cup Consumers
Labels == {"idle", "report", "push", "claim", "store", "publish", "run", "gather", "dump", "exited",
           "off", "create", "start", "switch", "on", "join", "flush", "uninit", "close"}

(***************************************************************************)
(* Remainders.                                                             *)
(***************************************************************************)

\* A remainder is what a multiple leaves.
LEMMA ModOf ==
    ASSUME NEW C \in Nat \ {0}, NEW a \in Nat, NEW q \in Nat, NEW m \in 0 .. C - 1, a = C * q + m
    PROVE  a % C = m
BY SMT

\* What is divided is the divisor times the quotient, and the remainder.
LEMMA DivMod ==
    ASSUME NEW C \in Int, C > 0, NEW a \in Int
    PROVE  a = C * (a \div C) + (a % C)
BY SMT

\* The mask of RingBuffer does not tell an index from the one a capacity further.
LEMMA ModAround ==
    ASSUME NEW C \in Nat \ {0}, NEW a \in Nat
    PROVE  (a + C) % C = a % C
<1> DEFINE q == a \div C
           m == a % C
<1>1. m \in 0 .. C - 1
  BY SMT
<1>2. q \in Nat
  <2>1. q \in Int
    BY SMT
  <2>2. q >= 0
    BY SMT
  <2> QED
    BY SMT, <2>1, <2>2
<1>3. a = C * q + m
  BY SMT, DivMod
<1> HIDE DEF q, m
<1>4. a + C = C * (q + 1) + m
  BY SMT, <1>1, <1>2, <1>3
<1>5. PICK b \in Nat, p \in Nat : b = a + C /\ p = q + 1
  BY SMT, <1>2
<1>6. b % C = m
  <2>1. b = C * p + m
    BY <1>4, <1>5
  <2> QED
    BY <1>1, <2>1, ModOf
<1> QED
  BY <1>5, <1>6 DEF m

(***************************************************************************)
(* The ring under the lock.                                                *)
(***************************************************************************)

\* A reporter in Push holds reportDataMutex_.  The index it loaded is not ahead of
\* read_index_, and the ring was not full from there; or the ring was opened again
\* meanwhile, and nobody has claimed a slot of it.
LoadedFits(r) ==
    \/ idle_write_index = 0
    \/ at[r] <= read_index /\ idle_write_index - at[r] < Capacity

RingIInv ==
    /\ is_inited \in BOOLEAN /\ read_index \in Nat /\ idle_write_index \in Nat
    /\ pc \in [Threads -> Labels] /\ at \in [Reporters -> Nat]
    /\ \A r \in Reporters : Reporting(r) => mutex = r
    /\ ~is_inited => read_index = 0 /\ idle_write_index = 0
    /\ RingBounded
    /\ \A r \in Reporters : pc[r] = "claim" /\ is_inited => LoadedFits(r)

\* It holds before the first session.
LEMMA RingInit == ASSUME Distinct PROVE Init => RingIInv
<1> SUFFICES ASSUME Init PROVE RingIInv
  OBVIOUS
<1>1. pc = [p \in Threads |->
               CASE p = "dumper" -> "exited" [] p = "control" -> "off" [] OTHER -> "idle"]
  BY DEF Init, Threads
<1>2. pc \in [Threads -> Labels]
  BY <1>1 DEF Labels
<1>3. \A r \in Reporters : pc[r] = "idle"
  BY <1>1 DEF Distinct, Consumers, Threads
<1> QED
  BY <1>2, <1>3 DEF Init, RingIInv, Reporting, RingBounded

\* A step of another thread, which claims and pops nothing.
LEMMA RingQuiet ==
    ASSUME RingIInv, UNCHANGED <<is_inited, read_index, idle_write_index, at, mutex>>,
           pc' \in [Threads -> Labels], \A r \in Reporters : pc'[r] = pc[r]
    PROVE  RingIInv'
BY DEF RingIInv, Reporting, RingBounded, LoadedFits

\* A reporter leaves Push and gives the lock back.
LEMMA RingLeave ==
    ASSUME Distinct, RingIInv, NEW r \in Reporters, Reporting(r) \/ mutex = Null, Leave(r),
           UNCHANGED <<is_inited, read_index, idle_write_index>>
    PROVE  RingIInv'
<1>1. /\ pc' = [pc EXCEPT ![r] = "idle"] /\ at' = [at EXCEPT ![r] = 0]
      /\ mutex' = IF mutex = r THEN Null ELSE mutex
  BY DEF Leave, Goto
<1>2. pc' \in [Threads -> Labels] /\ at' \in [Reporters -> Nat]
  BY ZenonT(60), <1>1 DEF RingIInv, Labels
<1>3. ASSUME NEW s \in Reporters, pc'[s] \in {"push", "claim", "store", "publish"}
      PROVE  s # r /\ pc'[s] = pc[s] /\ at'[s] = at[s] /\ mutex = s /\ mutex' = s
  BY <1>1, <1>3 DEF RingIInv, Reporting, Threads, Distinct
<1>4. \A s \in Reporters : Reporting(s)' => mutex' = s
  BY <1>3 DEF Reporting
<1>5. \A s \in Reporters : pc'[s] = "claim" /\ is_inited' => LoadedFits(s)'
  BY <1>3 DEF RingIInv, LoadedFits
<1> QED
  BY <1>2, <1>4, <1>5 DEF RingIInv, RingBounded

\* The claim of a slot: an index that is not full when compared with the one that
\* was loaded is not full.
LEMMA RingClaim ==
    ASSUME Distinct, Sized, RingIInv, NEW r \in Reporters, PushClaim(r), ~Full(r)
    PROVE  RingIInv'
<1>1. /\ pc[r] = "claim" /\ idle_write_index' = idle_write_index + 1
      /\ pc' = [pc EXCEPT ![r] = "store"]
      /\ at' = [at EXCEPT ![r] = Masked(idle_write_index)]
      /\ UNCHANGED <<is_inited, read_index, mutex>>
  BY DEF PushClaim, Goto
<1>2. is_inited
  BY DEF Full, Masked
<1>3. Masked(idle_write_index) \in Nat
  <2>1. idle_write_index % Capacity \in 0 .. Capacity - 1
    BY SMT DEF Sized, RingIInv
  <2> QED
    BY SMT, <1>2, <2>1 DEF Masked, Sized
<1>4. idle_write_index + 1 - read_index < Capacity
  <2>1. CASE idle_write_index = 0
    BY SMT, <2>1 DEF RingIInv, Sized
  <2>2. CASE at[r] <= read_index /\ idle_write_index - at[r] < Capacity
    <3>1. (idle_write_index + 1) % Capacity # at[r] % Capacity
      BY <1>2 DEF Full, Masked
    <3>2. Capacity \in Nat \ {0} /\ at[r] \in Nat /\ (at[r] + Capacity) % Capacity = at[r] % Capacity
      BY SMT, ModAround DEF Sized, RingIInv
    <3>3. idle_write_index + 1 # at[r] + Capacity
      BY <3>1, <3>2
    <3> QED
      BY SMT, <2>2, <3>2, <3>3 DEF RingIInv
  <2> QED
    BY <1>1, <1>2, <2>1, <2>2 DEF RingIInv, LoadedFits
<1>5. pc' \in [Threads -> Labels] /\ at' \in [Reporters -> Nat]
  BY ZenonT(60), <1>1, <1>3 DEF RingIInv, Labels
<1>6. mutex = r
  BY <1>1 DEF RingIInv, Reporting
<1>7. ASSUME NEW s \in Reporters PROVE pc'[s] # "claim" /\ (Reporting(s)' => s = r)
  BY <1>1, <1>6 DEF RingIInv, Reporting, Threads
<1> QED
  BY SMT, <1>1, <1>2, <1>4, <1>5, <1>6, <1>7 DEF RingIInv, RingBounded

\* Every step keeps it.
LEMMA RingNext ==
    ASSUME Distinct, Sized, Locked
    PROVE  RingIInv /\ [Next]_vars => RingIInv'
<1> SUFFICES ASSUME RingIInv, [Next]_vars PROVE RingIInv'
  OBVIOUS
<1>0. pc \in [Threads -> Labels] /\ \A r \in Reporters : r \in Threads
  BY DEF RingIInv, Threads
<1>1. ASSUME NEW r \in Reporters, Upload(r)
      PROVE  RingIInv'
  <2>1. /\ pc[r] = "idle" /\ pc' = [pc EXCEPT ![r] = IF enable_warmup THEN "idle" ELSE "report"]
        /\ UNCHANGED <<is_inited, read_index, idle_write_index, at, mutex>>
    BY <1>1 DEF Upload, Goto
  <2>2. pc' \in [Threads -> Labels]
    BY <1>0, <2>1 DEF Labels
  <2>3. \A s \in Reporters : \/ pc'[s] = pc[s]
                             \/ pc'[s] \notin {"push", "claim", "store", "publish"}
    BY <1>0, <2>1
  <2> QED
    BY <2>1, <2>2, <2>3 DEF RingIInv, Reporting, RingBounded, LoadedFits
<1>2. ASSUME NEW r \in Reporters, Report(r)
      PROVE  RingIInv'
  <2>1. UNCHANGED <<is_inited, read_index, idle_write_index>> /\ pc[r] = "report"
    BY <1>2 DEF Report
  <2>2. CASE mutex = Null /\ Leave(r)
    BY <2>1, <2>2, RingLeave
  <2>3. CASE Lock(r) /\ Goto(r, "push") /\ UNCHANGED <<cycles, at>>
    <3>1. mutex = Null /\ mutex' = r /\ pc' = [pc EXCEPT ![r] = "push"] /\ UNCHANGED at
      BY <2>3 DEF Lock, Goto
    <3>2. pc' \in [Threads -> Labels] /\ pc'[r] = "push"
      BY <1>0, <3>1 DEF Labels
    <3>3. \A s \in Reporters : s # r => pc'[s] = pc[s] /\ ~Reporting(s)
      BY <1>0, <3>1 DEF RingIInv, Distinct
    <3> QED
      BY <2>1, <3>1, <3>2, <3>3 DEF RingIInv, Reporting, RingBounded, LoadedFits
  <2> QED
    BY <1>2, <2>2, <2>3 DEF Report
<1>3. ASSUME NEW r \in Reporters, PushLoad(r)
      PROVE  RingIInv'
  <2>1. UNCHANGED <<is_inited, read_index, idle_write_index>> /\ pc[r] = "push"
    BY <1>3 DEF PushLoad
  <2>2. CASE Leave(r)
    BY <2>1, <2>2, RingLeave DEF Reporting
  <2>3. CASE ~Leave(r)
    <3>1. /\ is_inited /\ at' = [at EXCEPT ![r] = read_index]
          /\ pc' = [pc EXCEPT ![r] = "claim"] /\ UNCHANGED mutex
      BY <1>3, <2>3 DEF PushLoad, Goto, RingIInv
    <3>2. pc' \in [Threads -> Labels] /\ at' \in [Reporters -> Nat]
      BY <1>0, <3>1 DEF RingIInv, Labels
    <3>3. mutex = r
      BY <2>1 DEF RingIInv, Reporting
    <3>4. \A s \in Reporters : s # r => pc'[s] = pc[s] /\ ~Reporting(s)
      BY <1>0, <3>1, <3>3 DEF RingIInv
    <3>5. at'[r] = read_index
      BY <3>1 DEF RingIInv
    <3>6. LoadedFits(r)'
      BY SMT, <2>1, <3>1, <3>5 DEF RingIInv, LoadedFits, RingBounded
    <3> QED
      BY <2>1, <3>1, <3>2, <3>3, <3>4, <3>6 DEF RingIInv, Reporting, RingBounded
  <2> QED
    BY <2>2, <2>3
<1>4. ASSUME NEW r \in Reporters, PushClaim(r)
      PROVE  RingIInv'
  <2>1. CASE Full(r)
    <3>1. Leave(r) /\ UNCHANGED <<is_inited, read_index, idle_write_index>> /\ pc[r] = "claim"
      BY <1>4, <2>1 DEF PushClaim
    <3> QED
      BY <3>1, RingLeave DEF Reporting
  <2>2. CASE ~Full(r)
    BY <1>4, <2>2, RingClaim
  <2> QED
    BY <2>1, <2>2
<1>5. ASSUME NEW r \in Reporters, PushRetry(r) \/ PushStore(r)
      PROVE  RingIInv'
  <2>1. /\ UNCHANGED <<is_inited, read_index, idle_write_index, at, mutex>> /\ Reporting(r)
        /\ \E l \in {"push", "publish"} : pc' = [pc EXCEPT ![r] = l]
    BY <1>5 DEF PushRetry, PushStore, Goto, Reporting
  <2>2. pc' \in [Threads -> Labels]
    BY <1>0, <2>1 DEF Labels
  <2>3. \A s \in Reporters : s # r => pc'[s] = pc[s]
    BY <1>0, <2>1
  <2>4. pc'[r] # "claim"
    BY <1>0, <2>1
  <2> QED
    BY <2>1, <2>2, <2>3, <2>4 DEF RingIInv, Reporting, RingBounded, LoadedFits
<1>6. ASSUME NEW r \in Reporters, PushPublish(r)
      PROVE  RingIInv'
  <2>1. Leave(r) /\ UNCHANGED <<is_inited, read_index, idle_write_index>> /\ Reporting(r)
    BY <1>6 DEF PushPublish, Reporting
  <2> QED
    BY <2>1, RingLeave
<1>7. ASSUME NEW c \in Consumers, Pop(c)
      PROVE  RingIInv'
  <2>1. /\ is_inited /\ read_index' = read_index + 1
        /\ UNCHANGED <<is_inited, idle_write_index, at, mutex>>
        /\ (pc' = pc \/ pc' = [pc EXCEPT ![c] = "dump"])
    BY <1>7 DEF Pop, NoPop, Goto
  <2>2. pc' \in [Threads -> Labels] /\ \A s \in Reporters : pc'[s] = pc[s]
    BY <1>0, <2>1 DEF Labels, Distinct
  <2> QED
    BY SMT, <2>1, <2>2 DEF RingIInv, Reporting, RingBounded, LoadedFits, Sized
<1>8. ASSUME NEW c \in Consumers, GatherBreak(c) \/ Dump(c)
      PROVE  RingIInv'
  <2>1. /\ UNCHANGED <<is_inited, read_index, idle_write_index, at, mutex>>
        /\ \E l \in Labels : pc' = [pc EXCEPT ![c] = l]
    BY <1>8 DEF GatherBreak, Dump, Goto, Caller, Labels
  <2>2. pc' \in [Threads -> Labels] /\ \A s \in Reporters : pc'[s] = pc[s]
    BY ZenonT(60), <1>0, <2>1 DEF Distinct
  <2> QED
    BY <2>1, <2>2, RingQuiet
<1>9. ASSUME Run \/ ThreadStart \/ StartStore \/ Switch \/ Join \/ Flush \/ Close \/ StartAfterWarmup \/ Stop
      PROVE  RingIInv'
  <2>1. UNCHANGED <<is_inited, read_index, idle_write_index, at, mutex>>
    BY <1>9 DEF Run, ThreadStart, StartStore, Switch, Join, Flush, Close, StartAfterWarmup, Stop
  <2>2. \/ pc' = pc
        \/ \E l \in Labels : pc' = [pc EXCEPT !["dumper"] = l]
        \/ \E l \in Labels : pc' = [pc EXCEPT !["control"] = l]
        \/ pc' = [pc EXCEPT !["dumper"] = "run", !["control"] = "start"]
    BY <1>9 DEF Run, ThreadStart, StartStore, Switch, Join, Flush, Close, StartAfterWarmup, Stop, Goto, Labels
  <2>3. pc' \in [Threads -> Labels] /\ \A s \in Reporters : pc'[s] = pc[s]
    BY SMT, <1>0, <2>2 DEF Distinct, Consumers, Labels
  <2> QED
    BY <2>1, <2>3, RingQuiet
<1>10. ASSUME UnInit
       PROVE  RingIInv'
  <2>1. /\ is_inited' = FALSE /\ read_index' = 0 /\ idle_write_index' = 0 /\ UNCHANGED <<at, mutex>>
        /\ pc' = [pc EXCEPT !["control"] = "close"]
    BY <1>10 DEF UnInit, Goto
  <2>2. pc' \in [Threads -> Labels] /\ \A s \in Reporters : pc'[s] = pc[s]
    BY <1>0, <2>1 DEF Distinct, Consumers, Labels
  <2> QED
    BY <2>1, <2>2 DEF RingIInv, Reporting, RingBounded
<1>11. ASSUME StartDataReceiver
       PROVE  RingIInv'
  <2>1. /\ UNCHANGED <<read_index, idle_write_index, at, mutex>>
        /\ is_inited' = TRUE \/ UNCHANGED is_inited
        /\ \E l \in Labels : pc' = [pc EXCEPT !["control"] = l]
    BY <1>11 DEF StartDataReceiver, Goto, Labels
  <2>2. pc' \in [Threads -> Labels] /\ \A s \in Reporters : pc'[s] = pc[s]
    BY ZenonT(60), <1>0, <2>1 DEF Distinct, Consumers, Labels
  <2>3. CASE is_inited' = TRUE
    <3>1. RingBounded'
      BY SMT, <2>1, <2>3 DEF RingIInv, RingBounded, Sized
    <3> QED
      BY <2>1, <2>2, <2>3, <3>1 DEF RingIInv, Reporting, LoadedFits
  <2>4. CASE UNCHANGED is_inited
    BY <2>1, <2>2, <2>4, RingQuiet
  <2> QED
    BY <2>1, <2>3, <2>4
<1>12. CASE UNCHANGED vars
  BY <1>0, <1>12, RingQuiet DEF vars
<1> QED
  BY <1>1, <1>2, <1>3, <1>4, <1>5, <1>6, <1>7, <1>8, <1>9, <1>10, <1>11, <1>12
     DEF Next, Push, GatherAndDumpData, Control

\* Push under reportDataMutex_ claims no slot whose report has not been popped,
\* although it compares idle_write_index_ with a read_index_ it loaded earlier, and
\* although a report may outlast the session it began in.
THEOREM RingNeverOverrun ==
    ASSUME Distinct, Sized, Locked
    PROVE  Spec => []RingBounded
<1>1. Init => RingIInv
  BY RingInit
<1>2. RingIInv /\ [Next]_vars => RingIInv'
  BY RingNext
<1>3. RingIInv => RingBounded
  BY DEF RingIInv
<1> QED
  BY <1>1, <1>2, <1>3, PTL DEF Spec

(***************************************************************************)
(* The dumper thread and Stop.                                             *)
(***************************************************************************)

\* While the dumper thread lives, the control thread is between its creation and
\* its join; once past Start it has left the flags set that make Stop join it.
DumperIInv ==
    /\ pc \in [Threads -> Labels] /\ is_inited \in BOOLEAN
    /\ pc["control"] \in {"create", "start"} => is_inited
    /\ pc["dumper"] # "exited" =>
          \/ pc["control"] \in {"start", "join"}
          \/ pc["control"] = "switch" /\ start /\ is_inited
          \/ pc["control"] = "on" /\ start /\ report_enable

\* It holds before the first session.
LEMMA DumperInit == Init => DumperIInv
<1> SUFFICES ASSUME Init PROVE DumperIInv
  OBVIOUS
<1>1. pc = [p \in Threads |->
               CASE p = "dumper" -> "exited" [] p = "control" -> "off" [] OTHER -> "idle"]
  BY DEF Init, Threads
<1>2. pc \in [Threads -> Labels]
  BY <1>1 DEF Labels
<1>3. pc["dumper"] = "exited" /\ pc["control"] = "off"
  BY <1>1 DEF Consumers, Threads
<1> QED
  BY ZenonT(60), <1>2, <1>3 DEF Init, DumperIInv

\* Every step keeps it.
LEMMA DumperNext == ASSUME Distinct PROVE DumperIInv /\ [Next]_vars => DumperIInv'
<1> SUFFICES ASSUME DumperIInv, [Next]_vars PROVE DumperIInv'
  OBVIOUS
<1>0. pc \in [Threads -> Labels] /\ "dumper" \in Threads /\ "control" \in Threads
  BY DEF DumperIInv, Threads, Consumers
<1>1. ASSUME NEW r \in Reporters, Upload(r) \/ Report(r) \/ Push(r)
      PROVE  DumperIInv'
  <2>1. /\ UNCHANGED <<is_inited, start, report_enable>>
        /\ \E l \in Labels : pc' = [pc EXCEPT ![r] = l]
    BY <1>1 DEF Upload, Report, Push, PushLoad, PushClaim, PushRetry, PushStore, PushPublish, Leave, Goto, Labels
  <2>2. pc' \in [Threads -> Labels] /\ pc'["dumper"] = pc["dumper"] /\ pc'["control"] = pc["control"]
    BY <1>0, <2>1 DEF Distinct, Consumers
  <2> QED
    BY <2>1, <2>2 DEF DumperIInv
<1>2. ASSUME NEW c \in Consumers, GatherAndDumpData(c)
      PROVE  DumperIInv'
  <2>1. /\ UNCHANGED <<is_inited, start, report_enable>> /\ pc[c] \in {"gather", "dump"}
        /\ \E l \in {pc[c], "dump", Caller(c)} : pc' = [pc EXCEPT ![c] = l]
    <3>1. pc = [pc EXCEPT ![c] = pc[c]]
      BY <1>0
    <3> QED
      BY <1>2, <3>1 DEF GatherAndDumpData, Pop, GatherBreak, Dump, Goto
  <2>2. CASE c = "dumper"
    BY <1>0, <2>1, <2>2 DEF DumperIInv, Caller, Labels
  <2>3. CASE c = "control"
    BY SMT, <1>0, <2>1, <2>3 DEF DumperIInv, Caller, Labels
  <2> QED
    BY <2>2, <2>3 DEF Consumers
<1>3. CASE Run
  <2>1. /\ UNCHANGED <<is_inited, start, report_enable>> /\ pc["dumper"] = "run"
        /\ \E l \in Labels : pc' = [pc EXCEPT !["dumper"] = l]
    BY <1>3 DEF Run, Goto, Labels
  <2> QED
    BY <1>0, <2>1 DEF DumperIInv
<1>4. CASE StartDataReceiver
  <2>1. /\ UNCHANGED <<start, report_enable>> /\ pc["control"] = "off"
        /\ \/ is_inited' = TRUE /\ pc' = [pc EXCEPT !["control"] = "create"]
           \/ UNCHANGED is_inited /\ pc' = [pc EXCEPT !["control"] = "switch"]
    BY <1>4 DEF StartDataReceiver, Goto
  <2> QED
    BY <1>0, <2>1 DEF DumperIInv, Labels
<1>5. CASE ThreadStart
  BY <1>0, <1>5 DEF ThreadStart, Goto, DumperIInv, Labels
<1>6. CASE StartStore
  BY <1>0, <1>6 DEF StartStore, Goto, DumperIInv, Labels
<1>7. CASE Switch
  BY <1>0, <1>7 DEF Switch, Goto, DumperIInv, Labels
<1>8. CASE StartAfterWarmup
  BY <1>0, <1>8 DEF StartAfterWarmup, DumperIInv
<1>9. CASE Stop
  <2>1. /\ pc["control"] = "on" /\ UNCHANGED is_inited
        /\ pc' = [pc EXCEPT !["control"] =
                     CASE ~report_enable -> "close" [] report_enable /\ start -> "join" [] OTHER -> "flush"]
    BY <1>9 DEF Stop, Goto
  <2>2. CASE pc["dumper"] = "exited"
    BY <1>0, <2>1, <2>2 DEF DumperIInv, Labels
  <2>3. CASE pc["dumper"] # "exited"
    <3>1. pc' = [pc EXCEPT !["control"] = "join"]
      BY <2>1, <2>3 DEF DumperIInv
    <3> QED
      BY <1>0, <2>1, <3>1 DEF DumperIInv, Labels
  <2> QED
    BY <2>2, <2>3
<1>10. CASE Join \/ Flush \/ UnInit \/ Close
  BY ZenonT(60), <1>0, <1>10 DEF Join, Flush, UnInit, Close, Goto, DumperIInv, Labels
<1>11. CASE UNCHANGED vars
  BY <1>11 DEF vars, DumperIInv
<1> QED
  BY <1>1, <1>2, <1>3, <1>4, <1>5, <1>6, <1>7, <1>8, <1>9, <1>10, <1>11 DEF Next, Control

\* RingBuffer::Pop, which has no lock, is never called by two threads: whenever
\* Stop's Flush gathers, the dumper thread was joined or had never started, whichever
\* of the steps of Start failed and however Stop raced with the thread.
THEOREM OneThreadPops ==
    ASSUME Distinct
    PROVE  Spec => []OneConsumer
<1>1. Init => DumperIInv
  BY DumperInit
<1>2. DumperIInv /\ [Next]_vars => DumperIInv'
  BY DumperNext
<1>3. DumperIInv => OneConsumer
  BY DEF DumperIInv, OneConsumer, Consumers
<1> QED
  BY <1>1, <1>2, <1>3, PTL DEF Spec
=============================================================================
