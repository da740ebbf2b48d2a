--------------------------- MODULE DynamicProfile ---------------------------
(***************************************************************************)
(* The dynamic profiler: the ranks of a job share a block of memory; the   *)
(* rank that created it forks a monitor, which copies profiler_config.json *)
(* into the block when the file's time changes; every rank looks at the    *)
(* block in its step and runs a profile session of its own. Nothing locks  *)
(* the block: the monitor writes the time before the configuration, and a  *)
(* rank reads the one and then the other.                                  *)
(***************************************************************************)
EXTENDS ProfilerSession, Integers, FiniteSets

CONSTANTS
    Jobs,       \* the jobs: [ranks, starters (ranks that call start), and as bounds
                \* edits (of the file), clock (seconds)]
    Configs,    \* what the file may hold: start, warmup, active, ranks, isRank
    MaxSteps    \* bound: steps of a rank

VARIABLES
    job,
    clock,
    file,       \* profiler_config.json: time and content ("broken" while being edited)
    edits,
    shm,        \* the blocks made ([creator, time, body]) and the one under the name (0: none)
    mon,        \* the monitor: pc, its block, last file time seen, the data it is writing
    rank        \* per rank: pc and the state of _DynamicProfile and its monitor object
vars == <<job, clock, file, edits, shm, mon, rank>>

INSTANT == -1
NoCfg == [valid |-> FALSE]
Broken == [valid |-> FALSE]     \* what a half-written file parses to
Default == [valid |-> FALSE, default |-> TRUE]

NoRead == [time |-> 0, at |-> 0, clean |-> TRUE]

InitRank ==
    [pc |-> "open", block |-> 0, curTime |-> 0, cfg |-> NoCfg, step |-> 0, left |-> 0,
     prof |-> NoCfg, status |-> "IDLE", proc |-> InitProcess,
     \* ghosts: the last configuration read, the one that cfg is, those run
     read |-> NoRead, from |-> NoRead, taken |-> <<>>]

Ranks == job.ranks

Init ==
    /\ job \in Jobs
    /\ clock = 1
    /\ file = [time |-> 0, content |-> Default]
    /\ edits = 0
    /\ shm = [name |-> 0, blocks |-> <<>>]
    /\ mon = [pc |-> "none", block |-> 0, last |-> 0, data |-> NoCfg]
    /\ rank = [r \in Ranks |-> InitRank]

Tick == clock < job.clock /\ clock' = clock + 1 /\ UNCHANGED <<job, file, edits, shm, mon, rank>>

\* The user edits the file: its time changes when the edit begins and when it ends.
EditBegins ==
    /\ edits < job.edits
    /\ file.time > 0
    /\ file.content /= Broken
    /\ edits' = edits + 1
    /\ file' = [time |-> clock, content |-> Broken]
    /\ UNCHANGED <<job, clock, shm, mon, rank>>

EditEnds(c) ==
    /\ file.content = Broken
    /\ file' = [time |-> clock, content |-> c]
    /\ UNCHANGED <<job, clock, edits, shm, mon, rank>>

-----------------------------------------------------------------------------
(* DynamicProfilerShareMemory: open the block, else create it; one rank    *)
(* succeeds, writes the default, creates the file and forks the monitor.   *)
Become(r, new) == rank' = [rank EXCEPT ![r] = new]

Open(r) ==
    /\ rank[r].pc = "open"
    /\ Become(r, [rank[r] EXCEPT !.pc = IF shm.name /= 0 THEN "idle" ELSE "create",
                                 !.block = shm.name, !.curTime = clock])
    /\ UNCHANGED <<job, clock, file, edits, shm, mon>>

Create(r) ==
    /\ rank[r].pc = "create"
    /\ IF shm.name /= 0
       THEN Become(r, [rank[r] EXCEPT !.pc = "open"]) /\ UNCHANGED shm
       ELSE /\ shm' = [name |-> Len(shm.blocks) + 1,
                       blocks |-> Append(shm.blocks, [creator |-> r, time |-> 0, body |-> Broken])]
            /\ Become(r, [rank[r] EXCEPT !.pc = "fill", !.block = shm'.name])
    /\ UNCHANGED <<job, clock, file, edits, mon>>

\* Put(b, field, v): the shared memory with a field of block b set.
Put(b, field, v) == shm' = [shm EXCEPT !.blocks[b][field] = v]

CreateProfCfg(r) ==
    /\ rank[r].pc = "fill"
    /\ Put(rank[r].block, "body", Default)
    /\ file' = IF file.time = 0 THEN [time |-> clock, content |-> Default] ELSE file
    /\ mon' = [pc |-> "poll", block |-> rank[r].block, last |-> file'.time, data |-> NoCfg]
    /\ Become(r, [rank[r] EXCEPT !.pc = "idle", !.curTime = clock])
    /\ UNCHANGED <<job, clock, edits>>

-----------------------------------------------------------------------------
(* worker_func: the monitor reads the file's time, then its content, and   *)
(* copies both into its block.                                             *)
Poll ==
    /\ mon.pc = "poll"
    /\ mon.last /= file.time
    /\ mon' = [mon EXCEPT !.pc = "load", !.last = file.time]
    /\ UNCHANGED <<job, clock, file, edits, shm, rank>>

Load ==
    /\ mon.pc = "load"
    /\ mon' = [mon EXCEPT !.pc = "time", !.data = file.content]
    /\ UNCHANGED <<job, clock, file, edits, shm, rank>>

WriteTime ==
    /\ mon.pc = "time"
    /\ Put(mon.block, "time", mon.last)
    /\ mon' = [mon EXCEPT !.pc = "torn"]
    /\ UNCHANGED <<job, clock, file, edits, rank>>

\* A half-written block: the text of the new configuration up to some place, that of
\* the old one from there. It does not parse, or, if the two are texts of the same
\* length, it is a configuration with the first fields of the one and the last of the
\* other.
Fields == <<"active", "warmup", "start", "isRank", "ranks">>
Mixed(old, new, k) ==
    [f \in DOMAIN new |-> IF \E i \in k + 1 .. Len(Fields) : Fields[i] = f THEN old[f] ELSE new[f]]
Torn(old, new) ==
    {Broken} \cup (IF old.valid /\ new.valid THEN {Mixed(old, new, k) : k \in 0 .. Len(Fields)} ELSE {})

WriteTorn ==
    /\ mon.pc = "torn"
    /\ \E t \in Torn(shm.blocks[mon.block].body, mon.data) : Put(mon.block, "body", t)
    /\ mon' = [mon EXCEPT !.pc = "body"]
    /\ UNCHANGED <<job, clock, file, edits, rank>>

WriteBody ==
    /\ mon.pc = "body"
    /\ Put(mon.block, "body", mon.data)
    /\ mon' = [mon EXCEPT !.pc = "poll"]
    /\ UNCHANGED <<job, clock, file, edits, rank>>

-----------------------------------------------------------------------------
(* ConfigContext: start_step is reset when it is below -1, and the         *)
(* configuration counts only for the ranks it lists.                       *)
Parse(c) ==
    IF ~c.valid THEN NoCfg
    ELSE [c EXCEPT !.start = IF @ < INSTANT THEN 0 ELSE @,
                   !.active = Positive(@), !.warmup = Natural(@)]
ValidFor(r, c) == c.valid /\ (c.isRank => r \in c.ranks)

\* The first read of a step, shm_to_prof_conf_context: the time.
StepBegins(r) ==
    /\ rank[r].pc = "idle"
    /\ rank[r].step < MaxSteps
    /\ LET time == shm.blocks[rank[r].block].time
       IN  Become(r, [rank[r] EXCEPT !.step = @ + 1,
                                     !.pc = IF time <= rank[r].curTime THEN "step" ELSE "read",
                                     !.curTime = IF time <= @ THEN @ ELSE time])
    /\ UNCHANGED <<job, clock, file, edits, shm, mon>>

\* The block is the one whose time was read, and nobody is writing to it.
Undisturbed(r) ==
    /\ shm.blocks[rank[r].block].time = rank[r].curTime
    /\ ~(mon.block = rank[r].block /\ mon.pc \in {"torn", "body"})

\* The second: the configuration. What does not parse is given up.
ReadBody(r) ==
    /\ rank[r].pc = "read"
    /\ LET c == Parse(shm.blocks[rank[r].block].body)
           read == [time |-> rank[r].curTime, at |-> rank[r].step, clean |-> Undisturbed(r)]
       IN  Become(r, [rank[r] EXCEPT !.pc = "step", !.cfg = IF ValidFor(r, c) THEN c ELSE @,
                         !.read = read, !.from = IF ValidFor(r, c) THEN read ELSE @])
    /\ UNCHANGED <<job, clock, file, edits, shm, mon>>

\* enable_prof.
EnableProf(q, c, from) ==
    LET p == NewProfile([wait |-> 0, warmup |-> c.warmup, active |-> c.active,
                         repeat |-> 1, skip |-> 0])
        begun == StartProfile(q.proc, p)
    IN  [q EXCEPT !.proc = begun.s, !.prof = [valid |-> TRUE, p |-> begun.p],
                  !.left = c.warmup + c.active, !.cfg = NoCfg,
                  !.taken = Append(@, [cfg |-> c, at |-> q.step, from |-> from])]

\* A step of a running session; the last one stops it.
StepSession(q) ==
    LET next == StepProfile(q.proc, q.prof.p)
    IN  IF q.left > 1
        THEN [q EXCEPT !.proc = next.s, !.prof.p = next.p, !.left = @ - 1]
        ELSE [q EXCEPT !.proc = StopProfile(next.s, next.p).s, !.prof = NoCfg, !.left = 0,
                       !.status = "IDLE"]

\* A step with a configuration and no session.
ConsiderConfig(q) ==
    LET c == q.cfg IN
    CASE c.start = INSTANT \/ q.step = c.start -> [EnableProf(q, c, q.from) EXCEPT !.status = "RUNNING"]
      [] c.start /= INSTANT /\ q.step > c.start -> [q EXCEPT !.cfg = NoCfg, !.status = "IDLE"]
      [] c.start /= INSTANT /\ q.step < c.start -> [q EXCEPT !.status = "READY"]

StepEnds(r) ==
    /\ rank[r].pc = "step"
    /\ LET q == [rank[r] EXCEPT !.pc = "idle"]
       IN  Become(r, IF q.prof.valid THEN StepSession(q)
                     ELSE IF q.cfg.valid THEN ConsiderConfig(q) ELSE q)
    /\ UNCHANGED <<job, clock, file, edits, shm, mon>>

\* The start interface reads a file itself; a configuration that was waiting is dropped.
StartNow(r, c) ==
    /\ r \in job.starters
    /\ rank[r].pc = "idle"
    /\ ~rank[r].prof.valid
    /\ rank[r].taken = <<>>
    /\ Become(r, EnableProf(rank[r], Parse(c), NoRead))
    /\ UNCHANGED <<job, clock, file, edits, shm, mon>>

\* atexit: a running session is stopped; the creator of the block ends the monitor
\* and then unlinks the block, which the ranks that have it keep.
Created(r) == mon.pc /= "none" /\ mon.block = rank[r].block /\ shm.blocks[mon.block].creator = r

AtExit(r) ==
    /\ rank[r].pc = "idle"
    /\ rank[r].step = MaxSteps
    /\ Created(r) => mon.pc = "poll"
    /\ Become(r, [rank[r] EXCEPT !.pc = IF Created(r) THEN "unlink" ELSE "done", !.prof = NoCfg,
                  !.proc = IF rank[r].prof.valid THEN StopProfile(@, rank[r].prof.p).s ELSE @])
    /\ mon' = IF Created(r) THEN [mon EXCEPT !.pc = "done"] ELSE mon
    /\ UNCHANGED <<job, clock, file, edits, shm>>

Unlink(r) ==
    /\ rank[r].pc = "unlink"
    /\ Become(r, [rank[r] EXCEPT !.pc = "done"])
    /\ shm' = [shm EXCEPT !.name = 0]
    /\ UNCHANGED <<job, clock, file, edits, mon>>

Monitor == Poll \/ Load \/ WriteTime \/ WriteTorn \/ WriteBody
Rank(r) == Open(r) \/ Create(r) \/ CreateProfCfg(r) \/ StepBegins(r) \/ ReadBody(r) \/ StepEnds(r)

Next ==
    \/ Tick \/ EditBegins \/ (\E c \in Configs : EditEnds(c))
    \/ Monitor
    \/ \E r \in Ranks : Rank(r) \/ AtExit(r) \/ Unlink(r) \/ (\E c \in Configs : StartNow(r, c))

Spec == Init /\ [][Next]_vars

-----------------------------------------------------------------------------
\* One rank at a time creates a block and the monitor, however the starts and the ends
\* of the ranks interleave: the block that has the name is the only one that a rank
\* fills or a monitor writes to.
OneMonitor ==
    /\ mon.pc \notin {"none", "done"} => mon.block = shm.name
    /\ \A r \in Ranks : rank[r].pc \in {"fill", "unlink"} => rank[r].block = shm.name
    /\ \A r \in Ranks : rank[r].pc = "fill" => mon.pc \in {"none", "done"}

\* A session runs a configuration as it was written, unless the rank read the block
\* while the monitor was writing to it, for exactly its warm-up and active steps; it
\* hands one trace to the handler, and when it is over the process's profiler is off
\* again.
SessionsComplete ==
    \A r \in Ranks :
        /\ \A i \in DOMAIN rank[r].taken :
              rank[r].taken[i].from.clean => rank[r].taken[i].cfg \in {Parse(c) : c \in Configs}
        /\ rank[r].prof.valid =>
              LET c == rank[r].taken[Len(rank[r].taken)].cfg
              IN  rank[r].left > 0 /\ rank[r].left + rank[r].prof.p.step = c.warmup + c.active
        /\ rank[r].pc \in {"idle", "step"} /\ ~rank[r].prof.valid =>
              /\ ~rank[r].proc.on /\ ~rank[r].proc.npu /\ rank[r].proc.hooks = 0
              /\ Len(rank[r].proc.saved) = Len(rank[r].taken)

\* Ranks profile the same steps: when one has started a configuration at its start
\* step, every rank that the configuration is for, that read it in time and
\* undisturbed and that has run nothing else, starts it at the same step.
PastStep(q, n) == q.step > n \/ (q.step = n /\ q.pc \notin {"read", "step"})
InTime(q, t) == q.read.clean /\ q.read.time = t.from.time /\ q.read.at <= t.at
StartTogether ==
    \A r, q \in Ranks : \A i \in DOMAIN rank[r].taken :
        LET t == rank[r].taken[i]
            mine == rank[q].taken
        IN  /\ t.from.time > 0 /\ t.from.clean /\ t.cfg.start /= INSTANT
            /\ ValidFor(q, t.cfg) /\ InTime(rank[q], t) /\ PastStep(rank[q], t.at)
            /\ \A j \in DOMAIN mine : mine[j].from.time = t.from.time
            => \E j \in DOMAIN mine : mine[j].cfg = t.cfg /\ mine[j].at = t.at

=============================================================================
