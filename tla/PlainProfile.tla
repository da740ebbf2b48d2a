---------------------------- MODULE PlainProfile ----------------------------
(***************************************************************************)
(* A program that uses profile objects one after the other: it creates one *)
(* with a schedule, starts it, marks steps, adds metadata, stops it (or    *)
(* lets __del__ stop it), and may start the same object again. A handler   *)
(* that raises is the one fault.                                           *)
(***************************************************************************)
EXTENDS ProfilerSession, FiniteSets

CONSTANTS
    Schedules,      \* the schedules the program uses (parameters as given)
    MaxSessions,    \* bound: calls of start
    MaxSteps,       \* bound: steps of an object
    MaxRaises       \* bound: handlers that raise

VARIABLES proc, prof, started, used, sessions, raises
vars == <<proc, prof, started, used, sessions, raises>>

Init ==
    /\ proc = InitProcess
    /\ \E params \in Schedules : prof = NewProfile(params)
    /\ started = FALSE
    /\ used = FALSE
    /\ sessions = 0
    /\ raises = 0

Apply(r) == proc' = r.s /\ prof' = r.p

\* The handler of this call may be one that raises.
MayRaise(s, fault) == [s EXCEPT !.raising = fault]
Calls(fault) == fault => raises < MaxRaises
Count(fault) == raises' = IF fault THEN raises + 1 ELSE raises
Settle(r) == [s |-> [r.s EXCEPT !.raising = FALSE], p |-> r.p]

Start ==
    /\ ~started
    /\ sessions < MaxSessions
    /\ sessions' = sessions + 1
    /\ started' = TRUE
    /\ used' = TRUE
    /\ Apply(StartProfile(proc, prof))
    /\ UNCHANGED raises

Step(fault) ==
    /\ started
    /\ prof.step < MaxSteps
    /\ Calls(fault)
    /\ Apply(Settle(StepProfile(MayRaise(proc, fault), prof)))
    /\ Count(fault)
    /\ UNCHANGED <<started, used, sessions>>

\* stop by the program; the object's __del__ stops it again if a handler raised.
Stop(fault) ==
    /\ started
    /\ Calls(fault)
    /\ Apply(Settle(StopProfile(MayRaise(proc, fault), prof)))
    /\ started' = FALSE
    /\ Count(fault)
    /\ UNCHANGED <<used, sessions>>

\* The object goes away (__del__ stops it if stop did not complete) and another
\* one takes its place.
Replace(params) ==
    /\ ~started
    /\ used
    /\ sessions < MaxSessions
    /\ proc' = IF prof.stopped THEN proc ELSE StopProfile(proc, prof).s
    /\ prof' = NewProfile(params)
    /\ used' = FALSE
    /\ UNCHANGED <<started, sessions, raises>>

Metadata ==
    /\ started
    /\ ~proc.meta
    /\ proc' = AddMetadata(proc)
    /\ UNCHANGED <<prof, started, used, sessions, raises>>

Next ==
    \/ Start
    \/ \E fault \in BOOLEAN : Step(fault) \/ Stop(fault)
    \/ \E params \in Schedules : Replace(params)
    \/ Metadata

Spec == Init /\ [][Next]_vars

-----------------------------------------------------------------------------
Recording == {"RECORD", "RECORD_AND_SAVE"}

\* Between two calls the native profiler is on exactly when the schedule says so,
\* and the methods of Event are wrapped once then and not at all otherwise.
RecordsAsScheduled ==
    raises = 0 =>
        /\ proc.on = (started /\ prof.action \in Recording)
        /\ proc.hooks = IF proc.on THEN 1 ELSE 0

\* Whatever the handlers did, a stopped program leaves nothing running: the
\* native profiler is off, its receivers are stopped and its configuration
\* destroyed, and Event is as it was. (A session stopped while warming up is the
\* exception.)
QuietWhenStopped ==
    ~started /\ ~proc.stale =>
        /\ ~proc.on /\ ~proc.npu /\ ~proc.warm
        /\ proc.report = 0 /\ proc.config = 0 /\ proc.hooks = 0

\* A session records under a configuration of its own and into its own directory.
OwnConfig == \A d \in Range(proc.data) : d[2] = d[1] /\ d[3] = d[1]

\* Every directory that received a recording is handed to the handler once, when
\* the recording is complete, and no other directory is; and, unless a session was
\* stopped while warming up, a session records into its own directory.
SavedOnce ==
    raises = 0 =>
        /\ \A i, j \in DOMAIN proc.saved : i /= j => proc.saved[i] /= proc.saved[j]
        /\ Range(proc.saved) \subseteq {d[1] : d \in Range(proc.data)}
        /\ ~proc.on => {d[1] : d \in Range(proc.data)} \subseteq Range(proc.saved)
        /\ ~proc.stale => OwnConfig

=============================================================================
