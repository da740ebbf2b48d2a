--------------------------- MODULE ProfilerSession ---------------------------
(***************************************************************************)
(* The profile object of torch_npu.profiler: a Schedule gives each step an *)
(* action, and a table turns each pair of actions into calls on the        *)
(* profiler interface, which drives the native ProfilerMgr. The operators  *)
(* act on a record s, the state of one process:                            *)
(*   made, dirs, path   directories created, still there, the current one  *)
(*   inited             is_prof_inited                                     *)
(*   meta               the object has metadata to write                   *)
(*   native, npu, on    ProfilerMgr: path_, npu_trace_, a started profiler *)
(*   config, report     whose profConfig_ exists, where framework data go  *)
(*   warm               enable_warmup_                                     *)
(*   hooks              depth of the wrappers around Event's methods       *)
(*   raised             an exception is leaving the call                   *)
(* and, as history, saved (the directories handed to on_trace_ready),      *)
(* data (session -> where its data went) and stale (a session was stopped  *)
(* while warming up).                                                      *)
(***************************************************************************)
EXTENDS Naturals, Sequences, SequencesExt

None == "NONE"
Exit == "exit"          \* the None that stop passes as the next action

-----------------------------------------------------------------------------
(* Schedule: _check_params, then __call__. *)
Positive(n) == IF n <= 0 THEN 1 ELSE n
Natural(n) == IF n < 0 THEN 0 ELSE n
CheckParams(p) ==
    [wait |-> Natural(p.wait), warmup |-> Natural(p.warmup), active |-> Positive(p.active),
     repeat |-> Natural(p.repeat), skip |-> Natural(p.skip)]

Schedule(p, step) ==
    LET num == p.wait + p.warmup + p.active
        rel == step - p.skip
        mod == rel % num
    IN  CASE step < p.skip -> None
          [] step >= p.skip /\ p.repeat > 0 /\ rel >= p.repeat * num -> None
          [] OTHER -> IF mod < p.wait THEN None
                      ELSE IF mod < p.wait + p.warmup THEN "WARMUP"
                      ELSE IF mod < num - 1 THEN "RECORD"
                      ELSE "RECORD_AND_SAVE"

-----------------------------------------------------------------------------
(* ProfilerMgr, with CPU and NPU activities. *)
MgrInit(s) == [s EXCEPT !.npu = TRUE, !.native = s.path]

MgrWarmup(s) ==
    [s EXCEPT !.config = IF s.npu THEN s.native ELSE @, !.report = s.native, !.warm = TRUE]

MgrStart(s) ==
    IF s.on THEN s
    ELSE [s EXCEPT !.on = TRUE,
                   !.config = IF s.npu /\ @ = 0 THEN s.native ELSE @,
                   !.report = IF s.warm THEN @ ELSE s.native,
                   !.warm = FALSE]

MgrStop(s) ==
    IF ~s.on THEN s
    ELSE [s EXCEPT !.on = FALSE, !.report = 0, !.config = IF s.npu THEN 0 ELSE @, !.warm = FALSE]

MgrFinalize(s) == [s EXCEPT !.npu = FALSE]

-----------------------------------------------------------------------------
(* _ProfInterface. *)
CreateProfDir(s) ==
    [s EXCEPT !.made = @ + 1, !.dirs = @ \cup {s.made + 1}, !.path = s.made + 1, !.inited = TRUE]

InitTrace(s) == MgrInit(CreateProfDir(s))

WarmupTrace(s) == MgrWarmup(s)

StartTrace(s) ==
    LET t == MgrStart([s EXCEPT !.hooks = @ + 1])
    IN  [t EXCEPT !.data = Append(@, <<t.path, t.report, t.config>>)]

StopTraceKeepsHooks(s) == MgrStop(s)
StopTrace(s) == LET t == MgrStop(s) IN [t EXCEPT !.hooks = IF @ > 0 THEN @ - 1 ELSE 0]

FinalizeTrace(s) ==
    LET t == MgrFinalize(s)
    IN  [t EXCEPT !.meta = @ /\ ~t.inited, !.inited = FALSE]

DeleteProfDir(s) == [s EXCEPT !.dirs = @ \ {s.path}]

\* The handler may raise: the rest of the list is skipped.
TraceReady(s) == [s EXCEPT !.saved = Append(@, s.path), !.raised = s.raising, !.raising = FALSE]

-----------------------------------------------------------------------------
(* ProfActionController: the table of calls, and transit_action. *)
Save == <<"stop", "finalize", "ready">>
ActionMap(prev, cur) ==
    CASE prev = None /\ cur = "WARMUP" -> <<"init", "warmup">>
      [] prev = None /\ cur \in {"RECORD", "RECORD_AND_SAVE"} -> <<"init", "start">>
      [] prev = "WARMUP" /\ cur = None -> <<"start", "stop", "finalize">>
      [] prev = "WARMUP" /\ cur \in {"RECORD", "RECORD_AND_SAVE"} -> <<"start">>
      [] prev = "RECORD" /\ cur \in {None, "WARMUP"} -> <<"stop", "finalize">>
      [] prev = "RECORD_AND_SAVE" /\ cur \in {None, Exit} -> Save
      [] prev = "RECORD_AND_SAVE" /\ cur = "WARMUP" -> Save \o <<"init", "warmup">>
      [] prev = "RECORD_AND_SAVE" /\ cur \in {"RECORD", "RECORD_AND_SAVE"} ->
            Save \o <<"init", "start">>
      [] prev = "WARMUP" /\ cur = Exit -> <<"finalize", "delete">>
      [] prev = "RECORD" /\ cur = Exit -> Save
      [] OTHER -> <<>>

Do(s, op) ==
    IF s.raised THEN s
    ELSE CASE op = "init" -> InitTrace(s)
           [] op = "warmup" -> WarmupTrace(s)
           [] op = "start" -> StartTrace(s)
           [] op = "stop" -> StopTrace(s)
           [] op = "finalize" -> FinalizeTrace(s)
           [] op = "delete" -> DeleteProfDir(s)
           [] op = "ready" -> TraceReady(s)

TransitAction(s, prev, cur) == FoldLeft(Do, s, ActionMap(prev, cur))

-----------------------------------------------------------------------------
(* The profile object p: its schedule, step, current action, and whether   *)
(* it was stopped. Every method swallows what its calls raise; what comes  *)
(* after the call that raised is then skipped.                             *)
Swallow(s) == [s EXCEPT !.raised = FALSE]

NewProfile(params) ==
    LET sched == CheckParams(params)
    IN  [sched |-> sched, step |-> 0, action |-> Schedule(sched, 0), stopped |-> FALSE]

StartProfile(s, p) ==
    [s |-> Swallow(TransitAction(s, None, p.action)), p |-> [p EXCEPT !.stopped = FALSE]]

StopProfile(s, p) ==
    LET t == TransitAction(s, p.action, Exit)
    IN  [s |-> [Swallow(t) EXCEPT !.stale = @ \/ p.action = "WARMUP"],
         p |-> [p EXCEPT !.stopped = ~t.raised]]

StepProfile(s, p) ==
    IF p.stopped THEN [s |-> s, p |-> p]
    ELSE LET next == Schedule(p.sched, p.step + 1)
         IN  [s |-> Swallow(TransitAction(s, p.action, next)),
              p |-> [p EXCEPT !.step = @ + 1, !.action = next]]

AddMetadata(s) == [s EXCEPT !.meta = TRUE]

InitProcess ==
    [made |-> 0, dirs |-> {}, path |-> 0, inited |-> FALSE, meta |-> FALSE,
     native |-> 0, npu |-> FALSE, on |-> FALSE, config |-> 0, report |-> 0, warm |-> FALSE,
     hooks |-> 0, raised |-> FALSE, raising |-> FALSE,
     saved |-> <<>>, data |-> <<>>, stale |-> FALSE]

=============================================================================
