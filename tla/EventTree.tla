------------------------------ MODULE EventTree -----------------------------
(***************************************************************************)
(* The event tree of the memory timeline, prof_parse/                      *)
(* _event_tree_parser.py.  Threads of the profiled program open and close  *)
(* calls and allocate memory, each at a moment of its own; from the times  *)
(* that were recorded build_event_tree replays the stacks of calls, with a *)
(* queue of open calls ordered by their ends, and gives every event its    *)
(* parent.  calculate_unique_id and what follows is in MemoryTimeline.     *)
(***************************************************************************)
EXTENDS Naturals, Sequences, FiniteSets

CONSTANTS Threads,
          Fwd,        \* the thread whose calls the calls of another belong to
          MaxEvents   \* bound on the events of a trace

VARIABLES
    clock,
    events,         \* sorted_events: [tid, start, end, fwd]; the end of an open call is 0
    stack,          \* what each thread really has open
    within,         \* the call that each event really was made in; 0 if none
    mode,           \* "program", "replay", "done" or "error"
    next,           \* the event that the replay comes to
    threadEvent,    \* thread_event; 0 if none
    unfinished,     \* unfinished_events
    parent,
    finished

program == <<clock, events, stack, within>>
replay == <<next, threadEvent, unfinished, parent, finished>>
vars == <<program, mode, replay>>

None == 0
Ids == DOMAIN events

Init ==
    /\ clock = 1 /\ events = << >>
    /\ stack = [t \in Threads |-> << >>] /\ within = << >>
    /\ mode = "program" /\ next = 1
    /\ threadEvent = [t \in Threads |-> None]
    /\ unfinished = {} /\ parent = << >> /\ finished = {}

-----------------------------------------------------------------------------
(***************************************************************************)
(* The profiled program.                                                   *)
(***************************************************************************)
Top(t) == IF stack[t] = << >> THEN None ELSE stack[t][Len(stack[t])]

Record(t, end, fwd) ==
    /\ mode = "program" /\ Len(events) < MaxEvents
    /\ events' = Append(events, [tid |-> t, start |-> clock, end |-> end, fwd |-> fwd])
    /\ within' = Append(within, Top(t))
    /\ clock' = clock + 1
    /\ UNCHANGED <<mode, replay>>

\* A call; fwd if autograd made it for the calls of the thread Fwd.
Begin(t) ==
    \E fwd \in {FALSE, t /= Fwd} :
        /\ Record(t, 0, fwd)
        /\ stack' = [stack EXCEPT ![t] = Append(@, Len(events) + 1)]

Allocate(t) == Record(t, clock, FALSE) /\ UNCHANGED stack

End(t) ==
    /\ mode = "program" /\ stack[t] /= << >>
    /\ events' = [events EXCEPT ![Top(t)].end = clock]
    /\ stack' = [stack EXCEPT ![t] = SubSeq(@, 1, Len(@) - 1)]
    /\ clock' = clock + 1
    /\ UNCHANGED <<within, mode, replay>>

\* The profiler stops; calls that are open end later.
Stop ==
    /\ mode = "program" /\ \A t \in Threads : stack[t] = << >>
    /\ mode' = "replay"
    /\ parent' = [e \in Ids |-> None]
    /\ UNCHANGED <<program, next, threadEvent, unfinished, finished>>

-----------------------------------------------------------------------------
(***************************************************************************)
(* The replay.                                                             *)
(***************************************************************************)
FirstOut == CHOOSE e \in unfinished : \A f \in unfinished : events[e].end <= events[f].end

\* The next event starts when the call that ends first is over.
DueLate == next > Len(events)
Due == next <= Len(events) => events[FirstOut].end < events[next].start

\* The calls from the thread's current one up to e, e left out.
Above(e) ==
    LET up[n \in 0..Len(events)] ==
            IF n = 0 THEN threadEvent[events[e].tid]
            ELSE IF up[n - 1] \in {None, e} THEN up[n - 1] ELSE parent[up[n - 1]]
    IN {up[n] : n \in 0..Len(events)} \ {e}

\* pop_event: calls that e's thread has open inside e end with it.
PopEvent ==
    /\ mode = "replay" /\ unfinished /= {} /\ Due
    /\ LET e == FirstOut
           t == events[e].tid
       IN /\ unfinished' = unfinished \ {e}
          /\ IF e \in finished THEN UNCHANGED <<mode, finished, threadEvent>>
             ELSE IF None \in Above(e) \/ Above(e) \intersect finished /= {}
             THEN mode' = "error" /\ UNCHANGED <<finished, threadEvent>>
             ELSE /\ finished' = finished \union Above(e) \union {e}
                  /\ threadEvent' = [threadEvent EXCEPT ![t] = parent[e]]
                  /\ UNCHANGED mode
    /\ UNCHANGED <<program, next, parent>>

\* The parent is what the thread has open or else what the forward thread has.
ParentOf(e) ==
    LET own == threadEvent[events[e].tid]
    IN IF own /= None \/ ~events[e].fwd THEN own ELSE threadEvent[Fwd]

\* push_event.
PushEvent ==
    /\ mode = "replay" /\ next <= Len(events)
    /\ unfinished /= {} => ~Due
    /\ parent' = [parent EXCEPT ![next] = ParentOf(next)]
    /\ IF events[next].end > events[next].start
       THEN /\ threadEvent' = [threadEvent EXCEPT ![events[next].tid] = next]
            /\ unfinished' = unfinished \union {next}
            /\ UNCHANGED finished
       ELSE /\ finished' = finished \union {next}
            /\ UNCHANGED <<threadEvent, unfinished>>
    /\ next' = next + 1
    /\ UNCHANGED <<program, mode>>

Done ==
    /\ mode = "replay" /\ next > Len(events) /\ unfinished = {}
    /\ mode' = "done"
    /\ UNCHANGED <<program, replay>>

Next ==
    \/ \E t \in Threads : Begin(t) \/ Allocate(t) \/ End(t)
    \/ Stop \/ PopEvent \/ PushEvent \/ Done

Spec == Init /\ [][Next]_vars

-----------------------------------------------------------------------------
\* The replay finds the calls that events were really made in: it never gives up, and an
\* event that its thread made inside a call has that call for its parent.  One made
\* outside of every call of its thread has none, unless it or an earlier one of the
\* thread belongs to the forward thread.
TreeExact ==
    /\ mode /= "error"
    /\ mode = "done" => \A e \in Ids :
          IF within[e] /= None THEN parent[e] = within[e]
          ELSE \/ parent[e] = None
               \/ /\ events[parent[e]].tid = Fwd /\ events[e].tid /= Fwd
                  /\ events[parent[e]].start < events[e].start
                  /\ \E f \in 1..e : events[f].tid = events[e].tid /\ events[f].fwd
=============================================================================
