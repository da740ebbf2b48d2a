--------------------------- MODULE FlightRecorder ---------------------------
(***************************************************************************)
(* The analysis of flight recorder dumps, tools/flight_recorder.  The      *)
(* dumps of a job are aligned, the groups are rebuilt from them, and then  *)
(* the collectives are paired up: each turn of the loop takes the first    *)
(* entry of the first rank that has one, looks for its counterparts on the *)
(* other members of the group, and moves what it found to the tables.  An  *)
(* exception that ends the tool is the outcome "raised".                   *)
(*                                                                         *)
(* A job is a sequence of collectives that its ranks make; a rank may      *)
(* stop early, deviate in the type of its last collective, or have lost    *)
(* its oldest entries in the ring of the recorder.                         *)
(***************************************************************************)
EXTENDS Integers, Sequences, FiniteSets, SequencesExt, FiniteSetsExt

CONSTANTS Ranks, Members,      \* the ranks of every process group
          Types,               \* types of collectives the job uses
          Kept,                \* sizes of the ring of the recorder
          Sizes,               \* numbers of elements of an output
          Versions,            \* versions <<major, minor>> the dumps of the ranks may have
          MismatchTail,
          MaxCalls             \* bound on the length of a job

Groups == DOMAIN Members

VARIABLES dump,      \* the dumps, rank by rank
          version,   \* of every dump
          order,     \* the ranks in the order in which their dumps were read
          incomplete, \* --allow-incomplete-ranks
          outcome,   \* "loaded", "building", "done" or "raised"
          entries,   \* all_entries
          mismatch,  \* mismatches of every group so far
          collectives, calls

vars == <<dump, version, order, incomplete, outcome, entries, mismatch, collectives, calls>>

-----------------------------------------------------------------------------
(***************************************************************************)
(* The jobs.                                                               *)
(***************************************************************************)
Call == [pg : Groups, type : Types, out : Sizes]

\* The entry that rank r records for the i-th call of a job.
EntryOf(job, r, i) ==
    LET mine == {j \in 1..i : r \in Members[job[j].pg]}
    IN [record |-> Cardinality(mine) - 1,
        pg |-> job[i].pg,
        seq |-> Cardinality({j \in 1..i : job[j].pg = job[i].pg}),
        type |-> job[i].type, state |-> "completed", in |-> 1, out |-> job[i].out]

\* What rank r has recorded when it stops before the call at stop, keep entries of it.
Recorded(job, r, stop, keep) ==
    LET mine == SelectSeq([i \in 1..(stop - 1) |-> i],
                          LAMBDA i : r \in Members[job[i].pg])
        all == [k \in 1..Len(mine) |-> EntryOf(job, r, mine[k])]
    IN SubSeq(all, Max({1, Len(all) - keep + 1}), Len(all))

\* One rank made another call than the others, or has not finished its last one.
Deviations(d) ==
    {d} \union
    {[d EXCEPT ![r][Len(d[r])].type = t] : r \in {q \in DOMAIN d : d[q] /= << >>}, t \in Types}
    \union {[d EXCEPT ![r][Len(d[r])].state = "started"] : r \in {q \in DOMAIN d : d[q] /= << >>}}

Init ==
    /\ \E job \in BoundedSeq(Call, MaxCalls), keep \in Kept,
          stop \in [Ranks -> 1..(MaxCalls + 1)], present \in SUBSET Ranks \ {{}} :
          /\ job /= << >>
          /\ \A r \in Ranks : stop[r] <= Len(job) + 1
          /\ dump \in Deviations([r \in present |-> Recorded(job, r, stop[r], keep)])
    /\ version \in {[r \in DOMAIN dump |-> v[r]] : v \in Versions}
    /\ order \in {o \in [1..Cardinality(DOMAIN dump) -> DOMAIN dump] : IsInjective(o)}
    /\ incomplete \in BOOLEAN
    /\ outcome = "loaded"
    /\ entries = dump
    /\ mismatch = [g \in Groups |-> 0]
    /\ collectives = << >> /\ calls = << >>

-----------------------------------------------------------------------------
(***************************************************************************)
(* Loading.                                                                *)
(***************************************************************************)
\* Entries from before the latest start of a ring are dropped.
Align(d) ==
    LET start == Max({0} \union {d[r][1].record : r \in DOMAIN d})
    IN [r \in DOMAIN d |-> SelectSeq(d[r], LAMBDA e : e.record >= start)]

\* The groups that the dumps tell of: a rank's dump names those it has entries for.
Configured(d) == {e.pg : e \in UNION {Range(d[r]) : r \in DOMAIN d}}

MissingDumps(d) == UNION {Members[g] : g \in Configured(d)} \ DOMAIN d

\* read_dir takes the version of the first dump it reads for that of the job.
JobVersion == version[order[1]]

\* build_db up to the pairing of collectives.
Load ==
    /\ outcome = "loaded"
    /\ IF \E r \in DOMAIN dump : version[r] /= JobVersion \/ dump[r] = << >>
       THEN outcome' = "raised" /\ UNCHANGED entries   \* check_version, entries[rank][0]
       ELSE /\ entries' = Align(dump)
            /\ outcome' = IF ~incomplete /\ MissingDumps(dump) /= {} THEN "raised"
                          ELSE "building"
    /\ UNCHANGED <<dump, version, order, incomplete, mismatch, collectives, calls>>

-----------------------------------------------------------------------------
(***************************************************************************)
(* Matching one entry with another.                                        *)
(***************************************************************************)
\* The Op of an entry has no sizes: its constructor asks for them the builtin type and
\* not its own, so that comparisons of sizes hold and a subscript of them raises.
OpOf(e) == [type |-> e.type, state |-> e.state]

Gathers == {"all_gather", "reduce_scatter"}

Match(op, other) ==
    IF op.type /= other.type THEN "type mismatch"
    ELSE IF op.state /= other.state THEN "state mismatch"
    ELSE IF op.type = "all_to_all" THEN "undecided"
    ELSE IF op.type \in Gathers THEN "raise"
    ELSE "matched"

Fits == {"matched", "undecided"}

\* The place of the counterpart of e on rank r, 0 if there is none.
Counterpart(e, r) == SelectInSeq(entries[r], LAMBDA f : f.pg = e.pg /\ f.seq = e.seq)

\* check_current_entry_match: candidates and found map ranks to places.
CheckEntry(e, first) ==
    LET joined == {r \in Members[e.pg] \intersect (DOMAIN entries \ {first}) :
                     Counterpart(e, r) /= 0}
        info == [r \in joined |-> Match(OpOf(e), OpOf(entries[r][Counterpart(e, r)]))]
        fit == {r \in joined : info[r] \in Fits /\ mismatch[e.pg] = 0}
    IN [raises |-> \E r \in joined : info[r] = "raise",
        found |-> fit,
        candidates |-> {first} \union (joined \ fit),
        errors |-> {r \in joined : info[r] \notin Fits},
        undecided |-> \E r \in fit : info[r] = "undecided"]

SizesDiffer(e, first, found) ==
    LET all == {<<r, entries[r][Counterpart(e, r)]>> : r \in found} \union {<<first, e>>}
    IN FoldSet(LAMBDA p, n : n + p[2].in - p[2].out, 0, all) /= 0

\* Dumps of versions up to 2.3 have no sizes of an all_to_all to go by.
SizesLogged == ~(JobVersion[1] <= 2 /\ JobVersion[2] <= 3)

\* Ranks did not join the collective, and their dumps are there to show it.
MissingShown(missing) == missing /= {} /\ missing \subseteq DOMAIN dump

\* error_analysis: the ranks found and candidates afterwards, whether the group has
\* one more mismatch, the ranks reported missing, and whether it raises.
ErrorAnalysis(e, first, m) ==
    LET expected == Members[e.pg]
        dumped == DOMAIN dump
        missing == expected \ (m.candidates \union m.found)
        allCandidates == [found |-> {}, candidates |-> m.candidates \union m.found,
                          errors |-> m.errors, more |-> 0, missing |-> {}, raises |-> FALSE]
        allFound == [allCandidates EXCEPT !.found = @ \union m.candidates \union m.found,
                                          !.candidates = {}]
    IN IF MissingShown(missing)
       THEN [allCandidates EXCEPT !.more = 1, !.missing = missing]
       ELSE IF m.candidates = {first} /\ dumped = expected
       THEN IF m.undecided /\ SizesLogged /\ SizesDiffer(e, first, m.found)
            THEN [allCandidates EXCEPT !.more = 1, !.errors = @ \union {first}]
            ELSE allFound
       ELSE IF m.errors /= {}
       THEN [allCandidates EXCEPT !.raises = TRUE]  \* log() has no parameter errors
       ELSE [allCandidates EXCEPT !.more = IF expected \ dumped /= {} THEN 1 ELSE 0]

-----------------------------------------------------------------------------
(***************************************************************************)
(* build_collectives.                                                      *)
(***************************************************************************)
\* The ranks whose dumps still have to be looked at, in order.
Left == SelectSeq(order, LAMBDA r : r \in DOMAIN entries)

\* Moves the entries of some ranks to the table of calls.
Pop(e, first, ranks) ==
    [r \in DOMAIN entries |->
        IF r \in ranks
        THEN RemoveAt(entries[r], IF r = first THEN 1 ELSE Counterpart(e, r))
        ELSE entries[r]]

CallsOf(e, first, ranks, id) ==
    {[rank |-> r, collective |-> id,
      entry |-> IF r = first THEN e ELSE entries[r][Counterpart(e, r)]] : r \in ranks}

\* A collective that was not matched passes the check all the same unless its errors
\* are known.
CollectiveOf(e, matched, ranks, a) ==
    [pg |-> e.pg, seq |-> e.seq, matched |-> matched, ranks |-> ranks,
     missing |-> a.missing, pass |-> matched \/ a.errors = {}]

Table(first, e, a, matched, ranks) ==
    /\ collectives' = Append(collectives, CollectiveOf(e, matched, ranks, a))
    /\ calls' = calls \o
         SetToSeq(CallsOf(e, first, ranks, IF matched THEN Len(collectives) + 1 ELSE 0))
    /\ entries' = Pop(e, first, ranks)
Conclude(first, e, a, count, matched) ==
    IF a.raises
    THEN outcome' = "raised" /\ UNCHANGED <<entries, mismatch, collectives, calls>>
    ELSE /\ mismatch' = [mismatch EXCEPT ![e.pg] = count]
         /\ Table(first, e, a, matched, IF matched THEN a.found ELSE a.candidates)
         /\ outcome' = IF count > MismatchTail THEN "done" ELSE "building"
Counted(first, e, a, count) ==
    Conclude(first, e, a, count, a.found = Members[e.pg] /\ count = 0)
Analyse(first, e, a) == Counted(first, e, a, mismatch[e.pg] + a.more)
Checked(first, e, m) ==
    IF m.raises
    THEN outcome' = "raised" /\ UNCHANGED <<entries, mismatch, collectives, calls>>
    ELSE Analyse(first, e, ErrorAnalysis(e, first, m))
Turn(first, e) == Checked(first, e, CheckEntry(e, first))

BuildCollectives ==
    /\ outcome = "building"
    /\ IF Left = << >>
       THEN outcome' = "done" /\ UNCHANGED <<entries, mismatch, collectives, calls>>
       ELSE LET first == Left[1]
            IN IF entries[first] = << >>
               THEN /\ entries' = [r \in DOMAIN entries \ {first} |-> entries[r]]
                    /\ UNCHANGED <<outcome, mismatch, collectives, calls>>
               ELSE Turn(first, entries[first][1])
    /\ UNCHANGED <<dump, version, order, incomplete>>

Next == Load \/ BuildCollectives

Spec == Init /\ [][Next]_vars

-----------------------------------------------------------------------------
\* The entries of rank r that the analysis starts from.
Aligned(r) == Range(Align(dump)[r])

\* What the analysis has taken from rank r.
TakenFrom(r) == {c \in Range(calls) : c.rank = r}

\* The tables and the entries still to be paired up are, rank by rank, the entries the
\* analysis started from: none is lost, and none is taken for two collectives.  A
\* matched collective has one call of every member of its group, of the same number,
\* type and state.
MatchesSound ==
    outcome \in {"building", "done"} /\ (\A r \in DOMAIN dump : dump[r] /= << >>) =>
        /\ \A r \in DOMAIN dump :
              LET rest == IF r \in DOMAIN entries THEN Range(entries[r]) ELSE {}
                  taken == {c.entry : c \in TakenFrom(r)}
              IN /\ taken \union rest = Aligned(r) /\ taken \intersect rest = {}
                 /\ Cardinality(taken) = Cardinality({i \in DOMAIN calls : calls[i].rank = r})
        /\ \A i \in DOMAIN collectives :
              LET mine == {c \in Range(calls) : c.collective = i}
              IN collectives[i].matched =>
                   /\ {c.rank : c \in mine} = Members[collectives[i].pg]
                   /\ \A c, d \in mine : /\ c.entry.seq = d.entry.seq
                                         /\ c.entry.pg = d.entry.pg
                                         /\ c.entry.type = d.entry.type
                                         /\ c.entry.state = d.entry.state

\* Every rank recorded the same calls, all of them in one group that all dumps are of.
Healthy ==
    /\ \A r, q \in DOMAIN dump : dump[r] = dump[q]
    /\ \A r \in DOMAIN dump : \A e \in Range(dump[r]) :
          Members[e.pg] = DOMAIN dump /\ (e.type = "all_to_all" => e.in = e.out)

\* A rank reported missing from a collective has a dump but no entry of it, and the
\* ranks that are not reported have one.  In a healthy job every collective is matched.
ReportsTrue ==
    /\ \A i \in DOMAIN collectives :
          LET c == collectives[i]
              has(r) == \E e \in Aligned(r) : e.pg = c.pg /\ e.seq = c.seq
          IN c.missing /= {} => /\ c.missing \subseteq DOMAIN dump
                                /\ \A r \in Members[c.pg] : r \in c.missing <=> ~has(r)
    /\ outcome = "done" /\ Healthy => \A i \in DOMAIN collectives : collectives[i].matched

=============================================================================
