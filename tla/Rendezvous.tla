----------------------------- MODULE Rendezvous ------------------------------
(***************************************************************************)
(* How workers meet (distributed/rendezvous.py) and set up an RPC group    *)
(* (distributed/rpc/backend_registry.py).  The agent of each node creates a*)
(* parallel store and starts its worker; a worker that fails is started    *)
(* again by its own agent, which nobody else is told of.  Workers find each*)
(* other under the keys of the store, exchange their device maps, check    *)
(* them and build the agent.  The store and the process group are the      *)
(* library's, as this code uses them.                                      *)
(***************************************************************************)
EXTENDS Integers, FiniteSets, SequencesExt

CONSTANTS World,        \* the number of nodes, with one worker each
          MaxRestarts,  \* bound on the restarts of one worker
          Options       \* the device options of the workers: rank -> [count, maps, devices]

VARIABLES
    options,   \* rank -> its options, the same in every attempt
    elastic,   \* whether agents run the workers (TORCH_NPU_ELASTIC_USE_AGENT_STORE)
    agent,     \* node -> "none", "handler", "up"
    servers,   \* processes that host the store: <<"agent" or "worker", node>>
    attempt,   \* node -> TORCHELASTIC_RESTART_COUNT
    worker,    \* rank -> [at, prefix, peers, devices, reverse]
    keys       \* what the store holds: <<prefix, rank, attempt>>

vars == <<options, elastic, agent, servers, attempt, worker, keys>>

Ranks == 0..(World - 1)
Fresh == [at |-> "down", prefix |-> <<>>, peers |-> <<>>, devices |-> {}, reverse |-> <<>>]

Init == /\ options \in Options
        /\ elastic \in BOOLEAN
        /\ agent = [n \in Ranks |-> "none"]
        /\ servers = {}
        /\ attempt = [n \in Ranks |-> 0]
        /\ worker = [r \in Ranks |-> Fresh]
        /\ keys = {}

(***************************************************************************)
(* Rendezvous.                                                             *)
(***************************************************************************)
\* The agent's handler; making it tells the workers to use the agent's store.
_create_parallel_handler(n) ==
    /\ elastic /\ agent[n] = "none"
    /\ agent' = [agent EXCEPT ![n] = "handler"]
    /\ UNCHANGED <<options, elastic, servers, attempt, worker, keys>>

\* The agent of node 0 hosts the store; another rendezvous of the same agent keeps it.
NextRendezvous(n) ==
    /\ agent[n] = "handler"
    /\ agent' = [agent EXCEPT ![n] = "up"]
    /\ servers' = IF n = 0 THEN servers \cup {<<"agent", n>>} ELSE servers
    /\ UNCHANGED <<options, elastic, attempt, worker, keys>>

\* The keys of a worker: those of its attempt when an agent hosts the store.
StorePrefix(r) == IF elastic THEN <<attempt[r]>> ELSE <<>>

\* A client of the agent's store, or of the one that rank 0 hosts.
_create_c10d_store(r) ==
    [prefix |-> StorePrefix(r), hosts |-> IF ~elastic /\ r = 0 THEN {<<"worker", r>>} ELSE {}]

_parallel_rendezvous_handler(r) ==
    LET store == _create_c10d_store(r)
    IN /\ worker[r].at = "down"
       /\ elastic => agent[r] = "up"
       /\ servers \cup store.hosts # {}
       /\ servers' = servers \cup store.hosts
       /\ worker' = [worker EXCEPT ![r] = [Fresh EXCEPT !.at = "store", !.prefix = store.prefix]]
       /\ UNCHANGED <<options, elastic, agent, attempt, keys>>

\* A worker fails; its agent meets the others again and starts it once more.
Restart(r) ==
    /\ elastic /\ worker[r].at # "down" /\ attempt[r] < MaxRestarts
    /\ attempt' = [attempt EXCEPT ![r] = @ + 1]
    /\ agent' = [agent EXCEPT ![r] = "handler"]
    /\ worker' = [worker EXCEPT ![r] = Fresh]
    /\ UNCHANGED <<options, elastic, servers, keys>>

(***************************************************************************)
(* The process group: every rank leaves its key and waits for the others'. *)
(***************************************************************************)
InitProcessGroup(r) ==
    /\ worker[r].at = "store"
    /\ keys' = {k \in keys : <<k[1], k[2]>> # <<worker[r].prefix, r>>} \cup {<<worker[r].prefix, r, attempt[r]>>}
    /\ worker' = [worker EXCEPT ![r].at = "waiting"]
    /\ UNCHANGED <<options, elastic, agent, servers, attempt>>

Met(r) == {k \in keys : k[1] = worker[r].prefix}

\* The group is complete: the worker knows which attempt of each rank it talks to.
GroupReady(r) ==
    /\ worker[r].at = "waiting"
    /\ {k[2] : k \in Met(r)} = Ranks
    /\ worker' = [worker EXCEPT ![r].at = "group",
                                ![r].peers = [p \in Ranks |-> (CHOOSE k \in Met(r) : k[2] = p)[3]]]
    /\ UNCHANGED <<options, elastic, agent, servers, attempt, keys>>

(***************************************************************************)
(* Device maps.  A device is <<type, index>>.                              *)
(***************************************************************************)
Values(map) == {map[d] : d \in DOMAIN map}
Injective(map) == Cardinality(Values(map)) = Cardinality(DOMAIN map)

_tensorpipe_validate_devices(ds, count) == \A d \in ds : d[1] = "cpu" \/ d[2] \in 0..(count - 1)

_validate_device_maps(all) ==
    /\ \A node \in Ranks :
         /\ IsInjective(all[node].devices)
         /\ _tensorpipe_validate_devices(ToSet(all[node].devices), all[node].count)
    /\ \A source \in Ranks :
         /\ DOMAIN all[source].maps \subseteq Ranks
         /\ \A target \in DOMAIN all[source].maps :
              LET map == all[source].maps[target]
              IN /\ Injective(map)
                 /\ IF all[source].devices # <<>> THEN DOMAIN map \subseteq ToSet(all[source].devices)
                    ELSE _tensorpipe_validate_devices(DOMAIN map, all[source].count)
                 /\ IF all[target].devices # <<>> THEN Values(map) \subseteq ToSet(all[target].devices)
                    ELSE _tensorpipe_validate_devices(Values(map), all[target].count)

_create_reverse_mapping(me, all) ==
    [n \in {x \in Ranks : me \in DOMAIN all[x].maps} |->
        LET map == all[n].maps[me] IN [v \in Values(map) |-> CHOOSE d \in DOMAIN map : map[d] = v]]

_create_device_list(mine, reverse) ==
    IF mine.devices # <<>> THEN ToSet(mine.devices)
    ELSE (UNION {DOMAIN mine.maps[t] : t \in DOMAIN mine.maps} \cup UNION {DOMAIN reverse[n] : n \in DOMAIN reverse})
         \ {<<"cpu", 0>>}

\* _tensorpipe_exchange_and_check_all_device_maps, and the agent that is built from it.
ExchangeDeviceMaps(r) ==
    /\ worker[r].at = "group"
    /\ LET reverse == _create_reverse_mapping(r, options)
       IN worker' = [worker EXCEPT ![r] =
             IF _validate_device_maps(options)
             THEN [@ EXCEPT !.at = "agent", !.reverse = reverse, !.devices = _create_device_list(options[r], reverse)]
             ELSE [@ EXCEPT !.at = "raised"]]
    /\ UNCHANGED <<options, elastic, agent, servers, attempt, keys>>

Next == \E r \in Ranks : \/ _create_parallel_handler(r)
                         \/ NextRendezvous(r)
                         \/ _parallel_rendezvous_handler(r)
                         \/ Restart(r)
                         \/ InitProcessGroup(r)
                         \/ GroupReady(r)
                         \/ ExchangeDeviceMaps(r)
Spec == Init /\ [][Next]_vars

(***************************************************************************)
(* Properties.                                                             *)
(***************************************************************************)
\* There is never more than one store to meet in, and its host outlives every restart.
OneStore == Cardinality(servers) <= 1

\* A worker that was started again never forms a group with what an attempt before it
\* left in the store: the workers of a group were all started equally often.
SameAttempt == \A r \in Ranks : worker[r].peers # <<>> =>
                   \A p \in Ranks : worker[r].peers[p] = worker[r].peers[r]

\* The workers of a group all accept the device maps or all refuse them, and what the
\* agents then know fits together: the device a tensor is sent to is one of the target's
\* own, and the target sends the answer back to where the tensor came from.
Accepted == {r \in Ranks : worker[r].at = "agent"}
MapsFit ==
    /\ \A r \in Accepted, p \in Ranks : worker[p].at # "raised"
    /\ \A r, t \in Accepted :
         t \in DOMAIN options[r].maps =>
             LET map == options[r].maps[t]
             IN \A d \in DOMAIN map :
                    /\ d[1] # "cpu" => d \in worker[r].devices
                    /\ map[d][1] # "cpu" => map[d] \in worker[t].devices /\ map[d][2] < options[t].count
                    /\ worker[t].reverse[r][map[d]] = d

\* Workers meet in one store, under the keys of one attempt, with maps that fit.
MeetingSound == OneStore /\ SameAttempt /\ MapsFit
=============================================================================
