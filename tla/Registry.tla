------------------------------ MODULE Registry ------------------------------
(***************************************************************************)
(* The worker registry: RegistryManager, every operation of which runs     *)
(* under one mutex, and the packet handlers of RegistryServer that call it *)
(* from the threads of the server.  A packet whose body does not parse is  *)
(* answered or dropped before the manager is reached and is left out.      *)
(***************************************************************************)
EXTENDS Integers, Sequences, FiniteSets

CONSTANTS
    Models,    \* the names of the models
    MaxIds,    \* bound: registrations
    Memory,    \* the values of available_memory_mb
    Timeout,   \* the 30 seconds after which a node counts as lost
    MaxTime    \* bound: the clock stops here

ASSUME RegistryAssumption ==
    MaxIds \in Nat /\ Memory \subseteq Int /\ Timeout \in Nat /\ MaxTime \in Nat

Ids == 1 .. MaxIds      \* node_id: the address and the time of registration

\* The model lists a worker may send.
ModelLists == {<<>>} \cup {<<m>> : m \in Models} \cup {<<m, n>> : m, n \in Models}

VARIABLES
    nodes,    \* m_nodes: the entries, by node_id; only keys in known are there
    known,    \* the keys of m_nodes
    index,    \* m_model_to_nodes
    stuck,    \* a thread waits for m_mutex while it holds it
    now,      \* steady_clock
    nextId,   \* history: the node_id the next registration gets
    removed,  \* history: the nodes RemoveWorker erased
    changed,  \* history: those a heartbeat gave another model list
    answer    \* history: what HandleQuery answered, if that was the last step

registryVars == <<nodes, known, index, stuck, now, nextId, removed, changed, answer>>

NodeInfo == [models : ModelLists, memory : Memory, beat : 0 .. MaxTime]

RegistryInit ==
    /\ nodes = <<>>
    /\ known = {}
    /\ index = [m \in Models |-> <<>>]
    /\ stuck = FALSE
    /\ now = 0
    /\ nextId = 1
    /\ removed = {} /\ changed = {}
    /\ answer = <<>>

InList(x, s) == \E i \in DOMAIN s : s[i] = x
Count(x, s) == Cardinality({i \in DOMAIN s : s[i] = x})
Alive(id) == now - nodes[id].beat < Timeout

\* What std::remove, and the loop over the index, keep of a list: its entries
\* that are in S, in their order.
Kept(list, S) ==
    LET upTo[i \in 0 .. Len(list)] ==
            IF i = 0 THEN <<>>
            ELSE IF list[i] \in S THEN Append(upTo[i - 1], list[i]) ELSE upTo[i - 1]
    IN  upTo[Len(list)]

\* HandleRegister and RegisterWorker: the id is pushed once per entry of the
\* model list.
BugOverwrites(m, list) == IF InList(m, list) THEN <<nextId>> ELSE index[m]
WithNode(m, list) == index[m] \o [i \in 1 .. Count(m, list) |-> nextId]

HandleRegister(list, memory) ==
    /\ ~stuck
    /\ nextId \in Ids
    /\ nodes' = Append(nodes, [models |-> list, memory |-> memory, beat |-> now])
    /\ known' = known \cup {nextId}
    /\ index' = [m \in Models |-> WithNode(m, list)]
    /\ nextId' = nextId + 1
    /\ answer' = <<>>
    /\ UNCHANGED <<stuck, now, removed, changed>>

\* HandleHeartbeat and UpdateHeartbeat: the index keeps the old models.
BugRevive(id) == id < nextId
Registered(id) == id \in known

HandleHeartbeat(id, list, memory) ==
    /\ ~stuck
    /\ Registered(id)
    /\ nodes' = [nodes EXCEPT ![id] = [models |-> list, memory |-> memory,
                                       beat |-> now]]
    /\ known' = known \cup {id}
    /\ changed' = IF list = nodes[id].models THEN changed ELSE changed \cup {id}
    /\ answer' = <<>>
    /\ UNCHANGED <<index, stuck, now, nextId, removed>>

\* HandleRemove and RemoveWorker: erase(remove(...)) takes out every copy of
\* the id from the lists of the models the node has now.
BugOneCopy(list, id) ==
    LET p == CHOOSE i \in DOMAIN list : list[i] = id
    IN  IF InList(id, list) THEN SubSeq(list, 1, p - 1) \o SubSeq(list, p + 1, Len(list))
        ELSE list
Erased(list, id) == Kept(list, Ids \ {id})

HandleRemove(id) ==
    /\ ~stuck
    /\ id \in known
    /\ index' = [m \in Models |-> IF InList(m, nodes[id].models) THEN Erased(index[m], id)
                                  ELSE index[m]]
    /\ known' = known \ {id}
    /\ removed' = removed \cup {id}
    /\ answer' = <<>>
    /\ UNCHANGED <<nodes, stuck, now, nextId, changed>>

\* GetOnlineNodesByModel: std::sort puts equal ones in any order.
Listed(id) == id \in known /\ Alive(id)
Precedes(a, b) == a >= b

Sorted(list) ==
    \A i, j \in DOMAIN list :
        i < j => Precedes(nodes[list[i]].memory, nodes[list[j]].memory)

OnlineNodes(m) ==
    LET found == Kept(index[m], {id \in Ids : Listed(id)})
        Permuted(p) == [i \in DOMAIN found |-> found[p[i]]]
        permutations == {p \in [DOMAIN found -> DOMAIN found] :
                            \A i, j \in DOMAIN found : p[i] = p[j] => i = j}
    IN  {list \in {Permuted(p) : p \in permutations} : Sorted(list)}

\* HandleQuery answers with the list, which tells the nodes by their address.
HandleQuery(m) ==
    /\ ~stuck
    /\ answer' \in OnlineNodes(m)
    /\ UNCHANGED <<nodes, known, index, stuck, now, nextId, removed, changed>>

\* ScanTimeoutNodes calls RemoveWorker with the mutex held: when a node has
\* timed out the thread waits for itself, and everybody else for it.
Scan ==
    /\ ~stuck
    /\ stuck' = \E id \in known : ~Alive(id)
    /\ answer' = <<>>
    /\ UNCHANGED <<nodes, known, index, now, nextId, removed, changed>>

Tick ==
    /\ now < MaxTime
    /\ now' = now + 1
    /\ answer' = <<>>
    /\ UNCHANGED <<nodes, known, index, stuck, nextId, removed, changed>>

RegistryNext ==
    \/ \E list \in ModelLists, memory \in Memory :
          HandleRegister(list, memory) \/ \E id \in Ids : HandleHeartbeat(id, list, memory)
    \/ \E id \in Ids : HandleRemove(id)
    \/ \E m \in Models : HandleQuery(m)
    \/ Scan \/ Tick

RegistrySpec == RegistryInit /\ [][RegistryNext]_registryVars

-----------------------------------------------------------------------------
(* Properties.                                                             *)

RegistryTypeOK ==
    /\ nodes \in Seq(NodeInfo) /\ Len(nodes) = nextId - 1
    /\ known \subseteq DOMAIN nodes
    /\ index \in [Models -> Seq(DOMAIN nodes)]
    /\ stuck \in BOOLEAN
    /\ now \in 0 .. MaxTime /\ nextId \in 1 .. MaxIds + 1
    /\ removed \subseteq Ids /\ changed \subseteq Ids
    /\ answer \in Seq(Ids)

\* A node that was removed never comes back under its id, also when one of its
\* heartbeats arrives after the removal.
RemovedStaysGone == known \cap removed = {}

\* A removal leaves no trace of the node in the index, however often its model
\* list named a model, unless a heartbeat changed that list meanwhile.
IndexClean ==
    \A m \in Models, id \in removed \ changed : ~InList(id, index[m])

\* A node that is alive and still has the models it registered with is in the
\* list of each of them, as often as it named it: no query misses it.
SupportersFound ==
    \A id \in known \ changed, m \in Models :
        Count(id, index[m]) = Count(m, nodes[id].models)
=============================================================================
