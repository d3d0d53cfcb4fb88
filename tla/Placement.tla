------------------------------ MODULE Placement ------------------------------
(***************************************************************************)
(* Where a model is placed: src/exo/master/placement.py and                *)
(* placement_utils.py, over the graph of src/exo/shared/topology.py.       *)
(*                                                                         *)
(* A topology T is its nodes, its socket edges <<source, sink, kind>> and  *)
(* its RDMA edges <<source, sink>>.  An edge's kind stands for the type of *)
(* the interface behind its address.  Nodes are numbers, as the vertex     *)
(* indices of the graph are.  The order in which the graph library finds   *)
(* cycles, and where a cycle it finds begins, are choices.                 *)
(*                                                                         *)
(* A cluster C is what place_instance reads besides the topology: memory   *)
(* (a function on the nodes whose memory is known), the nodes that have a  *)
(* backend for the model, the nodes with rdma_ctl enabled, and how much of *)
(* the model each node has downloaded.                                     *)
(***************************************************************************)
EXTENDS Integers, Sequences, FiniteSets, FiniteSetsExt

CONSTANTS
  MaxCycles,      \* EXO_PLACEMENT_MAX_CYCLES
  MaxCycleNodes   \* EXO_PLACEMENT_MAX_CYCLE_NODES

ASSUME PlacementConstants == MaxCycles \in Nat \ {0} /\ MaxCycleNodes \in Nat \ {0, 1}

Total(s) == MapThenSumSet(LAMBDA i : s[i], DOMAIN s)
Elements(cycle) == {cycle[i] : i \in DOMAIN cycle}

-----------------------------------------------------------------------------
(* Topology.                                                               *)

Linked(T) == {<<e[1], e[2]>> : e \in T.socket \cup T.rdma}
Neighbours(T, n) == {m \in T.nodes : <<n, m>> \in Linked(T)}
NodeIsLeaf(T, n) == Cardinality(Neighbours(T, n)) <= 1

(* add_connection and remove_connection; remove_node takes its edges along *)
AddSocket(T, a, b, kind) ==
  [T EXCEPT !.nodes = @ \cup {a, b}, !.socket = @ \cup {<<a, b, kind>>}]
RemoveSocket(T, a, b, kind) == [T EXCEPT !.socket = @ \ {<<a, b, kind>>}]
Untouched(edges, n) == {e \in edges : e[1] # n /\ e[2] # n}

(* A seeded fault: the vertex goes, its edges stay.                        *)
VertexOnly(T, n) == [T EXCEPT !.nodes = @ \ {n}]

RemoveNode(T, n) ==
  [nodes |-> T.nodes \ {n}, socket |-> Untouched(T.socket, n),
   rdma |-> Untouched(T.rdma, n)]

(* get_subgraph_from_nodes *)
Subgraph(T, S) ==
  [nodes |-> S, socket |-> {e \in T.socket : {e[1], e[2]} \subseteq S},
   rdma |-> {e \in T.rdma : {e[1], e[2]} \subseteq S}]

Walks(T, n) ==
  {s \in [1 .. n -> T.nodes] :
     /\ Cardinality(Elements(s)) = n
     /\ n > 1 => \A i \in 1 .. n : <<s[i], s[(i % n) + 1]>> \in Linked(T)}

(* get_cycles: the simple cycles, wherever they begin, and every node.     *)
GetCycles(T) == UNION {Walks(T, n) : n \in 1 .. Cardinality(T.nodes)}

FromLowest(cycle) == \A i \in DOMAIN cycle : cycle[1] <= cycle[i]

(* get_cycles_within_budget counts every cycle once, single nodes apart.   *)
WithinBudget(T) ==
  Cardinality({c \in GetCycles(T) : Len(c) > 1 /\ FromLowest(c)}) <= MaxCycles

(* get_cycles_up_to: paths of bounded length from each vertex back to one  *)
(* of its predecessors, kept when they begin at their lowest vertex.       *)
GetCyclesUpTo(T, max) ==
  LET paths(v) == {s \in UNION {[1 .. n -> T.nodes] : n \in 2 .. max} :
                     /\ s[1] = v /\ Cardinality(Elements(s)) = Len(s)
                     /\ \A i \in 1 .. Len(s) - 1 : <<s[i], s[i + 1]>> \in Linked(T)
                     /\ <<s[Len(s)], v>> \in Linked(T)}
  IN  UNION {{s \in paths(v) : FromLowest(s)} : v \in T.nodes} \cup Walks(T, 1)

(* is_rdma_cycle: nodes of the cycle that are linked are linked by RDMA.   *)
IsRdmaCycle(T, cycle) ==
  \A a \in Elements(cycle) : \A b \in Neighbours(T, a) \cap Elements(cycle) :
    <<a, b>> \in T.rdma

-----------------------------------------------------------------------------
(* allocate_layers_proportionally.                                         *)

Floors(layers, mem) == [i \in DOMAIN mem |-> (mem[i] * layers) \div Total(mem)]
Fraction(layers, mem, i) == (mem[i] * layers) % Total(mem)

(* The place of i in by_remainder, counted from 0; sorted() is stable.     *)
Place(layers, mem, i) ==
  Cardinality({j \in DOMAIN mem :
                 \/ Fraction(layers, mem, j) > Fraction(layers, mem, i)
                 \/ /\ Fraction(layers, mem, j) = Fraction(layers, mem, i)
                    /\ j < i})

(* A seeded fault: whoever has a remainder gets a layer for it.            *)
RoundedUp(layers, mem) ==
  [i \in DOMAIN mem |-> Floors(layers, mem)[i] + (IF Fraction(layers, mem, i) > 0 THEN 1 ELSE 0)]

LargestRemainder(layers, mem) ==
  LET floors == Floors(layers, mem)
      left == layers - Total(floors)
  IN  [i \in DOMAIN mem |->
         floors[i] + (IF Place(layers, mem, i) < left THEN 1 ELSE 0)]

(* Nodes left without a layer take one from the first of the largest.      *)
AtLeastOne(alloc) ==
  LET largest(a) == CHOOSE i \in DOMAIN a : \A j \in DOMAIN a :
                       a[j] < a[i] \/ (a[j] = a[i] /\ i <= j)
      step[i \in 0 .. Len(alloc)] ==
        IF i = 0 THEN alloc
        ELSE IF step[i - 1][i] # 0 THEN step[i - 1]
        ELSE [step[i - 1] EXCEPT ![largest(step[i - 1])] = @ - 1, ![i] = 1]
  IN  step[Len(alloc)]

AllocateLayers(layers, mem) == AtLeastOne(LargestRemainder(layers, mem))

-----------------------------------------------------------------------------
(* get_shard_assignments: the shard of each position of the cycle, or      *)
(* Failure where the code raises ValueError.                               *)

Failure == << >>

Available(C, cycle) == [i \in DOMAIN cycle |-> C.memory[cycle[i]]]

(* _allocate_and_validate_layers *)
Fits(model, mem, alloc) ==
  \A i \in DOMAIN mem : (model.storage * alloc[i]) \div model.layers <= mem[i]

Before(alloc, r) == Total([i \in 1 .. r - 1 |-> alloc[i]])

Shard(alloc, r, group) ==
  [from |-> Before(alloc, r), to |-> Before(alloc, r) + alloc[r],
   rank |-> r - 1, group |-> group]

(* The nodes whose memory decides the allocation: the first pipeline's.    *)
PipelineNodes(model, cycle) ==
  IF model.cfg /\ Len(cycle) >= 2 /\ Len(cycle) % 2 = 0
  THEN SubSeq(cycle, 1, Len(cycle) \div 2) ELSE cycle

(* A seeded fault: both groups of CFG parallelism in ascending order.      *)
Ascending(i, half) == IF i <= half THEN i ELSE i - half

(* Group 0 ascends and group 1 descends, so the last stages are next to    *)
(* each other on the ring.                                                 *)
PipelineRank(i, half) == IF i <= half THEN i ELSE 2 * half + 1 - i

PipelineShards(model, cycle, C) ==
  LET group0 == PipelineNodes(model, cycle)
      half == Len(group0)
      mem == Available(C, group0)
      alloc == AllocateLayers(model.layers, mem)
  IN  IF Total(mem) = 0 \/ model.layers < half THEN Failure
      ELSE IF ~Fits(model, mem, alloc) THEN Failure
      ELSE [i \in DOMAIN cycle |->
              Shard(alloc, PipelineRank(i, half), IF i <= half THEN 0 ELSE 1)]

TensorShards(model, cycle) ==
  [i \in DOMAIN cycle |-> [from |-> 0, to |-> model.layers, rank |-> i - 1, group |-> 0]]

-----------------------------------------------------------------------------
(* The hosts of a ring and the coordinators of jaccl.                      *)

Kinds(T, a, b) == {e[3] : e \in {x \in T.socket : x[1] = a /\ x[2] = b}}

(* find_ip_prioritised *)
Prioritised(kinds, ring) ==
  LET order == IF ring THEN <<"thunderbolt", "ethernet", "wifi">>
               ELSE <<"ethernet", "wifi", "thunderbolt">>
  IN  order[Min({i \in DOMAIN order : order[i] \in kinds})]

Adjacent(cycle, i, j) ==
  LET n == Len(cycle) IN i # j /\ (j = (i % n) + 1 \/ i = (j % n) + 1)

(* get_mlx_ring_hosts_by_node, the entries of a node's two neighbours.     *)
RingHosts(T, cycle) ==
  LET pairs == {p \in (DOMAIN cycle) \X (DOMAIN cycle) : Adjacent(cycle, p[1], p[2])}
      kinds(p) == Kinds(T, cycle[p[1]], cycle[p[2]])
  IN  IF \E p \in pairs : kinds(p) = {} THEN Failure
      ELSE [p \in pairs |-> Prioritised(kinds(p), TRUE)]

(* get_mlx_jaccl_devices_matrix and get_mlx_jaccl_coordinators.            *)
JacclHosts(T, cycle) ==
  LET kinds(n) == Kinds(T, n, cycle[1])
      others == Elements(cycle) \ {cycle[1]}
  IN  IF \/ \E a \in Elements(cycle), b \in Elements(cycle) : a # b /\ <<a, b>> \notin T.rdma
         \/ \E n \in others : kinds(n) = {}
      THEN Failure
      ELSE [n \in others |-> Prioritised(kinds(n), FALSE)]

-----------------------------------------------------------------------------
(* search_placement_cycles: the cycles, and the bound the search stopped   *)
(* at, 0 without one.                                                      *)
SearchPlacementCycles(T) ==
  IF WithinBudget(T) THEN [cycles |-> GetCycles(T), bound |-> 0]
  ELSE [cycles |-> GetCyclesUpTo(T, MaxCycleNodes), bound |-> MaxCycleNodes]

(* filter_cycles_by_memory *)
HasMemory(model, C, cycle) ==
  /\ Elements(cycle) \subseteq DOMAIN C.memory
  /\ Total(Available(C, cycle)) >= model.storage

(* _cycles_the_sharding_allows *)
ShardingAllows(cmd, cycle) ==
  LET m == cmd.model
      n == Len(cycle)
  IN  CASE cmd.sharding = "tensor" -> m.hidden % n = 0 /\ (m.kv = 0 \/ m.kv % n = 0)
        [] cmd.sharding = "pipeline" -> m.pipeline = "single" => n = 1

(* _reject_sharding_the_model_cannot_do *)
Rejected(cmd) ==
  \/ cmd.sharding = "tensor" /\ ~cmd.model.tensor
  \/ cmd.sharding = "pipeline" /\ cmd.model.pipeline = "never"

(* _smallest_placeable_cycles: group by group, shortest first.             *)
Group(cmd, C, cycles, n) ==
  {c \in cycles : Len(c) = n /\ cmd.required \subseteq Elements(c)
                  /\ HasMemory(cmd.model, C, c)}

(* A seeded fault: the walk stops at the first group with enough memory.   *)
FirstWithMemory(cmd, C, cycles) ==
  LET fitting == {n \in {Len(c) : c \in cycles} :
                    n >= cmd.min /\ Group(cmd, C, cycles, n) # {}}
  IN  IF fitting = {} \/ Rejected(cmd) THEN {}
      ELSE {c \in Group(cmd, C, cycles, Min(fitting)) : ShardingAllows(cmd, c)}

SmallestPlaceableCycles(cmd, C, cycles) ==
  LET lengths == {Len(c) : c \in cycles}
      allowed(n) == {c \in Group(cmd, C, cycles, n) : ShardingAllows(cmd, c)}
      usable == {n \in lengths : n >= cmd.min /\ allowed(n) # {}}
  IN  IF usable = {} \/ Rejected(cmd) THEN {} ELSE allowed(Min(usable))

(* A seeded fault: off by one.                                             *)
WellBeyond(T, bound) == bound # 0 /\ Cardinality(T.nodes) > bound + 1

(* The search was bounded, and a longer ring might have served.            *)
Truncated(T, bound) == bound # 0 /\ Cardinality(T.nodes) > bound

(* place_instance: backends, RDMA for jaccl, cycles with a leaf preferred, *)
(* then the most downloaded, then the most memory.                         *)
Candidates(cmd, T, C, cycles) ==
  LET smallest == {c \in SmallestPlaceableCycles(cmd, C, cycles) :
                     Elements(c) \subseteq C.backed}
      usable == IF cmd.meta = "jaccl"
                THEN {c \in smallest : IsRdmaCycle(T, c) /\ Elements(c) \subseteq C.rdmaEnabled}
                ELSE smallest
      leafy == {c \in usable : \E n \in Elements(c) : NodeIsLeaf(T, n)}
  IN  IF leafy # {} THEN leafy ELSE usable

Better(C, c, d) ==
  LET got(x) == Total([i \in DOMAIN x |-> C.downloaded[x[i]]])
      mem(x) == Total(Available(C, x))
  IN  got(c) > got(d) \/ (got(c) = got(d) /\ mem(c) > mem(d))

NoInstance == [cycle |-> << >>]

(* A single node is always a pipeline on a ring.                           *)
Build(cmd, T, C, cycle) ==
  LET single == Len(cycle) = 1
      pipeline == single \/ cmd.sharding = "pipeline"
      ring == single \/ cmd.meta = "ring"
      shards == IF pipeline THEN PipelineShards(cmd.model, cycle, C)
                ELSE TensorShards(cmd.model, cycle)
      G == Subgraph(T, Elements(cycle))
      hosts == IF ring THEN RingHosts(G, cycle) ELSE JacclHosts(G, cycle)
  IN  IF shards = Failure \/ (~single /\ hosts = Failure) THEN NoInstance
      ELSE [cycle |-> cycle, shards |-> shards, pipeline |-> pipeline, ring |-> ring]

(* Every outcome the code may have: an instance, or an error.              *)
PlaceInstance(cmd, T, C) ==
  LET candidates == Candidates(cmd, T, C, SearchPlacementCycles(T).cycles)
      best == {c \in candidates : \A d \in candidates : ~Better(C, d, c)}
  IN  IF candidates = {} THEN {NoInstance} ELSE {Build(cmd, T, C, c) : c \in best}
=============================================================================
