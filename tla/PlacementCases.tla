--------------------------- MODULE PlacementCases ---------------------------
(***************************************************************************)
(* Placement on every case of a bounded family: a topology, then what is   *)
(* known of its nodes, then a command, then the outcome.                   *)
(***************************************************************************)
EXTENDS Placement

CONSTANTS
  Topologies,   \* the topologies tried
  Memories,     \* the amounts of memory a node may have
  Models        \* the model cards tried

ASSUME CaseConstants == Memories \subseteq Nat

VARIABLES stage, graph, known, wish, outcome

plvars == <<stage, graph, known, wish, outcome>>

PlacementInit ==
  /\ stage = "graph"
  /\ graph = [nodes |-> {}, socket |-> {}, rdma |-> {}]
  /\ known = [memory |-> << >>]
  /\ wish = [min |-> 0]
  /\ outcome = NoInstance

PickGraph ==
  /\ stage = "graph" /\ stage' = "known"
  /\ graph' \in Topologies
  /\ UNCHANGED <<known, wish, outcome>>

PickKnown ==
  /\ stage = "known" /\ stage' = "wish"
  /\ \E memory \in [graph.nodes -> Memories],
        backed \in {graph.nodes, graph.nodes \ {1}},
        got \in {[n \in graph.nodes |-> 0], [n \in graph.nodes |-> IF n = 2 THEN 1 ELSE 0]} :
       known' = [memory |-> memory, backed |-> backed, downloaded |-> got,
                 rdmaEnabled |-> graph.nodes]
  /\ UNCHANGED <<graph, wish, outcome>>

PickWish ==
  /\ stage = "wish" /\ stage' = "place"
  /\ \E model \in Models, sharding \in {"pipeline", "tensor"}, meta \in {"ring", "jaccl"},
        min \in 1 .. Cardinality(graph.nodes) :
       wish' = [model |-> model, sharding |-> sharding, meta |-> meta, min |-> min,
                required |-> {}]
  /\ UNCHANGED <<graph, known, outcome>>

(* The PlaceInstance case of the master's _command_processor, and          *)
(* get_placement of the API.                                               *)
DoPlace ==
  /\ stage = "place" /\ stage' = "placed"
  /\ outcome' \in PlaceInstance(wish, graph, known)
  /\ UNCHANGED <<graph, known, wish>>

PlacementNext == PickGraph \/ PickKnown \/ PickWish \/ DoPlace

-----------------------------------------------------------------------------
Placed == stage = "placed" /\ outcome # NoInstance
Groups == {outcome.shards[i].group : i \in DOMAIN outcome.shards}

(* Every pipeline an instance runs has each layer of the model on exactly  *)
(* one of its ranks, in rank order and with no rank idle, however memory   *)
(* is distributed.                                                         *)
LayersPartition ==
  Placed /\ outcome.pipeline =>
    \A g \in Groups :
      LET own == {outcome.shards[i] : i \in {j \in DOMAIN outcome.shards :
                                               outcome.shards[j].group = g}}
      IN /\ {s.rank : s \in own} = 0 .. Cardinality(own) - 1
         /\ \A l \in 0 .. wish.model.layers - 1 :
              Cardinality({s \in own : s.from <= l /\ l < s.to}) = 1
         /\ \A s \in own : s.from < s.to /\ s.to <= wish.model.layers
         /\ \A s, t \in own : s.rank < t.rank => s.to <= t.from

(* The two groups of CFG parallelism end next to each other on the ring:   *)
(* "This places both last stages as neighbors for CFG exchange."           *)
LastStagesMeet ==
  Placed /\ outcome.pipeline /\ Groups = {0, 1} =>
    \E i, j \in DOMAIN outcome.cycle :
      /\ Adjacent(outcome.cycle, i, j)
      /\ outcome.shards[i].group = 0 /\ outcome.shards[j].group = 1
      /\ \A k \in DOMAIN outcome.shards :
           outcome.shards[k].rank <= outcome.shards[i].rank
      /\ outcome.shards[i].rank = outcome.shards[j].rank

(* Filtering every cycle, then taking the shortest.                        *)
ShortestSurvivors(cycles) ==
  LET all == {c \in cycles : /\ Len(c) >= wish.min
                             /\ HasMemory(wish.model, known, c) /\ ShardingAllows(wish, c)}
  IN  {c \in all : \A d \in all : Len(c) <= Len(d)}

(* "Stopping there is what filtering every cycle and then taking the       *)
(* shortest survivors amounts to."                                         *)
SearchExact ==
  stage = "place" /\ ~Rejected(wish) =>
    LET found == SearchPlacementCycles(graph).cycles
    IN  SmallestPlaceableCycles(wish, known, found) = ShortestSurvivors(found)

(* When a placement fails only because longer rings were not searched, the *)
(* search says so: "no other message may claim the cluster cannot hold the *)
(* model".                                                                 *)
TruncationTold ==
  stage = "place" =>
    LET search == SearchPlacementCycles(graph)
    IN  \/ SmallestPlaceableCycles(wish, known, search.cycles) # {}
        \/ SmallestPlaceableCycles(wish, known, GetCycles(graph)) = {}
        \/ Truncated(graph, search.bound)

(* A placement is what the search promises: the layers divided over a      *)
(* shortest cycle that can hold them, or a failure for the reason that is  *)
(* told.                                                                   *)
PlacedRight == LayersPartition /\ LastStagesMeet /\ SearchExact /\ TruncationTold
=============================================================================
