----------------------------- MODULE ClusterState -----------------------------
(***************************************************************************)
(* The part of the replicated state that describes the cluster, and who    *)
(* changes it: what nodes gather about themselves and what becomes of it   *)
(* in src/exo/shared/apply.py, the edges workers discover                  *)
(* (_poll_connection_updates of src/exo/worker/main.py), the master's      *)
(* placements and its plan loop (src/exo/master/main.py).                  *)
(*                                                                         *)
(*   topo      the topology                                                *)
(*   info      what is known of each node, by node                         *)
(*   lastSeen  whether a node is in last_seen, and for how long            *)
(*   bridges   thunderbolt_bridge_cycles, as sets of nodes                 *)
(*   insts     the instances, by the cycle they were placed on             *)
(*   flight    events sent and not yet applied                             *)
(*   up        the nodes that run                                          *)
(*   upsets    deaths, silences and settings switched off so far           *)
(***************************************************************************)
EXTENDS Placement

CONSTANTS
  ClusterNodes,   \* node ids
  Command,        \* the PlaceInstance command
  MaxUpsets       \* deaths, silences and settings switched off (bound)

ASSUME ClusterConstants == ClusterNodes \subseteq Nat /\ MaxUpsets \in Nat

VARIABLES topo, info, lastSeen, bridges, insts, flight, up, upsets

clvars == <<topo, info, lastSeen, bridges, insts, flight, up, upsets>>

NoTopology == [nodes |-> {}, socket |-> {}, rdma |-> {}]
NoInfo == [memory |-> FALSE, idents |-> FALSE, rdma |-> "unknown", bridge |-> "unknown"]

ClusterInit ==
  /\ topo = NoTopology
  /\ info = [n \in ClusterNodes |-> NoInfo]
  /\ lastSeen = [n \in ClusterNodes |-> "never"]
  /\ bridges = {}
  /\ insts = {} /\ flight = {}
  /\ up = ClusterNodes /\ upsets = 0

-----------------------------------------------------------------------------
(* apply_node_gathered_info.                                               *)

AddNode(n) == [topo EXCEPT !.nodes = @ \cup {n}]

RdmaEnabled(n) == info[n].rdma = "on"

(* get_thunderbolt_bridge_cycles: cycles of RDMA edges and of sockets over *)
(* Thunderbolt, between nodes with the bridge enabled.                     *)
BridgeCycles(T, known) ==
  LET on == {n \in T.nodes : known[n].bridge = "on"}
      G == Subgraph(T, on)
      cables == [G EXCEPT !.socket = {e \in @ : e[3] = "thunderbolt"}]
  IN  {Elements(c) : c \in {d \in GetCycles(cables) : Len(d) >= 2}}

Seen(n) ==
  /\ n \in up
  /\ lastSeen' = [lastSeen EXCEPT ![n] = "fresh"]

GatherPlain(n, field) ==
  /\ Seen(n)
  /\ topo' = AddNode(n)
  /\ info' = [info EXCEPT ![n][field] = TRUE]
  /\ UNCHANGED <<bridges, insts, flight, up, upsets>>

(* MacThunderboltConnections: the RDMA edges out of n, to every node it is *)
(* cabled to, if both ends are identified and have rdma_ctl enabled.       *)
RdmaSinks(n) ==
  {m \in ClusterNodes \ {n} : info[n].idents /\ info[m].idents /\ RdmaEnabled(n) /\ RdmaEnabled(m)}

GatherConnections(n) ==
  /\ Seen(n)
  /\ topo' = [AddNode(n) EXCEPT
                !.nodes = @ \cup RdmaSinks(n),
                !.rdma = {e \in @ : e[1] # n} \cup {<<n, m>> : m \in RdmaSinks(n)}]
  /\ UNCHANGED <<info, bridges, insts, flight, up, upsets>>

Switching(value) ==
  /\ upsets < MaxUpsets \/ value = "on"
  /\ upsets' = IF value = "off" THEN upsets + 1 ELSE upsets

(* A seeded fault: only the edges out of the node are dropped.             *)
RdmaOutOf(edges, n) == {e \in edges : e[1] # n}

(* remove_all_rdma_connections_touching *)
RdmaLeft(edges, n) == Untouched(edges, n)

(* RdmaCtlStatus *)
GatherRdma(n, value) ==
  /\ Seen(n) /\ info[n].rdma # value /\ Switching(value)
  /\ info' = [info EXCEPT ![n].rdma = value]
  /\ topo' = IF value = "off" THEN [AddNode(n) EXCEPT !.rdma = RdmaLeft(@, n)] ELSE AddNode(n)
  /\ UNCHANGED <<bridges, insts, flight, up>>

(* A seeded fault: the cycles are computed when a bridge comes up only.    *)
ComesUp(was, value) == was # "on" /\ value = "on"

(* ThunderboltBridgeInfo: the cycles are recomputed if the setting has     *)
(* changed.                                                                *)
BridgeChanged(was, value) == (was = "on") # (value = "on")

GatherBridge(n, value) ==
  /\ Seen(n) /\ info[n].bridge # value /\ Switching(value)
  /\ info' = [info EXCEPT ![n].bridge = value]
  /\ topo' = AddNode(n)
  /\ bridges' = IF BridgeChanged(info[n].bridge, value) THEN BridgeCycles(topo', info')
                ELSE bridges
  /\ UNCHANGED <<insts, flight, up>>

-----------------------------------------------------------------------------
(* Edges: what a worker finds out of date, from the state as it is when it *)
(* looks, is on its way for as long as the event pipeline takes.           *)

Kind == "ethernet"

(* check_reachable: the nodes of the topology that answer a probe.         *)
Reachable(a, b) == a # b /\ {a, b} \subseteq up /\ b \in topo.nodes

PollFinds(a, b) ==
  /\ a \in topo.nodes /\ Reachable(a, b)
  /\ <<a, b, Kind>> \notin topo.socket
  /\ flight' = flight \cup {[kind |-> "edge", from |-> a, to |-> b]}
  /\ flight' # flight
  /\ UNCHANGED <<topo, info, lastSeen, bridges, insts, up, upsets>>

PollMisses(a, b) ==
  /\ a \in up /\ ~Reachable(a, b) /\ <<a, b, Kind>> \in topo.socket
  /\ flight' = flight \cup {[kind |-> "cut", from |-> a, to |-> b]}
  /\ flight' # flight
  /\ UNCHANGED <<topo, info, lastSeen, bridges, insts, up, upsets>>

(* The master places the command on the state it has.                      *)
PlaceCommand ==
  LET C == [memory |-> [n \in {m \in ClusterNodes : info[m].memory} |-> 1],
            backed |-> ClusterNodes,
            rdmaEnabled |-> {n \in ClusterNodes : RdmaEnabled(n)},
            downloaded |-> [n \in ClusterNodes |-> 0]]
  IN
  /\ insts = {} /\ \A e \in flight : e.kind # "instance"
  /\ \E placed \in PlaceInstance(Command, topo, C) :
       /\ placed # NoInstance
       /\ flight' = flight \cup {[kind |-> "instance", on |-> placed.cycle]}
  /\ UNCHANGED <<topo, info, lastSeen, bridges, insts, up, upsets>>

(* event_apply on what arrives.                                            *)
Applied(e) ==
  /\ e \in flight
  /\ flight' = flight \ {e}
  /\ CASE e.kind = "edge" ->
            topo' = AddSocket(topo, e.from, e.to, Kind) /\ UNCHANGED insts
       [] e.kind = "cut" ->
            topo' = RemoveSocket(topo, e.from, e.to, Kind) /\ UNCHANGED insts
       [] e.kind = "instance" -> insts' = insts \cup {e.on} /\ UNCHANGED topo
  /\ UNCHANGED <<info, lastSeen, bridges, up, upsets>>

-----------------------------------------------------------------------------
(* The plan loop: instances on nodes that are not in the topology go, and  *)
(* nodes that have not been heard of for 30 seconds.  The master's own     *)
(* events do not travel: they are applied where they are decided.          *)

(* A seeded fault: only the first node of an instance is missed.           *)
HeadMissing(cycle) == cycle[1] \notin topo.nodes

Broken(cycle) == \E n \in Elements(cycle) : n \notin topo.nodes

KillBrokenInstance(cycle) ==
  /\ cycle \in insts /\ Broken(cycle)
  /\ insts' = insts \ {cycle}
  /\ UNCHANGED <<topo, info, lastSeen, bridges, flight, up, upsets>>

DeleteInstance(cycle) ==
  /\ cycle \in insts
  /\ insts' = insts \ {cycle}
  /\ UNCHANGED <<topo, info, lastSeen, bridges, flight, up, upsets>>

(* apply_node_timed_out *)
NodeTimedOut(n) ==
  /\ lastSeen[n] = "stale"
  /\ lastSeen' = [lastSeen EXCEPT ![n] = "never"]
  /\ topo' = RemoveNode(topo, n)
  /\ info' = [info EXCEPT ![n] = NoInfo]
  /\ bridges' = IF info[n].bridge = "on" THEN BridgeCycles(topo', info') ELSE bridges
  /\ UNCHANGED <<insts, flight, up, upsets>>

(* Thirty seconds without news of n: it is dead, or cannot be heard.       *)
Silence(n) ==
  /\ lastSeen[n] = "fresh"
  /\ n \in up => upsets < MaxUpsets
  /\ upsets' = IF n \in up THEN upsets + 1 ELSE upsets
  /\ lastSeen' = [lastSeen EXCEPT ![n] = "stale"]
  /\ UNCHANGED <<topo, info, bridges, insts, flight, up>>

Die(n) ==
  /\ n \in up /\ upsets < MaxUpsets
  /\ upsets' = upsets + 1
  /\ up' = up \ {n}
  /\ UNCHANGED <<topo, info, lastSeen, bridges, insts, flight>>

NodeStep(n) ==
  \/ \E field \in {"memory", "idents"} : GatherPlain(n, field)
  \/ GatherConnections(n)
  \/ \E value \in {"on", "off"} : GatherRdma(n, value) \/ GatherBridge(n, value)

ClusterNext ==
  \/ \E n \in ClusterNodes : NodeStep(n) \/ NodeTimedOut(n) \/ Silence(n) \/ Die(n)
  \/ \E a, b \in ClusterNodes : PollFinds(a, b) \/ PollMisses(a, b)
  \/ PlaceCommand
  \/ \E e \in flight : Applied(e)
  \/ \E cycle \in insts : KillBrokenInstance(cycle) \/ DeleteInstance(cycle)

ClusterSpec == ClusterInit /\ [][ClusterNext]_clvars

-----------------------------------------------------------------------------
(* Every variable has its type, and edges are between nodes the graph has. *)
ClusterTypeOK ==
  /\ topo.nodes \subseteq ClusterNodes
  /\ \A e \in topo.socket \cup topo.rdma : {e[1], e[2]} \subseteq topo.nodes
  /\ \A n \in ClusterNodes : /\ lastSeen[n] \in {"never", "fresh", "stale"}
                             /\ info[n].rdma \in {"unknown", "on", "off"}
  /\ up \subseteq ClusterNodes /\ upsets \in 0 .. MaxUpsets

(* "placement / topology consumers cannot pick a disabled node for an      *)
(* RDMA-backed instance": both ends of an RDMA edge have rdma_ctl enabled, *)
(* whatever they switch off, time out and come back as.                    *)
RdmaOnlyEnabled ==
  \A e \in topo.rdma : RdmaEnabled(e[1]) /\ RdmaEnabled(e[2])

(* A reported bridge cycle has only nodes of the topology with the bridge  *)
(* on, though cycles are recomputed on some events only.                   *)
BridgeCyclesEnabled ==
  \A c \in bridges : \A n \in c : n \in topo.nodes /\ info[n].bridge = "on"

(* A late edge event brings a node that has timed out back into the        *)
(* topology but not into last_seen: it will never time out again.          *)
Revenant(n) == n \in topo.nodes /\ lastSeen[n] = "never"

(* The instances on a dead node are deleted, also those that were placed   *)
(* before it died and created after; unless the node is a revenant.        *)
BrokenInstancesGo ==
  \A n \in ClusterNodes :
    n \notin up ~> (Revenant(n) \/ \A c \in insts : n \notin Elements(c))

(* What placement is told of the links holds: edges join nodes of the      *)
(* graph, and RDMA edges and bridge cycles join nodes that have them on.   *)
LinksHold == ClusterTypeOK /\ RdmaOnlyEnabled /\ BridgeCyclesEnabled
=============================================================================
