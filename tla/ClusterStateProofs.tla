-------------------------- MODULE ClusterStateProofs --------------------------
(***************************************************************************)
(* What the replicated state says of the links of the cluster, for any     *)
(* nodes, any command and any number of deaths, silences and settings      *)
(* switched off.                                                           *)
(***************************************************************************)
EXTENDS ClusterState, TLAPS

Known == [memory : BOOLEAN, idents : BOOLEAN,
          rdma : {"unknown", "on", "off"}, bridge : {"unknown", "on", "off"}]

EdgeKinds == {"ethernet", "wifi", "thunderbolt"}

Topologies ==
  [nodes : SUBSET ClusterNodes,
   socket : SUBSET (ClusterNodes \X ClusterNodes \X EdgeKinds),
   rdma : SUBSET (ClusterNodes \X ClusterNodes)]

Typed ==
  /\ topo \in Topologies
  /\ info \in [ClusterNodes -> Known]
  /\ lastSeen \in [ClusterNodes -> {"never", "fresh", "stale"}]
  /\ up \subseteq ClusterNodes /\ upsets \in 0 .. MaxUpsets
  /\ \A e \in flight :
       /\ e.kind \in {"edge", "cut", "instance"}
       /\ e.kind # "instance" => e.from \in ClusterNodes /\ e.to \in ClusterNodes

(* Edges have both their ends in the graph.                                *)
Anchored == \A e \in topo.socket \cup topo.rdma : e[1] \in topo.nodes /\ e[2] \in topo.nodes

Inv == Typed /\ Anchored /\ RdmaOnlyEnabled /\ BridgeCyclesEnabled

-----------------------------------------------------------------------------
(* The nodes of a cycle are nodes of the graph it was found in.            *)
LEMMA CyclesInside ==
  ASSUME NEW T, NEW c \in GetCycles(T), NEW n \in Elements(c)
  PROVE  n \in T.nodes
<1>1. PICK k \in 1 .. Cardinality(T.nodes) : c \in Walks(T, k)
  BY DEF GetCycles
<1>2. c \in [1 .. k -> T.nodes]
  BY <1>1 DEF Walks
<1> QED BY <1>2 DEF Elements

(* get_thunderbolt_bridge_cycles reports nodes of the topology that have   *)
(* the bridge on.                                                          *)
LEMMA BridgesAreOn ==
  ASSUME NEW T, NEW known, NEW c \in BridgeCycles(T, known), NEW n \in c
  PROVE  n \in T.nodes /\ known[n].bridge = "on"
<1> DEFINE on == {m \in T.nodes : known[m].bridge = "on"}
           G == Subgraph(T, on)
           cables == [G EXCEPT !.socket = {e \in @ : e[3] = "thunderbolt"}]
<1>1. PICK d \in GetCycles(cables) : c = Elements(d)
  BY DEF BridgeCycles
<1>2. cables.nodes = on
  BY DEF Subgraph
<1> HIDE DEF cables
<1>3. n \in on
  BY <1>1, <1>2, CyclesInside
<1> QED BY <1>3

(* A step that keeps the links, grows the graph and changes no setting     *)
(* keeps what is said of them.                                             *)
LEMMA GraphGrows ==
  ASSUME Inv, Typed', info' = info, bridges' = bridges,
         topo.nodes \subseteq topo'.nodes, topo'.rdma \subseteq topo.rdma,
         \A e \in topo'.socket : e \in topo.socket \/ (e[1] \in topo'.nodes /\ e[2] \in topo'.nodes)
  PROVE  Inv'
<1>1. Anchored'
  BY DEF Inv, Anchored
<1>2. RdmaOnlyEnabled'
  BY DEF Inv, RdmaOnlyEnabled, RdmaEnabled
<1>3. BridgeCyclesEnabled'
  BY DEF Inv, BridgeCyclesEnabled
<1> QED BY <1>1, <1>2, <1>3 DEF Inv

-----------------------------------------------------------------------------
(* Nothing is known at first.                                              *)
LEMMA InitInv == ClusterInit => Inv
<1> SUFFICES ASSUME ClusterInit PROVE Inv
  OBVIOUS
<1>1. NoInfo \in Known
  BY DEF NoInfo, Known
<1>2. NoTopology \in Topologies
  BY DEF NoTopology, Topologies
<1>3. Typed
  BY <1>1, <1>2, ClusterConstants DEF ClusterInit, Typed
<1> QED BY <1>3
        DEF Inv, ClusterInit, NoTopology, Anchored, RdmaOnlyEnabled, BridgeCyclesEnabled

(* A node that reports something is in the graph from then on.             *)
LEMMA NodeAdded ==
  ASSUME Inv, NEW n \in ClusterNodes
  PROVE  /\ AddNode(n) \in Topologies
         /\ AddNode(n).nodes = topo.nodes \cup {n}
         /\ AddNode(n).socket = topo.socket /\ AddNode(n).rdma = topo.rdma
  BY DEF AddNode, Inv, Typed, Topologies

(* Its memory and its identifiers say nothing of its links.                *)
LEMMA PlainKeepsInv ==
  ASSUME Inv, NEW n \in ClusterNodes, NEW field \in {"memory", "idents"},
         GatherPlain(n, field)
  PROVE  Inv'
<1> USE DEF Inv
<1>1. info' \in [ClusterNodes -> Known]
      /\ \A m \in ClusterNodes : /\ info'[m].rdma = info[m].rdma
                                 /\ info'[m].bridge = info[m].bridge
  <2>1. CASE field = "memory"
    <3> DEFINE e == [info[n] EXCEPT !.memory = TRUE]
    <3>1. info' = [info EXCEPT ![n] = e] /\ info \in [ClusterNodes -> Known]
      BY <2>1 DEF GatherPlain, Typed
    <3>2. e \in Known /\ e.rdma = info[n].rdma /\ e.bridge = info[n].bridge
      BY <3>1 DEF Known
    <3> HIDE DEF e
    <3> QED BY <3>1, <3>2
  <2>2. CASE field = "idents"
    <3> DEFINE e == [info[n] EXCEPT !.idents = TRUE]
    <3>1. info' = [info EXCEPT ![n] = e] /\ info \in [ClusterNodes -> Known]
      BY <2>2 DEF GatherPlain, Typed
    <3>2. e \in Known /\ e.rdma = info[n].rdma /\ e.bridge = info[n].bridge
      BY <3>1 DEF Known
    <3> HIDE DEF e
    <3> QED BY <3>1, <3>2
  <2> QED BY <2>1, <2>2
<1>2. topo' = AddNode(n) /\ lastSeen' = [lastSeen EXCEPT ![n] = "fresh"]
      /\ UNCHANGED <<bridges, flight, up, upsets>>
  BY DEF GatherPlain, Seen
<1>3. Typed'
  BY <1>1, <1>2, NodeAdded DEF Typed
<1>4. Anchored'
  BY <1>2, NodeAdded DEF Anchored
<1>5. RdmaOnlyEnabled'
  <2>1. topo'.rdma = topo.rdma /\ topo.rdma \subseteq ClusterNodes \X ClusterNodes
    BY <1>2, NodeAdded DEF Typed, Topologies
  <2>2. \A m \in ClusterNodes : RdmaEnabled(m)' = RdmaEnabled(m)
    BY <1>1 DEF RdmaEnabled
  <2> QED BY <2>1, <2>2 DEF RdmaOnlyEnabled
<1>6. BridgeCyclesEnabled'
  BY <1>1, <1>2, NodeAdded DEF BridgeCyclesEnabled, Typed, Topologies
<1> QED BY <1>3, <1>4, <1>5, <1>6

(* The RDMA edges out of a node lead to nodes that have RDMA enabled, and  *)
(* there are none unless it has.                                           *)
LEMMA ConnectionsKeepInv ==
  ASSUME Inv, NEW n \in ClusterNodes, GatherConnections(n)
  PROVE  Inv'
<1> USE DEF Inv
<1> DEFINE new == {<<n, m>> : m \in RdmaSinks(n)}
<1>1. /\ topo'.nodes = topo.nodes \cup {n} \cup RdmaSinks(n)
      /\ topo'.socket = topo.socket
      /\ topo'.rdma = {e \in topo.rdma : e[1] # n} \cup new
      /\ topo' \in [nodes : {topo'.nodes}, socket : {topo'.socket}, rdma : {topo'.rdma}]
      /\ lastSeen' = [lastSeen EXCEPT ![n] = "fresh"]
      /\ UNCHANGED <<info, bridges, flight, up, upsets>>
  <2>1. AddNode(n) \in Topologies /\ AddNode(n).nodes = topo.nodes \cup {n}
        /\ AddNode(n).socket = topo.socket /\ AddNode(n).rdma = topo.rdma
    BY NodeAdded
  <2>2. topo' = [AddNode(n) EXCEPT !.nodes = @ \cup RdmaSinks(n),
                                   !.rdma = {e \in @ : e[1] # n} \cup new]
        /\ lastSeen' = [lastSeen EXCEPT ![n] = "fresh"]
        /\ UNCHANGED <<info, bridges, flight, up, upsets>>
    BY DEF GatherConnections, Seen
  <2> HIDE DEF new
  <2> QED BY <2>1, <2>2 DEF Topologies
<1>2. RdmaSinks(n) \subseteq ClusterNodes
      /\ \A m \in RdmaSinks(n) : RdmaEnabled(n) /\ RdmaEnabled(m)
  BY DEF RdmaSinks
<1>3. topo' \in Topologies
  <2>1. topo'.nodes \in SUBSET ClusterNodes
    BY <1>1, <1>2 DEF Typed, Topologies
  <2>2. topo'.rdma \in SUBSET (ClusterNodes \X ClusterNodes)
    BY <1>1, <1>2 DEF Typed, Topologies
  <2>3. topo'.socket \in SUBSET (ClusterNodes \X ClusterNodes \X EdgeKinds)
    BY <1>1 DEF Typed, Topologies
  <2> QED BY <1>1, <2>1, <2>2, <2>3 DEF Topologies
<1>4. Typed'
  BY <1>1, <1>3 DEF Typed
<1>5. Anchored'
  BY <1>1 DEF Anchored
<1>6. RdmaOnlyEnabled'
  BY <1>1, <1>2 DEF RdmaOnlyEnabled, RdmaEnabled
<1>7. BridgeCyclesEnabled'
  BY <1>1 DEF BridgeCyclesEnabled
<1> QED BY <1>4, <1>5, <1>6, <1>7

(* A node that has RDMA off loses every RDMA edge at either end.           *)
LEMMA RdmaKeepsInv ==
  ASSUME Inv, NEW n \in ClusterNodes, NEW value \in {"on", "off"}, GatherRdma(n, value)
  PROVE  Inv'
<1> USE DEF Inv
<1>1. /\ topo' \in Topologies
      /\ topo'.nodes = topo.nodes \cup {n} /\ topo'.socket = topo.socket
      /\ topo'.rdma \subseteq topo.rdma
      /\ value = "off" => \A e \in topo'.rdma : e[1] # n /\ e[2] # n
  <2>1. CASE value = "on"
    BY <2>1, NodeAdded DEF GatherRdma
  <2>2. CASE value = "off"
    <3>1. topo' = [AddNode(n) EXCEPT !.rdma = Untouched(@, n)]
      BY <2>2 DEF GatherRdma, RdmaLeft
    <3> QED BY <2>2, <3>1, NodeAdded DEF Topologies, Untouched
  <2> QED BY <2>1, <2>2
<1>2. /\ info' \in [ClusterNodes -> Known]
      /\ \A m \in ClusterNodes : info'[m].bridge = info[m].bridge
      /\ \A m \in ClusterNodes \ {n} : info'[m].rdma = info[m].rdma
      /\ info'[n].rdma = value
  BY DEF GatherRdma, Typed, Known
<1>3. /\ lastSeen' = [lastSeen EXCEPT ![n] = "fresh"] /\ UNCHANGED <<bridges, flight, up>>
      /\ upsets' \in 0 .. MaxUpsets
  BY ClusterConstants DEF GatherRdma, Seen, Switching, Typed
<1>4. Typed'
  BY <1>1, <1>2, <1>3 DEF Typed
<1>5. Anchored'
  BY <1>1 DEF Anchored
<1>6. RdmaOnlyEnabled'
  <2> SUFFICES ASSUME NEW e \in topo'.rdma PROVE RdmaEnabled(e[1])' /\ RdmaEnabled(e[2])'
    BY DEF RdmaOnlyEnabled
  <2>1. e \in topo.rdma /\ e[1] \in ClusterNodes /\ e[2] \in ClusterNodes
    BY <1>1 DEF Typed, Topologies
  <2>2. info[e[1]].rdma = "on" /\ info[e[2]].rdma = "on"
    BY <2>1 DEF RdmaOnlyEnabled, RdmaEnabled
  <2>3. CASE value = "on"
    BY <1>2, <2>1, <2>2, <2>3 DEF RdmaEnabled
  <2>4. CASE value = "off"
    BY <1>1, <1>2, <2>1, <2>2, <2>4 DEF RdmaEnabled
  <2> QED BY <2>3, <2>4
<1>7. BridgeCyclesEnabled'
  BY <1>1, <1>2, <1>3 DEF BridgeCyclesEnabled, Typed, Topologies
<1> QED BY <1>4, <1>5, <1>6, <1>7

(* The cycles are recomputed whenever a bridge that may be in one goes off.*)
LEMMA BridgeKeepsInv ==
  ASSUME Inv, NEW n \in ClusterNodes, NEW value \in {"on", "off"}, GatherBridge(n, value)
  PROVE  Inv'
<1> USE DEF Inv
<1>1. /\ topo' = AddNode(n) /\ lastSeen' = [lastSeen EXCEPT ![n] = "fresh"]
      /\ UNCHANGED <<flight, up>> /\ upsets' \in 0 .. MaxUpsets
  BY ClusterConstants DEF GatherBridge, Seen, Switching, Typed
<1>2. /\ info' \in [ClusterNodes -> Known]
      /\ \A m \in ClusterNodes : info'[m].rdma = info[m].rdma
      /\ \A m \in ClusterNodes \ {n} : info'[m].bridge = info[m].bridge
      /\ info'[n].bridge = value
  BY DEF GatherBridge, Typed, Known
<1>3. Typed'
  BY <1>1, <1>2, NodeAdded DEF Typed
<1>4. Anchored'
  BY <1>1, NodeAdded DEF Anchored
<1>5. RdmaOnlyEnabled'
  BY <1>1, <1>2, NodeAdded DEF RdmaOnlyEnabled, RdmaEnabled, Typed, Topologies
<1>6. BridgeCyclesEnabled'
  <2>1. CASE BridgeChanged(info[n].bridge, value)
    <3>1. bridges' = BridgeCycles(topo', info')
      BY <2>1 DEF GatherBridge
    <3> QED BY <3>1, BridgesAreOn DEF BridgeCyclesEnabled
  <2>2. CASE ~BridgeChanged(info[n].bridge, value)
    <3>1. bridges' = bridges /\ info[n].bridge # "on"
      BY <2>2 DEF GatherBridge, BridgeChanged
    <3>2. ASSUME NEW c \in bridges', NEW m \in c
          PROVE  m \in topo'.nodes /\ info'[m].bridge = "on"
      <4>1. m \in topo.nodes /\ info[m].bridge = "on" /\ m # n
        BY <3>1, <3>2 DEF BridgeCyclesEnabled
      <4> QED BY <1>1, <1>2, <4>1, NodeAdded DEF Typed, Topologies
    <3> QED BY <3>2 DEF BridgeCyclesEnabled
  <2> QED BY <2>1, <2>2
<1> QED BY <1>3, <1>4, <1>5, <1>6

(* A node that times out takes its edges, its settings and the cycles it   *)
(* was in along.                                                           *)
LEMMA TimeoutKeepsInv ==
  ASSUME Inv, NEW n \in ClusterNodes, NodeTimedOut(n)
  PROVE  Inv'
<1> USE DEF Inv
<1>1. /\ topo' = RemoveNode(topo, n) /\ info' = [info EXCEPT ![n] = NoInfo]
      /\ lastSeen' = [lastSeen EXCEPT ![n] = "never"]
      /\ UNCHANGED <<flight, up, upsets>>
  BY DEF NodeTimedOut
<1>2. /\ topo' \in Topologies /\ topo'.nodes = topo.nodes \ {n}
      /\ topo'.socket = Untouched(topo.socket, n)
      /\ topo'.rdma = Untouched(topo.rdma, n)
  BY <1>1 DEF RemoveNode, Untouched, Typed, Topologies
<1>3. info' \in [ClusterNodes -> Known] /\ \A m \in ClusterNodes \ {n} : info'[m] = info[m]
  <2>1. NoInfo \in Known
    BY DEF NoInfo, Known
  <2> QED BY <1>1, <2>1 DEF Typed
<1>4. Typed'
  BY <1>1, <1>2, <1>3 DEF Typed
<1>5. Anchored'
  BY <1>2 DEF Anchored, Untouched
<1>6. RdmaOnlyEnabled'
  BY <1>2, <1>3 DEF RdmaOnlyEnabled, RdmaEnabled, Untouched, Typed, Topologies
<1>7. BridgeCyclesEnabled'
  <2>1. CASE info[n].bridge = "on"
    <3>1. bridges' = BridgeCycles(topo', info')
      BY <2>1 DEF NodeTimedOut
    <3> QED BY <3>1, BridgesAreOn DEF BridgeCyclesEnabled
  <2>2. CASE info[n].bridge # "on"
    <3>1. bridges' = bridges
      BY <2>2 DEF NodeTimedOut
    <3>2. ASSUME NEW c \in bridges', NEW m \in c
          PROVE  m \in topo'.nodes /\ info'[m].bridge = "on"
      <4>1. m \in topo.nodes /\ info[m].bridge = "on" /\ m # n
        BY <2>2, <3>1, <3>2 DEF BridgeCyclesEnabled
      <4> QED BY <1>2, <1>3, <4>1 DEF Typed, Topologies
    <3> QED BY <3>2 DEF BridgeCyclesEnabled
  <2> QED BY <2>1, <2>2
<1> QED BY <1>4, <1>5, <1>6, <1>7

(* What a worker has found out of date, however late it is applied, links  *)
(* nodes that are in the graph afterwards.                                 *)
LEMMA AppliedKeepsInv ==
  ASSUME Inv, NEW e \in flight, Applied(e)
  PROVE  Inv'
<1> USE DEF Inv
<1>1. flight' = flight \ {e} /\ UNCHANGED <<info, lastSeen, bridges, up, upsets>>
  BY DEF Applied
<1>2. CASE e.kind = "edge"
  <2>1. topo' = AddSocket(topo, e.from, e.to, Kind)
    BY <1>2 DEF Applied
  <2>2. e.from \in ClusterNodes /\ e.to \in ClusterNodes
    BY <1>2 DEF Typed
  <2>3. /\ topo' \in Topologies /\ topo'.nodes = topo.nodes \cup {e.from, e.to}
        /\ topo'.socket = topo.socket \cup {<<e.from, e.to, Kind>>}
        /\ topo'.rdma = topo.rdma
    <3>1. <<e.from, e.to, Kind>> \in ClusterNodes \X ClusterNodes \X EdgeKinds
      BY <2>2 DEF Kind, EdgeKinds
    <3> QED BY <2>1, <2>2, <3>1 DEF AddSocket, Typed, Topologies
  <2>4. Typed'
    BY <1>1, <2>3 DEF Typed
  <2> QED BY <1>1, <2>3, <2>4, GraphGrows
<1>3. CASE e.kind = "cut"
  <2>1. topo' = RemoveSocket(topo, e.from, e.to, Kind)
    BY <1>3 DEF Applied
  <2>2. /\ topo' \in Topologies /\ topo'.nodes = topo.nodes
        /\ topo'.socket \subseteq topo.socket /\ topo'.rdma = topo.rdma
    BY <2>1 DEF RemoveSocket, Typed, Topologies
  <2>3. Typed'
    BY <1>1, <2>2 DEF Typed
  <2> QED BY <1>1, <2>2, <2>3, GraphGrows
<1>4. CASE e.kind = "instance"
  <2>1. topo' = topo
    BY <1>4 DEF Applied
  <2>2. Typed'
    BY <1>1, <2>1 DEF Typed
  <2> QED BY <1>1, <2>1, <2>2, GraphGrows
<1> QED BY <1>2, <1>3, <1>4 DEF Typed

(* Every step keeps the invariant.                                         *)
LEMMA NextInv == Inv /\ [ClusterNext]_clvars => Inv'
<1> SUFFICES ASSUME Inv, [ClusterNext]_clvars PROVE Inv'
  OBVIOUS
<1> USE DEF Inv
<1>1. ASSUME UNCHANGED <<topo, info, bridges>>, Typed' PROVE Inv'
  BY <1>1, GraphGrows
<1>2. CASE UNCHANGED clvars
  BY <1>1, <1>2 DEF clvars, Typed
<1>3. ASSUME NEW n \in ClusterNodes, NodeStep(n) PROVE Inv'
  BY <1>3, PlainKeepsInv, ConnectionsKeepInv, RdmaKeepsInv, BridgeKeepsInv DEF NodeStep
<1>4. ASSUME NEW n \in ClusterNodes, NodeTimedOut(n) PROVE Inv'
  BY <1>4, TimeoutKeepsInv
<1>5. ASSUME NEW n \in ClusterNodes, Silence(n) \/ Die(n) PROVE Inv'
  <2>1. upsets' \in 0 .. MaxUpsets
    BY <1>5, ClusterConstants DEF Silence, Die, Typed
  <2>2. /\ lastSeen' \in [ClusterNodes -> {"never", "fresh", "stale"}]
        /\ up' \subseteq ClusterNodes
    BY <1>5 DEF Silence, Die, Typed
  <2>3. Typed'
    BY <1>5, <2>1, <2>2 DEF Silence, Die, Typed
  <2> QED BY <1>1, <1>5, <2>3 DEF Silence, Die
<1>6. ASSUME NEW a \in ClusterNodes, NEW b \in ClusterNodes,
             PollFinds(a, b) \/ PollMisses(a, b)
      PROVE  Inv'
  <2>1. Typed'
    BY <1>6 DEF PollFinds, PollMisses, Typed
  <2> QED BY <1>1, <1>6, <2>1 DEF PollFinds, PollMisses
<1>7. CASE PlaceCommand
  <2>1. PICK on : flight' = flight \cup {[kind |-> "instance", on |-> on]}
    BY <1>7 DEF PlaceCommand
  <2>2. UNCHANGED <<topo, info, lastSeen, bridges, up, upsets>>
    BY <1>7 DEF PlaceCommand
  <2>3. Typed'
    BY <2>1, <2>2 DEF Typed
  <2> QED BY <1>1, <2>2, <2>3
<1>8. ASSUME NEW e \in flight, Applied(e) PROVE Inv'
  BY <1>8, AppliedKeepsInv
<1>9. ASSUME NEW cycle \in insts, KillBrokenInstance(cycle) \/ DeleteInstance(cycle)
      PROVE  Inv'
  <2>1. Typed'
    BY <1>9 DEF KillBrokenInstance, DeleteInstance, Typed
  <2> QED BY <1>1, <1>9, <2>1 DEF KillBrokenInstance, DeleteInstance
<1> QED BY <1>2, <1>3, <1>4, <1>5, <1>6, <1>7, <1>8, <1>9 DEF ClusterNext

(* What placement is told of the links holds: edges join nodes of the      *)
(* graph, and RDMA edges and bridge cycles join nodes that have them on,   *)
(* whatever nodes report, switch off, time out and come back as.           *)
THEOREM LinksAlwaysHold == ClusterSpec => []LinksHold
<1>1. Inv => LinksHold
  <2> SUFFICES ASSUME Inv PROVE LinksHold
    OBVIOUS
  <2>1. ClusterTypeOK
    BY DEF Inv, Typed, Anchored, ClusterTypeOK, Topologies, Known
  <2> QED BY <2>1 DEF Inv, LinksHold
<1> QED BY <1>1, InitInv, NextInv, PTL DEF ClusterSpec
=============================================================================
