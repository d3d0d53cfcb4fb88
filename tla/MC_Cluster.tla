------------------------------ MODULE MC_Cluster ------------------------------
(***************************************************************************)
(* What a cluster is made of before anything is served, for TLC: how nodes *)
(* find each other, what the master knows of them, where it places a model. *)
(* The parts share no state here; about says which of them a behaviour is  *)
(* about, and the others rest in one initial state.                        *)
(***************************************************************************)
EXTENDS Discovery, ClusterState, PlacementCases

VARIABLE about

clustervars == <<about, dsvars, clvars, plvars>>

-----------------------------------------------------------------------------
(* Constants.                                                              *)

LayeredModel == [layers |-> 2, storage |-> 2, hidden |-> 4, kv |-> 0, cfg |-> FALSE,
                 tensor |-> TRUE, pipeline |-> "any"]

PlaceIt == [sharding |-> "pipeline", meta |-> "ring", min |-> 1, required |-> {},
            model |-> LayeredModel]

(* A language model, and an image model with guidance.                     *)
TwoModels ==
  {[LayeredModel EXCEPT !.layers = 3, !.storage = 3, !.kv = 4],
   [LayeredModel EXCEPT !.layers = 4, !.storage = 4, !.cfg = TRUE, !.tensor = FALSE]}

Cabled(E, iface) == {<<e[1], e[2], iface>> : e \in E}
BothWays(E) == E \cup {<<e[2], e[1]>> : e \in E}
Square == {<<1, 2>>, <<2, 3>>, <<3, 4>>, <<4, 1>>}

(* Three nodes, of which two always reach each other, and four nodes: all  *)
(* connected, in a ring of cables, and in a ring of one direction.         *)
SomeTopologies ==
  {[nodes |-> 1 .. 3, socket |-> Cabled({<<1, 2>>, <<2, 1>>} \cup E, "ethernet"), rdma |-> R] :
     E \in SUBSET {<<2, 3>>, <<3, 2>>, <<1, 3>>}, R \in {{}, {<<1, 2>>, <<2, 1>>}}}
  \cup
  {[nodes |-> 1 .. 4, socket |-> Cabled(E, "wifi"), rdma |-> {}] :
     E \in {{e \in (1 .. 4) \X (1 .. 4) : e[1] # e[2]}, BothWays(Square), Square \cup {<<3, 1>>}}}

-----------------------------------------------------------------------------
ClusterPartsInit ==
  /\ about \in {"discovery", "state", "placement"}
  /\ DiscoveryInit /\ (about # "discovery" =>
                         \A n, m \in Peers : namespace[n] = CHOOSE s \in Namespaces : TRUE)
  /\ ClusterInit /\ PlacementInit

Finding(A) == about = "discovery" /\ A /\ UNCHANGED <<about, clvars, plvars>>
Knowing(A) == about = "state" /\ A /\ UNCHANGED <<about, dsvars, plvars>>
Placing(A) == about = "placement" /\ A /\ UNCHANGED <<about, dsvars, clvars>>

ClusterPartsNext ==
  \/ Finding(DiscoveryNext) \/ Knowing(ClusterNext) \/ Placing(PlacementNext)

(* What a part's action does there is all that its fairness is about.      *)
In(p, A) == about = p /\ A

(* The discovery task goes on, and select! of tokio picks at random among  *)
(* what is ready, so that nothing that is ready again and again is left.   *)
DiscoveryFairness ==
  \A n \in Peers :
    /\ WF_dsvars(In("discovery", Announce(n))) /\ WF_dsvars(In("discovery", WatchInterfaces(n)))
    /\ SF_dsvars(In("discovery", Greeted(n))) /\ SF_dsvars(In("discovery", Answered(n)))

(* A node that is gone is silent; the master's plan loop runs, and events  *)
(* come back to it.                                                        *)
StateFairness ==
  /\ \A n \in ClusterNodes : /\ WF_clvars(In("state", Silence(n) /\ n \notin up))
                             /\ WF_clvars(In("state", NodeTimedOut(n)))
  /\ WF_clvars(In("state", \E e \in flight : Applied(e)))
  /\ WF_clvars(In("state", \E c \in insts : KillBrokenInstance(c)))

ClusterPartsSpec ==
  /\ ClusterPartsInit /\ [][ClusterPartsNext]_clustervars
  /\ DiscoveryFairness /\ StateFairness
=============================================================================
