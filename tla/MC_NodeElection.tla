--------------------------- MODULE MC_NodeElection ---------------------------
(* Small clusters for TLC.  Nobody is started with --force-master.         *)
EXTENDS NodeElection

NobodyForced == [n \in Nodes |-> 0]

(* BOUND: a process dies or the first node sees a command, not both.  What *)
(* lies beyond is not explored.                                            *)
OneUpset ==
  LET busy == {n \in Nodes : commands_seen[n] > 0}
  IN  /\ busy \subseteq {1}
      /\ Cardinality(busy) + Cardinality(Nodes \ (alive \cup failed)) <= 1
=============================================================================
