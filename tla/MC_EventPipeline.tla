-------------------------- MODULE MC_EventPipeline --------------------------
(* Small instances of EventPipeline for TLC.                               *)
EXTENDS EventPipeline, TLC

CONSTANTS r1, r2, p1, q, worker, api

(* The senders are all on one node; the other one only listens.            *)
OneHome == [p \in Producers |-> r1]

NoTraces == {}
SecondIsTrace == {<<p1, 1>>}

NoMessages == {}

(* What the previous master's session left behind.                         *)
OldLocal ==
  {[origin |-> q, origin_idx |-> 0, session |-> "old", event |-> <<q, 0>>]}
OldGlobal ==
  {[origin |-> "old master", origin_idx |-> 0, session |-> "old",
    event |-> <<q, 0>>]}
=============================================================================
