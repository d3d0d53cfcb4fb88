--------------------------- MODULE ReplicatedLog ---------------------------
(***************************************************************************)
(* What the event plane promises, whatever the network does: there is one  *)
(* log; every event of a producer enters it at most once and in the order  *)
(* the producer handed the events over; and every replica reads the log    *)
(* from its start, without a gap, an exchange or a repetition, under the   *)
(* indices that the reducer of shared/apply.py asserts to be contiguous.   *)
(***************************************************************************)
EXTENDS Naturals, Sequences

CONSTANTS
  Events,      \* pairs <<p, k>>: the k-th event handed over by p
  Unlogged,    \* the events the sequencer consumes itself
  Replicas     \* whoever reads the log

VARIABLES log, view

rlVars == <<log, view>>

Logged == {log[i] : i \in DOMAIN log}

Init ==
  /\ log = << >>
  /\ view = [r \in Replicas |-> << >>]

(* An event enters the log after all the earlier ones of its producer.     *)
Index(e) ==
  /\ e \notin Logged \cup Unlogged
  /\ \A j \in 0 .. e[2] - 1 : <<e[1], j>> \in Logged \cup Unlogged
  /\ log' = Append(log, e)
  /\ UNCHANGED view

(* The replicas in R read their next entry.                                *)
Read(R) ==
  /\ \A r \in R : Len(view[r]) < Len(log)
  /\ view' = [r \in Replicas |->
                IF r \in R
                THEN Append(view[r], [idx   |-> Len(view[r]),
                                      event |-> log[Len(view[r]) + 1]])
                ELSE view[r]]
  /\ UNCHANGED log

Next == (\E e \in Events : Index(e)) \/ (\E R \in SUBSET Replicas : Read(R))

Spec == Init /\ [][Next]_rlVars
=============================================================================
