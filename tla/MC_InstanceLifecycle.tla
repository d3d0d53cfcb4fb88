------------------------ MODULE MC_InstanceLifecycle ------------------------
(***************************************************************************)
(* The instance lifecycle, for TLC.  The configurations differ in the      *)
(* number of ranks and in what may go wrong: processes that die, a model   *)
(* that is yet to be downloaded, an instance that is deleted, and how long *)
(* a process takes to start or a queue to be read.                         *)
(***************************************************************************)
EXTENDS InstanceLifecycle

(* BOUND: no Worker is more than four events behind the log.  What comes   *)
(* after a state where one is further behind is not explored.              *)
KeepsUp == \A r \in Ranks : Len(inbox[r]) <= 4

(* BOUND: an instance that is deleted by request is one that serves, with  *)
(* every Worker up to date, and nothing dies once it has been deleted.     *)
(* (Deletion at any time, before or after a death, is checked with one     *)
(* rank, in MC_Serving.)                                                   *)
DeletedInService ==
  /\ deleted' /\ ~deleted =>
       \/ \E r \in Ranks : GiveUp(r)
       \/ Serving /\ crashes = 0 /\ \A r \in Ranks : inbox[r] = << >>
  /\ crashes' > crashes => ~deleted

(* ASSUMPTION of the run about recovery: when the five-second watch comes  *)
(* round, what the process sent before it died has been read.              *)
ReadsFirst ==
  \A r \in Ranks : \A i \in DOMAIN sups[r] :
    WatchRunner(r, i) => sups[r][i].events = << >>
=============================================================================
