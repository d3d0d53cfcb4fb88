----------------------------- MODULE MC_Requests -----------------------------
(* Instances of Requests for TLC.                                          *)
EXTENDS Requests

TextOnly == [c \in Commands |-> "text"]

(* Streams are read, commands and events are taken in order, the worker    *)
(* plans and the runner goes on.  Requests, cancellations, disconnects and *)
(* failures come from outside.                                             *)
RequestsFairness ==
  /\ \A c \in Commands :
       /\ WF_rqvars(OpenStream(c)) /\ WF_rqvars(ReadStream(c))
       /\ WF_rqvars(WorkerCancel(c)) /\ WF_rqvars(WorkerStart(c))
       /\ WF_rqvars(RunnerChunk(c)) /\ WF_rqvars(RunnerCancels(c))
  /\ \A o \in {"master", "worker"} : WF_rqvars(IndexEvent(o))
  /\ WF_rqvars(ApiApply) /\ WF_rqvars(MasterCommand) /\ WF_rqvars(WorkerApply)

FairRequests == RequestsSpec /\ RequestsFairness
=============================================================================
