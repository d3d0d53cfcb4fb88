--------------------------- MODULE PipelinePrefill ---------------------------
(***************************************************************************)
(* The activations of a pipeline instance on their way from rank to rank:  *)
(* the first and last layers of a shard (engines/mlx/auto_parallel.py),    *)
(* prefill and pipeline_parallel_prefill (generator/generate.py), and the  *)
(* decoding that follows.  A rank is a program of blocking operations: it  *)
(* receives from the rank before it, queues or sends its output to the     *)
(* rank behind it, and takes part in collective operations, which return   *)
(* when all ranks have come to them.  Its program is cut into rounds, one  *)
(* for each time its loops come round.  The callback of a long prefill is  *)
(* a collective in which the ranks agree whether the request was           *)
(* cancelled; a rank then leaves its loop at once.                         *)
(*                                                                         *)
(* An activation is modelled by the request and the position of the pass   *)
(* it belongs to; lengths are counted in steps of the prefill step size.   *)
(***************************************************************************)
EXTENDS Integers, Sequences, SequencesExt, FiniteSets

CONSTANTS WorldSize,     \* ranks of the pipeline
          MaxChunks,     \* bound: chunks of a prompt
          MaxDecoded,    \* bound: tokens generated for a request
          MaxServed      \* bound: requests

ASSUME PipelineAssumption ==
  WorldSize \in Nat \ {0} /\ MaxChunks \in Nat \ {0} /\ MaxDecoded \in Nat /\ MaxServed \in Nat

VARIABLES program,   \* of each rank, the operations of its round it has still to do
          round,     \* of each rank, the round it is in
          held,      \* of each rank, _pending_prefill_sends
          wire,      \* of each rank, what was sent to it and not received
          read,      \* of each rank, the passes of this request in its cache
          mode,      \* of each rank, the flags of its last layer
          order,     \* the request all ranks work on
          nserved    \* number of requests so far

ppvars == <<program, round, held, wire, read, mode, order, nserved>>

PipeRanks == 0 .. WorldSize - 1
LastStage == WorldSize - 1

Op(op, at) == [op |-> op, at |-> at]

-----------------------------------------------------------------------------
(* The programs.                                                           *)

(* One pass of the model over the tokens of position at: the layers of the *)
(* shard, from PipelineFirstLayer to PipelineLastLayer.                    *)
Pass(r, at) ==
  (IF r = 0 THEN << >> ELSE <<Op("recv", at)>>)
  \o <<Op("compute", at)>>
  \o (IF r = LastStage THEN << >> ELSE <<Op("send", at)>>)
  \o <<Op("gather", at)>>

\* A seeded fault: all ranks call back for the real chunks only.
NoDummies(r) == 0

(* The callbacks a rank takes part in before its first chunk comes: one    *)
(* for each rank before it.                                                *)
Leading(r) == r

\* A seeded fault: what was queued is sent before the callback.
FlushedFirst(r, at) ==
  Pass(r, at) \o <<Op("flush", at), Op("callback", at)>>

(* An iteration of pipeline_parallel_prefill: the output is sent after the *)
(* callback has said that the request goes on.                             *)
Iteration(r, at) ==
  Pass(r, at) \o <<Op("callback", at), Op("flush", at)>>

(* pipeline_parallel_prefill: dummies, real chunks, dummies, then the last *)
(* token twice, as stream_generate would have it.                          *)
PipelineParallelPrefill(r, n, c) ==
  IF c <= n + LastStage
  THEN LET i == c - Leading(r)
       IN  IF i \in 1 .. n THEN Iteration(r, i) ELSE <<Op("callback", 0)>>
  ELSE IF c = n + WorldSize
  THEN <<Op("clear", 0)>> \o Pass(r, n + 1) \o <<Op("flush", 0)>>
  ELSE Pass(r, n + 2) \o <<Op("flush", 0), Op("decode", 0)>>

(* stream_generate for a prompt below the step size: it calls back before  *)
(* and after the chunk, and when the last token and one more are done.     *)
StreamGenerate(r, c) ==
  IF c = 1 THEN Pass(r, 1) \o <<Op("callback", 0)>>
  ELSE IF c = 2 THEN Pass(r, 2)
  ELSE Pass(r, 3) \o <<Op("callback", 0), Op("decode", 0)>>

(* prefill: a barrier, and one of the two.                                 *)
PrefillRound(r, q, c) ==
  IF c > 0 THEN IF q.long THEN PipelineParallelPrefill(r, q.chunks, c) ELSE StreamGenerate(r, c)
  ELSE <<Op("prefill", 0), Op("barrier", 0)>>
       \o (IF q.long THEN <<Op("queue_sends", 0), Op("clear", 0)>> ELSE <<Op("callback", 0)>>)

(* The last round of the prefill.                                          *)
PrefillRounds(q) == IF q.long THEN q.chunks + WorldSize + 1 ELSE 3

(* What prefill leaves in the cache is put back by two passes; then there  *)
(* is one pass for each decoded token.                                     *)
DecodeRound(r, q, i) == IF i <= q.tokens THEN Pass(r, q.chunks + i) ELSE << >>

RoundOf(r, q, c) ==
  IF c <= PrefillRounds(q) THEN PrefillRound(r, q, c) ELSE DecodeRound(r, q, c - PrefillRounds(q))

-----------------------------------------------------------------------------
NoOrder == [id |-> 0, long |-> FALSE, chunks |-> 0, tokens |-> 0, cancelled |-> FALSE]

PipelineInit ==
  /\ program = [r \in PipeRanks |-> << >>] /\ round = [r \in PipeRanks |-> 0]
  /\ held = [r \in PipeRanks |-> << >>]
  /\ wire = [r \in PipeRanks |-> << >>] /\ read = [r \in PipeRanks |-> << >>]
  /\ mode = [r \in PipeRanks |-> "decode"]
  /\ order = NoOrder /\ nserved = 0

Resting == \A r \in PipeRanks : program[r] = << >>
Doing(r, op) == program[r] # << >> /\ Head(program[r]).op = op

(* Rank r has done the operation it was at: the next of its round, or the  *)
(* first of the next round.                                                *)
RoundDone(r) == Len(program[r]) = 1
Following(r) == IF RoundDone(r) THEN RoundOf(r, order, round[r] + 1) ELSE Tail(program[r])
Done(r) ==
  /\ program' = [program EXCEPT ![r] = Following(r)]
  /\ round' = [round EXCEPT ![r] = IF RoundDone(r) THEN @ + 1 ELSE @]
Pos(r) == Head(program[r]).at

(* The ranks agree on the next task and start on it.                       *)
Begin ==
  /\ Resting /\ nserved < MaxServed
  /\ nserved' = nserved + 1
  /\ \E long \in BOOLEAN, n \in 1 .. MaxChunks, k \in 0 .. MaxDecoded :
       /\ ~long => n = 1
       /\ order' = [id |-> nserved', long |-> long, chunks |-> n, tokens |-> k,
                    cancelled |-> FALSE]
  /\ program' = [r \in PipeRanks |-> RoundOf(r, order', 0)]
  /\ round' = [r \in PipeRanks |-> 0]
  /\ read' = [r \in PipeRanks |-> << >>]
  /\ UNCHANGED <<held, wire, mode>>

(* PipelineFirstLayer.                                                     *)
Receive(r) ==
  /\ Doing(r, "recv") /\ wire[r] # << >>
  /\ wire' = [wire EXCEPT ![r] = Tail(@)]
  /\ read' = [read EXCEPT ![r] = Append(@, Head(wire[r]))]
  /\ Done(r)
  /\ UNCHANGED <<held, mode, order, nserved>>

(* The layers of the first stage read the tokens themselves.               *)
Compute(r) ==
  /\ Doing(r, "compute")
  /\ read' = IF r = 0 THEN [read EXCEPT ![0] = Append(@, <<order.id, Pos(0)>>)] ELSE read
  /\ Done(r)
  /\ UNCHANGED <<held, wire, mode, order, nserved>>

(* PipelineLastLayer: the output of the pass goes to the next rank, or     *)
(* waits until the queue is flushed.                                       *)
SendOutput(r) ==
  /\ Doing(r, "send")
  /\ IF mode[r] = "queue_sends"
     THEN held' = [held EXCEPT ![r] = Append(@, Last(read[r]))] /\ UNCHANGED wire
     ELSE wire' = [wire EXCEPT ![r + 1] = Append(@, Last(read[r]))] /\ UNCHANGED held
  /\ Done(r)
  /\ UNCHANGED <<read, mode, order, nserved>>

(* The output of a prefill is not gathered.                                *)
SkipGather(r) ==
  /\ Doing(r, "gather") /\ mode[r] # "decode"
  /\ Done(r)
  /\ UNCHANGED <<held, wire, read, mode, order, nserved>>

(* flush_prefill_sends: the sends are started and not waited for.          *)
Flush(r) ==
  /\ Doing(r, "flush")
  /\ wire' = IF r = LastStage THEN wire ELSE [wire EXCEPT ![r + 1] = @ \o held[r]]
  /\ held' = [held EXCEPT ![r] = << >>]
  /\ Done(r)
  /\ UNCHANGED <<read, mode, order, nserved>>

(* clear_prefill_sends.                                                    *)
Clear(r) ==
  /\ Doing(r, "clear")
  /\ held' = [held EXCEPT ![r] = << >>]
  /\ Done(r)
  /\ UNCHANGED <<wire, read, mode, order, nserved>>

(* set_pipeline_queue_sends and set_pipeline_prefill; at the end of the    *)
(* prefill the cache is put back by two passes.                            *)
SetMode(r) ==
  /\ \E op \in {"prefill", "queue_sends", "decode"} :
       /\ Doing(r, op)
       /\ mode' = [mode EXCEPT ![r] = op]
       /\ read' = IF op = "decode" THEN [read EXCEPT ![r] = SubSeq(@, 1, Len(@) - 2)] ELSE read
  /\ Done(r)
  /\ UNCHANGED <<held, wire, order, nserved>>

-----------------------------------------------------------------------------
(* Collective operations.                                                  *)

AllAt(op) == \A r \in PipeRanks : Doing(r, op)

(* mx_barrier, the agreement of a callback that finds no cancellation, the *)
(* all_gather of the outputs.                                              *)
Collective(op) ==
  /\ op \in {"barrier", "callback", "gather"}
  /\ AllAt(op) /\ (op = "gather" => \A r \in PipeRanks : mode[r] = "decode")
  /\ program' = [r \in PipeRanks |-> Following(r)]
  /\ round' = [r \in PipeRanks |-> round[r] + (IF RoundDone(r) THEN 1 ELSE 0)]
  /\ UNCHANGED <<held, wire, read, mode, order, nserved>>

\* A seeded fault: what was queued stays queued when a request is cancelled.
KeepsHeld(r) == held[r]

(* The finally of pipeline_parallel_prefill.                               *)
AfterCancel(r) == << >>

(* The callback in which the ranks agree that the request was cancelled:   *)
(* PrefillCancelled is raised on every rank, and prefill resets the flags. *)
CancelAgreed ==
  /\ AllAt("callback")
  /\ program' = [r \in PipeRanks |-> << >>]
  /\ held' = [r \in PipeRanks |-> AfterCancel(r)]
  /\ mode' = [r \in PipeRanks |-> "decode"]
  /\ order' = [order EXCEPT !.cancelled = TRUE]
  /\ UNCHANGED <<round, wire, read, nserved>>

StageStep(r) ==
  Receive(r) \/ Compute(r) \/ SendOutput(r) \/ SkipGather(r) \/ Flush(r) \/ Clear(r) \/ SetMode(r)

Together == CancelAgreed \/ \E op \in {"barrier", "callback", "gather"} : Collective(op)

PipelineNext == Begin \/ Together \/ \E r \in PipeRanks : StageStep(r)

PipelineSpec == PipelineInit /\ [][PipelineNext]_ppvars

-----------------------------------------------------------------------------
(* Properties.                                                             *)

(* Between two requests nothing is under way: however many chunks a rank   *)
(* was ahead of another when the request was cancelled, each activation    *)
(* that was sent was received, and none waits to be sent.  Otherwise the   *)
(* first receive of the next request would take it for its own.            *)
NothingUnderWay ==
  Resting => \A r \in PipeRanks : wire[r] = << >> /\ held[r] = << >>

(* The passes that are in a rank's cache are the passes of this request,   *)
(* in order and without a gap, on every rank: an activation is never taken *)
(* for that of another pass or another request.                            *)
OwnPasses ==
  \A r \in PipeRanks : \A i \in DOMAIN read[r] :
    read[r][i] = <<order.id, i>>

(* Every request ends on every rank: the ranks' different numbers of real  *)
(* chunks and dummies never leave one in a receive or in a collective the  *)
(* others do not come to.                                                  *)
PrefillEnds == []<>Resting

(* Neither passes nor requests run into one another, however far one rank  *)
(* is ahead of the next and whenever a request is cancelled.               *)
PassesKeptApart == OwnPasses /\ NothingUnderWay
=============================================================================
