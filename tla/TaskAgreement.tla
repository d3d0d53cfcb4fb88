---------------------------- MODULE TaskAgreement ----------------------------
(***************************************************************************)
(* The ranks of one instance agree, by collective operations, on which     *)
(* generation tasks to run, in which order, and which to cancel            *)
(* (src/exo/worker/runner/llm_inference/batch_generator.py, driven by the  *)
(* loop of runner.py).  Each rank has its own Worker, which follows the    *)
(* same log of events at its own pace: a task, or its cancellation, may    *)
(* reach one rank much later than another, or never.                       *)
(*                                                                         *)
(* A collective is one joint step of all ranks that stand at the same      *)
(* one.  Ranks that stand at different ones never come back: SameCollective*)
(* says that this cannot happen.                                           *)
(*                                                                         *)
(*   log      the events every worker applies: a task is created, cancelled*)
(*   pos      how far the worker of a rank has applied it                  *)
(*   started, told   in_progress and cancelled of the rank's supervisor    *)
(*   inbox    the runner's work queue, cancelPipe its cancel_receiver      *)
(*   rk       the runner and its engine, a record                          *)
(***************************************************************************)
EXTENDS Integers, Sequences, FiniteSets, SequencesExt

CONSTANTS
  NRanks,         \* the size of the group
  Tasks,          \* task ids: integers, so that they can be sorted
  Arrivals,       \* the orders in which tasks may be created (bound)
  Engines,        \* the engines to check: "batch", "sequential"
  MaxConcurrent,  \* EXO_MAX_CONCURRENT_REQUESTS
  Chunks,         \* prefill callbacks of a task: a function of the task
  MaxTokens,      \* tokens after which a generation has ended (bound)
  CheckEvery,     \* check_for_cancel_every
  MaxCancels      \* cancellations in a behaviour (bound)

ASSUME AgreementConstants ==
  /\ NRanks \in Nat \ {0} /\ MaxConcurrent \in Nat \ {0}
  /\ Tasks \subseteq Nat /\ IsFiniteSet(Tasks)
  /\ Arrivals \subseteq Seq(Tasks)
  /\ Engines \subseteq {"batch", "sequential"}
  /\ Chunks \in [Tasks -> Nat \ {0}] /\ MaxTokens \in Nat \ {0}
  /\ CheckEvery \in Nat \ {0} /\ MaxCancels \in Nat

VARIABLES engine, log, pos, started, told, inbox, cancelPipe, rk

vars == <<engine, log, pos, started, told, inbox, cancelPipe, rk>>

Ranks == 0 .. NRanks - 1

(* What one rank's runner and engine hold.                                 *)
(*   pc: idle (in main, waiting), at a collective (agree, cancels,         *)
(*     forward), collect (before cancels), results (of a step), dead       *)
(*   mode: why the rank is at a callback: start, prefill or token          *)
(*   mq, mc, all, q, act, canc: _maybe_queue, _maybe_cancel, _all_tasks,   *)
(*     _queue, _active_tasks (_active), _cancelled_tasks                   *)
(*   tasks: the runner's active_tasks                                      *)
(*   cur, left: the task being prefilled and its callbacks to come         *)
(*   toks: the tasks whose on_generation_token is still to be called       *)
(*   made: tokens made, by task;  ended: finished in this step             *)
(*   out: the tasks that have a chunk in the results of this step          *)
(*   last: the sequential generator has yielded its last response          *)
(*   batch: the sequences in the MLX generator                             *)
(*   order: history, the tasks in the order in which they were started     *)
NewRank ==
  [pc |-> "idle", mode |-> "start", mq |-> {}, mc |-> {}, all |-> {},
   q |-> << >>, act |-> << >>, canc |-> {}, tasks |-> {}, cur |-> -1,
   left |-> 0, toks |-> << >>, made |-> [t \in Tasks |-> 0], ended |-> {},
   out |-> << >>, last |-> FALSE, batch |-> {}, order |-> << >>]

Init ==
  /\ engine \in Engines
  /\ log = << >>
  /\ pos = [r \in Ranks |-> 0]
  /\ started = [r \in Ranks |-> {}]
  /\ told = [r \in Ranks |-> {}]
  /\ inbox = [r \in Ranks |-> << >>]
  /\ cancelPipe = [r \in Ranks |-> {}]
  /\ rk = [r \in Ranks |-> NewRank]

-----------------------------------------------------------------------------
(* The workers.                                                            *)

Created(s) == {s[i].task : i \in {j \in DOMAIN s : s[j].kind = "created"}}
Cancelled(s) == {s[i].task : i \in {j \in DOMAIN s : s[j].kind = "cancelled"}}

(* The master creates a task for a command, or cancels one on the API's    *)
(* TaskCancelled.                                                          *)
CreateTask(t) ==
  /\ \E a \in Arrivals : \E n \in DOMAIN a :
       a[n] = t /\ Created(log) = Range(SubSeq(a, 1, n - 1))
  /\ log' = Append(log, [kind |-> "created", task |-> t])
  /\ UNCHANGED <<engine, pos, started, told, inbox, cancelPipe, rk>>

CancelTask(t) ==
  /\ t \in Created(log) \ Cancelled(log)
  /\ Cardinality(Cancelled(log)) < MaxCancels
  /\ log' = Append(log, [kind |-> "cancelled", task |-> t])
  /\ UNCHANGED <<engine, pos, started, told, inbox, cancelPipe, rk>>

(* start_task returns when the runner has acknowledged the task: until     *)
(* then the worker plans nothing.  A plan is made on what has been applied *)
(* by then, the first seen events of the log; _cancel_tasks comes before   *)
(* _pending_tasks, which takes tasks in the order of the log.              *)
(* A mutant: the worker does not wait for the acknowledgement.             *)
PlansAhead(r) == TRUE

Planning(r) == inbox[r] = << >>

ToCancel(r, seen) == Cancelled(SubSeq(log, 1, seen)) \ told[r]

PendingTasks(r, seen) ==
  {i \in 1 .. seen :
     /\ log[i].kind = "created"
     /\ log[i].task \notin Cancelled(SubSeq(log, 1, seen)) \cup started[r]}

StartTask(r) ==
  /\ Planning(r)
  /\ \E seen \in pos[r] .. Len(log) : \E i \in PendingTasks(r, seen) :
       /\ ToCancel(r, seen) = {} /\ \A j \in PendingTasks(r, seen) : i <= j
       /\ pos' = [pos EXCEPT ![r] = seen]
       /\ started' = [started EXCEPT ![r] = @ \cup {log[i].task}]
       /\ inbox' = [inbox EXCEPT ![r] = Append(@, log[i].task)]
  /\ UNCHANGED <<engine, log, told, cancelPipe, rk>>

(* cancel_task: whether the supervisor has already heard that the task is  *)
(* complete is a race.                                                     *)
SendCancel(r) ==
  /\ Planning(r)
  /\ \E seen \in pos[r] .. Len(log) : \E t \in ToCancel(r, seen) :
       /\ pos' = [pos EXCEPT ![r] = seen]
       /\ told' = [told EXCEPT ![r] = @ \cup {t}]
       /\ \/ cancelPipe' = [cancelPipe EXCEPT ![r] = @ \cup {t}]
          \/ /\ t \in started[r] /\ t \notin rk[r].tasks
             /\ UNCHANGED cancelPipe
  /\ UNCHANGED <<engine, log, started, inbox, rk>>

-----------------------------------------------------------------------------
(* A finite set of numbers in order, and the elements of a sequence that   *)
(* are in a set, in the order of the sequence.                             *)
Ascending(S) ==
  CHOOSE s \in [1 .. Cardinality(S) -> S] :
    \A i, j \in 1 .. Cardinality(S) : i < j => s[i] < s[j]

Keep(s, S) ==
  LET at == Ascending({i \in DOMAIN s : s[i] \in S}) IN [k \in DOMAIN at |-> s[at[k]]]

-----------------------------------------------------------------------------
(* The engine, as functions of a rank's record.                            *)

Submit(e, t) ==
  [e EXCEPT !.tasks = @ \cup {t}, !.all = @ \cup {t}, !.mq = @ \cup {t}]

(* The collective mx_all_gather_tasks: the tasks every rank has listed,    *)
(* sorted by id, which makes the order the same everywhere.                *)
Gathered(lists) ==
  Ascending({t \in Tasks : \A r \in Ranks : t \in lists[r]})

(* A mutant of agree_on_tasks: a rank extends with its own list.           *)
OwnTasks(e, agreed) ==
  [e EXCEPT !.q = @ \o Ascending(e.mq), !.mq = {}]

(* A mutant of agree_on_tasks: what was not agreed on is dropped.          *)
DropDifferent(e, agreed) == [e EXCEPT !.q = @ \o agreed, !.mq = {}]

AgreeOnTasks(e, agreed) ==
  [e EXCEPT !.q = @ \o agreed, !.mq = @ \ Range(agreed)]

(* The first half of agree_on_cancellations: what the pipe holds, without  *)
(* the tasks this rank does not know.                                      *)
CollectCancels(e, pipe) == [e EXCEPT !.mc = @ \cup (pipe \cap e.all)]

(* A mutant of agree_on_cancellations: a rank cancels what it was told.    *)
OwnCancels(e, agreed) == [e EXCEPT !.canc = @ \cup e.mc, !.mc = {}]

AgreeOnCancels(e, agreed) ==
  [e EXCEPT !.canc = @ \cup Range(agreed), !.mc = @ \ Range(agreed)]

ShouldCancel(e, t) == t \in e.canc

(* The head of _queue is started.                                          *)
Pop(e) == [e EXCEPT !.q = Tail(@), !.order = Append(@, Head(e.q))]

Prefill(e, t) ==
  [e EXCEPT !.cur = t, !.left = Chunks[t], !.mode = "prefill",
            !.pc = "collect"]

(* _start_next of the sequential engine: the generator is only built, its  *)
(* prefill runs when it is first advanced.                                 *)
StartGenerator(e) ==
  IF e.q = << >> THEN [e EXCEPT !.act = << >>, !.last = FALSE]
  ELSE [Pop(e) EXCEPT !.act = << Head(e.q) >>, !.last = FALSE]

(* step(), once it has agreed on tasks.  batch: start queued tasks while   *)
(* there is room, each with its prefill, then run what there is.           *)
(* sequential: start a task if none is active and advance its generator.   *)
BatchStep(e) ==
  IF e.q # << >> /\ Len(e.act) < MaxConcurrent THEN Prefill(Pop(e), Head(e.q))
  ELSE [e EXCEPT !.pc = IF e.act = << >> /\ e.batch = {} THEN "results" ELSE "forward"]

SequentialStep(e) ==
  LET s == IF e.act = << >> THEN StartGenerator(e) ELSE e
  IN CASE s.act = << >> -> [s EXCEPT !.pc = "results"]
       [] s.act # << >> /\ s.made[s.act[1]] = 0 -> Prefill(s, s.act[1])
       [] OTHER -> [s EXCEPT !.pc = "forward"]

Step(e) == IF engine = "batch" THEN BatchStep(e) ELSE SequentialStep(e)

(* The top of step(): the batch engine agrees on tasks when its queue is   *)
(* empty, the sequential one when it has no active task.                   *)
BeginStep(e) ==
  IF (IF engine = "batch" THEN e.q ELSE e.act) = << >>
  THEN [e EXCEPT !.mode = "start", !.pc = "agree"]
  ELSE Step([e EXCEPT !.mode = "start"])

(* The prefill is over: the batch engine inserts the sequence and starts   *)
(* the next task, the sequential one goes on to its first token.           *)
Prefilled(e) ==
  IF engine = "batch"
  THEN BatchStep([e EXCEPT !.act = Append(@, e.cur),
                           !.batch = @ \cup {e.cur}])
  ELSE [e EXCEPT !.pc = "forward"]

(* PrefillCancelled: the batch engine goes on with the next task, the      *)
(* sequential one reports the task as finished and takes the next.         *)
CancelledInStep(e, t) ==
  IF engine = "batch" THEN BatchStep(e)
  ELSE [StartGenerator(e) EXCEPT !.ended = {t}, !.toks = << >>,
                                 !.out = << >>, !.pc = "results"]

(* distributed_prompt_progress_callback and on_generation_token, between   *)
(* their two collectives.                                                  *)
Callback(e) ==
  CASE e.mode = "prefill" /\ ShouldCancel(e, e.cur) -> CancelledInStep(e, e.cur)
    [] /\ e.mode = "token" /\ engine = "sequential"
       /\ ShouldCancel(e, Head(e.toks)) -> CancelledInStep(e, Head(e.toks))
    [] OTHER -> [e EXCEPT !.pc = "agree"]

(* Where a rank goes on after agree_on_tasks.                              *)
AfterAgree(e) ==
  CASE e.mode = "start" -> Step(e)
    [] e.mode = "prefill" /\ e.left > 1 ->
         [e EXCEPT !.left = @ - 1, !.pc = "collect"]
    [] e.mode = "prefill" /\ e.left = 1 -> Prefilled([e EXCEPT !.left = 0])
    [] e.mode = "token" ->
         [e EXCEPT !.toks = Tail(@),
                   !.pc = IF Len(e.toks) = 1 THEN "results" ELSE "collect"]

(* One forward pass.  The tokens are the same on every rank; fin are the   *)
(* sequences the MLX generator ends, stop those the engine ends at a stop  *)
(* sequence, which stay in the MLX batch.  The tasks in toks call their    *)
(* on_generation_token: the first token does, then every CheckEvery-th.    *)
Token(e) ==
  LET made == [t \in Tasks |-> IF t \in Range(e.act) THEN e.made[t] + 1
                                                     ELSE e.made[t]]
      toks == Keep(e.act, {t \in Tasks : (made[t] - 1) % CheckEvery = 0})
  IN [e EXCEPT !.made = made, !.toks = toks, !.mode = "token", !.out = e.act,
               !.pc = IF toks = << >> THEN "results" ELSE "collect"]

BatchForward(e, fin, stop) ==
  LET over == Range(e.act) \cap (fin \cup stop)
  IN [Token(e) EXCEPT !.ended = over, !.batch = @ \ fin,
                      !.act = Keep(@, Tasks \ over)]

(* The generator of the sequential engine: a token, or after the last one  *)
(* the barrier and StopIteration, on which the next task is started.       *)
SequentialForward(e, over) ==
  IF e.last
  THEN [StartGenerator(e) EXCEPT !.ended = Range(e.act), !.pc = "results"]
  ELSE [Token(e) EXCEPT !.last = over]

(* _apply_cancellations of the batch engine.                               *)
ApplyCancellations(e) ==
  [e EXCEPT !.act = Keep(@, Tasks \ e.canc),
            !.batch = @ \ (Range(e.act) \cap e.canc),
            !.tasks = @ \ e.canc, !.canc = {}]

(* A mutant of handle_generation_tasks: what has ended is dropped first.   *)
DroppedFirst(e) == Range(e.out) \subseteq e.tasks \ e.ended

(* active_tasks has the task of every chunk of the step.                   *)
TasksFound(e) == Range(e.out) \subseteq e.tasks

(* What handle_generation_tasks does with the results of a step: rank 0    *)
(* sends the chunks, looking up their tasks, then every rank drops the     *)
(* tasks that ended or were cancelled.  The sequential engine never        *)
(* forgets a cancellation.                                                 *)
Results(e, r) ==
  LET d == [e EXCEPT !.tasks = @ \ e.ended, !.ended = {}, !.out = << >>,
                     !.mode = "start"]
      n == [d EXCEPT !.made = [t \in Tasks |->
                                 IF t \in Range(e.act) \cup e.batch
                                 THEN e.made[t] ELSE 0]]
  IN IF r = 0 /\ ~TasksFound(e) THEN [e EXCEPT !.pc = "dead"]
     ELSE IF engine = "batch" THEN ApplyCancellations(n)
     ELSE [n EXCEPT !.tasks = @ \ e.canc]

-----------------------------------------------------------------------------
(* The runner.                                                             *)

At(r, pc) == rk[r].pc = pc

Quiet == UNCHANGED <<engine, log, pos, started, told>>

(* handle_first_task: a generation task arrives while the runner is ready. *)
FirstTask(r) ==
  /\ At(r, "idle") /\ inbox[r] # << >>
  /\ rk' = [rk EXCEPT ![r] = BeginStep(Submit(@, Head(inbox[r])))]
  /\ inbox' = [inbox EXCEPT ![r] = Tail(@)]
  /\ UNCHANGED cancelPipe /\ Quiet

Collect(r) ==
  /\ At(r, "collect")
  /\ rk' = [rk EXCEPT ![r] = [CollectCancels(@, cancelPipe[r])
                               EXCEPT !.pc = "cancels"]]
  /\ cancelPipe' = [cancelPipe EXCEPT ![r] = {}]
  /\ UNCHANGED inbox /\ Quiet

(* The results of a step, then at most one item of the work queue.         *)
EndStep(r) ==
  /\ At(r, "results")
  /\ LET d == Results(rk[r], r)
         take == d.pc # "dead" /\ inbox[r] # << >>
         s == IF take THEN Submit(d, Head(inbox[r])) ELSE d
     IN /\ rk' = [rk EXCEPT ![r] =
                    CASE d.pc = "dead" -> d
                      [] d.pc # "dead" /\ s.tasks = {} -> [s EXCEPT !.pc = "idle"]
                      [] OTHER -> BeginStep(s)]
        /\ inbox' = IF take THEN [inbox EXCEPT ![r] = Tail(@)] ELSE inbox
  /\ UNCHANGED cancelPipe /\ Quiet

(* The collectives.                                                        *)
JointAgree ==
  /\ \A r \in Ranks : At(r, "agree")
  /\ LET agreed == Gathered([r \in Ranks |-> rk[r].mq])
     IN rk' = [r \in Ranks |-> AfterAgree(AgreeOnTasks(rk[r], agreed))]
  /\ UNCHANGED <<inbox, cancelPipe>> /\ Quiet

JointCancel ==
  /\ \A r \in Ranks : At(r, "cancels")
  /\ LET agreed == Gathered([r \in Ranks |-> rk[r].mc])
     IN rk' = [r \in Ranks |-> Callback(AgreeOnCancels(rk[r], agreed))]
  /\ UNCHANGED <<inbox, cancelPipe>> /\ Quiet

(* A generation ends at the latest with its last token.                    *)
MustEnd(t) == rk[0].made[t] + 1 >= MaxTokens

JointForward ==
  /\ \A r \in Ranks : At(r, "forward")
  /\ LET act == Range(rk[0].act) IN
     \/ /\ engine = "batch"
        /\ \E fin \in SUBSET rk[0].batch, stop \in SUBSET act :
             /\ fin \cap stop = {}
             /\ \A t \in rk[0].batch : MustEnd(t) => t \in fin \cup stop
             /\ rk' = [r \in Ranks |-> BatchForward(rk[r], fin, stop)]
     \/ /\ engine = "sequential"
        /\ \E over \in BOOLEAN :
             /\ (\E t \in act : MustEnd(t)) => over
             /\ rk' = [r \in Ranks |-> SequentialForward(rk[r], over)]
  /\ UNCHANGED <<inbox, cancelPipe>> /\ Quiet

Next ==
  \/ \E t \in Tasks : CreateTask(t) \/ CancelTask(t)
  \/ \E r \in Ranks : \/ StartTask(r) \/ SendCancel(r)
                      \/ FirstTask(r) \/ Collect(r) \/ EndStep(r)
  \/ JointAgree \/ JointCancel \/ JointForward

AgreementSpec == Init /\ [][Next]_vars

-----------------------------------------------------------------------------
Collectives == {"agree", "cancels", "forward"}

(* The collective a rank stands at: which, and for the model's own, over   *)
(* which sequences.                                                        *)
Standing(r) ==
  <<rk[r].pc, IF rk[r].pc = "forward" THEN <<rk[r].act, rk[r].batch>>
              ELSE << >> >>

(* Whenever every rank waits in a collective operation, it is the same     *)
(* one, over the same sequences in the same order: agree_on_tasks,         *)
(* agree_on_cancellations and the model's own never meet each other,       *)
(* however late a task or a cancellation reaches a rank.                   *)
SameCollective ==
  (\A r \in Ranks : rk[r].pc \in Collectives) =>
     \A r \in Ranks : Standing(r) = Standing(0)

(* Every rank starts the same tasks in the same order: of two ranks, one   *)
(* has started what the other has and perhaps more (agree_on_tasks).       *)
SameOrder ==
  \A r, u \in Ranks : \/ IsPrefix(rk[r].order, rk[u].order)
                      \/ IsPrefix(rk[u].order, rk[r].order)

(* The only way handle_generation_tasks fails to find the task of a chunk  *)
(* is the one of a task that was cancelled after it had been agreed on and *)
(* before it was started: a task nobody cancelled is never the cause.      *)
OnlyCancelledLost ==
  \A r \in Ranks : rk[r].pc = "dead" =>
     /\ engine = "batch"
     /\ LET lost == Range(rk[r].out) \ rk[r].tasks
        IN  lost # {} /\ lost \subseteq told[r]

(* A task that is not cancelled ends on every rank, or the runner of rank  *)
(* 0 has failed: no rank is left in its loop while the others have left.   *)
Ended(t) == \A r \in Ranks : t \in rk[r].all \ rk[r].tasks

Served ==
  \A t \in Tasks : (t \in Created(log)) ~>
     (Ended(t) \/ t \in Cancelled(log) \/ rk[0].pc = "dead")

TypeOK ==
  /\ engine \in Engines
  /\ \A r \in Ranks :
       /\ pos[r] \in 0 .. Len(log) /\ Len(inbox[r]) <= 1
       /\ started[r] \subseteq Tasks /\ told[r] \subseteq Tasks
       /\ cancelPipe[r] \subseteq Tasks
       /\ rk[r].mq \cup rk[r].mc \cup rk[r].tasks \subseteq rk[r].all
       /\ rk[r].all \subseteq started[r]
       /\ rk[r].pc \in Collectives \cup
            {"idle", "collect", "results", "dead"}

(* The ranks agree: they meet in the same collectives, start the same      *)
(* tasks in the same order, and only a cancelled task can be lost.         *)
Agreed == TypeOK /\ SameCollective /\ SameOrder /\ OnlyCancelledLost
=============================================================================
