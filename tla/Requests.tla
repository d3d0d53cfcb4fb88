------------------------------- MODULE Requests -------------------------------
(***************************************************************************)
(* The life of a generation request: the API (src/exo/api/main.py) sends a *)
(* command to the master and opens a stream for its chunks, the master     *)
(* (src/exo/master/main.py) turns the command into a task, a worker        *)
(* (src/exo/worker/main.py, plan.py) starts it on its runner, and chunks   *)
(* come back as events that everyone applies in the same order             *)
(* (src/exo/shared/apply.py).  The master, the API and the worker each     *)
(* hold their own copy of the state, which lags behind.                    *)
(*                                                                         *)
(*   cmds     commands on their way to the master, in order                *)
(*   up       events on their way to the master, by sender, in order       *)
(*   box      indexed events on their way to the API and to the worker     *)
(*   st       the copies of the state: instances, and tasks with a status  *)
(*   mapping  the master's command_task_mapping                            *)
(*   http     the request: new, sent, open, done or refused                *)
(*   queue    the API's queue of a command: whether it is registered, the  *)
(*            state of its channel, what it holds                          *)
(*   run      the runner's view of a task, told the cancellations sent     *)
(*   got      the number of the last chunk read from an open stream        *)
(* A task is named after its command.                                      *)
(***************************************************************************)
EXTENDS Integers, Sequences, FiniteSets, SequencesExt, Functions

CONSTANTS
  Commands, Instances,
  Kind,          \* [Commands -> {"text", "image"}]
  LastChunk,     \* the chunk that ends a generation (bound)
  MaxFaults      \* runner failures, instances deleted, changes of master (bound)

ASSUME RequestConstants ==
  /\ IsFiniteSet(Commands)
  /\ Kind \in [Commands -> {"text", "image"}]
  /\ LastChunk \in Nat \ {0}
  /\ MaxFaults \in Nat

VARIABLES cmds, up, box, st, mapping, http, queue, run, told, cancelled,
          got, apiUp, lost, faults

rqvars == <<cmds, up, box, st, mapping, http, queue, run, told, cancelled,
          got, apiUp, lost, faults>>

Holders == {"master", "api", "worker"}
InFlight == {"Pending", "Running"}

NewState == [insts |-> Instances, tasks |-> << >>]
NotStarted == [state |-> "no", n |-> 0]
Over == [state |-> "over", n |-> 0]
NoQueue == [registered |-> FALSE, channel |-> "none", buf |-> << >>]

RequestsInit ==
  /\ cmds = << >>
  /\ up = [s \in {"master", "worker"} |-> << >>]
  /\ box = [h \in {"api", "worker"} |-> << >>]
  /\ st = [h \in Holders |-> NewState]
  /\ mapping = {}
  /\ http = [c \in Commands |-> "new"]
  /\ queue = [c \in Commands |-> NoQueue]
  /\ run = [c \in Commands |-> NotStarted]
  /\ told = {}
  /\ cancelled = {}
  /\ got = [c \in Commands |-> 0]
  /\ apiUp = TRUE
  /\ lost = {}
  /\ faults = 0

-----------------------------------------------------------------------------
(* Events, and what applying one does (shared/apply.py).                   *)

TaskCreated(c, i, status) ==
  [kind |-> "TaskCreated", c |-> c, inst |-> i, status |-> status]
TaskStatusUpdated(c, status) ==
  [kind |-> "TaskStatusUpdated", c |-> c, status |-> status]
TaskDeleted(c) == [kind |-> "TaskDeleted", c |-> c]
InstanceDeleted(i) == [kind |-> "InstanceDeleted", inst |-> i]
ChunkGenerated(c, n, fin) ==
  [kind |-> "ChunkGenerated", c |-> c, n |-> n, fin |-> fin]

WithTask(s, c, task) ==
  [s EXCEPT !.tasks = [d \in DOMAIN @ \cup {c} |-> IF d = c THEN task ELSE @[d]]]

EventApply(s, e) ==
  CASE e.kind = "TaskCreated" ->
         WithTask(s, e.c, [inst |-> e.inst, status |-> e.status])
    [] e.kind = "TaskStatusUpdated" ->
         IF e.c \notin DOMAIN s.tasks THEN s
         ELSE [s EXCEPT !.tasks[e.c].status = e.status]
    [] e.kind = "TaskDeleted" ->
         [s EXCEPT !.tasks = [d \in DOMAIN @ \ {e.c} |-> @[d]]]
    [] e.kind = "InstanceDeleted" -> [s EXCEPT !.insts = @ \ {e.inst}]
    [] e.kind = "ChunkGenerated" -> s

-----------------------------------------------------------------------------
(* The API.                                                                *)

Send(c) == cmds' = Append(cmds, c)

(* chat_completions and the like, image_generations, image_edits: the      *)
(* command is sent first, the queue made when the stream is first read.    *)
Request(c) ==
  /\ apiUp /\ http[c] = "new"
  /\ IF st["api"].insts = {}
     THEN /\ http' = [http EXCEPT ![c] = "refused"]
          /\ UNCHANGED cmds
     ELSE /\ http' = [http EXCEPT ![c] = "sent"]
          /\ Send([kind |-> "Generate", c |-> c])
  /\ UNCHANGED <<up, box, st, mapping, queue, run, told, cancelled, got,
                 apiUp, lost, faults>>

OpenStream(c) ==
  /\ apiUp /\ http[c] = "sent"
  /\ http' = [http EXCEPT ![c] = "open"]
  /\ queue' = [queue EXCEPT ![c] = [registered |-> TRUE, channel |-> "open",
                                    buf |-> << >>]]
  /\ UNCHANGED <<cmds, up, box, st, mapping, run, told, cancelled, got,
                 apiUp, lost, faults>>

(* _token_chunk_stream, _generate_image_stream: the next chunk is passed   *)
(* on; after the last one, or once the sender is closed and the buffer     *)
(* empty, the stream ends with TaskFinished.                               *)
ReadStream(c) ==
  /\ apiUp /\ http[c] = "open"
  /\ LET b == queue[c].buf
         ends == IF b = << >> THEN queue[c].channel = "closed"
                              ELSE Head(b).fin # "no"
     IN /\ b # << >> \/ ends
        /\ got' = [got EXCEPT ![c] = IF ends THEN 0 ELSE Head(b).n]
        /\ IF ends
           THEN /\ http' = [http EXCEPT ![c] = "done"]
                /\ queue' = [queue EXCEPT ![c] = NoQueue]
                /\ Send([kind |-> "TaskFinished", c |-> c])
           ELSE /\ queue' = [queue EXCEPT ![c].buf = Tail(@)]
                /\ UNCHANGED <<http, cmds>>
  /\ UNCHANGED <<up, box, st, mapping, run, told, cancelled, apiUp, lost,
                 faults>>

(* The client goes away.  The cancellation reaches the stream while it     *)
(* waits for a chunk: TaskCancelled is sent from a shielded scope, what    *)
(* the finally clause awaits is cancelled again, and the queue stays, with *)
(* its receiver closed.  Or it reaches the task that passes a chunk on,    *)
(* and the stream is only finalized.  (Bound: not after a cancel_command.) *)
Disconnect(c) ==
  /\ apiUp /\ http[c] = "open" /\ c \notin cancelled
  /\ http' = [http EXCEPT ![c] = "done"]
  /\ \/ /\ Send([kind |-> "TaskCancelled", c |-> c])
        /\ queue' = [queue EXCEPT ![c].channel = "broken", ![c].buf = << >>]
        /\ cancelled' = cancelled \cup {c}
     \/ /\ Send([kind |-> "TaskFinished", c |-> c])
        /\ queue' = [queue EXCEPT ![c] = NoQueue]
        /\ UNCHANGED cancelled
  /\ got' = [got EXCEPT ![c] = 0]
  /\ UNCHANGED <<up, box, st, mapping, run, told, apiUp, lost, faults>>

(* cancel_command.                                                         *)
CancelCommand(c) ==
  /\ apiUp /\ queue[c].registered /\ queue[c].channel = "open"
  /\ Send([kind |-> "TaskCancelled", c |-> c])
  /\ queue' = [queue EXCEPT ![c].channel = "closed"]
  /\ cancelled' = cancelled \cup {c}
  /\ UNCHANGED <<up, box, st, mapping, http, run, told, got, apiUp, lost,
                 faults>>

(* delete_instance.                                                        *)
DeleteInstance(i) ==
  /\ apiUp /\ i \in st["api"].insts /\ faults < MaxFaults
  /\ faults' = faults + 1
  /\ Send([kind |-> "DeleteInstance", inst |-> i])
  /\ UNCHANGED <<up, box, st, mapping, http, queue, run, told, cancelled,
                 got, apiUp, lost>>

(* What _apply_state does with a chunk: the queue of the command gets it,  *)
(* a queue whose channel is closed at either end is forgotten.             *)
Deliver(q, e) ==
  CASE ~q.registered -> q
    [] q.registered /\ q.channel = "open" ->
         [q EXCEPT !.buf = Append(@, [n |-> e.n, fin |-> e.fin])]
    [] OTHER -> [q EXCEPT !.registered = FALSE]

(* A seeded fault: the streams of a deleted instance are not closed.       *)
ForgetStreams(s, i) ==
  [c \in Commands |->
     IF c \in DOMAIN s.tasks /\ s.tasks[c].inst = i
     THEN [queue[c] EXCEPT !.registered = FALSE] ELSE queue[c]]

(* _close_streams_for_instance, on the state that has just been applied.   *)
CloseStreams(s, i) ==
  [c \in Commands |->
     IF /\ c \in DOMAIN s.tasks /\ s.tasks[c].inst = i /\ queue[c].registered
     THEN [queue[c] EXCEPT !.registered = FALSE,
                           !.channel = IF @ = "open" THEN "closed" ELSE @]
     ELSE queue[c]]

(* The queue of an image command takes image chunks only: an error chunk   *)
(* fails the assertion, and with it the API.                               *)
AssertionFails(e) ==
  /\ e.kind = "ChunkGenerated" /\ e.fin = "error"
  /\ Kind[e.c] = "image" /\ queue[e.c].registered

ApiApply ==
  /\ apiUp /\ box["api"] # << >>
  /\ LET e == Head(box["api"])
         s == EventApply(st["api"], e)
     IN /\ box' = [box EXCEPT !["api"] = Tail(@)]
        /\ st' = [st EXCEPT !["api"] = s]
        /\ apiUp' = ~AssertionFails(e)
        /\ queue' = CASE e.kind = "ChunkGenerated" /\ ~AssertionFails(e) ->
                           [queue EXCEPT ![e.c] = Deliver(@, e)]
                      [] e.kind = "InstanceDeleted" -> CloseStreams(s, e.inst)
                      [] OTHER -> queue
        /\ lost' = lost \cup
             {c \in Commands :
                /\ http[c] = "sent"
                /\ \/ /\ e.kind = "ChunkGenerated" /\ e.c = c /\ e.fin # "no"
                   \/ /\ e.kind = "InstanceDeleted" /\ c \in DOMAIN s.tasks
                      /\ s.tasks[c].inst = e.inst}
  /\ UNCHANGED <<cmds, up, mapping, http, run, told, cancelled, got, faults>>

-----------------------------------------------------------------------------
(* The master.                                                             *)

InFlightOn(s, i) ==
  {c \in DOMAIN s.tasks : s.tasks[c].inst = i /\ s.tasks[c].status \in InFlight}

LeastLoaded(s) ==
  CHOOSE i \in s.insts : \A j \in s.insts :
     Cardinality(InFlightOn(s, i)) <= Cardinality(InFlightOn(s, j))

(* get_transition_events, for an instance that goes.                       *)
DeletionEvents(s, i) ==
  SetToSeq({TaskStatusUpdated(c, "Cancelled") : c \in InFlightOn(s, i)})
  \o << InstanceDeleted(i) >>

(* _command_processor.  A command decides on the state as it is now: the   *)
(* events of the commands before it may not have come back yet.            *)
MasterEvents(m) ==
  LET s == st["master"] IN
  CASE m.kind = "Generate" ->
         IF s.insts = {} THEN << >>
         ELSE << TaskCreated(m.c, LeastLoaded(s), "Pending") >>
    [] m.kind = "TaskCancelled" ->
         IF m.c \in mapping THEN << TaskStatusUpdated(m.c, "Cancelled") >>
         ELSE << >>
    [] m.kind = "TaskFinished" ->
         IF m.c \in mapping THEN << TaskDeleted(m.c) >> ELSE << >>
    [] m.kind = "DeleteInstance" ->
         IF m.inst \in s.insts THEN DeletionEvents(s, m.inst) ELSE << >>

MasterCommand ==
  /\ cmds # << >>
  /\ LET m == Head(cmds) IN
     /\ cmds' = Tail(cmds)
     /\ up' = [up EXCEPT !["master"] = @ \o MasterEvents(m)]
     /\ mapping' = CASE m.kind = "Generate" /\ st["master"].insts # {} ->
                          mapping \cup {m.c}
                     [] m.kind = "TaskFinished" -> mapping \ {m.c}
                     [] OTHER -> mapping
     /\ lost' = IF m.kind = "Generate" /\ st["master"].insts = {}
                THEN lost \cup {m.c} ELSE lost
  /\ UNCHANGED <<box, st, http, queue, run, told, cancelled, got, apiUp,
                 faults>>

(* _event_processor: an event is indexed and applied.                      *)
IndexEvent(o) ==
  /\ up[o] # << >>
  /\ LET e == Head(up[o]) IN
     /\ up' = [up EXCEPT ![o] = Tail(@)]
     /\ box' = [h \in DOMAIN box |-> Append(box[h], e)]
     /\ st' = [st EXCEPT !["master"] = EventApply(@, e)]
     /\ lost' = IF e.kind = "TaskCreated" /\ e.inst \notin st["master"].insts
                THEN lost \cup {e.c} ELSE lost
  /\ UNCHANGED <<cmds, mapping, http, queue, run, told, cancelled, got, apiUp,
                 faults>>

-----------------------------------------------------------------------------
(* The worker and the runner of each instance (one node).                  *)

Emit(es) == up' = [up EXCEPT !["worker"] = @ \o es]

(* A runner goes when its instance does, and what it was doing with it.    *)
WorkerApply ==
  /\ box["worker"] # << >>
  /\ LET e == Head(box["worker"]) IN
     /\ box' = [box EXCEPT !["worker"] = Tail(@)]
     /\ st' = [st EXCEPT !["worker"] = EventApply(@, e)]
     /\ run' = [c \in Commands |->
                  IF /\ e.kind = "InstanceDeleted" /\ run[c].state = "running"
                     /\ run[c].inst = e.inst
                  THEN Over ELSE run[c]]
  /\ UNCHANGED <<cmds, up, mapping, http, queue, told, cancelled, got,
                 apiUp, lost, faults>>

(* plan_step: _cancel_tasks, then _pending_tasks.  Whatever is planned is  *)
(* first announced with a TaskCreated of the task as the worker knows it.  *)
OnRunner(c) ==
  c \in DOMAIN st["worker"].tasks /\ st["worker"].tasks[c].inst \in st["worker"].insts

ToCancel(c) ==
  OnRunner(c) /\ st["worker"].tasks[c].status = "Cancelled" /\ c \notin told

WorkerCancel(c) ==
  /\ ToCancel(c)
  /\ told' = told \cup {c}
  /\ UNCHANGED <<cmds, up, box, st, mapping, http, queue, run, cancelled,
                 got, apiUp, lost, faults>>

StartsTask(c) ==
  /\ OnRunner(c) /\ st["worker"].tasks[c].status \in InFlight
  /\ run[c].state = "no" /\ \A d \in Commands : ~ToCancel(d)

WorkerStart(c) ==
  /\ StartsTask(c)
  /\ LET t == st["worker"].tasks[c] IN
     /\ run' = [run EXCEPT ![c] = [state |-> "running", n |-> 0,
                                   inst |-> t.inst]]
     /\ Emit(<< TaskCreated(c, t.inst, t.status),
                TaskStatusUpdated(c, "Running") >>)
  /\ UNCHANGED <<cmds, box, st, mapping, http, queue, told, cancelled, got,
                 apiUp, lost, faults>>

(* A seeded fault: the generation misses its end.                          *)
NeverLast(n) == FALSE

IsLast(n) == n = LastChunk

(* The runner makes a chunk; the last one completes the task.              *)
RunnerChunk(c) ==
  /\ run[c].state = "running"
  /\ LET n == run[c].n + 1
         fin == IsLast(n)
     IN /\ run' = [run EXCEPT ![c] = IF fin THEN Over ELSE [@ EXCEPT !.n = n]]
        /\ Emit(<< ChunkGenerated(c, n, IF fin THEN "stop" ELSE "no") >>
                \o IF fin THEN << TaskStatusUpdated(c, "Complete") >> ELSE << >>)
  /\ UNCHANGED <<cmds, box, st, mapping, http, queue, told, cancelled, got,
                 apiUp, lost, faults>>

(* The engine agrees on a cancellation and drops the task, silently.       *)
RunnerCancels(c) ==
  /\ run[c].state = "running" /\ c \in told
  /\ run' = [run EXCEPT ![c] = Over]
  /\ UNCHANGED <<cmds, up, box, st, mapping, http, queue, told, cancelled,
                 got, apiUp, lost, faults>>

(* A seeded fault: the clients of a failed runner are told nothing.        *)
NoErrorChunks(hit) == << >>

ErrorChunks(hit) ==
  SetToSeq({ChunkGenerated(c, run[c].n + 1, "error") : c \in hit})

(* _check_runner: the runner has died, every task in progress gets an      *)
(* error chunk.  Its successor knows none of them.                         *)
RunnerFails(i) ==
  /\ faults < MaxFaults
  /\ LET hit == {c \in Commands : run[c].state = "running" /\ run[c].inst = i} IN
     /\ hit # {}
     /\ run' = [c \in Commands |-> IF c \in hit THEN NotStarted
                                   ELSE run[c]]
     /\ Emit(ErrorChunks(hit))
  /\ faults' = faults + 1
  /\ UNCHANGED <<cmds, box, st, mapping, http, queue, told, cancelled, got,
                 apiUp, lost>>

-----------------------------------------------------------------------------
(* Another master is elected: a new session with an empty state.  reset()  *)
(* forgets the queues of the API without closing them.                     *)
Reset ==
  /\ apiUp /\ faults < MaxFaults
  /\ faults' = faults + 1
  /\ cmds' = << >> /\ mapping' = {} /\ told' = {}
  /\ up' = [o \in DOMAIN up |-> << >>]
  /\ box' = [h \in DOMAIN box |-> << >>]
  /\ st' = [h \in Holders |-> [NewState EXCEPT !.insts = {}]]
  /\ queue' = [c \in Commands |-> [queue[c] EXCEPT !.registered = FALSE]]
  /\ run' = [c \in Commands |-> Over]
  /\ lost' = lost \cup {c \in Commands : http[c] \in {"sent", "open"}}
  /\ UNCHANGED <<http, cancelled, got, apiUp>>

RequestsNext ==
  \/ \E c \in Commands :
       \/ Request(c) \/ OpenStream(c) \/ ReadStream(c) \/ Disconnect(c)
       \/ CancelCommand(c) \/ WorkerCancel(c) \/ WorkerStart(c)
       \/ RunnerChunk(c) \/ RunnerCancels(c)
  \/ \E i \in Instances : DeleteInstance(i) \/ RunnerFails(i)
  \/ \E o \in DOMAIN up : IndexEvent(o)
  \/ ApiApply \/ MasterCommand \/ WorkerApply \/ Reset

RequestsSpec == RequestsInit /\ [][RequestsNext]_rqvars

-----------------------------------------------------------------------------
(* Every variable has its type, and no generation goes past its end.       *)
RequestsTypeOK ==
  /\ \A h \in Holders :
       /\ st[h].insts \subseteq Instances
       /\ DOMAIN st[h].tasks \subseteq Commands
  /\ mapping \cup told \cup cancelled \cup lost \subseteq Commands
  /\ \A c \in Commands :
       /\ http[c] \in {"new", "sent", "open", "done", "refused"}
       /\ queue[c].channel \in {"none", "open", "closed", "broken"}
       /\ run[c].state \in {"no", "running", "over"}
       /\ run[c].n \in 0 .. LastChunk

(* What a client reads is one run of the generation from its first chunk   *)
(* on, or from a later one if the stream was opened too late: nothing is   *)
(* lost in the middle, repeated or taken from another request.             *)
Contiguous ==
  \A c \in Commands : http[c] = "open" =>
     \A j \in DOMAIN queue[c].buf :
        LET read == << [n |-> got[c], fin |-> "no"] >> \o queue[c].buf
        IN  (\A k \in 1 .. j : read[k].fin = "no") =>
              read[j].n = 0 \/ read[j + 1].n = read[j].n + 1

(* A stream that is open ends, unless one of these happened to it: the     *)
(* master had no instance left for the command; the task was indexed after *)
(* its instance had been deleted; the last chunk, or the deletion of the   *)
(* instance, was applied before the queue was made; another master took    *)
(* over.  Neither a runner's failure nor a cancellation leaves it hanging. *)
StreamEnds ==
  \A c \in Commands : (http[c] = "open") ~>
                         (http[c] = "done" \/ c \in lost \/ ~apiUp)

(* cancel_command says that it notifies the workers: once the worker has   *)
(* applied the deletion of a cancelled task, the runner has been told or   *)
(* is no longer running it.                                                *)
WorkersNotified ==
  \A c \in cancelled :
     run[c].state = "running" /\ c \notin DOMAIN st["worker"].tasks
       => c \in told

(* An error of the runner is passed on to the client as an error: it never *)
(* takes the API down.                                                     *)
ApiStaysUp == apiUp

(* What a client reads is the generation it asked for, and no generation   *)
(* goes past its end.                                                      *)
OneGeneration == RequestsTypeOK /\ Contiguous
=============================================================================
