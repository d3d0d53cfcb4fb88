-------------------------- MODULE RunnerSupervisor --------------------------
(***************************************************************************)
(* A runner process (src/exo/worker/runner/runner.py) and the supervisor   *)
(* that watches it (supervisor.py), as one record:                         *)
(*   status     the last status the supervisor has forwarded               *)
(*   phase      running, checking (in _check_runner, stopping the          *)
(*              process), reporting (at the send of RunnerFailed), ended   *)
(*   forwarding whether the loop of _forward_events is still running       *)
(*   pending    whether a start_task is waiting for its acknowledgement    *)
(*   proc       what the process is doing: a status, starting, exited      *)
(*              (code 0) or dead (any other code)                          *)
(*   tasks      the tasks sent to it and not yet taken                     *)
(*   events     what it has sent and the supervisor has not yet read       *)
(*   group      the processes it has joined a group with                   *)
(* The two channels are multiprocessing queues: they outlive the process,  *)
(* and reading from the queue of a dead process blocks.                    *)
(***************************************************************************)
EXTENDS Integers, Sequences

During == [ConnectToGroup |-> "Connecting", LoadModel |-> "Loading",
           StartWarmup |-> "WarmingUp"]

After == [Connecting |-> "Connected", Loading |-> "Loaded",
          WarmingUp |-> "Ready"]

Statuses == {"Idle", "Connecting", "Connected", "Loading", "Loaded",
             "WarmingUp", "Ready", "ShuttingDown", "Shutdown", "Failed"}

(* The process is waiting for its next task.                               *)
AwaitsTask(s) == s.proc \in {"Idle", "Connected", "Loaded", "Ready"}

Lives(s) == s.proc \notin {"exited", "dead"}

NewSupervisor ==
  [status |-> "Idle", phase |-> "running", forwarding |-> TRUE,
   pending |-> FALSE, proc |-> "starting", tasks |-> << >>,
   events |-> << >>, group |-> << >>]

(* The process is gone, and with it what it knew.                          *)
Dead(s) == [s EXCEPT !.proc = "dead", !.group = << >>]

(* run() is over: the channels are closed and whoever waited is released.  *)
End(s) ==
  LET t == [s EXCEPT !.phase = "ended", !.forwarding = FALSE,
                     !.pending = FALSE, !.tasks = << >>, !.events = << >>]
  IN  IF Lives(s) THEN t ELSE Dead(t)

(* A mutant of start_task, which does not wait for the acknowledgement.    *)
SendTask(s, task) ==
  IF s.phase = "ended" THEN s ELSE [s EXCEPT !.tasks = Append(@, task)]

(* start_task: sending to a closed channel drops the task.                 *)
StartTask(s, task) ==
  IF s.phase = "ended" THEN s
  ELSE [s EXCEPT !.pending = TRUE, !.tasks = Append(@, task)]

(* shutdown: the tasks are cancelled, but for a _check_runner, whose       *)
(* awaits are shielded.                                                    *)
ShutDown(s) ==
  CASE s.phase = "running" -> End(s)
    [] s.phase = "ended"   -> s
    [] OTHER -> [s EXCEPT !.forwarding = FALSE, !.pending = FALSE]

(* What a receive finds: the queue, or that the process has closed it,     *)
(* and then what had not been read is lost.                                *)
EndMarks == {"RunnerTerminationError", "EndOfStream"}

Received(s) ==
  LET end == s.events[Len(s.events)] IN
  {s} \cup IF end \in EndMarks THEN {[s EXCEPT !.events = << end >>]} ELSE {}

(* One turn of _forward_events.  A _check_runner that finds another one    *)
(* at its send sends as well, and leaves the rest to it.                   *)
ForwardEvent(s) ==
  LET e == Head(s.events)
      t == [s EXCEPT !.events = Tail(@)] IN
  CASE e \in Statuses -> [t EXCEPT !.status = e]
    [] e = "TaskAcknowledged" -> [t EXCEPT !.pending = FALSE]
    [] e = "TaskComplete" -> t
    [] e = "RunnerTerminationError" ->
         [t EXCEPT !.forwarding = FALSE,
                   !.phase = IF @ = "running" THEN "checking" ELSE @]
    [] e = "EndOfStream" -> [t EXCEPT !.forwarding = FALSE, !.pending = FALSE]

(* What the turn sends on to the log, if anything.                         *)
Forwarded(s) ==
  CASE Head(s.events) \in Statuses -> {Head(s.events)}
    [] Head(s.events) = "RunnerTerminationError" /\ s.phase = "reporting" ->
         {"Failed"}
    [] OTHER -> {}

(* What _forward_events asserts of a task that has been completed.         *)
CompletesItsTask(s) ==
  (s.forwarding /\ s.events # << >> /\ Head(s.events) = "TaskComplete")
    => s.status \in {"WarmingUp", "Loading", "Connecting", "ShuttingDown"}

-----------------------------------------------------------------------------
(* The process.                                                            *)

Send(s, es) == IF s.phase = "ended" THEN s ELSE [s EXCEPT !.events = @ \o es]

(* Runner.__init__                                                         *)
Start(s) == [Send(s, << "Idle" >>) EXCEPT !.proc = "Idle"]

(* The process raises: bootstrap reports the exception.                    *)
Raise(s) == Dead(Send(s, << "RunnerTerminationError" >>))

(* Whether the state machine of handle_first_task takes the task.          *)
Takes(s, task) ==
  \/ task = "Shutdown"
  \/ task = "ConnectToGroup" /\ s.proc = "Idle"
  \/ task = "LoadModel" /\ s.proc \in {"Connected", "Idle"}
  \/ task = "StartWarmup" /\ s.proc = "Loaded"

(* handle_first_task, as far as the collective operation that it starts.   *)
TakeTask(s) ==
  LET task == Head(s.tasks)
      t == [s EXCEPT !.tasks = Tail(@)] IN
  CASE task = "Shutdown" ->
         [Send(t, << "ShuttingDown", "TaskAcknowledged", "TaskComplete",
                     "Shutdown", "EndOfStream" >>) EXCEPT !.proc = "exited"]
    [] task # "Shutdown" /\ Takes(s, task) ->
         [Send(t, << During[task], "TaskAcknowledged" >>)
            EXCEPT !.proc = During[task]]
    [] OTHER -> Raise(t)

(* A mutant of the end of a task: the status first, then the completion.   *)
FinishStatusFirst(s, g) ==
  IF s.phase = "ended" THEN Dead(s)
  ELSE [Send(s, << After[s.proc], "TaskComplete" >>)
          EXCEPT !.proc = After[s.proc], !.group = g]

(* The operation has succeeded, in the group g.  A process whose channel   *)
(* has been closed ends when it tries to say so.                           *)
Finish(s, g) ==
  IF s.phase = "ended" THEN Dead(s)
  ELSE [Send(s, << "TaskComplete", After[s.proc] >>)
          EXCEPT !.proc = After[s.proc], !.group = g]
=============================================================================
