------------------------- MODULE InstanceLifecycle --------------------------
(***************************************************************************)
(* One model instance, sharded over the ranks 0 .. WorldSize-1, from its   *)
(* creation to its deletion.  Every rank has a node of its own, whose      *)
(* Worker (src/exo/worker/main.py) reads the replicated log, and every     *)
(* tenth of a second asks plan() (plan.py) for one thing to do: create or  *)
(* kill its runner, download the model, or take the runner through         *)
(* connect, load and warmup, in step with the other ranks as far as the    *)
(* log shows them.  A Worker that has sent a task does not plan again      *)
(* until its runner has acknowledged it.                                   *)
(*                                                                         *)
(* The event plane is the replicated log it implements (ReplicatedLog): an *)
(* event is appended for everyone at once, and applied by every Worker in  *)
(* its own time.                                                           *)
(***************************************************************************)
EXTENDS RunnerSupervisor, FiniteSets, SequencesExt

CONSTANTS
  WorldSize,   \* the ranks of the instance
  Reported,    \* the ranks whose node has already reported the model
  SlowStarts,  \* whether a process starts slower than another is stopped
  MaxRetries,  \* EXO_MAX_INSTANCE_RETRIES
  MaxCrashes,  \* BOUND: runner processes that die of themselves
  Deletable    \* whether a user may delete the instance

Ranks == 0 .. WorldSize - 1

ASSUME LifecycleAssumption ==
  /\ WorldSize \in Nat \ {0}
  /\ Reported \subseteq Ranks
  /\ {SlowStarts, Deletable} \subseteq BOOLEAN
  /\ MaxRetries \in Nat \ {0} /\ MaxCrashes \in Nat

VARIABLES
  deleted,   \* the master has deleted the instance
  inbox,     \* per rank: the events of the log its Worker has yet to apply
  view,      \* per rank: its Worker's State
  sups,      \* per rank: the supervisors it has created, in order
  current,   \* per rank: which of them is in Worker.runners, or 0
  waits,     \* per rank: the supervisor plan_step is waiting for, or 0
  attempts,  \* per rank: what its instance backoff has counted
  download,  \* per rank: absent, requested or reported
  down,      \* the ranks whose Worker an assertion has ended
  crashes    \* processes that have died so far

vars == <<deleted, inbox, view, sups, current, waits, attempts, download,
          down, crashes>>

Sup(r) == sups[r][current[r]]

Others(r) == Ranks \ {r}

Event(kind, rank, status) == [kind |-> kind, rank |-> rank, status |-> status]

Publish(e) == inbox' = [r \in Ranks |-> Append(inbox[r], e)]

(* The instance has just been created.                                     *)
Init ==
  /\ deleted = FALSE
  /\ inbox = [r \in Ranks |-> << >>]
  /\ view = [r \in Ranks |-> [instance |-> TRUE, complete |-> Reported,
                              runners |-> [p \in Ranks |-> "none"]]]
  /\ sups = [r \in Ranks |-> << >>]
  /\ current = [r \in Ranks |-> 0]
  /\ waits = [r \in Ranks |-> 0]
  /\ attempts = [r \in Ranks |-> 0]
  /\ download = [r \in Ranks |->
                   IF r \in Reported THEN "reported" ELSE "absent"]
  /\ down = {}
  /\ crashes = 0

-----------------------------------------------------------------------------
(* apply(): what an event makes of the State v.  A runner that has shut    *)
(* down is forgotten.                                                      *)
ApplyRunnerStatusUpdated(v, e) ==
  [v EXCEPT !.runners[e.rank] = IF e.status = "Shutdown" THEN "none"
                                ELSE e.status]

ApplyNodeDownloadProgress(v, e) == [v EXCEPT !.complete = @ \cup {e.rank}]

ApplyInstanceDeleted(v) == [v EXCEPT !.instance = FALSE]

(* _event_applier                                                          *)
Apply(r) ==
  /\ r \notin down /\ inbox[r] # << >>
  /\ inbox' = [inbox EXCEPT ![r] = Tail(@)]
  /\ LET e == Head(inbox[r]) IN
       \/ /\ e.kind = "runner"
          /\ view' = [view EXCEPT ![r] = ApplyRunnerStatusUpdated(@, e)]
          /\ UNCHANGED attempts
       \/ /\ e.kind = "download"
          /\ view' = [view EXCEPT ![r] = ApplyNodeDownloadProgress(@, e)]
          /\ UNCHANGED attempts
       \/ /\ e.kind = "deleted"
          /\ view' = [view EXCEPT ![r] = ApplyInstanceDeleted(@)]
          /\ attempts' = [attempts EXCEPT ![r] = 0]
  /\ UNCHANGED <<deleted, sups, current, waits, download, down, crashes>>

-----------------------------------------------------------------------------
(* plan(): the first of these that holds is what the Worker does.          *)

Planning(r) == r \notin down /\ waits[r] = 0

SeesFailure(r) == \E p \in Others(r) : view[r].runners[p] = "Failed"

(* Mutants of _kill_runner: a runner does not look at its siblings, or     *)
(* does not look at the instance.                                          *)
MustKillFailed(r) ==
  current[r] # 0 /\ (~view[r].instance \/ Sup(r).status = "Failed")

MustKillUnhealthy(r) ==
  current[r] # 0 /\ (Sup(r).status = "Failed" \/ SeesFailure(r))

(* _kill_runner                                                            *)
MustKill(r) ==
  /\ current[r] # 0
  /\ \/ ~view[r].instance
     \/ Sup(r).status = "Failed"
     \/ SeesFailure(r)

(* A mutant of _create_runner: who has failed waits for the others too.    *)
MustCreateUnlessFailed(r) ==
  current[r] = 0 /\ view[r].instance /\ ~SeesFailure(r)

(* _create_runner: a node waits for the others to recover, unless it has   *)
(* failed itself.                                                          *)
MustCreate(r) ==
  /\ current[r] = 0 /\ view[r].instance
  /\ SeesFailure(r) => view[r].runners[r] = "Failed"

HasRunner(r) == current[r] # 0 /\ ~MustKill(r)

(* _model_needs_download                                                   *)
NeedsDownload(r) ==
  HasRunner(r) /\ Sup(r).status = "Idle" /\ download[r] = "absent"

AllSeen(r, S, statuses) == \A p \in S : view[r].runners[p] \in statuses

(* A mutant of _init_distributed_backend: no rank goes first.              *)
MustConnectLast(r) ==
  /\ HasRunner(r) /\ WorldSize > 1
  /\ Sup(r).status = "Idle"
  /\ AllSeen(r, Others(r), {"Connecting"})

(* _init_distributed_backend                                               *)
MustConnect(r) ==
  /\ HasRunner(r) /\ WorldSize > 1
  /\ Sup(r).status = "Idle"
  /\ AllSeen(r, Ranks, {"Connecting", "Idle"})
  /\ r = WorldSize - 1 => AllSeen(r, Others(r), {"Connecting"})

(* _load_model                                                             *)
MustLoad(r) ==
  /\ HasRunner(r) /\ view[r].complete = Ranks
  /\ \/ WorldSize = 1 /\ Sup(r).status = "Idle"
     \/ /\ Sup(r).status = "Connected"
        /\ AllSeen(r, Ranks, {"Connected", "Loading", "Loaded"})

(* _ready_to_warmup                                                        *)
MustWarmUp(r) ==
  /\ HasRunner(r) /\ Sup(r).status = "Loaded"
  /\ IF r > 0 THEN AllSeen(r, Ranks, {"Loaded", "WarmingUp"})
     ELSE AllSeen(r, Others(r), {"WarmingUp"})

-----------------------------------------------------------------------------
(* plan_step                                                               *)

(* A supervisor that has ended, and is not in Worker.runners, is garbage.  *)
Garbage == End(Dead(NewSupervisor))

Update(r, i, s) ==
  sups' = [sups EXCEPT ![r][i] =
    IF i # current'[r] /\ s.phase = "ended" /\ ~Lives(s) THEN Garbage ELSE s]

Await(r, i, task) ==
  /\ Update(r, i, StartTask(sups[r][i], task))
  /\ waits' = [waits EXCEPT ![r] =
                 IF StartTask(sups[r][i], task).pending THEN i ELSE 0]

(* case Shutdown, up to its wait of at most three seconds.                 *)
KillRunner(r) ==
  /\ Planning(r) /\ MustKill(r)
  /\ current' = [current EXCEPT ![r] = 0]
  /\ Await(r, current[r], "Shutdown")
  /\ UNCHANGED <<deleted, inbox, view, attempts, download, down, crashes>>

(* The acknowledgement, or the three seconds are over.                     *)
StopRunner(r) ==
  /\ r \notin down /\ waits[r] \notin {0, current[r]}
  /\ UNCHANGED current
  /\ Update(r, waits[r], ShutDown(sups[r][waits[r]]))
  /\ waits' = [waits EXCEPT ![r] = 0]
  /\ UNCHANGED <<deleted, inbox, view, attempts, download, down,
                 crashes>>

(* A mutant of the CreateRunner case: it may be tried for ever.            *)
CreateRunnerAnyway(r) ==
  /\ Planning(r) /\ MustCreate(r)
  /\ sups' = [sups EXCEPT ![r] = Append(@, NewSupervisor)]
  /\ current' = [current EXCEPT ![r] = Len(sups[r]) + 1]
  /\ attempts' = [attempts EXCEPT ![r] = @ + 1]
  /\ UNCHANGED <<deleted, inbox, view, waits, download, down, crashes>>

(* case CreateRunner                                                       *)
CreateRunner(r) ==
  /\ Planning(r) /\ MustCreate(r) /\ attempts[r] < MaxRetries
  /\ sups' = [sups EXCEPT ![r] = Append(@, NewSupervisor)]
  /\ current' = [current EXCEPT ![r] = Len(sups[r]) + 1]
  /\ attempts' = [attempts EXCEPT ![r] = @ + 1]
  /\ UNCHANGED <<deleted, inbox, view, waits, download, down, crashes>>

(* The instance has been tried often enough: the Worker sends              *)
(* DeleteInstance, which the master refuses if it has already obeyed.      *)
GiveUp(r) ==
  /\ Planning(r) /\ MustCreate(r) /\ attempts[r] >= MaxRetries
  /\ ~deleted
  /\ deleted' = TRUE
  /\ Publish(Event("deleted", r, "none"))
  /\ UNCHANGED <<view, sups, current, waits, attempts, download, down,
                 crashes>>

(* case DownloadModel: the model is on disk, or the coordinator is asked   *)
(* for it.  Asking again changes nothing.                                  *)
DownloadModel(r) ==
  /\ Planning(r) /\ NeedsDownload(r)
  /\ \/ /\ download' = [download EXCEPT ![r] = "reported"]
        /\ Publish(Event("download", r, "completed"))
     \/ /\ download' = [download EXCEPT ![r] = "requested"]
        /\ UNCHANGED inbox
  /\ UNCHANGED <<deleted, view, sups, current, waits, attempts, down,
                 crashes>>

(* The other tasks: start_task waits until the runner has acknowledged.    *)
StartRunnerTask(r) ==
  /\ Planning(r) /\ ~NeedsDownload(r)
  /\ UNCHANGED current
  /\ \E task \in DOMAIN During :
       /\ \/ task = "ConnectToGroup" /\ MustConnect(r)
          \/ task = "LoadModel" /\ MustLoad(r)
          \/ task = "StartWarmup" /\ MustWarmUp(r)
       /\ Await(r, current[r], task)
  /\ UNCHANGED <<deleted, inbox, view, attempts, download, down,
                 crashes>>

(* The acknowledgement, or the end of _forward_events, lets it plan again. *)
Resume(r) ==
  /\ r \notin down /\ waits[r] # 0 /\ waits[r] = current[r]
  /\ ~Sup(r).pending
  /\ waits' = [waits EXCEPT ![r] = 0]
  /\ UNCHANGED <<deleted, inbox, view, sups, current, attempts, download,
                 down, crashes>>

(* The coordinator has the model, and the master a request to delete it.   *)
Downloaded(r) ==
  /\ download[r] = "requested"
  /\ download' = [download EXCEPT ![r] = "reported"]
  /\ Publish(Event("download", r, "completed"))
  /\ UNCHANGED <<deleted, view, sups, current, waits, attempts, down, crashes>>

DeleteInstance ==
  /\ Deletable /\ ~deleted
  /\ deleted' = TRUE
  /\ Publish(Event("deleted", 0, "none"))
  /\ UNCHANGED <<view, sups, current, waits, attempts, download, down,
                 crashes>>

-----------------------------------------------------------------------------
(* The supervisors and their processes.                                    *)

Keeping(r, i, s) ==
  /\ UNCHANGED current
  /\ Update(r, i, s)
  /\ UNCHANGED <<deleted, view, waits, attempts, download, down>>

Forward(r, i) ==
  /\ sups[r][i].forwarding /\ sups[r][i].events # << >>
  /\ \E s \in Received(sups[r][i]) :
       /\ CompletesItsTask(s)
       /\ Keeping(r, i, ForwardEvent(s))
       /\ \/ \E status \in Forwarded(s) : Publish(Event("runner", r, status))
          \/ Forwarded(s) = {} /\ UNCHANGED inbox
  /\ UNCHANGED crashes

(* The assertion fails, in a task of the Worker's own task group: the      *)
(* Worker ends, and its runners with it.                                   *)
FailAssertion(r, i) ==
  /\ ~CompletesItsTask(sups[r][i])
  /\ down' = down \cup {r}
  /\ sups' = [sups EXCEPT ![r] = [j \in DOMAIN @ |->
                Dead(End(@[j]))]]
  /\ waits' = [waits EXCEPT ![r] = 0]
  /\ UNCHANGED <<deleted, inbox, view, current, attempts, download, crashes>>

(* _watch_runner, every five seconds, whatever the process has sent and    *)
(* the loop of _forward_events has yet to read.  The process is gone, so   *)
(* _check_runner does not wait before its send.                            *)
WatchRunner(r, i) ==
  LET s == sups[r][i] IN
  /\ s.phase = "running" /\ s.proc = "dead"
  /\ Keeping(r, i, [s EXCEPT !.phase = "reporting", !.status = "Failed"])
  /\ UNCHANGED <<inbox, crashes>>

(* _check_runner, once the process has been stopped: its exit code is not  *)
(* zero.                                                                   *)
CheckRunner(r, i) ==
  /\ sups[r][i].phase = "checking"
  /\ Keeping(r, i, [sups[r][i] EXCEPT !.phase = "reporting",
                                      !.status = "Failed"])
  /\ UNCHANGED <<inbox, crashes>>

ReportFailure(r, i) ==
  /\ sups[r][i].phase = "reporting"
  /\ Keeping(r, i, End(sups[r][i]))
  /\ Publish(Event("runner", r, "Failed"))
  /\ UNCHANGED crashes

(* AsyncProcess.stop: a process is given time, then terminated.            *)
StopProcess(r, i) ==
  /\ sups[r][i].phase = "ended" /\ Lives(sups[r][i])
  /\ Keeping(r, i, Dead(sups[r][i]))
  /\ UNCHANGED <<inbox, crashes>>

(* Starting a process takes seconds: the send of a RunnerFailed, which     *)
(* only has to be scheduled, is over by then.  With SlowStarts it takes    *)
(* longer than every Worker needs to see a failure and kill its runner,    *)
(* and every supervisor to stop its process.                               *)
Settled ==
  \A r \in Ranks \ down :
    /\ \A k \in DOMAIN inbox[r] : inbox[r][k].status # "Failed"
    /\ SeesFailure(r) => current[r] = 0
    /\ \A i \in DOMAIN sups[r] :
         i # current[r] => sups[r][i].phase = "ended" /\ ~Lives(sups[r][i])

StartProcess(r, i) ==
  /\ sups[r][i].proc = "starting" /\ sups[r][i].phase = "running"
  /\ \A j \in DOMAIN sups[r] : sups[r][j].phase # "reporting"
  /\ SlowStarts => Settled
  /\ Keeping(r, i, Start(sups[r][i]))
  /\ UNCHANGED <<inbox, crashes>>

HandleTask(r, i) ==
  LET s == sups[r][i] IN
  /\ AwaitsTask(s) /\ s.tasks # << >>
  /\ Keeping(r, i, TakeTask(s))
  /\ UNCHANGED <<inbox, crashes>>

(* A collective operation ends when every rank takes part in it: joining   *)
(* the group, the barrier at the end of a load, a warmup.                  *)
Collective(op, g) ==
  /\ \A r \in Ranks :
       /\ g[r] \in DOMAIN sups[r] /\ sups[r][g[r]].proc = op
       /\ op # "Connecting" => sups[r][g[r]].group \in {g, << >>}
  /\ sups' = [r \in Ranks |-> [sups[r] EXCEPT ![g[r]] = Finish(@, g)]]
  /\ UNCHANGED <<deleted, inbox, view, current, waits, attempts, download,
                 down, crashes>>

(* It fails when a process of the group has gone.                          *)
LosePeer(r, i) ==
  LET s == sups[r][i] IN
  /\ s.proc \in {"Loading", "WarmingUp"} /\ s.group # << >>
  /\ \E p \in Ranks : ~Lives(sups[p][s.group[p]])
  /\ Keeping(r, i, Raise(s))
  /\ UNCHANGED <<inbox, crashes>>

(* A process dies of a signal, or of an exception.                         *)
Crash(r, i) ==
  /\ Lives(sups[r][i]) /\ sups[r][i].phase # "ended"
  /\ crashes < MaxCrashes
  /\ crashes' = crashes + 1
  /\ \/ Keeping(r, i, Raise(sups[r][i]))
     \/ Keeping(r, i, Dead(sups[r][i]))
  /\ UNCHANGED inbox

-----------------------------------------------------------------------------
WorkerStep(r) ==
  \/ KillRunner(r) \/ StopRunner(r) \/ CreateRunner(r) \/ GiveUp(r)
  \/ DownloadModel(r) \/ StartRunnerTask(r) \/ Resume(r)

SupervisorStep(r, i) ==
  \/ Forward(r, i) \/ FailAssertion(r, i) \/ WatchRunner(r, i)
  \/ CheckRunner(r, i) \/ ReportFailure(r, i) \/ StopProcess(r, i)

ProcessStep(r, i) == StartProcess(r, i) \/ HandleTask(r, i)

CollectiveStep ==
  \E op \in DOMAIN After, g \in [Ranks -> 1 .. MaxRetries] : Collective(op, g)

(* What happens of itself.  A user need not delete anything, nor a process *)
(* die, and a process that has lost a peer may hang instead of failing.    *)
Progress ==
  \/ \E r \in Ranks :
       \/ Apply(r) \/ WorkerStep(r) \/ Downloaded(r)
       \/ \E i \in DOMAIN sups[r] : SupervisorStep(r, i) \/ ProcessStep(r, i)
  \/ CollectiveStep

Next ==
  \/ Progress
  \/ \E r \in Ranks : \E i \in DOMAIN sups[r] : LosePeer(r, i) \/ Crash(r, i)
  \/ DeleteInstance

Spec == Init /\ [][Next]_vars

(* Event loops, processes and the network keep going.  No step can be      *)
(* repeated for ever, so this keeps no one waiting for good.               *)
Fairness == WF_vars(Progress)

FairSpec == Spec /\ Fairness

-----------------------------------------------------------------------------
(* Every variable has its type: the current runner is the one created      *)
(* last, EXO_MAX_INSTANCE_RETRIES bounds the attempts of plan_step, and    *)
(* tasks do not queue up at a runner.                                      *)
TypeOK ==
  /\ deleted \in BOOLEAN /\ down \subseteq Ranks /\ crashes \in 0 .. MaxCrashes
  /\ \A r \in Ranks :
       /\ attempts[r] \in 0 .. MaxRetries
       /\ current[r] \in {0, Len(sups[r])}
       /\ waits[r] \in 0 .. Len(sups[r])
       /\ download[r] \in {"absent", "requested", "reported"}
       /\ view[r].complete \subseteq Ranks
       /\ \A i \in DOMAIN sups[r] :
            sups[r][i].status \in Statuses /\ Len(sups[r][i].tasks) <= 1

(* The runner's state machine is never given a task it has no case for,    *)
(* whatever statuses and incarnations the plan was made from: "Received    *)
(* ... outside of state machine" is not raised.  A Worker has one runner   *)
(* at a time, at most one task under way to it, and keeps to its retries.  *)
InsideStateMachine ==
  TypeOK /\ \A r \in Ranks : \A i \in DOMAIN sups[r] :
    LET s == sups[r][i] IN
      AwaitsTask(s) /\ s.tasks # << >> => Takes(s, Head(s.tasks))

(* "If a task has just been completed, we should be working on it": what   *)
(* the supervisor asserts.  The watch, which writes Failed over the status *)
(* while the loop still reads, can make it fail.                           *)
WorkingOnIt == down = {}

(* That is the only way: a completion finds the supervisor working on its  *)
(* task, whatever the delays and deaths, unless the process is gone and    *)
(* _check_runner is at this moment saying so.                              *)
Failing(s) == s.phase = "reporting" /\ s.status = "Failed" /\ ~Lives(s)

CompletionsExpected ==
  \A r \in Ranks : \A i \in DOMAIN sups[r] :
    CompletesItsTask(sups[r][i]) \/ Failing(sups[r][i])

(* A process of a group one of whose members is gone.                      *)
LeftBehind(r) ==
  /\ current[r] # 0 /\ Sup(r).group # << >>
  /\ \E p \in Ranks : ~Lives(sups[p][Sup(r).group[p]])

(* A runner is not left behind for ever by a sibling that has failed: it   *)
(* is killed, and joins a new group.                                       *)
NobodyLeftBehind == \A r \in Ranks : LeftBehind(r) ~> ~LeftBehind(r)

Serving == \A r \in Ranks : current[r] # 0 /\ Sup(r).proc = "Ready"

(* Whatever dies, the ranks that failed and those that wait for them to    *)
(* recover (_create_runner) do not wait for each other: in the end the     *)
(* instance has been downloaded, connected, loaded and warmed up on every  *)
(* rank and serves, or the retries are used up and it is deleted.          *)
Converges == <>[](Serving \/ deleted)

(* "wait for them to fix themselves first": what _create_runner waits for, *)
(* the recovery of a runner that has failed, comes, as long as every       *)
(* Worker runs.  It need not: a status that _forward_events reads while    *)
(* _check_runner is at its send is written over Failed, and _kill_runner   *)
(* looks at its own runner's status here, not in the log.                  *)
WaitsForOthers(r) ==
  /\ r \notin down /\ current[r] = 0 /\ view[r].instance
  /\ SeesFailure(r) /\ view[r].runners[r] # "Failed"

FixedFirst ==
  \A r \in Ranks : WaitsForOthers(r) ~> (~WaitsForOthers(r) \/ down # {})

(* The handshakes of connect, load and warmup never leave every rank       *)
(* waiting for another: the instance comes to rest only when it serves.    *)
RestsServing == ENABLED Next \/ Serving

(* Nothing is left of an instance that has been deleted.                   *)
StopsWithInstance ==
  deleted ~> [](\A r \in Ranks \ down : \A i \in DOMAIN sups[r] :
                  ~Lives(sups[r][i]))
=============================================================================
