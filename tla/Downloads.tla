------------------------------ MODULE Downloads ------------------------------
(***************************************************************************)
(* The downloads of one model on one node: the worker that asks for it     *)
(* (src/exo/worker/plan.py, main.py), the DownloadCoordinator              *)
(* (src/exo/download/coordinator.py) and the downloaders it drives         *)
(* (src/exo/download/impl_shard_downloader.py).  Everything runs on one    *)
(* event loop: a step is what happens between two awaits.                  *)
(*                                                                         *)
(*   offline   whether the node may not use the network                    *)
(*   disk      what is in the model's directory                            *)
(*   status    the coordinator's download_status, "none" without an entry  *)
(*   heard     the status the cluster has last been told                   *)
(*   cmds      download commands waiting; cp: where the command processor  *)
(*             is suspended, and in which command                          *)
(*   active    the entry of active_downloads: a download, or 0             *)
(*   wrap      download_wrapper, by download: its shard, whether its scope *)
(*             is cancelled, whether it still runs                         *)
(*   task      SingletonShardDownloader.active_downloads, by shard         *)
(*   ticks     a progress callback has been scheduled; fin: one that found *)
(*             everything complete waits for resolve_existing_model        *)
(*   scan      _emit_existing_download_progress: where it is, what it read *)
(*   raced     files were deleted while a check of them was under way      *)
(***************************************************************************)
EXTENDS Integers, Sequences, FiniteSets

CONSTANTS
  Shards,       \* the shards of the model that instances on this node ask for
  MaxLive,      \* download_wrappers running at once (bound)
  MaxUpsets     \* DeleteDownload and CancelDownload commands, and downloads
                \* that fail (bound)

ASSUME DownloadConstants ==
  /\ Shards # {}
  /\ MaxLive \in Nat \ {0} /\ MaxUpsets \in Nat

VARIABLES offline, disk, status, heard, cmds, cp, active, wrap, task, ticks, fin, scan,
          raced, upsets

dlvars == <<offline, disk, status, heard, cmds, cp, active, wrap, task, ticks, fin, scan,
           raced, upsets>>

NoTask == [state |-> "none"]
Waiting == [at |-> "idle"]
NoWrapper == [state |-> "over", cancelled |-> FALSE]

DownloadsInit ==
  /\ offline \in BOOLEAN
  /\ disk \in {"none", "partial", "complete"}
  /\ status = "none" /\ heard = "none"
  /\ cmds = << >> /\ cp = Waiting
  /\ active = 0 /\ wrap = [w \in 1 .. MaxLive |-> NoWrapper]
  /\ task = [s \in Shards |-> NoTask]
  /\ ticks = FALSE /\ fin = FALSE
  /\ scan = Waiting
  /\ raced = FALSE /\ upsets = 0

Found == disk = "complete"

Report(s) == status' = s /\ heard' = s

-----------------------------------------------------------------------------
(* The worker: _model_needs_download, then the DownloadModel case of       *)
(* plan_step.  The back-off keeps it from asking while its last command is *)
(* still on its way.                                                       *)
Asked == cp.at \in {"resolve", "probe"} \/ \E i \in DOMAIN cmds : cmds[i].kind = "start"

WorkerAsks(s) ==
  /\ heard \notin {"ongoing", "completed", "failed"}
  /\ ~Asked
  /\ IF Found THEN heard' = "completed" /\ UNCHANGED cmds
     ELSE cmds' = Append(cmds, [kind |-> "start", shard |-> s]) /\ UNCHANGED heard
  /\ UNCHANGED <<offline, disk, status, cp, active, wrap, task, ticks, fin, scan, raced, upsets>>

(* delete_download and cancel_download of the API, and the master's        *)
(* cancel_unnecessary_downloads.                                           *)
SendCommand(k) ==
  /\ upsets < MaxUpsets
  /\ upsets' = upsets + 1
  /\ cmds' = Append(cmds, [kind |-> k])
  /\ UNCHANGED <<offline, disk, status, heard, cp, active, wrap, task, ticks, fin, scan,
                 raced>>

-----------------------------------------------------------------------------
(* The coordinator's commands.                                             *)

Cancelled == IF active = 0 THEN wrap ELSE [wrap EXCEPT ![active].cancelled = TRUE]

(* _cancel_download *)
CancelDownload ==
  /\ cp = Waiting /\ cmds # << >> /\ Head(cmds).kind = "cancel"
  /\ cmds' = Tail(cmds)
  /\ IF active # 0 /\ status # "none"
     THEN wrap' = Cancelled /\ Report("pending")
     ELSE UNCHANGED <<wrap, status, heard>>
  /\ UNCHANGED <<offline, disk, cp, active, task, ticks, fin, scan, raced, upsets>>

(* _start_download, up to the first search of the model directories.       *)
Skips(st) == st \in {"ongoing", "completed", "failed"}

StartDownload ==
  /\ cp = Waiting /\ cmds # << >> /\ Head(cmds).kind = "start"
  /\ cmds' = Tail(cmds)
  /\ cp' = IF Skips(status) THEN Waiting
           ELSE [at |-> "resolve", shard |-> Head(cmds).shard]
  /\ UNCHANGED <<offline, disk, status, heard, active, wrap, task, ticks, fin, scan, raced, upsets>>

StartResolved ==
  /\ cp.at = "resolve"
  /\ IF Found THEN Report("completed") /\ cp' = Waiting
     ELSE Report("pending") /\ cp' = [cp EXCEPT !.at = "probe"]
  /\ UNCHANGED <<offline, disk, cmds, active, wrap, task, ticks, fin, scan, raced, upsets>>

(* The initial status has been read; _start_download_task.                 *)
StartProbed ==
  /\ cp.at = "probe"
  /\ cp' = Waiting
  /\ CASE Found -> Report("completed") /\ UNCHANGED <<active, wrap>>
       [] ~Found /\ offline -> Report("failed") /\ UNCHANGED <<active, wrap>>
       [] ~Found /\ ~offline ->
            /\ Report("ongoing")
            /\ \E w \in DOMAIN wrap :
                 /\ wrap[w] = NoWrapper
                 /\ \A v \in 1 .. w - 1 : wrap[v] # NoWrapper
                 /\ wrap' = [wrap EXCEPT ![w] =
                              [state |-> "new", cancelled |-> FALSE,
                               shard |-> cp.shard]]
                 /\ active' = w
  /\ UNCHANGED <<offline, disk, cmds, task, ticks, fin, scan, raced, upsets>>

(* _delete_download: the active download is cancelled, and while the files *)
(* go it may still be running.                                             *)
DeleteDownload ==
  /\ cp = Waiting /\ cmds # << >> /\ Head(cmds).kind = "delete"
  /\ cmds' = Tail(cmds)
  /\ wrap' = Cancelled
  /\ cp' = [at |-> "rmtree"]
  /\ UNCHANGED <<offline, disk, status, heard, active, task, ticks, fin, scan, raced, upsets>>

Checking == fin \/ scan.at # "idle" \/ \E s \in Shards : task[s].state = "report"

Deleted ==
  /\ cp.at = "rmtree"
  /\ cp' = Waiting
  /\ disk' = "none"
  /\ raced' = (raced \/ (Found /\ Checking))
  /\ IF status = "none" THEN UNCHANGED <<status, heard>>
     ELSE status' = "none" /\ heard' = "pending"
  /\ UNCHANGED <<offline, cmds, active, wrap, task, ticks, fin, scan, upsets>>

-----------------------------------------------------------------------------
(* download_wrapper and SingletonShardDownloader.ensure_shard: the first   *)
(* to ask for a shard starts its task, the others wait for the same one.   *)

Results == {"ok", "error", "cancelled"}

Join(s) == IF task[s] = NoTask THEN [state |-> "running"] ELSE task[s]

WrapperBegins(w) ==
  LET s == wrap[w].shard
      t == Join(s)
  IN
  /\ wrap[w].state = "new"
  /\ wrap' = [wrap EXCEPT ![w].state =
                IF t.state \in Results THEN t.state ELSE "waiting"]
  /\ task' = [task EXCEPT ![s] = t]
  /\ UNCHANGED <<offline, disk, status, heard, cmds, cp, active, ticks, fin, scan, raced, upsets>>

(* A task is over, and everyone who awaits it is woken.                    *)
Settle(s, result) ==
  /\ task' = [task EXCEPT ![s].state = result]
  /\ wrap' = [w \in DOMAIN wrap |->
                IF wrap[w].state = "waiting" /\ wrap[w].shard = s
                THEN [wrap[w] EXCEPT !.state = result] ELSE wrap[w]]

(* A cancelled scope cancels the task its wrapper awaits.                  *)
CancelReachesTask(w) ==
  /\ wrap[w].state = "waiting" /\ wrap[w].cancelled
  /\ task[wrap[w].shard].state \in {"running", "report"}
  /\ task' = [task EXCEPT ![wrap[w].shard] = [state |-> "cancelling"]]
  /\ UNCHANGED <<offline, disk, status, heard, cmds, cp, active, wrap, ticks, fin, scan,
                 raced, upsets>>

(* A seeded fault: only a download that failed gives up its entry.         *)
PoppedOnError(w) == IF wrap[w].state = "error" THEN 0 ELSE active

(* The wrapper forgets the task that is over, reports an error, and takes  *)
(* whatever entry active_downloads has for the model out of it.            *)
Popped(w) == 0

WrapperEnds(w) ==
  /\ wrap[w].state \in Results
  /\ wrap' = [wrap EXCEPT ![w] = NoWrapper]
  /\ task' = [task EXCEPT ![wrap[w].shard] =
                IF @.state \in Results THEN NoTask ELSE @]
  /\ active' = Popped(w)
  /\ IF wrap[w].state = "error" THEN Report("failed")
     ELSE UNCHANGED <<status, heard>>
  /\ UNCHANGED <<offline, disk, cmds, cp, ticks, fin, scan, raced, upsets>>

-----------------------------------------------------------------------------
(* download_shard in the task: files arrive, callbacks are scheduled.      *)

Receive(s) ==
  /\ task[s].state = "running"
  /\ disk' = IF disk = "none" THEN "partial" ELSE disk
  /\ ticks' = TRUE
  /\ UNCHANGED <<offline, status, heard, cmds, cp, active, wrap, task, fin, scan, raced, upsets>>

(* The last file is in place: its own callback, and the task's, report it  *)
(* once resolve_existing_model has answered.                               *)
DownloadComplete(s) ==
  /\ task[s].state = "running" /\ disk # "none"
  /\ disk' = "complete"
  /\ fin' = TRUE
  /\ task' = [task EXCEPT ![s].state = "report"]
  /\ UNCHANGED <<offline, status, heard, cmds, cp, active, wrap, ticks, scan, raced, upsets>>

TaskReports(s) ==
  /\ task[s].state = "report"
  /\ Settle(s, "ok")
  /\ Report("completed")
  /\ UNCHANGED <<offline, disk, cmds, cp, active, ticks, fin, scan, raced, upsets>>

Fail(s) ==
  /\ task[s].state = "running" /\ upsets < MaxUpsets
  /\ upsets' = upsets + 1
  /\ Settle(s, "error")
  /\ UNCHANGED <<offline, disk, status, heard, cmds, cp, active, ticks, fin, scan, raced>>

TaskCancelled(s) ==
  /\ task[s].state = "cancelling"
  /\ Settle(s, "cancelled")
  /\ UNCHANGED <<offline, disk, status, heard, cmds, cp, active, ticks, fin, scan,
                 raced, upsets>>

(* _download_progress_callback.  Scheduled callbacks outlive the task; a   *)
(* progress callback is dropped within a second of the last one.           *)
ProgressCallback ==
  /\ ticks
  /\ ticks' = FALSE
  /\ \/ Report("ongoing")
     \/ status = "ongoing" /\ UNCHANGED <<status, heard>>
  /\ UNCHANGED <<offline, disk, cmds, cp, active, wrap, task, fin, scan, raced, upsets>>

CompleteCallback ==
  /\ fin
  /\ fin' = FALSE
  /\ Report("completed")
  /\ UNCHANGED <<offline, disk, cmds, cp, active, wrap, task, ticks, scan, raced, upsets>>

-----------------------------------------------------------------------------
(* _emit_existing_download_progress, every minute: read the files, and     *)
(* unless a download is active search the directories again and report.    *)
ScanReads ==
  /\ scan = Waiting
  /\ scan' = [at |-> "check", read |-> disk]
  /\ UNCHANGED <<offline, disk, status, heard, cmds, cp, active, wrap, task, ticks, fin,
                 raced, upsets>>

(* A seeded fault: the scan leaves failed and interrupted downloads alone. *)
SkipsAll(read) == active # 0 \/ status # "none"

ScanSkips(read) == active # 0 \/ (read # "complete" /\ status = "completed")

ScanChecks ==
  /\ scan.at = "check"
  /\ scan' = IF ScanSkips(scan.read) THEN Waiting ELSE [scan EXCEPT !.at = "resolve"]
  /\ UNCHANGED <<offline, disk, status, heard, cmds, cp, active, wrap, task, ticks, fin,
                 raced, upsets>>

(* A seeded fault: any file the scan has read stands for the model.        *)
AnyRead(read) == read # "none"

TakenForComplete(read) == read = "complete" \/ Found

ScanWrites ==
  /\ scan.at = "resolve"
  /\ scan' = Waiting
  /\ Report(IF TakenForComplete(scan.read) THEN "completed" ELSE "pending")
  /\ UNCHANGED <<offline, disk, cmds, cp, active, wrap, task, ticks, fin, raced, upsets>>

-----------------------------------------------------------------------------
(* _command_processor and the scan are a task each: one step is enabled.   *)
CoordinatorStep ==
  \/ CancelDownload \/ StartDownload \/ StartResolved \/ StartProbed
  \/ DeleteDownload \/ Deleted

ScanStep == ScanReads \/ ScanChecks \/ ScanWrites

Downloading(w) == WrapperBegins(w) \/ CancelReachesTask(w) \/ WrapperEnds(w)

DownloadsNext ==
  \/ \E s \in Shards : \/ WorkerAsks(s) \/ Receive(s) \/ DownloadComplete(s)
                       \/ TaskReports(s) \/ Fail(s) \/ TaskCancelled(s)
  \/ \E k \in {"delete", "cancel"} : SendCommand(k)
  \/ CoordinatorStep
  \/ \E w \in DOMAIN wrap : Downloading(w)
  \/ ProgressCallback \/ CompleteCallback
  \/ ScanStep

DownloadsSpec == DownloadsInit /\ [][DownloadsNext]_dlvars

-----------------------------------------------------------------------------
Reports == {"none", "pending", "ongoing", "completed", "failed"}

(* Every variable has its type, and an entry of active_downloads is that   *)
(* of a download that still runs.                                          *)
DownloadsTypeOK ==
  /\ disk \in {"none", "partial", "complete"}
  /\ status \in Reports /\ heard \in Reports
  /\ active = 0 \/ (active \in DOMAIN wrap /\ wrap[active] # NoWrapper)
  /\ \A w \in DOMAIN wrap : wrap[w].state \in {"new", "waiting", "over"} \cup Results

(* The coordinator takes the model for complete only when it is, unless    *)
(* the files were deleted while somebody was checking them.                *)
CompletedIsReal == status = "completed" => Found \/ raced

(* The worker is never left without the model: however downloads are       *)
(* cancelled, deleted, restarted and fail, the model ends up complete and  *)
(* the cluster knows (or a deletion raced a check, and the model is only   *)
(* taken for complete).                                                    *)
Obtained ==
  offline \/ <>[](heard = "completed" /\ (Found \/ raced))

(* The coordinator's books are true, to itself and to the cluster: what it *)
(* takes for complete is on the disk, and what it takes for running runs.  *)
BooksAreTrue == DownloadsTypeOK /\ CompletedIsReal
=============================================================================
