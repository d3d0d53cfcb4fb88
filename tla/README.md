# A verification of exo

exo joins machines into a cluster that serves large models: it finds its peers,
elects a master, keeps one replicated event log, places model instances on nodes,
downloads their files, and drives a runner process per node through connect, load,
warmup and generation; requests come in and go out in the formats of several public
APIs. This directory holds TLA+ models of these parts, the TLC configurations that
check them on small instances, and TLAPS proofs, for instances of any size, about
the event plane, elections, requests, the instance lifecycle, the agreement of ranks,
downloads, the links of the cluster, the prefix cache and the log on disk. Paths below are relative to `src/exo/` unless they begin with `rust/`.

## 1. Inventory

| Component | State it keeps | Operations |
|---|---|---|
| Discovery: `rust/networking` | interfaces, joined groups, last nonce | announce, answer, connect, follow the interfaces |
| Event plane: `routing/event_router.py`, `utils/event_buffer.py`, `master/main.py` | per router `out_for_delivery`, an `OrderedBuffer`, the nack, the receivers; at the master a `MultiSourceBuffer` and the log | hand over, resend, sequence, index, broadcast, receive, nack, replay, feed |
| Log on disk: `utils/disk_event_log.py` | file, buffered writer, offset cache, archives | append, `read_range`, `read_all`, close, rotate |
| Election: `shared/election.py` | clock, seniority, commands seen, session, campaigns, candidates | ballot, connection change, command seen, campaign |
| Node: `main.py` | whether it runs a Master; its EventRouter, Worker, API | `_elect_loop` |
| Cluster state: `shared/apply.py`, `shared/topology.py`, `utils/info_gatherer` | topology, node information, instances, runners, tasks, downloads | `apply`, one case per event |
| Master: `master/main.py`, `master/placement*.py` | `State`, command-to-task map | commands, placement, plan loop |
| Downloads: `download/` | active downloads, status; `.partial` files | start, cancel, delete, scan, progress; fetch, resume, hash, rename |
| Worker: `worker/main.py`, `worker/plan.py`, `utils/keyed_backoff.py` | its replica, its runners, input images | apply an event; one task of `plan()` at a time |
| Runner supervisor: `worker/runner/supervisor.py`, `utils/async_process.py`, `utils/channels.py` | status, pending tasks, process, queues | start and cancel tasks, forward, watch, check, shut down |
| Runner: `worker/runner/runner.py`, `llm_inference/batch_generator.py` | position in Idle .. Ready, queues of tasks and cancellations | `handle_first_task`, agree, generate, prefill for others |
| MLX engine: `worker/engines/mlx` | shards, pending sends, caches, vision features | pipelined prefill, decode, prompt, prefix cache, remote prefill |
| Image engine: `worker/engines/image` | patches on the ring, caches, `_cancelling` | synchronous and asynchronous steps, guidance, drain |
| Parsers: `worker/runner/llm_inference/*parsers.py` | text held back | thinking tags, tool calls, gpt-oss channels, argument coercion |
| API: `api/main.py`, `api/adapters` | queues per command, sent images, pause | send a command, read its stream, cancel, convert in and out |

How they interact: components of a node send events through their EventRouter to
the topic `local_events`; the master sequences them and broadcasts them on
`global_events`; routers feed replicas, which are read by Worker, API and master.
Commands go to the master on a topic of their own. Election messages have their
topic too; a result makes the Node replace router, Worker and API. The Worker
acts only on its replica and on its supervisors' statuses, and everything it does
becomes known to others as an event. Ranks of one instance talk to each other
directly, by sends, receives and collectives of their group.

What is hard here:

- topics drop messages silently (a full inbound channel), repeat and reorder;
- every `await` lets other tasks of the same node run: retry sweeps, disk scans and
  command handlers work on snapshots, campaigns are cancelled between deciding and
  reporting, a supervisor's status is written by two tasks;
- processes die, with or without an exception, with queues half read;
- workers, master and API decide on replicas that lag by different amounts, so a
  task, its cancellation and its instance's deletion meet in every order;
- ranks have no control channel but the data itself: one that leaves a loop while
  another enters it blocks both, or hands it the data of another step;
- timeouts (election, acknowledgements, the supervisor's watch, discovery's tick,
  node silence, the pickup of a remote prefill) race with what they wait for;
- text is matched in pieces, files are resumed in pieces, images travel in pieces.

`PROJECT.json` lists these as hazards, each at its line, with the properties that
would catch it going wrong, and every component with its status.

## 2. Modules

| Module | Models | Checked in |
|---|---|---|
| `OrderedBuffer`, `EventPipeline` | the event plane of one session | `pipeline`, `pipeline_liveness` |
| `ReplicatedLog` | abstract specification: one log, replicas that read it | `pipeline` (refinement) |
| `EventPipelineProofs` | theorems about `EventPipeline` | TLAPS |
| `Election`, `NodeElection` | every task of `Election`; the node that follows it | `election_*` |
| `RunnerSupervisor`, `InstanceLifecycle` | one instance over all ranks: Workers, supervisors, processes | `lifecycle_*`, `serving` |
| `TaskAgreement` | agreeing on tasks and cancellations across ranks | `ranks` |
| `PipelinePrefill` | activations of a pipeline, prefill that may be cancelled | `ranks` |
| `ImagePipeline` | the distributed image engine | `ranks` |
| `Requests` | a request between API, master, worker and runner | `requests` |
| `Downloads`, `FileDownload` | coordinator and downloaders; the files of a download | `serving` |
| `Discovery` | how nodes find each other | `cluster` |
| `Placement`, `PlacementCases` | topology and placement as operators; a family of cases | `cluster` |
| `ClusterState` | reducer, reachability and plan loop for the topology | `cluster` |
| `ImageUpload`, `ImageReply` | input images to the runner, drawn images to the client | `serving` |
| `PromptBuild` | messages to prompt, image features to placeholders | `serving` |
| `PrefixCache` | prefix cache, snapshots, prefill server | `serving`, `prefix_trim` |
| `OutputParsers`, `ToolSchema` | tokens to text, thinking and tool calls; arguments | `serving` |
| `StreamAdapters` | chunks to the events of public protocols | `serving` |
| `DiskEventLog` | the log on disk | `serving` |
| `Selections` | the elements of a sequence at some positions, without recursive operators | used by `PrefixCache`, `DiskEventLog` |
| `NodeElectionProofs`, `InstanceLifecycleProofs`, `ClusterStateProofs` | theorems about the modules they are named after | TLAPS |
| `RequestsProofs` | theorems about `Requests`, `ImageUpload` and `ImageReply` | TLAPS |
| `RanksProofs` | theorems about `TaskAgreement` and `PipelinePrefill` | TLAPS |
| `DownloadProofs` | theorems about `Downloads` and `FileDownload` | TLAPS |
| `ServingProofs` | theorems about `PrefixCache` and `DiskEventLog` | TLAPS |

Three MC modules put several components side by side: `MC_Ranks` (`part`),
`MC_Cluster` (`about`), `MC_Serving` (`station`). The value
of that variable is chosen in the initial state and never changes; it says which
component a behaviour is about, and the others rest in one initial state. These are
sums, not compositions: nothing about the interaction of their parts is claimed. The
compositions, in which parts share state and interleave, are `EventPipeline`,
`NodeElection`, `InstanceLifecycle`, `Requests` and `ClusterState`.

### Event plane

`sent`, `out_for_delivery` and `sweep` are the sending half of an EventRouter;
`multi_buffer`, `event_log` and `traces` the master; `buf`, `nack`,
`internal_outbound` and `feed` the receiving half. A topic is the set of messages
that may still be delivered: a delivery leaves the message there, so it may come
again and in any order; `Lose` takes it out.

- `SendEvent` is `_ingest`. `RetryWake` and `RetryNext` are `_simple_retry`: the
  snapshot is taken once and every turn of its loop ends in an await, so a sweep
  is several steps and anything may come in between.
- `MasterReceive` and `MasterIndex` are `_event_processor`: it drains its buffer,
  indexing one event per step, before it receives again. `TracesCollected` are
  consumed and not logged. `MasterReplay` is the `RequestEventLog` command, at
  most `ReplayLimit` (1000) entries at a time.
- `ReceiveGlobal` and `Forward` are `_run_ext_in`, with the acknowledgement of the
  sender's event, the nack's start and cancellation, and the loop over receivers;
  `NackSend` is `_nack_request` after its back-off.
- `StaleLocal` and `StaleGlobal` are messages of other sessions and masters, of any
  content: the filters on session and origin have to keep them out.

Abstractions: what an event says; the five seconds of a retry and the length of a
back-off (either may elapse at any time); the nack's attempt counter, which only
chooses the back-off. A router's nack task is one value, since the code cancels
the old scope before it starts another.

### Election

A campaign is a task that yields at each `await`, and is modelled by the await it
is at: created, waiting, announcing, sleeping, deciding, reporting, done. `Begin`
notes the round and cancels the campaign whose scope is installed; `Enter` waits
for that one's done event; `Decide` sets the session and `Report` is the send of
the result, so that a campaign can be cancelled between the two, as in the code.
`ReceiveBallot` has the three cases of `_election_receiver`; ballots of this round
go to the list that `_candidates` refers to, whose campaign may be over. A list is
its set of ballots and its length, because `max` and `len` are all that is asked of
it. Node ids are numbers, which preserves the order the code compares them in.

`NodeElection` adds `HandleResult` (one turn of `_elect_loop`), the assertion it
makes (`FailAssertion`, which ends the node), `PauseOnNewElection`, and `Crash`.
A node that comes back is another node, as its id is drawn at every start.

Abstractions: the campaign of `run()`, which has no timeout, is folded into the
initial state; the API reads a ballot when its node does; `InTurn` says that an
event loop runs ready tasks and timers in order. `Timely` says that the network is
fast against the three seconds of a campaign: the timeout elapses when every ballot
cast has arrived. Without it two halves of a cluster may each decide alone, which
the design accepts until the next connection message; agreement is therefore
checked with `Timely`, and termination without it.

### Instance lifecycle

A supervisor with its process is one record (see the head of `RunnerSupervisor`):
its status, whether it runs, checks, reports or has ended, whether it still forwards
and whether a `start_task` waits, what the process is doing, and the two queues. A
process that closes its queue makes the reader lose what it has not read
(`Received`), as `MpReceiver` does.

Per rank, `InstanceLifecycle` keeps the Worker's inbox and view, its supervisors
(a replaced one may still be stopping its process, or reporting), the one that is
current, the one `plan_step` waits for, the retries and the download. `MustKill`,
`MustCreate`, `NeedsDownload`, `MustConnect`, `MustLoad` and `MustWarmUp` are the
functions of `plan.py` in their order; `KillRunner`, `StopRunner`, `CreateRunner`,
`GiveUp`, `DownloadModel`, `StartRunnerTask` and `Resume` are the cases of
`plan_step`, cut at their awaits. `Forward`, `WatchRunner`, `CheckRunner`,
`ReportFailure` and `StopProcess` are the tasks of a supervisor; `FailAssertion` is
what follows when the assertion of `_forward_events` fails. `Collective` is an
operation of the whole group, external to the repository: it succeeds when every
member takes part, and `LosePeer` is its failure.

Abstractions: the event plane is the replicated log that it is proved to implement,
with an append that is visible to all inboxes at once and applied by each Worker in
its own time; downloads succeed; the progress of `RunnerLoading` is one status;
cancelling a supervisor's tasks is one step; back-off times are left out, their
counts are not. The watch comes round at any time, also when the process has sent what
the supervisor has not read yet: `_check_runner` and `_forward_events` then both write
the status. There are two timing assumptions, so that each run says what it depends on:

- `SlowStarts`, a constant: starting a process (seconds: it imports MLX) takes longer
  than every Worker needs to see a failure and kill its runner.
- `ReadsFirst`, an action constraint of `lifecycle_recovery` alone: a dead process's
  queue has been read when the five-second watch comes round. `Converges` needs it, and
  section 6 says what happens without it (`WorkingOnIt`, `FixedFirst`).

### Ranks of an instance

`TaskAgreement`: each rank's worker has seen one log of events up to a place of its own
(`pos`), starts tasks and sends cancellations (`StartTask`, `SendCancel`), and the runner collects, agrees, starts, steps and answers, for both engines. A
collective is one joint step of ranks that stand at the same one; that they never
stand at different ones is a property, not a guard. The record `rk` holds what
`BatchGenerator` and `SequentialGenerator` keep.

`PipelinePrefill` and `ImagePipeline` turn a rank into a program: the list of sends,
receives and collectives its code performs for its shard and step. A receive blocks
until the link has something and takes what comes first, whatever it is; the
properties say that it is what the program meant. In `PipelinePrefill` the program is
cut into rounds (`RoundOf`), one for each time the loops of `prefill`,
`pipeline_parallel_prefill` and the decoding come round: a chunk with its callback and
its flush, a callback without a chunk, a pass. In `ImagePipeline` a cancelled rank
sends NaN, and whoever receives only NaN cancels too; layouts say how many ranks,
guidance branches, images, steps and patches there are.

### Requests

`Requests` has three replicas of the state (master, API, worker), the ordered event
stream between them, the queue a stream is read from, and the runner's view of the
task. A queue exists from the moment its stream is first read, chunks that come before
are dropped, as in `_token_chunk_stream`. `RunnerFails`, `DeleteInstance`,
`CancelCommand`, `Disconnect` and a change of master (`Reset`) happen at any step. Events are
taken to be ordered per sender and indexed once: that is what the event plane is
proved to do.

### Downloads

`Downloads` is the coordinator's event loop cut at its awaits: the command processor,
each `download_wrapper`, the progress callbacks (which run as tasks of their own), and
the periodic scan with what it has read so far. A download is abstract there (it
completes, fails, or is cancelled). `FileDownload` is the inside of one: partial files
with the version of every byte, resumption by length, the hash, the rename, the
attempts, and jobs that outlive the call that started them because `gather` does not
cancel them.

### Cluster

`Discovery` numbers nodes in the order of their ids and lets datagrams be lost, late
and overtaken. A nonce is drawn from those nobody has. `ClusterState` applies topology
edges, gathered information and timeouts to the reducer's topology and lets the plan
loop remove broken instances. `Placement` is pure: the order in which the graph
library returns cycles is a choice, everything after it is an operator named as in the
code. `PlacementCases` runs it on a family of topologies, memories and models.

### Stations of a request

`PromptBuild` reads messages of six formats one by one as the adapters do, then renders
and fills placeholders by counting. Its prompts of tokens are sequences of whole think
tags, pieces of them and text, for tags of one token and of two, some of which share a
token; `ThinkStep` keeps the two accumulated lengths and the depth of
`fix_unmatched_think_end_tokens`. That images keep their placeholders in messages of
every role (`FormatVlm`) is what the templates of the models do, outside the repository.
`PrefixCache` models a cache by the tokens its layers have read, for models of three
kinds: key-value layers only; recurrent or rotating layers too, which can only go back
to a snapshot; and DeepSeek V4, whose layers `trim_cache` trims although a snapshot was
taken and chosen for them, so that their compressor branches keep what they have read.
A trim of such a layer is external code, of which the model takes what
`is_non_trimmable_cache_entry` says: it does not roll back the whole state.
`OutputParsers` writes texts as symbols with their places in the generation, with
markers two symbols long, so that a token may hold half of one. `parse_gpt_oss` yields a
last response that has a delta twice, the second time with the response's own text, and
so does the model (`GenerateOss`, with a finish of either kind); what a client is told
(`Told`) is the stream up to the first final chunk, where `_token_chunk_stream` stops
reading. `StreamAdapters` reads
chunks and keeps the locals of each adapter. `ToolSchema` coerces JSON values by their
types. `ImageUpload` and `ImageReply` follow chunks of images. `DiskEventLog` has a file,
a writer's buffer that a crash loses, the offset cache with eviction, readers that
hold a file that has been rotated away, and a thread that reads it all. Each file has a
history variable, `recs`: the events that `append` was called with and where the record
of each begins. What a read has returned is compared with it, never with the file that
was read.

## 3. Runs

| Run | Distinct states | Bounds |
|---|---|---|
| `pipeline` | 1.2 million | two routers, three events of which the second is a trace, leftovers of another session, replies of one entry |
| `pipeline_liveness` | small | one router, two events, loss |
| `election_master` | 1.8 million | three nodes, one death or one command, `Timely` |
| `election_settle` | 0.27 million | two nodes, a flap and a death, network of any speed |
| `election_router` | (violation) | two nodes |
| `lifecycle_handshake` | 1.2 million | three ranks, one of which has to download its model, each at most four events behind the log, nothing dies |
| `lifecycle_recovery` | 0.40 million | two ranks, a death, two attempts, a deletion once it serves and before anything dies, both timing assumptions |
| `ranks` | 51 thousand | two ranks and two tasks; three stages and two requests; seven image layouts |
| `requests` | 1.0 million | one request of two chunks, one fault |
| `cluster` | 0.12 million | two nodes with two interfaces and a fault; two nodes with an upset; topologies of three and four nodes |
| `serving` | 0.54 million | see below |
| `prefix_trim` | (violation) | two requests over three prompts |

Why these bounds. Three nodes are the fewest in which a late round overtakes an
election of two others, three ranks the fewest with a first, a middle and a last one,
which `plan.py` and the pipelines treat differently; two tasks and one cancellation
can reach two ranks in every order; a rank with three chunks can be two ahead of one
that needs one. With `ReplayLimit = 1` every replay is cut short. Two interfaces let
one go away while the other is being announced on. The seven image layouts have at
least one each of: one rank, two and three stages, guidance in sequence and in
parallel, more images than one, uneven patches, partial images.

The runs that check liveness have the smallest bounds, since that is what takes time.
Where a safety property is also a theorem the bounds do not limit what is known of it:
an instance of several ranks that is deleted before it serves, or before something dies,
is not explored by `lifecycle_recovery` (`DeletedInService`; `serving` deletes one of a
single rank at any time), nor is a late queue of several ranks, but `TasksFitTheRunner` and `CompletionsAreExpected` cover it,
as `BooksStayTrue` covers any number of upsets and `LogIsReadExactly` any log.
`KeepsUp`, the bound on how far a Worker is behind, is used in a run without temporal
properties only.

Event plane:

- `pipeline`: `TypeOK`, `IndexedOnce`, `ProducerOrder`, `NothingForgotten`,
  `ReplicasReadTheLog`, `NoIndexConflict` and the refinement `ImplementsReplicatedLog`;
  the theorems of section 5 lift them to any instance.
- `pipeline_liveness`: `EventuallyIndexed`, `EventuallyApplied`.

Election:

- `election_master`: `TypeOK` (the bookkeeping of lists and awaited campaigns),
  `OneMaster`, `NobodyStaysPaused`.
- `election_settle`: `EventuallySettled`, campaigns that cancel and await one another
  come to an end.
- `election_router` is expected to be violated, see section 6.

Instance lifecycle:

- `lifecycle_handshake`: `RestsServing`.
- `lifecycle_recovery`: `InsideStateMachine` (which has the type invariant as its first
  part), `Converges`, `NobodyLeftBehind`.
- `serving`, with one rank and however late its queue is read: `CompletionsExpected`,
  `StopsWithInstance`.

Ranks (`MC_Ranks`):

- `Agreed`: types; `SameCollective`, waiting ranks wait in the same collective;
  `SameOrder`, they start the same tasks in the same order; `OnlyCancelledLost`, only a
  cancelled task can be missing when its chunk comes.
- `PassesKeptApart`: `OwnPasses` and `NothingUnderWay`, a rank's cache holds the passes
  of its request and nothing is left on a link between requests.
- `InStep`: `Paired` (a receive finds the tensor it expects), `EndsTogether`,
  `FreshCache`, `PartialsAndPatches`.
- `RanksEnd`: `Served`, `PrefillEnds`, `GenerationEnds`.

Requests: `OneGeneration` (types, and `Contiguous`: a client reads one run of one
generation) and `StreamEnds`.

Cluster:

- `LinksHold`: `RdmaOnlyEnabled`, `BridgeCyclesEnabled`, types.
- `PlacedRight`: `LayersPartition` (each layer on one rank), `LastStagesMeet`,
  `SearchExact` (the search that stops early finds what filtering every cycle finds),
  `TruncationTold`.
- `PeersConnect` (within a namespace all that can, across namespaces none) and
  `BrokenInstancesGo`.

Serving (`MC_Serving`), one station at a time:

- Downloads: `BooksAreTrue` (types, `CompletedIsReal`) and `Obtained`, with one shard, two
  wrappers and one upset; `WholeFiles` (types, `Intact`) and `FilesArrive`, with two
  files of two versions, two calls, a drop and a commit.
- `RightImages` (input images); `RepliesWhole`: `WholeImages`, `NoneMissing` (drawn
  ones); `ImagesArrive`: `UploadServed`, `ReplyArrives`. Two requests that share images
  of two parts and one, two sessions, a lost command; two drawn images with two partials
  of two chunks.
- `PromptIsConversation`: `ImagesInPlace`, `EverythingSaid`, `CallsBeforeReplies`,
  `ThinkingBegun`, `BegunUntouched`. Three messages in each of six formats; prompts of
  five tags, pieces and texts for each pair of think tags.
- `ReuseIsExact`: `DecodesThePrompt`, `SomethingToDecode`, `SnapshotsOfThePrompt`.
  Three requests over six prompts that extend, branch, or show other images, with
  layers of each kind.
- `prefix_trim` (`MC_PrefixCache`, the prefix cache by itself) is expected to be
  violated, see section 6.
- `SaidIsTold`, which is `ParsedExactly` and `StreamIsReply`. `ParsedExactly`:
  `StreamIsEnded`, `NoTextLost`, `ThinkingExact` over generations of four
  tokens; `CoercedOnce`, `FittingUntouched` over values and schemas one level deep.
  `StreamIsReply`: `BlocksBracketed`, `EndIsTold`, `StreamAsCollected`. Five chunks.
- `LogReadExactly`: `RangeExact`, `OffsetsExact`, `WholeIsPrefix`. Three records,
  two logs, a cache of two offsets, two readers.
- `CompletionsExpected` and `StopsWithInstance`: one rank, a death, deletion at any time,
  no timing assumption.

Deadlock is not checked in any of them: the inputs are bounded, and when they are
used up a system that has done its work stops. What may not stop short is stated
by `RestsServing` and the liveness properties. No symmetry set is used: node ids, ranks
and tasks are ordered, and most runs check liveness. The two files and the two calls of
`FileDownload` can be exchanged, also under the fairness and in the properties; there
`FirstOnes` keeps of behaviours that are renamings of each other the one that makes
call 1 first and changes a certain file.

## 4. Fairness

- `EventPipeline!Fairness`: tasks of a running event loop are resumed (weak). A
  message that is sent again and again gets through some time (strong, for
  `MasterReceive`, `ReceiveGlobal`, `MasterReplay`), and an entry that stays in
  `out_for_delivery` is found by some sweep (strong), as every sweep takes all that
  are old enough. `LaterTraffic` is fair because Workers send telemetry
  periodically as long as they run; without later events a gap at the very end of
  the stream is not noticed, since a nack is only raised by an arrival.
- `NodeElection!Fairness`: every node's loop runs its tasks, the network delivers
  (weak). Nothing is assumed of connection changes, commands and deaths.
- `InstanceLifecycle!Fairness`: weak fairness of `Progress` as a whole. That is
  enough, because within the bounds no step can be repeated for ever, so no step
  stays enabled unheeded. Deaths, deletions and the failure of an operation
  whose peer is gone are left out: a process that has lost a peer may hang.
- `MC_Ranks`: every rank takes its next step, joint steps happen when all ranks have
  come to them, workers apply events, start tasks and send cancellations (weak).
  Nothing is assumed of arrivals and cancellations.
- `MC_Requests`: streams are opened and read, commands and events are taken in order,
  the worker plans, the runner goes on or takes a cancellation (weak). Requests,
  cancellations, disconnects, deletions and failures come from outside.
- `MC_Cluster`: the discovery task goes on and the watcher's callbacks run (weak);
  receiving is strongly fair, as `select!` of tokio picks at random among the branches
  that are ready, so that a branch that is ready again and again is taken. A dead
  node is silent, silence times out, events are applied, the plan loop runs (weak).
- `MC_Serving`: every ready task of the downloads' loop runs; the network delivers what it
  has been asked for (`Downloading`, `FileStep`); the scan comes round; the worker asks
  again, as `plan()` does (weak); what was accepted is sent, applied and started; the reader of a reply
  reads (weak); `Progress` of the lifecycle as above.

## 5. Proofs

Twenty-one theorems; each has the safety property of a run, or the refinement, as its
conclusion and holds for every value of the constants. What a constant has to satisfy
is an `ASSUME` of the module that declares it and is evaluated by the runs. None of
the properties is inductive as it stands. Each proof module states an inductive
invariant (`Inv`), has a lemma for every action, and combines them in `NextInv` or
`StepInv`; the theorem follows with `PTL`.

### Event plane

`EventPipelineProofs` proves, for any sets of routers, senders and receivers, any
bound on the events, any leftovers of other sessions and any replay limit, from the
assumptions named in `EventPipeline` (`OriginAssumption`: senders of this session
and others are distinct; `HomeAssumption`; `TracesAssumption`; `BoundAssumption`;
`StaleAssumption`: a leftover differs in session or, on `global_events`, in master):

- `TypeCorrect`, `IndexedOnceHolds`, `ProducerOrderHolds`, `NothingForgottenHolds`,
  `NoIndexConflictHolds`, `ReplicasReadTheLogHolds`: `Spec => []P` for the
  safety properties of `pipeline`;
- `Refinement`: `Spec => ImplementsReplicatedLog`.

The argument. None of the properties is inductive: that a router feeds the right
event depends on what its buffer holds, that on what is on the topic, and that on
what the master has put there. `Inv` follows the events along their way:

- `LocalInv`: a message of this session on `local_events` is the event its sender
  handed over under that index;
- `MasterInv`: so is whatever the master's buffers hold, below what has been sent;
- `LogInv`: a logged event of a sender is below the index that sender's buffer
  releases next, and everything below is logged or a trace; with it, that an event
  is released once gives `IndexedOnce` and `ProducerOrder`;
- `GlobalInv`: a message of this session and master carries the log's entry at its
  index, though the log has grown since;
- `RouterInv`: so does a router's buffer, which releases no further than the log;
- `FeedInv`: a receiver was fed the log up to what its router released, or up to
  where it closed;
- `SenderInv`: what is out for delivery, or in a sweep's snapshot, has been sent.

`NothingForgotten` is inductive with `GlobalInv`, since an acknowledgement is the
arrival of a log entry. There is a lemma for each action, `NextInv` combines them,
and the theorems follow with `PTL`. For the refinement, `MasterIndex` of an event
that is no trace is `Index`, `Forward` is `Read` by the open receivers of a router,
and everything else leaves the abstract state alone; that abstract events are
bounded needs the separate `BoundHolds`.

### Election

`NodeElectionProofs`, for any nodes, networks, flaps of the links and deaths; the
timing assumption of `election_master` is not needed:

- `BookkeepingHolds`, `Spec => []TypeOK`;
- `ApiGoesOn`, `Spec => []NobodyStaysPaused`: a node with no result to take and no
  campaign under way does not leave its API paused.

A node may have several campaigns under way: `_election_receiver` cancels one and
starts the next without waiting, and a campaign that is past its last `await` is not
cancelled. The invariant, `Sound`, says of every node that its campaigns keep their
order (`Ahead`), that the last one is never cancelled and is of the node's round
(`CampaignOK`), and that when all are over what the node was told last is the result
of its round, taken by `_elect_loop` (`Reported`). An earlier campaign may still
report, but before the last one, and the result of a later round ends the pause. That
a campaign has a winner needs that a finite list of ballots has a greatest one, for
which the order on ballots has to be one (`LessIsAnOrder`, `GreatestExists`).

### Requests

`RequestsProofs`: `OneGenerationHolds`, `RequestsSpec => []OneGeneration`, for any
finite set of commands and any numbers of instances, chunks and faults. That a client
reads one run of one generation depends on the chunks that are still on their way, so
the invariant looks at all of them: `Flow` is what the API has not applied yet followed
by what the worker has sent and the master has not indexed. By `Steady`, every chunk in
it that is not final is followed there by the next one of its command, or by none and
the runner stands just behind it or is over. By `Linked`, the last chunk the client
has been given, or that its queue holds, is followed in the same sense by `Flow` as
long as the queue takes chunks. `InOrder` is the same for what has been read and what
the queue holds. Indexing an event moves a chunk within `Flow`, past events of the
master that are no chunks; a failure appends to it and ends the run; when the master
changes, events are lost together with the queues that would have shown the gap.

### Images

`RequestsProofs` also has the images of a request. `ImagesAreRight`,
`UploadSpec => []RightImages`, for any requests, images and numbers of chunks, sessions
and lost commands: by `UploadInv`, every chunk of an edit that is left to send, under way
or buffered is a piece of its image at the index where it belongs (`JobOK`,
`MessageOK`). There are as many pieces as the image has chunks, so a buffer that has
that many has them all (`ImagesThere`), and sorting it gives the image. For a text
generation the content of an image stands for its hash.

`RepliesAreWhole`, `ReplySpec => []RepliesWhole`, for any numbers of images, partials
and chunks. `ReplyInv` says where in the order of chunks the reader is (`ChunksOK`),
that it holds chunks under their own key and index only (`Holds`), and, for one that
reads a stream from the start, that it holds the chunks of one image up to the one it
took last and nothing else (`ReadInOrder`), so that what it completes is one image.
`NoneMissing` does not need the start: a stream counts the final images it has yielded
(`StreamOK`), and a collector those it has all chunks of, which it cannot complete
twice, as it takes each chunk once (`CollectOK`).

### Instance lifecycle

`InstanceLifecycleProofs`, for any numbers of ranks, attempts and deaths:

- `TasksFitTheRunner`, `Spec => []InsideStateMachine`: what `plan()` sends to a runner
  is what `handle_first_task` accepts in the state it is in;
- `CompletionsAreExpected`, `Spec => []CompletionsExpected`: what the assertion of
  `_forward_events` asks for holds whenever there is a completion to read, unless the
  process is gone and `_check_runner` has written `RunnerFailed` and not yet sent it.
  There the assertion may fail (`WorkingOnIt`, section 6), and by this theorem nowhere else.

Neither needs a timing assumption.

`plan()` reads statuses that lag behind the process, so the invariant says by how
much: `Flow(s)` lists what the supervisor can still have to read while its process is
starting, has started, works or has finished, and `Asked` what the process has been
sent. `CurOK` says of the supervisor in `Worker.runners` that it has at most one task,
whose acknowledgement comes once and is what `start_task` waits for; with it, when
`plan_step` goes on, all that could make the next plan wrong has been read.
`Completes` orders the queue: a completion comes right after the acknowledgement of
its task, and that after a status in which a completion is taken; when that status has
been read it is still the supervisor's, or the watch has written over it (`Expects`).

### Task agreement

`RanksProofs`: `RanksAgree`, `AgreementSpec => []Agreed`, for any numbers of
ranks, tasks, prefill callbacks, tokens and cancellations, for both engines and any
order in which tasks and cancellations reach the ranks.

Between two collectives a rank does only what follows from what it holds, so the proof
compares ranks that have gone on: `Settle(e)` is the record of a rank advanced to its
next collective, and by `InTune` any two ranks, each settled, have the same mode,
queue, active tasks, cancellations, batch and history, and stand at the same
collective. What a rank has for itself is left out of the comparison: the tasks and
cancellations it has been sent and not agreed on, and the runner's `active_tasks`. A
step of one rank leaves its settled record as it was (`FirstTaskMet`, `CollectMet`,
`EndStepMet`); at a collective the ranks are settled already, get the same result, and
an operation of the engine applied to records that are the same gives records that are
the same (the lemmas `...Same`). Rank 0 may fail where the others go on; its settled
record is that of a rank that has not failed.

`RankOK` is the bookkeeping of one rank: a task is listed, queued and started once
(`Books`), and whatever is active or queued has an entry in `active_tasks` unless it
was cancelled (`Kept`). What may be missing differs: with the batch engine it is any
task the rank was told to cancel, with the sequential one only a task whose
cancellation was agreed on, and not one that makes tokens. `Stage` says what goes with
the place where the rank stands.

### Pipeline prefill

`RanksProofs`: `PassesStayApart`, `PipelineSpec => []PassesKeptApart`, for any numbers
of stages, chunks, tokens and requests.

The property is not inductive: that the first thing on a link is the pass the receiver
is at follows from how far both ends have come, and that nothing is left when a
request is cancelled from how far the ranks can be apart at a callback. `PipeInv` says
it with counts. `Made` and `RoundMade` state once which operations a round has (`Has`)
and that they come in one order, whatever the round; from then on a rank is its round
and the set of operations left of it (`ProgOK`). Of these three counts are functions:
the passes a rank has taken in (`Took`), those it has given on (`Gave`), and the
collectives it has taken part in (`Meetings`). `Serving` says that what a rank has read
are as many passes as it took in, that what one has given and the next has not taken
is on the link or, between send and flush of a long prefill, held back (`LinkOK`), and
that all ranks have met equally often.

A step of one rank moves its counts by at most one, and the link with them
(`LinkTaken`, `LinkSent`, `LinkQueued`, `LinkFlushed`). In `CancelKeeps` all ranks are
at a callback; having met equally often they are in the same round, and in the same
round of a long prefill rank r + 1 has taken in exactly what rank r had flushed, for it
does the chunk that rank r did a round before (`NoneBetween`): every link is empty, and
what is held back is cleared. That the flush comes after the callback, and the leading
and trailing dummies, are used here.

### Downloads

- `BooksStayTrue`, `DownloadsSpec => []BooksAreTrue`, for any numbers of shards, of
  downloads at a time and of upsets. `SeenComplete` says that everybody who is going to
  report the model complete (a task, a last callback, a scan, `fin`) has seen it
  complete, and that it was deleted since only if `raced`; `Entered`, that an entry of
  `active_downloads` is that of a download that still runs.
- `FilesAreWhole`, `FileDownloadSpec => []WholeFiles`, for any files, versions, sizes,
  calls and attempts (`1 \in Versions`: a repository has a first version). `Held`
  follows the handles: one is open only while a response is read, and leads to a file
  that is there. `Alone` says of a file that was never `shared` that one job at most
  has a hand in it, none has a handle on what is in place, and what is in place is
  whole; that a rename cannot carry an open handle into place is what the proof turns
  on.

### Cluster links

`ClusterStateProofs`: `LinksAlwaysHold`, `ClusterSpec => []LinksHold`, for any nodes and
any number of deaths, silences and settings switched off. Besides the property, that
edges have both ends in the graph (`Anchored`) is needed: a node that times out takes
its edges along, and what a worker has found out of date may be applied after it.

### Prefix cache

`ReuseStaysExact`, `PrefixCacheSpec => []ReuseIsExact`, for any prompts, numbers of
entries and requests. The branches of DeepSeek V4 are left out, by `Restorable` in the
property: `prefix_trim` shows them wrong. A cache is `TrueTo` a prompt when its layers
have read a beginning of it, and the layers that are put back have read the same. `EntryOK`
says this of every entry and its own prompt, and of its snapshots (`Remembers`), none
of which is longer than the cache (`Fit`). `RequestOK` says it of the request's cache
and the request's prompt at every step, and `CopyOK` ties a request to the entry it
copied until it saves: what the entry is replaced by is true to the longer prompt.
Two prompts can agree in their tokens and differ in their pictures; that the match is
cut before the first picture that differs, and that this picture begins in both
prompts, is what the proof turns on (`MatchIsSame`). It assumes that an image is one
run of image tokens and `RemoteMin >= 1`; what a remote prefill leaves in a cache it
did not fill (`far`) is excluded, as it is in the property.

### Log on disk

`LogIsReadExactly`, `LogSpec => []LogReadExactly`, for any payloads that are not empty,
any size of the offset cache, any number of logs, archives and reads. `FileOK`: each
record begins where the one before ends, and its header is there if the file goes that far
(one that a crash cut off may not). `OpenOK`: the open file holds
all that `append` has written so far. `CacheOK`: every cached offset is that of its
record. `RangeOK`: the position of a range read is where a record begins, it has
returned the records from its start to there, and the disk holds everything up to its
end, because the buffer was flushed before it began; no record it reads is ever short,
although the file grows and is rotated while it reads. `WholeOK`: `read_all`, which
runs in a thread, has returned the first records of the file it found. The scan from a
cached offset (`SkippedIs`) needs induction over numbers, which is done without an
induction rule, by the least number at which it would fail.

### What has no proof

Only model-checked because it is beyond the provers: liveness under fairness
(`EventuallyIndexed`, `EventuallyApplied`, `EventuallySettled`, `Converges`,
`NobodyLeftBehind`, `StopsWithInstance`, `RanksEnd`, `StreamEnds`, `Obtained`,
`FilesArrive`, `BrokenInstancesGo`, `ImagesArrive`, the second half of `PeersConnect`);
`RestsServing`, which speaks of `ENABLED`; `PlacedRight`, `PromptIsConversation`,
and both parts of `SaidIsTold`, which are about recursive functions of their
input.

`OneMaster` of `NodeElection` is checked and not proved: it holds under the timing
assumption `Timely` and after one upset only, and says nothing of constants beyond
these. Not proved yet: `InStep`, whose model builds the schedule of a rank with
operators (`FlattenSeq`) that the provers cannot unfold, and the first half of
`PeersConnect`.

## 6. Disagreements met while modelling

Two runs are expected to be violated, and `PROJECT.json` quotes for each what the code
says of itself:

- `election_router`: `elect()` sets the session before it awaits the send of
  its result. A campaign cancelled there has decided and told nobody; the next round
  confirms the same session, reports that the master is not new, and the EventRouter is
  never replaced.
- `prefix_trim` (`StatePutBack`): `trim_cache` leaves DeepSeek V4's layers out of those it
  puts back to a snapshot, though a snapshot was taken and chosen for them.

Formulas of the modules that say what a reader of the code might expect, that TLC
finds violated, and that no run lists:

- `AcknowledgedIsSettled` (`EventPipeline`): an event that comes back while a retry
  sweep is between two turns is popped, and written back when the sweep reaches it; it
  is then resent every five seconds. `docs/architecture.md` says that only what has not
  come back is resent.
- `WorkingOnIt` (`lifecycle_recovery` without `ReadsFirst`): the watch finds the process
  dead, writes `RunnerFailed` and awaits its send; a completion that was still unread is
  read in that await, and the assertion of `supervisor.py:336` ends the Worker
  (`FailAssertion`).
- `FixedFirst` (the same): a status read in that await is written over `RunnerFailed`.
  The log has the failure, so the other ranks kill their runners and, as the comment at
  `plan.py:118` says, wait; the rank itself looks at its supervisor's status, and neither
  kills its runner nor creates another. Under `ReadsFirst` the property holds, as
  `Converges` does.
- `AlwaysAToken` (`PrefixCache`): with layers that go back to snapshots, one taken exactly
  at the prompt's length leaves no token to start from, which the comment at
  `cache.py:363-365` rules out.
- `NobodyLeftBehind` without `SlowStarts`: a Worker that applies a sibling's
  `RunnerFailed` and the `RunnerIdle` of its successor between two turns of `plan()`
  sees only the second. Its own runner stays in the old group for ever.
- `WorkersNotified` (`Requests`): a cancelled task whose deletion a worker applies
  first is never cancelled there, though `cancel_command` says it notifies the workers.
- `ApiStaysUp` (`Requests`), `FailureIsReported` (`ImageReply`): an error chunk of an
  image request fails an assertion in the task that applies events.
- `RemoteAsLocal` (`PrefixCache`): a cache that a prefill server filled need
  not be what a local prefill fills.
- `RemovesTheUnreachable` (`Discovery`): indices of a copy of the address list are used
  on the list, which the watcher may have changed.
- `FirstNeverEntersNext` (`ImagePipeline`) with four ranks in two guidance groups
  (`Layout(<<1, 2>>, 2, "parallel", 4, 1, 2, 1, 0)`): after a cancellation in an
  asynchronous step the ranks wait for one another.

Properties leave out, by a named condition in their definition, cases the code does
not keep; each has a comment where it is defined:

- `StreamEnds`: no instance left for a command, a task indexed after its instance's
  deletion, a last chunk before its queue, a change of master.
- `BooksAreTrue`, `Obtained`: a deletion that races a check of the disk (`raced`).
- `WholeFiles`, `FilesArrive`: a partial file two calls work on (`shared`), or one
  that has outgrown its remote file.
- `BrokenInstancesGo`: a timed-out node put back by a late edge, without `last_seen`.
- `ReuseIsExact`: caches a prefill server had a part in; of DeepSeek V4, all but the
  window's tokens.
- `PromptIsConversation`: `ThinkingBegun` leaves out end tags of several tokens, inside
  which the start tag is inserted, before their last token, and loose pieces of tags,
  which count towards a tag although something stands between them.
- `SaidIsTold`: of `ParsedExactly`, a Harmony error, stray tags, a failed parse, the text
  of a last response that comes with tool calls, schemas of several types; of `StreamIsReply`, thinking after text, a Claude message of tool
  calls alone, and three Ollama cases.
- `RepliesWhole`, `ImagesArrive`: a late reader may join two partials; an image
  whose command was lost stays marked as sent.
- `Agreed`: a task cancelled between agreement and start is started all the same, and
  its first chunk ends the runner.

One more is part of a model without a property: the cancelled report of
`election_router` also leaves a node with a running Master and a new session for
itself, and `FailAssertion` of `NodeElection` is the assertion "cannot be new master if
we remain master".

Hazards seen while reading that no model reaches: `_pending_tasks` (`plan.py:340`)
indexes runners without a default, so a runner forgotten after `RunnerShutdown` makes
`plan()` raise; the generation loop that ends because its task stream closed
(`runner.py:362`) returns a status `main()` does not expect; a remote prefill that
fails on one rank only sends that rank alone into local collectives
(`batch_generate.py:216`); placement checks the memory of the first guidance group
only, and under tensor parallelism no node's own memory.

## 7. Plan

Done, in this order: the event plane with its abstract log and proofs; the election
composed with the node; the instance lifecycle over the abstract log; agreement and
data paths of ranks; requests; downloads; discovery, topology, placement; the
stations of a request; proofs for the election, lifecycle, agreement, pipeline
prefill, requests, images on their way, downloads, links, prefix cache and log.

Next:

1. Proofs: `InStep` of `ImagePipeline`, with the schedules it is about cut into rounds
   as in `PipelinePrefill`.
2. Tasks in `InstanceLifecycle`, so that a runner that is forgotten and a task that is
   waiting for it meet (`plan.py:340`).
3. A prefill server in front of a group of ranks (`batch_generate.py:216`).
4. Tensor parallelism's collectives next to the pipeline's.

## 8. Not modelled

Dashboard and macOS app, benchmarks, scripts and packaging: not part of the running
system. Of the components that are modelled in part:

- MLX and image engines: numerical code, model patches, weights and their loading,
  tensor parallelism. What is modelled is who sends what to whom and in which order.
- Download engine: speed and ETA, the file list cache, which files a shard needs. A
  deletion (`Deleted`) does not fail: an exception of `rmtree`, the refusal to delete from
  a read-only directory and the answer for a model that was not there are left out, as are
  errors of authentication and a whole file in answer to a range (`FileDownload`).
- Parsers: the grammars inside a tool call, which are the models' own, and the counting
  of reasoning tokens.
- API: handlers that only read the state; field formats of the adapters.
- Rust networking: zenoh sessions, a `connect_peer` that fails, and the Python bindings; the transport is a topic
  that loses, repeats and reorders.
- Reducer and master: instance links and custom model cards. Node: the order in which
  its parts are replaced within one turn. Supervisor: the stdio handler. Info
  gatherer: how it reads the machine. Traces: merging, export and expiry.
- Disaggregated prefill: the wire protocol.

## 9. Running it

    tlc -workers 2 -config MC_EventPipeline_safety.cfg MC_EventPipeline
    tlc -workers 2 -config MC_Serving.cfg MC_Serving
    tlapm EventPipelineProofs.tla

and likewise for the other configurations and proof modules, each of which takes at
most a few minutes.
