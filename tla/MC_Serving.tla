------------------------------ MODULE MC_Serving ------------------------------
(***************************************************************************)
(* The stations of a request on its way through a node, for TLC: the model *)
(* is downloaded, which is one step for the coordinator and many for its   *)
(* files, the runner comes up, images are sent ahead of the request, its   *)
(* messages become a prompt, the prompt is looked up in the prefix cache,  *)
(* what is generated is parsed and its tool calls coerced, the tokens or   *)
(* images are put into the client's protocol, and the events of it all go  *)
(* to the log on disk.  They share no state here; station says which of    *)
(* them a behaviour is about, and the others rest in one initial state.    *)
(***************************************************************************)
EXTENDS Downloads, FileDownload, InstanceLifecycle, ImageUpload, PromptBuild,
        PrefixCache, OutputParsers, ToolSchema, StreamAdapters, ImageReply, DiskEventLog

VARIABLE station

stvars == <<station, dlvars, fdvars, vars, upvars, pbvars, pcvars, pavars, tsvars, advars, rpvars,
            logvars>>

-----------------------------------------------------------------------------
(* Constants.                                                              *)

Wants(edit, images) == [edit |-> edit, images |-> images]

FileSizes == <<1, 2>>

(* The two files, and the calls before they are made, can be exchanged: it *)
(* is enough that one certain file is changed in the repository, and that  *)
(* call 1 is made first.                                                   *)
FirstOnes ==
  /\ \A f \in RepoFiles : remote'[f] # remote[f] => f = CHOOSE g \in RepoFiles : TRUE
  /\ call' = 2 => fetch[1] # [f \in RepoFiles |-> NoJob]

(* Two requests that share an image; an edit, and a request that shows its *)
(* image twice.                                                            *)
SharedImages ==
  {[u1 |-> Wants(FALSE, <<"i1">>), u2 |-> Wants(FALSE, <<"i2", "i1">>)],
   [u1 |-> Wants(TRUE, <<"i1">>), u2 |-> Wants(FALSE, <<"i1", "i1">>)]}
ImageParts == [i1 |-> 2, i2 |-> 1]

(* Prompts that extend each other, branch off, or differ in an image.      *)
SomePrompts ==
  {<<"a", "b", "c", "d", "e">>, <<"a", "b", "c", "d", "e", "a", "b">>, <<"a", "b", "c">>,
   <<"a", "i1", "i1", "b", "c">>, <<"a", "i2", "i2", "b", "c">>, <<"a", "b", "d", "d">>}

(* Tokens that are a tag, a part of one, or a tag and some text.           *)
TagTokens ==
  [tools |-> {<< >>, <<"x">>, <<"<">>, <<"b">>, <<"c">>, <<"<", "b">>, <<"<", "c">>,
              <<"[">>, <<"]">>, <<"[", "]">>},
   dsml |-> {<<"x">>, <<"<">>, <<"d">>, <<"<", "d">>, <<"x", "<">>, <<"]">>}]

(* Think tags of one token, a start tag of two, and tags of two tokens     *)
(* that share the second.                                                  *)
Tag(start, end) == [start |-> start, end |-> end]
SomeTags == {Tag(<<"b">>, <<"e">>), Tag(<<"<", "b">>, <<"e">>), Tag(<<"<", "t">>, <<"</", "t">>)}

Payloads == <<2, 1, 2>>

-----------------------------------------------------------------------------
AtRest(s, v, S) == station # s => v = CHOOSE w \in S : TRUE

ServingInit ==
  /\ station \in {"download", "files", "runner", "upload", "prompt", "prefix", "parse",
                  "tools", "adapt", "images", "log"}
  /\ DownloadsInit /\ (station # "download" => offline /\ disk = "none")
  /\ FileDownloadInit
  /\ Init
  /\ UploadInit /\ AtRest("upload", load, Workloads)
  /\ PromptInit /\ AtRest("prompt", dialect, {"chat"})
  /\ PrefixCacheInit /\ AtRest("prefix", kind, {"kv"})
  /\ ParserInit /\ AtRest("parse", chain, {"tools"}) /\ AtRest("parse", opens, {FALSE})
  /\ AdapterInit /\ AtRest("adapt", proto, Protocols)
  /\ ReplyInit /\ AtRest("images", reader, {"stream"})
  /\ LogInit
  /\ SchemaInit /\ AtRest("tools", value, Values)

Coordinating(A) ==
  /\ station = "download" /\ A
  /\ UNCHANGED <<station, fdvars, vars, upvars, pbvars, pcvars, pavars, tsvars, advars,
                 rpvars, logvars>>
Fetching(A) ==
  /\ station = "files" /\ A
  /\ UNCHANGED <<station, dlvars, vars, upvars, pbvars, pcvars, pavars, tsvars, advars,
                 rpvars, logvars>>
Starting(A) ==
  /\ station = "runner" /\ A
  /\ UNCHANGED <<station, dlvars, fdvars, upvars, pbvars, pcvars, pavars, tsvars, advars,
                 rpvars, logvars>>
Uploading(A) ==
  /\ station = "upload" /\ A
  /\ UNCHANGED <<station, dlvars, fdvars, vars, pbvars, pcvars, pavars, tsvars, advars, rpvars,
                 logvars>>
Prompting(A) ==
  /\ station = "prompt" /\ A
  /\ UNCHANGED <<station, dlvars, fdvars, vars, upvars, pcvars, pavars, tsvars, advars, rpvars,
                 logvars>>
Caching(A) ==
  /\ station = "prefix" /\ A
  /\ UNCHANGED <<station, dlvars, fdvars, vars, upvars, pbvars, pavars, tsvars, advars, rpvars,
                 logvars>>
Parsing(A) ==
  /\ station = "parse" /\ A
  /\ UNCHANGED <<station, dlvars, fdvars, vars, upvars, pbvars, pcvars, tsvars, advars, rpvars,
                 logvars>>
Coercing(A) ==
  /\ station = "tools" /\ A
  /\ UNCHANGED <<station, dlvars, fdvars, vars, upvars, pbvars, pcvars, pavars, advars, rpvars,
                 logvars>>
Adapting(A) ==
  /\ station = "adapt" /\ A
  /\ UNCHANGED <<station, dlvars, fdvars, vars, upvars, pbvars, pcvars, pavars, tsvars, rpvars,
                 logvars>>
Imaging(A) ==
  /\ station = "images" /\ A
  /\ UNCHANGED <<station, dlvars, fdvars, vars, upvars, pbvars, pcvars, pavars, tsvars, advars,
                 logvars>>
Logging(A) ==
  /\ station = "log" /\ A
  /\ UNCHANGED <<station, dlvars, fdvars, vars, upvars, pbvars, pcvars, pavars, tsvars, advars,
                 rpvars>>

ServingNext ==
  \/ Coordinating(DownloadsNext) \/ Fetching(FileDownloadNext)
  \/ Starting(Next) \/ Uploading(UploadNext) \/ Prompting(PromptNext)
  \/ Caching(PrefixCacheNext)
  \/ Parsing(ParserNext) \/ Coercing(SchemaNext) \/ Adapting(AdapterNext)
  \/ Imaging(ReplyNext) \/ Logging(LogNext)

(* What a station's action does there is all that its fairness is about.   *)
In(x, A) == station = x /\ A

(* The loop runs every ready task, the network delivers what is asked for, *)
(* and the scan comes round every minute.                                  *)
DownloadsFairness ==
  /\ \A s \in Shards :
       /\ WF_dlvars(In("download", WorkerAsks(s)))
       /\ WF_dlvars(In("download", Receive(s) /\ disk = "none"))
       /\ WF_dlvars(In("download", DownloadComplete(s)))
       /\ WF_dlvars(In("download", TaskReports(s)))
       /\ WF_dlvars(In("download", TaskCancelled(s)))
  /\ \A w \in 1 .. MaxLive : WF_dlvars(In("download", Downloading(w)))
  /\ WF_dlvars(In("download", CoordinatorStep)) /\ WF_dlvars(In("download", ProgressCallback))
  /\ WF_dlvars(In("download", CompleteCallback)) /\ WF_dlvars(In("download", ScanStep))

(* A call that was asked for is started, and its requests are answered.    *)
FileFairness ==
  /\ WF_fdvars(In("files", Gathered))
  /\ \A c \in ShardCalls : /\ WF_fdvars(In("files", DownloadShard(c)))
                           /\ \A f \in RepoFiles : WF_fdvars(In("files", FileStep(c, f)))

(* A request that was made is accepted and sent on, and the worker applies *)
(* its events and starts what it can.                                      *)
UploadFairness ==
  /\ \A u \in Uploads :
       /\ WF_upvars(In("upload", Accept(u))) /\ WF_upvars(In("upload", SendOne(u)))
       /\ WF_upvars(In("upload", StartWithImages(u)))
  /\ WF_upvars(In("upload", ApplyEvent))

(* Events are applied, and the reader of the reply reads.                  *)
ReplyFairness ==
  /\ WF_rpvars(In("images", Register)) /\ WF_rpvars(In("images", ApplyImageChunk))
  /\ WF_rpvars(In("images", ReadImages)) /\ WF_rpvars(In("images", ReadCollect))

ServingSpec ==
  /\ ServingInit /\ [][ServingNext]_stvars
  /\ DownloadsFairness /\ FileFairness /\ WF_vars(In("runner", Progress))
  /\ UploadFairness /\ ReplyFairness

(* What the model said comes out of the parsers: its text whole and in     *)
(* order, thinking told from text, an end, and the arguments of its calls. *)
ParsedExactly ==
  /\ StreamIsEnded /\ NoTextLost /\ ThinkingExact
  /\ CoercedOnce /\ FittingUntouched

(* What the model said is what the client is told: the parsers lose and    *)
(* add nothing, and a client of any protocol rebuilds the reply from what  *)
(* it is sent.                                                             *)
SaidIsTold == ParsedExactly /\ StreamIsReply

(* Images that were asked for get to the runner, and images that were      *)
(* drawn get to the client.                                                *)
ImagesArrive == UploadServed /\ ReplyArrives
=============================================================================
