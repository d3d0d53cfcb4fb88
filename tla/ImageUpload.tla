----------------------------- MODULE ImageUpload -----------------------------
(***************************************************************************)
(* Input images on their way from a client to the runner.  The API cuts    *)
(* them into chunks, each a command of its own (src/exo/api/main.py); the  *)
(* master turns chunks into events (master/main.py); every worker puts     *)
(* them together again and starts the task when its images are there       *)
(* (worker/main.py, plan.py).  For a text generation the API sends an      *)
(* image only once and the worker keeps it under its hash; for an image    *)
(* edit the chunks are always sent and are dropped when the task starts.   *)
(*                                                                         *)
(* An election that changes the master starts everything afresh except the *)
(* requests under way, which go on sending.                                *)
(***************************************************************************)
EXTENDS Integers, Sequences, FiniteSets, SequencesExt

CONSTANTS
  Uploads,      \* requests with images
  Workloads,    \* what each may ask for: an edit or not, and its images
  PartsOf,      \* the number of chunks of an image
  MaxSessions,  \* sessions of a behaviour (bound)
  MaxLost       \* commands lost on the way to the master (bound)

ASSUME UploadConstants ==
  /\ \A w \in Workloads, u \in Uploads : /\ w[u].images \in Seq(DOMAIN PartsOf)
                                         /\ w[u].edit => Len(w[u].images) = 1
  /\ \A img \in DOMAIN PartsOf : PartsOf[img] \in Nat \ {0}
  /\ MaxSessions \in Nat \ {0} /\ MaxLost \in Nat

VARIABLES
  load,         \* what the requests of this behaviour ask for
  session,      \* the number of the session
  sentHashes,   \* _sent_image_hashes of the API
  job,          \* a request: new, sending (what is left to send), sent
  wire,         \* commands, or the master's events, the worker has not applied
  buffer,       \* input_chunk_buffer of the worker
  imageCache,   \* its image_cache: the images it holds, as the data of their chunks
  known,        \* the tasks in its state
  started,      \* the images a task was started with
  missing,      \* history: the images of requests that lost a command
  nlost         \* history: the number of lost commands

upvars == <<load, session, sentHashes, job, wire, buffer, imageCache, known,
            started, missing, nlost>>

Wanted == [u \in Uploads |-> load[u].images]
EditsOf == {u \in Uploads : load[u].edit}
Whole(img) == [i \in 1 .. PartsOf[img] |-> [img |-> img, part |-> i]]

NewJob == [pc |-> "new", left |-> << >>, total |-> 0, session |-> 0]

UploadInit ==
  /\ load \in Workloads
  /\ session = 1 /\ sentHashes = {} /\ wire = << >>
  /\ job = [u \in Uploads |-> NewJob]
  /\ buffer = [u \in Uploads |-> {}] /\ imageCache = {} /\ known = {}
  /\ started = [u \in Uploads |-> << >>] /\ missing = {} /\ nlost = 0

-----------------------------------------------------------------------------
(* The API.                                                                *)

(* The images of a text generation that have not been sent before.  Two    *)
(* equal images of one request are sent once.                              *)
NewImages(u) ==
  LET idx == [i \in DOMAIN Wanted[u] |-> i]
      new == SelectSeq(idx, LAMBDA i : /\ Wanted[u][i] \notin sentHashes
                                       /\ \A j \in 1 .. i - 1 : Wanted[u][j] # Wanted[u][i])
  IN  [k \in DOMAIN new |-> Wanted[u][new[k]]]

ChunksOf(imgs) == FlattenSeq([k \in DOMAIN imgs |-> Whole(imgs[k])])

(* _send_text_generation_with_images and _send_image_edits_command, up to  *)
(* the first await: the hashes are marked before anything is sent.         *)
Accept(u) ==
  /\ job[u].pc = "new"
  /\ LET imgs == IF u \in EditsOf THEN Wanted[u] ELSE NewImages(u)
         chunks == ChunksOf(imgs)
     IN  /\ job' = [job EXCEPT ![u] = [pc |-> "sending", left |-> chunks,
                                       total |-> Len(chunks), session |-> session]]
         /\ sentHashes' = IF u \in EditsOf THEN sentHashes
                          ELSE sentHashes \cup Range(imgs)
  /\ UNCHANGED <<load, session, wire, buffer, imageCache, known, started,
                 missing, nlost>>

(* One await self._send(...): a chunk, or at last the command itself.      *)
SendOne(u) ==
  /\ job[u].pc = "sending"
  /\ IF job[u].left = << >>
     THEN /\ wire' = Append(wire, [k |-> "task", u |-> u])
          /\ job' = [job EXCEPT ![u].pc = "sent"]
     ELSE /\ wire' = Append(wire, [k |-> "chunk", u |-> u, c |-> Head(job[u].left),
                                   idx |-> job[u].total - Len(job[u].left),
                                   total |-> job[u].total])
          /\ job' = [job EXCEPT ![u].left = Tail(@)]
  /\ UNCHANGED <<load, session, sentHashes, buffer, imageCache, known, started,
                 missing, nlost>>

(* A command that no master reads.                                         *)
CommandLost ==
  /\ wire # << >> /\ nlost < MaxLost
  /\ wire' = Tail(wire) /\ nlost' = nlost + 1
  /\ missing' = missing \cup Range(Wanted[Head(wire).u])
  /\ UNCHANGED <<load, session, sentHashes, job, buffer, imageCache, known, started>>

-----------------------------------------------------------------------------
(* The worker.                                                             *)

(* The data of some chunks in the order of their indexes, which run        *)
(* through all images of the request.                                      *)
Sorted(chunks) ==
  LET indexes == {c.idx : c \in chunks}
      nth(i) == CHOOSE c \in chunks : Cardinality({j \in indexes : j < c.idx}) = i - 1
  IN  [i \in 1 .. Cardinality(chunks) |-> nth(i).c]

(* The images in a full buffer, each from its own chunks.                  *)
AssembledFrom(buf) == {Sorted({c \in buf : c.c.img = m}) : m \in {c.c.img : c \in buf}}

(* The master turns SendInputChunk into InputChunkReceived and the command *)
(* into a task, and the worker applies these events in their order.        *)
ApplyEvent ==
  /\ wire # << >> /\ wire' = Tail(wire)
  /\ LET e == Head(wire) IN
     IF e.k = "task" THEN known' = known \cup {e.u} /\ UNCHANGED <<buffer, imageCache>>
     ELSE LET buf == buffer[e.u] \cup {[c |-> e.c, idx |-> e.idx]} IN
          /\ buffer' = [buffer EXCEPT ![e.u] = buf]
          /\ imageCache' = IF Cardinality(buf) = e.total
                           THEN imageCache \cup AssembledFrom(buf) ELSE imageCache
          /\ UNCHANGED known
  /\ UNCHANGED <<load, session, sentHashes, job, started, missing, nlost>>

\* A seeded fault: an edit is started with the chunks that are there.
SomeThere(u) == IF u \in EditsOf THEN buffer[u] # {} ELSE \A i \in DOMAIN Wanted[u] :
  \E m \in imageCache : m = Whole(Wanted[u][i])

(* The waiting conditions of _pending_tasks: a hash that is in the cache   *)
(* is the hash of the whole image.                                         *)
ImagesThere(u) ==
  IF u \in EditsOf THEN Cardinality(buffer[u]) >= PartsOf[Wanted[u][1]]
  ELSE \A i \in DOMAIN Wanted[u] : Whole(Wanted[u][i]) \in imageCache

(* The cases ImageEdits and TextGeneration of plan_step: an edit takes all *)
(* that is buffered for one image.                                         *)
StartWithImages(u) ==
  /\ u \in known /\ started[u] = << >> /\ ImagesThere(u)
  /\ started' = [started EXCEPT ![u] =
       IF u \in EditsOf THEN <<Sorted(buffer[u])>>
       ELSE [i \in DOMAIN Wanted[u] |-> Whole(Wanted[u][i])]]
  /\ buffer' = [buffer EXCEPT ![u] = {}]
  /\ UNCHANGED <<load, session, sentHashes, job, wire, imageCache, known, missing, nlost>>

\* A seeded fault: the hashes sent in the last session are kept.
KeepsHashes == sentHashes

(* API.reset forgets what it has sent.                                     *)
ResetHashes == {}

(* A new session: a new master, a new worker, API.reset.  Requests that    *)
(* were accepted before go on sending to the new master.                   *)
NewSession ==
  /\ session < MaxSessions /\ session' = session + 1
  /\ sentHashes' = ResetHashes
  /\ buffer' = [u \in Uploads |-> {}] /\ imageCache' = {}
  /\ known' = {} /\ missing' = {}
  /\ UNCHANGED <<load, job, wire, started, nlost>>

UploadNext ==
  \/ \E u \in Uploads : Accept(u) \/ SendOne(u) \/ StartWithImages(u)
  \/ CommandLost \/ ApplyEvent \/ NewSession

UploadSpec == UploadInit /\ [][UploadNext]_upvars

-----------------------------------------------------------------------------
(* A task is started with the whole images of its request, in their order, *)
(* whatever chunks of other requests, or of a session that is over, came   *)
(* in between.                                                             *)
RightImages ==
  \A u \in Uploads : started[u] # << >> =>
    started[u] = [i \in DOMAIN Wanted[u] |-> Whole(Wanted[u][i])]

(* Sending an image only once is safe: a request accepted in the last      *)
(* session is started even though another request is trusted to have sent  *)
(* its images.  A lost command is left out: its image stays marked as sent *)
(* and every later request for it waits until the next session.            *)
UploadServed ==
  \A u \in Uploads :
    []<>(\/ started[u] # << >>
         \/ job[u].session < session
         \/ Range(Wanted[u]) \cap missing # {})
=============================================================================
