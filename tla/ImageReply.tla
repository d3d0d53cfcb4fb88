------------------------------ MODULE ImageReply ------------------------------
(***************************************************************************)
(* Generated images on their way to the client: the image engine cuts each *)
(* partial and each final image into chunks (worker/engines/image/         *)
(* generate.py), the chunks come to the API as events in order, and the    *)
(* API puts them together, either as they come (_generate_image_stream) or *)
(* all at once (_collect_image_chunks) (src/exo/api/main.py).              *)
(*                                                                         *)
(* The queue of a command exists from the moment its reader starts: what   *)
(* was applied before is not kept.                                         *)
(***************************************************************************)
EXTENDS Integers, Sequences, FiniteSets

CONSTANTS
  NumImages,      \* the images of the request
  NumPartials,    \* the partial images before each of them
  NumChunks       \* the chunks of one image

ASSUME ReplyConstants ==
  /\ NumImages \in Nat \ {0} /\ NumPartials \in Nat /\ NumChunks \in Nat \ {0}

VARIABLES
  reader,         \* stream or collect
  applied,        \* the number of chunk events the API has applied
  imageQueue,     \* the queue of the command, and whether it is registered
  parts,          \* image_chunks of the reader, by key
  done,           \* images_complete
  yielded,        \* what the reader has given the client
  reply,          \* open, done, closed, error; dead: the API's applier failed
  late            \* history: a chunk was applied before the queue was there

rpvars == <<reader, applied, imageQueue, parts, done, yielded, reply, late>>

PerImage == NumPartials + 1     \* of one image: its partial ones and itself

(* _process_image_response for each image: partial images are numbered     *)
(* from 1, the final one is 0.                                             *)
AllChunks ==
  [n \in 1 .. NumImages * PerImage * NumChunks |->
     LET picture == (n - 1) \div NumChunks
     IN  [img |-> picture \div PerImage, p |-> (picture + 1) % PerImage,
          c |-> (n - 1) % NumChunks]]

ReplyInit ==
  /\ reader \in {"stream", "collect"}
  /\ applied = 0 /\ imageQueue = [open |-> FALSE, q |-> << >>]
  /\ parts = << >> /\ done = 0 /\ yielded = << >> /\ reply = "open" /\ late = FALSE

Register ==
  /\ reply = "open" /\ ~imageQueue.open
  /\ imageQueue' = [open |-> TRUE, q |-> << >>] /\ late' = (applied > 0)
  /\ UNCHANGED <<reader, applied, parts, done, yielded, reply>>

(* _apply_state of the API, for a chunk of this command.                   *)
ApplyImageChunk ==
  /\ applied < Len(AllChunks) /\ reply # "dead"
  /\ applied' = applied + 1
  /\ imageQueue' = IF imageQueue.open
                   THEN [imageQueue EXCEPT !.q = Append(@, AllChunks[applied + 1])]
                   ELSE imageQueue
  /\ UNCHANGED <<reader, parts, done, yielded, reply, late>>

(* The same for an ErrorChunk: it is asserted to be an ImageChunk.         *)
ApplyErrorChunk ==
  /\ applied < Len(AllChunks) /\ reply # "dead"
  /\ applied' = Len(AllChunks)
  /\ reply' = IF imageQueue.open /\ reply = "open" THEN "dead" ELSE reply
  /\ UNCHANGED <<reader, imageQueue, parts, done, yielded, late>>

\* A seeded fault: all partial images are kept under the key of the image.
ByImage(ch) == <<ch.img, 0>>

(* The key of a chunk: partial images of one image share one.              *)
KeyOf(ch) == <<ch.img, IF ch.p = 0 THEN 0 ELSE 1>>

With(ch) ==
  LET k == KeyOf(ch)
      old == IF k \in DOMAIN parts THEN parts[k]
             ELSE [p |-> ch.p, got |-> << >>]
      got == [i \in DOMAIN old.got \cup {ch.c} |->
                IF i = ch.c THEN ch ELSE old.got[i]]
  IN  [x \in DOMAIN parts \cup {k} |->
         IF x = k THEN [old EXCEPT !.got = got] ELSE parts[x]]

\* A seeded fault: an image is complete one chunk early.
AlmostAll(e) == Cardinality(DOMAIN e.got) >= NumChunks - 1

\* A seeded fault: an image is complete one chunk after its last.
OneTooMany(e) == Cardinality(DOMAIN e.got) > NumChunks

Complete(e) == Cardinality(DOMAIN e.got) = NumChunks

(* An entry as the client gets it: the chunks in order, with the number    *)
(* that came with the first of them.                                       *)
Joined(e) == [p |-> e.p, data |-> [i \in 1 .. NumChunks |->
               IF i - 1 \in DOMAIN e.got THEN e.got[i - 1] ELSE << >>]]

Drop(f, k) == [x \in DOMAIN f \ {k} |-> f[x]]

ReadImages ==
  /\ reply = "open" /\ reader = "stream" /\ imageQueue.q # << >>
  /\ imageQueue' = [imageQueue EXCEPT !.q = Tail(@)]
  /\ LET ch == Head(imageQueue.q)
         new == With(ch)
         k == KeyOf(ch)
         all == Complete(new[k])
     IN  /\ yielded' = IF all THEN Append(yielded, Joined(new[k])) ELSE yielded
         /\ done' = IF all /\ ch.p = 0 THEN done + 1 ELSE done
         /\ reply' = IF done' >= NumImages THEN "done" ELSE "open"
         /\ parts' = IF all THEN Drop(new, k) ELSE new
  /\ UNCHANGED <<reader, applied, late>>

ReadCollect ==
  /\ reply = "open" /\ reader = "collect" /\ imageQueue.q # << >>
  /\ imageQueue' = [imageQueue EXCEPT !.q = Tail(@)]
  /\ LET ch == Head(imageQueue.q) IN
     IF ch.p # 0 THEN UNCHANGED <<parts, done, yielded, reply>>
     ELSE LET new == With(ch) IN
          /\ parts' = new
          /\ done' = IF Complete(new[KeyOf(ch)]) THEN done + 1 ELSE done
          /\ reply' = IF done' >= NumImages THEN "done" ELSE "open"
          /\ yielded' = IF done' >= NumImages
                        THEN [i \in 1 .. NumImages |-> Joined(new[<<i - 1, 0>>])]
                        ELSE yielded
  /\ UNCHANGED <<reader, applied, late>>

(* The sender of the queue is closed (cancel_command, InstanceDeleted):    *)
(* the stream just ends, the collector fails on its closed receiver.       *)
QueueClosed ==
  /\ reply = "open" /\ imageQueue.open
  /\ reply' = IF reader = "stream" THEN "closed" ELSE "error"
  /\ UNCHANGED <<reader, applied, imageQueue, parts, done, yielded, late>>

ReplyNext == Register \/ ApplyImageChunk \/ ApplyErrorChunk \/ ReadImages
             \/ ReadCollect \/ QueueClosed

ReplySpec == ReplyInit /\ [][ReplyNext]_rpvars

-----------------------------------------------------------------------------
(* Every image the client gets is one image: all its chunks are there, in  *)
(* order, and are of the image and of the partial they are said to be,     *)
(* provided that the reader was there before the first chunk.  (A late one *)
(* may be given the end of one partial joined with the start of the next.) *)
WholeImages ==
  ~late => \A n \in DOMAIN yielded :
    \E i \in 0 .. NumImages - 1 : \A c \in 1 .. NumChunks :
      yielded[n].data[c] = [img |-> i, p |-> yielded[n].p, c |-> c - 1]

(* However late the reader came, a reply is taken for done only when every *)
(* image has been completed: a partial image never counts for one.         *)
NoneMissing ==
  reply = "done" => Cardinality({n \in DOMAIN yielded : yielded[n].p = 0}) = NumImages

(* What a client is given of a reply is whole, and so is the reply.        *)
RepliesWhole == WholeImages /\ NoneMissing

(* A reply that is read from the start comes to its end.                   *)
ReplyArrives == imageQueue.open ~> (late \/ reply # "open")

(* A failed generation is reported to the client, by the branch on the     *)
(* finish reason "error" of both readers, and to nobody else: the API goes *)
(* on applying events.                                                     *)
FailureIsReported == reply # "dead"
=============================================================================
