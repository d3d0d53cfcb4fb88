----------------------------- MODULE RequestsProofs -----------------------------
(***************************************************************************)
(* What a client reads, for any number of requests, instances, chunks and  *)
(* faults, is one run of the generation it asked for.                      *)
(*                                                                         *)
(* The argument is about what is on its way from the runner to the API:    *)
(* the events the API has not applied, followed by those of the worker     *)
(* that the master has not indexed.  After every chunk that is not the     *)
(* last one, the next chunk of the same command there is its successor, or *)
(* there is none and the runner stands just behind it.                     *)
(*                                                                         *)
(* Images on their way in, for any requests and sizes of images: a task is *)
(* started with the whole images of its request.  The invariant says of    *)
(* every chunk of an edit, left to send, under way or buffered, that it is *)
(* a piece of that image at its index.                                     *)
(*                                                                         *)
(* Images on their way out, for any numbers of images, partials and        *)
(* chunks: each that the client is given is one image, and none is         *)
(* missing.  The invariant says where in the order of chunks the reader    *)
(* is, what it holds of them, and how many images it has completed.        *)
(***************************************************************************)
EXTENDS Requests, ImageUpload, ImageReply, FiniteSetTheorems, TLAPS

Fins == {"no", "stop", "error"}
EventKinds == {"TaskCreated", "TaskStatusUpdated", "TaskDeleted",
          "InstanceDeleted", "ChunkGenerated"}
CmdKinds == {"Generate", "TaskCancelled", "TaskFinished", "DeleteInstance"}

(* A sequence, of whatever.                                                *)
IsSeq(q) == \E S : q \in Seq(S)

EventOK(e) ==
  /\ e.kind \in EventKinds
  /\ e.kind # "InstanceDeleted" => e.c \in Commands
  /\ e.kind = "ChunkGenerated" => e.n \in Nat /\ e.fin \in Fins

EventsOK(q) == IsSeq(q) /\ \A k \in 1 .. Len(q) : EventOK(q[k])

CmdOK(m) == m.kind \in CmdKinds /\ (m.kind # "DeleteInstance" => m.c \in Commands)

CmdsOK(q) == IsSeq(q) /\ \A k \in 1 .. Len(q) : CmdOK(q[k])

StateOK(s) ==
  /\ DOMAIN s = {"insts", "tasks"}
  /\ s.insts \subseteq Instances
  /\ DOMAIN s.tasks \subseteq Commands

QueueOK(q) ==
  q \in [registered : BOOLEAN,
         channel : {"none", "open", "closed", "broken"},
         buf : Seq([n : Nat, fin : Fins])]

RunOK(r) ==
  /\ {"state", "n"} \subseteq DOMAIN r
  /\ r.state \in {"no", "running", "over"}
  /\ r.n \in 0 .. LastChunk
  /\ r.state = "running" => r.n < LastChunk

IsChunk(e, c) == e.kind = "ChunkGenerated" /\ e.c = c

(* Commands and events on their way; the master makes no chunks.           *)
Wires ==
  /\ CmdsOK(cmds)
  /\ DOMAIN up = {"master", "worker"}
  /\ EventsOK(up["master"]) /\ EventsOK(up["worker"])
  /\ \A c : \A k \in 1 .. Len(up["master"]) : ~IsChunk(up["master"][k], c)
  /\ DOMAIN box = {"api", "worker"}
  /\ EventsOK(box["api"]) /\ EventsOK(box["worker"])

Views ==
  /\ DOMAIN st = Holders /\ \A h \in Holders : StateOK(st[h])
  /\ mapping \cup told \cup cancelled \cup lost \subseteq Commands
  /\ faults \in Nat

Clients ==
  /\ http \in [Commands -> {"new", "sent", "open", "done", "refused"}]
  /\ DOMAIN queue = Commands /\ \A c \in Commands : QueueOK(queue[c])
  /\ got \in [Commands -> Nat]

Runners == DOMAIN run = Commands /\ \A c \in Commands : RunOK(run[c])

Typed == Wires /\ Views /\ Clients /\ Runners

(* The events that will reach the API, as far as they are chunks.          *)
Flow == box["api"] \o up["worker"]

(* After the place i of q, a chunk with the number x of c is continued: by *)
(* the next chunk of c, or else by the runner whose view of the task is r. *)
Continued(q, c, i, x, r) ==
  \/ \E j \in 1 .. Len(q) :
       /\ j > i /\ IsChunk(q[j], c) /\ q[j].n = x + 1
       /\ \A k \in 1 .. Len(q) : k > i /\ k < j => ~IsChunk(q[k], c)
  \/ /\ \A k \in 1 .. Len(q) : k > i => ~IsChunk(q[k], c)
     /\ r.state = "over" \/ (r.state = "running" /\ r.n = x)

Steady(q, c, r) ==
  \A i \in 1 .. Len(q) :
    IsChunk(q[i], c) /\ q[i].fin = "no" => Continued(q, c, i, q[i].n, r)

(* What the client has read and what its queue holds.                      *)
InOrder(c) ==
  /\ got[c] # 0 => http[c] = "open"
  /\ got[c] # 0 /\ queue[c].buf # << >> => queue[c].buf[1].n = got[c] + 1
  /\ \A k \in 1 .. Len(queue[c].buf) :
       k + 1 \in 1 .. Len(queue[c].buf) /\ queue[c].buf[k].fin = "no"
         => queue[c].buf[k + 1].n = queue[c].buf[k].n + 1

(* A queue that still takes chunks is continued by those on their way.     *)
Linked(q, f, x, r, c) ==
  q.registered /\ q.channel = "open" =>
    IF q.buf = << >> THEN x # 0 => Continued(f, c, 0, x, r)
    ELSE q.buf[Len(q.buf)].fin = "no"
           => Continued(f, c, 0, q.buf[Len(q.buf)].n, r)

OnTheWay(c) ==
  /\ Steady(Flow, c, run[c])
  /\ apiUp => Linked(queue[c], Flow, got[c], run[c], c)

Inv == Typed /\ \A c \in Commands : InOrder(c) /\ OnTheWay(c)

-----------------------------------------------------------------------------
(* Sequences.                                                              *)

(* A sequence may be seen as one of a larger set.                          *)
LEMMA SeqGrows ==
  ASSUME NEW S, NEW T, NEW q \in Seq(S)
  PROVE  q \in Seq(S \cup T)
<1> QED OBVIOUS

(* What a tail, a concatenation and an appended element are made of, for   *)
(* sequences of whatever.                                                  *)
LEMMA TailIs ==
  ASSUME NEW q, IsSeq(q), q # << >>
  PROVE  /\ IsSeq(Tail(q)) /\ Len(q) \in Nat /\ Len(q) >= 1
         /\ Len(Tail(q)) = Len(q) - 1 /\ Head(q) = q[1]
         /\ \A k \in 1 .. Len(Tail(q)) : k + 1 \in 1 .. Len(q) /\ Tail(q)[k] = q[k + 1]
<1>1. PICK S : q \in Seq(S)
  BY DEF IsSeq
<1>2. Tail(q) \in Seq(S)
  BY <1>1
<1> QED BY <1>1, <1>2 DEF IsSeq

(* An element of a concatenation is one of either part.                    *)
LEMMA ConcatIs ==
  ASSUME NEW p, NEW q, IsSeq(p), IsSeq(q)
  PROVE  /\ IsSeq(p \o q) /\ Len(p) \in Nat /\ Len(q) \in Nat
         /\ Len(p \o q) = Len(p) + Len(q)
         /\ \A k \in 1 .. Len(p) : (p \o q)[k] = p[k]
         /\ \A k \in 1 .. Len(q) : (p \o q)[Len(p) + k] = q[k]
         /\ \A k \in 1 .. Len(p \o q) :
              \/ k \in 1 .. Len(p) /\ (p \o q)[k] = p[k]
              \/ k - Len(p) \in 1 .. Len(q) /\ (p \o q)[k] = q[k - Len(p)]
<1>1. PICK S : p \in Seq(S)
  BY DEF IsSeq
<1>2. PICK T : q \in Seq(T)
  BY DEF IsSeq
<1>3. p \in Seq(S \cup T)
  BY <1>1, SeqGrows
<1>4. q \in Seq(T \cup S) /\ T \cup S = S \cup T
  BY <1>2, SeqGrows
<1>5. p \o q \in Seq(S \cup T)
  BY <1>3, <1>4
<1> QED BY <1>3, <1>4, <1>5 DEF IsSeq

(* An appended element comes last.                                         *)
LEMMA AppendIs ==
  ASSUME NEW q, NEW e, IsSeq(q)
  PROVE  /\ IsSeq(Append(q, e)) /\ Len(q) \in Nat
         /\ Len(Append(q, e)) = Len(q) + 1
         /\ \A k \in 1 .. Len(q) : Append(q, e)[k] = q[k]
         /\ Append(q, e)[Len(q) + 1] = e
         /\ Append(q, e) # << >>
<1>1. PICK S : q \in Seq(S)
  BY DEF IsSeq
<1>3. q \in Seq(S \cup {e})
  BY <1>1, SeqGrows
<1>5. Append(q, e) \in Seq(S \cup {e})
  BY <1>3
<1> QED BY <1>3, <1>5 DEF IsSeq

(* Sequences of events and of commands.                                    *)
LEMMA EventsTail ==
  ASSUME NEW q, EventsOK(q), q # << >>
  PROVE  EventOK(Head(q)) /\ EventsOK(Tail(q))
<1>1. IsSeq(q)
  BY DEF EventsOK
<1> QED BY <1>1, TailIs DEF EventsOK

(* Events followed by events are events.                                   *)
LEMMA EventsConcat ==
  ASSUME NEW p, NEW q, EventsOK(p), EventsOK(q)
  PROVE  EventsOK(p \o q)
<1>1. IsSeq(p) /\ IsSeq(q)
  BY DEF EventsOK
<1>2. SUFFICES ASSUME NEW k \in 1 .. Len(p \o q)
               PROVE  EventOK((p \o q)[k])
  BY <1>1, ConcatIs DEF EventsOK
<1> QED BY <1>1, ConcatIs DEF EventsOK

(* One event more.                                                         *)
LEMMA EventsAppend ==
  ASSUME NEW q, NEW e, EventsOK(q), EventOK(e)
  PROVE  EventsOK(Append(q, e))
<1>1. IsSeq(q)
  BY DEF EventsOK
<1>2. \A k \in 1 .. Len(Append(q, e)) : k \in 1 .. Len(q) \/ k = Len(q) + 1
  BY <1>1, AppendIs
<1> QED BY <1>1, <1>2, AppendIs DEF EventsOK

(* The first of some commands, and the rest.                               *)
LEMMA CmdsTail ==
  ASSUME NEW q, CmdsOK(q), q # << >>
  PROVE  CmdOK(Head(q)) /\ CmdsOK(Tail(q))
<1>1. IsSeq(q)
  BY DEF CmdsOK
<1> QED BY <1>1, TailIs DEF CmdsOK

(* One command more.                                                       *)
LEMMA CmdsAppend ==
  ASSUME NEW q, NEW e, CmdsOK(q), CmdOK(e)
  PROVE  CmdsOK(Append(q, e))
<1>1. IsSeq(q)
  BY DEF CmdsOK
<1>2. \A k \in 1 .. Len(Append(q, e)) : k \in 1 .. Len(q) \/ k = Len(q) + 1
  BY <1>1, AppendIs
<1> QED BY <1>1, <1>2, AppendIs DEF CmdsOK

(* One or two events.                                                      *)
LEMMA OneOrTwo ==
  ASSUME NEW e, NEW f
  PROVE  /\ IsSeq(<< >>) /\ Len(<< >>) = 0
         /\ IsSeq(<< e >>) /\ Len(<< e >>) = 1 /\ << e >>[1] = e
         /\ IsSeq(<< e, f >>) /\ Len(<< e, f >>) = 2
         /\ << e, f >>[1] = e /\ << e, f >>[2] = f
<1>1. << e >> \in Seq({e, f}) /\ << e, f >> \in Seq({e, f}) /\ << >> \in Seq({e, f})
  OBVIOUS
<1>2. IsSeq(<< e >>) /\ IsSeq(<< e, f >>) /\ IsSeq(<< >>)
  BY <1>1 DEF IsSeq
<1> QED BY <1>1, <1>2

(* None, one or two events are a sequence of events.                       *)
LEMMA OneOrTwoEvents ==
  ASSUME NEW e, NEW f, EventOK(e)
  PROVE  EventsOK(<< >>) /\ EventsOK(<< e >>) /\ (EventOK(f) => EventsOK(<< e, f >>))
<1> DEFINE p == << e >>
           q == << e, f >>
<1>1. /\ IsSeq(p) /\ Len(p) = 1 /\ p[1] = e
      /\ IsSeq(q) /\ Len(q) = 2 /\ q[1] = e /\ q[2] = f
      /\ IsSeq(<< >>) /\ Len(<< >>) = 0
  BY OneOrTwo
<1> HIDE DEF p, q
<1>2. EventsOK(<< >>) /\ EventsOK(p)
  BY <1>1 DEF EventsOK
<1>3. ASSUME EventOK(f) PROVE EventsOK(q)
  BY <1>1, <1>3 DEF EventsOK
<1> QED BY <1>2, <1>3 DEF p, q

(* SetToSeq lists each element of a finite set once.                       *)
LEMMA Listed ==
  ASSUME NEW S, IsFiniteSet(S)
  PROVE  /\ IsSeq(SetToSeq(S)) /\ Len(SetToSeq(S)) \in Nat
         /\ \A k \in 1 .. Len(SetToSeq(S)) : SetToSeq(S)[k] \in S
         /\ \A x \in S : \E k \in 1 .. Len(SetToSeq(S)) : SetToSeq(S)[k] = x
         /\ \A j, k \in 1 .. Len(SetToSeq(S)) :
              SetToSeq(S)[j] = SetToSeq(S)[k] => j = k
<1> DEFINE n == Cardinality(S)
           f == SetToSeq(S)
<1>1. n \in Nat /\ ExistsBijection(1 .. n, S)
  BY FS_CardinalityType
<1>2. \E g \in [1 .. n -> S] : IsInjective(g)
  BY <1>1 DEF ExistsBijection, Bijection, Injection
<1>3. f \in [1 .. n -> S] /\ IsInjective(f)
  BY <1>2 DEF SetToSeq
<1>4. f \in Injection(1 .. n, S)
  BY <1>3 DEF Injection
<1>5. IsFiniteSet(1 .. n) /\ Cardinality(1 .. n) = n
  BY <1>1, FS_Interval
<1>6. f \in Surjection(1 .. n, S)
  BY <1>4, <1>5, FS_Injection
<1>7. \A x \in S : \E k \in 1 .. n : f[k] = x
  BY <1>6 DEF Surjection
<1>8. f \in Seq(S) /\ Len(f) = n
  BY <1>1, <1>3
<1>9. \A j, k \in 1 .. n : f[j] = f[k] => j = k
  BY <1>3 DEF IsInjective
<1> QED BY <1>1, <1>3, <1>7, <1>8, <1>9 DEF IsSeq

(* A set with one element for each element of a finite set is finite.      *)
LEMMA ImageFinite ==
  ASSUME NEW S, IsFiniteSet(S), NEW f, DOMAIN f = S
  PROVE  IsFiniteSet({f[x] : x \in S})
<1> DEFINE T == {f[x] : x \in S}
           g == [x \in S |-> f[x]]
<1>1. g \in [S -> T] /\ \A t \in T : \E s \in S : g[s] = t
  OBVIOUS
<1>2. g \in Surjection(S, T)
  BY <1>1 DEF Surjection
<1> QED BY <1>2, FS_Surjection

-----------------------------------------------------------------------------
(* How a chunk stays continued.                                            *)

(* When the first event has been applied, places count from the next one.  *)
LEMMA ContinuedTail ==
  ASSUME NEW q, NEW c, NEW i \in Nat, NEW x, NEW r,
         IsSeq(q), q # << >>, i >= 1, Continued(q, c, i, x, r)
  PROVE  Continued(Tail(q), c, i - 1, x, r)
<1> DEFINE t == Tail(q)
<1>1. /\ Len(q) \in Nat /\ Len(q) >= 1 /\ Len(t) = Len(q) - 1
      /\ \A k \in 1 .. Len(t) : k + 1 \in 1 .. Len(q) /\ t[k] = q[k + 1]
  BY TailIs
<1> HIDE DEF t
<1>2. CASE \E j \in 1 .. Len(q) :
             /\ j > i /\ IsChunk(q[j], c) /\ q[j].n = x + 1
             /\ \A k \in 1 .. Len(q) : k > i /\ k < j => ~IsChunk(q[k], c)
  <2>1. PICK j \in 1 .. Len(q) :
             /\ j > i /\ IsChunk(q[j], c) /\ q[j].n = x + 1
             /\ \A k \in 1 .. Len(q) : k > i /\ k < j => ~IsChunk(q[k], c)
    BY <1>2
  <2>2. j - 1 \in 1 .. Len(t) /\ j - 1 > i - 1 /\ (j - 1) + 1 = j
    BY <2>1, <1>1
  <2>3. t[j - 1] = q[j]
    BY <2>2, <1>1
  <2>4. ASSUME NEW k \in 1 .. Len(t), k > i - 1, k < j - 1
        PROVE  ~IsChunk(t[k], c)
    BY <2>1, <2>4, <1>1
  <2> QED BY <2>1, <2>2, <2>3, <2>4 DEF Continued, t
<1>3. CASE /\ \A k \in 1 .. Len(q) : k > i => ~IsChunk(q[k], c)
           /\ r.state = "over" \/ (r.state = "running" /\ r.n = x)
  <2>1. ASSUME NEW k \in 1 .. Len(t), k > i - 1
        PROVE  ~IsChunk(t[k], c)
    BY <1>3, <2>1, <1>1
  <2> QED BY <1>3, <2>1 DEF Continued, t
<1> QED BY <1>2, <1>3 DEF Continued

(* What continues the last chunk delivered is still to come, or comes now. *)
LEMMA ContinuedHead ==
  ASSUME NEW q, NEW c, NEW x, NEW r,
         IsSeq(q), q # << >>, Continued(q, c, 0, x, r)
  PROVE  /\ IsChunk(Head(q), c) => Head(q).n = x + 1
         /\ ~IsChunk(Head(q), c) => Continued(Tail(q), c, 0, x, r)
<1>1. Len(q) \in Nat /\ Len(q) >= 1 /\ Head(q) = q[1] /\ 1 \in 1 .. Len(q)
  BY TailIs
<1>2. ASSUME IsChunk(q[1], c) PROVE q[1].n = x + 1
  <2>1. PICK j \in 1 .. Len(q) :
             /\ j > 0 /\ IsChunk(q[j], c) /\ q[j].n = x + 1
             /\ \A k \in 1 .. Len(q) : k > 0 /\ k < j => ~IsChunk(q[k], c)
    BY <1>1, <1>2 DEF Continued
  <2>2. ~(1 < j)
    BY <2>1, <1>1, <1>2
  <2> QED BY <2>1, <2>2, <1>1
<1>3. ASSUME ~IsChunk(q[1], c) PROVE Continued(q, c, 1, x, r)
  <2>1. CASE \E j \in 1 .. Len(q) :
               /\ j > 0 /\ IsChunk(q[j], c) /\ q[j].n = x + 1
               /\ \A k \in 1 .. Len(q) : k > 0 /\ k < j => ~IsChunk(q[k], c)
    <3>1. PICK j \in 1 .. Len(q) :
               /\ j > 0 /\ IsChunk(q[j], c) /\ q[j].n = x + 1
               /\ \A k \in 1 .. Len(q) : k > 0 /\ k < j => ~IsChunk(q[k], c)
      BY <2>1
    <3>2. j # 1
      BY <3>1, <1>3
    <3>3. j > 1
      BY <3>2
    <3> QED BY <3>1, <3>3 DEF Continued
  <2>2. CASE /\ \A k \in 1 .. Len(q) : k > 0 => ~IsChunk(q[k], c)
             /\ r.state = "over" \/ (r.state = "running" /\ r.n = x)
    BY <2>2 DEF Continued
  <2> QED BY <2>1, <2>2 DEF Continued
<1>4. ASSUME ~IsChunk(q[1], c) PROVE Continued(Tail(q), c, 1 - 1, x, r)
  BY <1>3, <1>4, ContinuedTail
<1> QED BY <1>1, <1>2, <1>4

(* The chunks left are continued as before, and the one that was first is  *)
(* continued by what is left.                                              *)
LEMMA SteadyTail ==
  ASSUME NEW q, NEW c, NEW r, IsSeq(q), q # << >>, Steady(q, c, r)
  PROVE  /\ Steady(Tail(q), c, r)
         /\ IsChunk(Head(q), c) /\ Head(q).fin = "no"
              => Continued(Tail(q), c, 0, Head(q).n, r)
<1>1. /\ Len(q) \in Nat /\ Len(q) >= 1 /\ Head(q) = q[1] /\ 1 \in 1 .. Len(q)
      /\ \A k \in 1 .. Len(Tail(q)) : k + 1 \in 1 .. Len(q) /\ Tail(q)[k] = q[k + 1]
  BY TailIs
<1>2. ASSUME NEW i \in 1 .. Len(Tail(q)), IsChunk(Tail(q)[i], c), Tail(q)[i].fin = "no"
      PROVE  Continued(Tail(q), c, i, Tail(q)[i].n, r)
  <2>1. i + 1 \in 1 .. Len(q) /\ Tail(q)[i] = q[i + 1] /\ i + 1 \in Nat
        /\ i + 1 >= 1 /\ (i + 1) - 1 = i
    BY <1>1, <1>2
  <2>2. Continued(q, c, i + 1, q[i + 1].n, r)
    BY <2>1, <1>2 DEF Steady
  <2>3. Continued(Tail(q), c, (i + 1) - 1, q[i + 1].n, r)
    BY <2>1, <2>2, ContinuedTail
  <2> QED BY <2>1, <2>3
<1>3. ASSUME IsChunk(q[1], c), q[1].fin = "no"
      PROVE  Continued(Tail(q), c, 0, q[1].n, r)
  <2>1. Continued(q, c, 1, q[1].n, r)
    BY <1>1, <1>3 DEF Steady
  <2>2. Continued(Tail(q), c, 1 - 1, q[1].n, r)
    BY <2>1, ContinuedTail
  <2> QED BY <2>2
<1> QED BY <1>1, <1>2, <1>3 DEF Steady

(* Events that are not chunks of c change nothing, at the end ...          *)
LEMMA ContinuedMore ==
  ASSUME NEW q, NEW es, NEW c, NEW i \in Nat, NEW x, NEW r,
         IsSeq(q), IsSeq(es), \A k \in 1 .. Len(es) : ~IsChunk(es[k], c),
         Continued(q, c, i, x, r)
  PROVE  Continued(q \o es, c, i, x, r)
<1> DEFINE t == q \o es
<1>1. /\ Len(q) \in Nat /\ Len(es) \in Nat /\ Len(t) = Len(q) + Len(es)
      /\ \A k \in 1 .. Len(q) : t[k] = q[k]
      /\ \A k \in 1 .. Len(t) : \/ k \in 1 .. Len(q) /\ t[k] = q[k]
                                \/ ~IsChunk(t[k], c) /\ ~(k \in 1 .. Len(q))
  <2>1. /\ Len(q) \in Nat /\ Len(es) \in Nat /\ Len(t) = Len(q) + Len(es)
        /\ \A k \in 1 .. Len(q) : t[k] = q[k]
        /\ \A k \in 1 .. Len(es) : t[Len(q) + k] = es[k]
        /\ \A k \in 1 .. Len(t) :
             \/ k \in 1 .. Len(q) /\ t[k] = q[k]
             \/ k - Len(q) \in 1 .. Len(es) /\ t[k] = es[k - Len(q)]
    BY ConcatIs
  <2> HIDE DEF t
  <2> QED BY <2>1
<1> HIDE DEF t
<1>2. CASE \E j \in 1 .. Len(q) :
             /\ j > i /\ IsChunk(q[j], c) /\ q[j].n = x + 1
             /\ \A k \in 1 .. Len(q) : k > i /\ k < j => ~IsChunk(q[k], c)
  <2>1. PICK j \in 1 .. Len(q) :
             /\ j > i /\ IsChunk(q[j], c) /\ q[j].n = x + 1
             /\ \A k \in 1 .. Len(q) : k > i /\ k < j => ~IsChunk(q[k], c)
    BY <1>2
  <2>2. j \in 1 .. Len(t) /\ t[j] = q[j]
    BY <1>1
  <2>3. \A k \in 1 .. Len(t) : k > i /\ k < j => ~IsChunk(t[k], c)
    BY <1>1, <2>1
  <2> QED BY <2>1, <2>2, <2>3 DEF Continued, t
<1>3. CASE /\ \A k \in 1 .. Len(q) : k > i => ~IsChunk(q[k], c)
           /\ r.state = "over" \/ (r.state = "running" /\ r.n = x)
  <2>1. \A k \in 1 .. Len(t) : k > i => ~IsChunk(t[k], c)
    BY <1>1, <1>3
  <2> QED BY <1>3, <2>1 DEF Continued, t
<1> QED BY <1>2, <1>3 DEF Continued

(* The same for all chunks on their way.                                   *)
LEMMA SteadyMore ==
  ASSUME NEW q, NEW es, NEW c, NEW r, IsSeq(q), IsSeq(es),
         \A k \in 1 .. Len(es) : ~IsChunk(es[k], c), Steady(q, c, r)
  PROVE  Steady(q \o es, c, r)
<1> DEFINE t == q \o es
<1>1. ASSUME NEW i \in 1 .. Len(t), IsChunk(t[i], c), t[i].fin = "no"
      PROVE  Continued(t, c, i, t[i].n, r)
  <2>1. i \in 1 .. Len(q) /\ t[i] = q[i] /\ i \in Nat
    BY <1>1, ConcatIs
  <2>2. Continued(q, c, i, q[i].n, r)
    BY <2>1, <1>1 DEF Steady
  <2> QED BY <2>1, <2>2, ContinuedMore
<1> QED BY <1>1 DEF Steady
(* ... or in the middle, where the master's own events come in.            *)
LEMMA Inserted ==
  ASSUME NEW p, NEW q, NEW e, NEW c, NEW r, IsSeq(p), IsSeq(q), ~IsChunk(e, c)
  PROVE  /\ \A x : Continued(p \o q, c, 0, x, r)
                     => Continued(Append(p, e) \o q, c, 0, x, r)
         /\ Steady(p \o q, c, r) => Steady(Append(p, e) \o q, c, r)
<1> DEFINE s == p \o q
           t == Append(p, e) \o q
           To(k) == IF k <= Len(p) THEN k ELSE k + 1
<1>1. Len(p) \in Nat /\ Len(q) \in Nat
  BY ConcatIs
<1>2. /\ Len(s) = Len(p) + Len(q)
      /\ \A k \in 1 .. Len(p) : s[k] = p[k]
      /\ \A k \in 1 .. Len(q) : s[Len(p) + k] = q[k]
  BY ConcatIs
<1>3. /\ IsSeq(Append(p, e)) /\ Len(Append(p, e)) = Len(p) + 1
      /\ \A k \in 1 .. Len(p) : Append(p, e)[k] = p[k]
      /\ Append(p, e)[Len(p) + 1] = e
  BY AppendIs
<1>4. /\ Len(t) = Len(Append(p, e)) + Len(q)
      /\ \A k \in 1 .. Len(Append(p, e)) : t[k] = Append(p, e)[k]
      /\ \A k \in 1 .. Len(q) : t[Len(Append(p, e)) + k] = q[k]
  BY <1>3, ConcatIs
<1> HIDE DEF s, t
<1>5. \A k \in 1 .. Len(p) : t[k] = s[k]
  BY <1>1, <1>2, <1>3, <1>4
<1>6. t[Len(p) + 1] = e
  BY <1>1, <1>3, <1>4
<1>7. ASSUME NEW k \in 1 .. Len(s), k > Len(p)
      PROVE  t[k + 1] = s[k]
  <2>1. k - Len(p) \in 1 .. Len(q) /\ Len(p) + (k - Len(p)) = k
        /\ Len(Append(p, e)) + (k - Len(p)) = k + 1
    BY <1>1, <1>2, <1>3, <1>7
  <2>2. s[Len(p) + (k - Len(p))] = q[k - Len(p)]
    BY <2>1, <1>2
  <2>3. t[Len(Append(p, e)) + (k - Len(p))] = q[k - Len(p)]
    BY <2>1, <1>4
  <2> QED BY <2>1, <2>2, <2>3
<1>8. /\ Len(s) \in Nat /\ Len(t) = Len(s) + 1
      /\ \A k \in 1 .. Len(s) : To(k) \in 1 .. Len(t) /\ t[To(k)] = s[k]
      /\ \A j, k \in 1 .. Len(s) : j < k <=> To(j) < To(k)
      /\ \A k \in 1 .. Len(s) : To(k) > 0 /\ To(k) \in Nat
  BY <1>1, <1>2, <1>3, <1>4, <1>5, <1>7
<1>9. ASSUME NEW m \in 1 .. Len(t)
      PROVE  \/ ~IsChunk(t[m], c)
             \/ \E k \in 1 .. Len(s) : m = To(k)
  <2>1. CASE m <= Len(p)
    <3>1. m \in 1 .. Len(s) /\ m = To(m)
      BY <2>1, <1>1, <1>2
    <3> QED BY <3>1
  <2>2. CASE m = Len(p) + 1
    BY <2>2, <1>6
  <2>3. CASE m > Len(p) + 1
    <3>1. m - 1 \in 1 .. Len(s) /\ m = To(m - 1)
      BY <2>3, <1>1, <1>8
    <3> QED BY <3>1
  <2> QED BY <2>1, <2>2, <2>3, <1>1, <1>8
<1> HIDE DEF To
<1>10. ASSUME NEW i \in Nat, NEW m \in Nat, NEW x, Continued(s, c, i, x, r),
              \A k \in 1 .. Len(s) : k > i <=> To(k) > m
       PROVE  Continued(t, c, m, x, r)
  <2>1. CASE \E j \in 1 .. Len(s) :
               /\ j > i /\ IsChunk(s[j], c) /\ s[j].n = x + 1
               /\ \A k \in 1 .. Len(s) : k > i /\ k < j => ~IsChunk(s[k], c)
    <3>1. PICK j \in 1 .. Len(s) :
               /\ j > i /\ IsChunk(s[j], c) /\ s[j].n = x + 1
               /\ \A k \in 1 .. Len(s) : k > i /\ k < j => ~IsChunk(s[k], c)
      BY <2>1
    <3>2. ASSUME NEW k \in 1 .. Len(t), k > m, k < To(j)
          PROVE  ~IsChunk(t[k], c)
      <4>1. SUFFICES ASSUME NEW l \in 1 .. Len(s), k = To(l)
                     PROVE  ~IsChunk(t[k], c)
        BY <1>9
      <4>2. l > i /\ l < j
        BY <4>1, <3>2, <1>10, <1>8
      <4> QED BY <4>1, <4>2, <3>1, <1>8
    <3>3. To(j) \in 1 .. Len(t) /\ To(j) > m /\ IsChunk(t[To(j)], c)
          /\ t[To(j)].n = x + 1
      BY <3>1, <1>8, <1>10
    <3> QED BY <3>2, <3>3 DEF Continued
  <2>2. CASE /\ \A k \in 1 .. Len(s) : k > i => ~IsChunk(s[k], c)
             /\ r.state = "over" \/ (r.state = "running" /\ r.n = x)
    <3>1. ASSUME NEW k \in 1 .. Len(t), k > m
          PROVE  ~IsChunk(t[k], c)
      <4>1. SUFFICES ASSUME NEW l \in 1 .. Len(s), k = To(l)
                     PROVE  ~IsChunk(t[k], c)
        BY <1>9
      <4>2. l > i
        BY <4>1, <3>1, <1>10, <1>8
      <4> QED BY <4>1, <4>2, <2>2, <1>8
    <3> QED BY <2>2, <3>1 DEF Continued
  <2> QED BY <2>1, <2>2, <1>10 DEF Continued
<1>11. ASSUME NEW x, Continued(s, c, 0, x, r) PROVE Continued(t, c, 0, x, r)
  <2>1. \A k \in 1 .. Len(s) : k > 0 <=> To(k) > 0
    BY <1>8
  <2> QED BY <2>1, <1>10, <1>11
<1>12. ASSUME Steady(s, c, r) PROVE Steady(t, c, r)
  <2>1. SUFFICES ASSUME NEW m \in 1 .. Len(t), IsChunk(t[m], c), t[m].fin = "no"
                 PROVE  Continued(t, c, m, t[m].n, r)
    BY DEF Steady
  <2>2. PICK k \in 1 .. Len(s) : m = To(k)
    BY <2>1, <1>9
  <2>3. t[m] = s[k] /\ k \in Nat /\ m \in Nat
    BY <2>2, <1>8
  <2>4. Continued(s, c, k, s[k].n, r)
    BY <2>1, <2>3, <1>12 DEF Steady
  <2>5. \A l \in 1 .. Len(s) : l > k <=> To(l) > m
    BY <2>2, <1>8
  <2> QED BY <2>3, <2>4, <2>5, <1>10
<1> QED BY <1>11, <1>12 DEF s, t

(* An event that the master indexes moves from one part to the other.      *)
LEMMA Moved ==
  ASSUME NEW p, NEW q, IsSeq(p), IsSeq(q), q # << >>
  PROVE  Append(p, Head(q)) \o Tail(q) = p \o q
<1>1. PICK S : p \in Seq(S)
  BY DEF IsSeq
<1>2. PICK T : q \in Seq(T)
  BY DEF IsSeq
<1> DEFINE U == S \cup T
<1>3. p \in Seq(U) /\ q \in Seq(U)
  BY <1>1, <1>2, SeqGrows
<1> HIDE DEF U
<1>4. Head(q) \in U /\ Tail(q) \in Seq(U) /\ Append(p, Head(q)) \in Seq(U)
  BY <1>3
<1> QED BY <1>3, <1>4

(* A runner that will make no more of a task, or begins it, does no harm.  *)
LEMMA OtherRun ==
  ASSUME NEW q, NEW c, NEW r, NEW s,
         s.state = "over" \/ ~(r.state \in {"running", "over"})
  PROVE  /\ \A i, x : Continued(q, c, i, x, r) => Continued(q, c, i, x, s)
         /\ Steady(q, c, r) => Steady(q, c, s)
<1>1. \A i, x : Continued(q, c, i, x, r) => Continued(q, c, i, x, s)
  BY DEF Continued
<1> QED BY <1>1 DEF Steady

(* The next chunk of the task that runs continues all that went before.    *)
LEMMA NextChunk ==
  ASSUME NEW q, NEW es, NEW c, NEW r, NEW s, NEW p \in 1 .. Len(es),
         IsSeq(q), IsSeq(es), r.state = "running",
         IsChunk(es[p], c), es[p].n = r.n + 1,
         \A k \in 1 .. Len(es) : IsChunk(es[k], c) => k = p,
         \/ es[p].fin # "no"
         \/ s.state = "running" /\ s.n = r.n + 1
  PROVE  /\ \A i \in Nat : \A x : i <= Len(q) /\ Continued(q, c, i, x, r)
                                => Continued(q \o es, c, i, x, s)
         /\ Steady(q, c, r) => Steady(q \o es, c, s)
<1> DEFINE t == q \o es
           l == Len(q)
<1>1. /\ Len(q) \in Nat /\ Len(es) \in Nat /\ Len(t) = Len(q) + Len(es)
      /\ \A k \in 1 .. Len(q) : t[k] = q[k]
      /\ \A k \in 1 .. Len(es) : t[Len(q) + k] = es[k]
      /\ \A k \in 1 .. Len(t) :
             \/ k \in 1 .. Len(q) /\ t[k] = q[k]
             \/ k - Len(q) \in 1 .. Len(es) /\ t[k] = es[k - Len(q)]
  BY ConcatIs
<1> HIDE DEF t
<1>2. l + p \in 1 .. Len(t) /\ t[l + p] = es[p] /\ l + p > l
  BY <1>1
<1>3. ASSUME NEW k \in 1 .. Len(t), k > l, IsChunk(t[k], c)
      PROVE  k = l + p
  <2>1. k - l \in 1 .. Len(es) /\ t[k] = es[k - l]
    BY <1>1, <1>3
  <2>2. k - l = p
    BY <2>1, <1>3
  <2> QED BY <2>2, <1>1
<1>4. ASSUME NEW i \in Nat, NEW x, i <= l, Continued(q, c, i, x, r)
      PROVE  Continued(t, c, i, x, s)
  <2>1. CASE \E j \in 1 .. Len(q) :
               /\ j > i /\ IsChunk(q[j], c) /\ q[j].n = x + 1
               /\ \A k \in 1 .. Len(q) : k > i /\ k < j => ~IsChunk(q[k], c)
    <3>1. PICK j \in 1 .. Len(q) :
               /\ j > i /\ IsChunk(q[j], c) /\ q[j].n = x + 1
               /\ \A k \in 1 .. Len(q) : k > i /\ k < j => ~IsChunk(q[k], c)
      BY <2>1
    <3>2. j \in 1 .. Len(t) /\ t[j] = q[j]
      BY <1>1
    <3>3. ASSUME NEW k \in 1 .. Len(t), k > i, k < j
          PROVE  ~IsChunk(t[k], c)
      <4>1. k \in 1 .. Len(q)
        BY <3>1, <3>3, <1>1
      <4> QED BY <4>1, <3>1, <3>3, <1>1
    <3> QED BY <3>1, <3>2, <3>3 DEF Continued
  <2>2. CASE /\ \A k \in 1 .. Len(q) : k > i => ~IsChunk(q[k], c)
             /\ r.state = "over" \/ (r.state = "running" /\ r.n = x)
    <3>1. \A k \in 1 .. Len(t) : k > i /\ k < l + p => ~IsChunk(t[k], c)
      BY <2>2, <1>1, <1>3
    <3>2. t[l + p].n = x + 1 /\ IsChunk(t[l + p], c) /\ l + p > i
      BY <2>2, <1>1, <1>2, <1>4
    <3> QED BY <3>1, <3>2, <1>2 DEF Continued
  <2> QED BY <2>1, <2>2, <1>4 DEF Continued
<1>5. ASSUME Steady(q, c, r) PROVE Steady(t, c, s)
  <2>1. SUFFICES ASSUME NEW m \in 1 .. Len(t), IsChunk(t[m], c), t[m].fin = "no"
                 PROVE  Continued(t, c, m, t[m].n, s)
    BY DEF Steady
  <2>2. CASE m \in 1 .. Len(q)
    <3>1. t[m] = q[m] /\ m \in Nat /\ m <= l
      BY <2>2, <1>1
    <3>2. Continued(q, c, m, q[m].n, r)
      BY <2>1, <2>2, <3>1, <1>5 DEF Steady
    <3> QED BY <3>1, <3>2, <1>4
  <2>3. CASE ~(m \in 1 .. Len(q))
    <3>1. m = l + p
      BY <2>1, <2>3, <1>1, <1>3
    <3>2. s.state = "running" /\ s.n = r.n + 1 /\ t[m].n = r.n + 1
      BY <3>1, <2>1, <1>2
    <3>3. \A k \in 1 .. Len(t) : k > m => ~IsChunk(t[k], c)
      BY <3>1, <1>3, <1>2
    <3> QED BY <3>2, <3>3 DEF Continued
  <2> QED BY <2>2, <2>3
<1> QED BY <1>4, <1>5 DEF t

-----------------------------------------------------------------------------
(* Types.                                                                  *)

(* Applying an event keeps a copy of the state what it is.                 *)
LEMMA ApplyKeepsType ==
  ASSUME NEW s, NEW e, StateOK(s), EventOK(e)
  PROVE  StateOK(EventApply(s, e))
<1>1. CASE e.kind = "TaskCreated"
  <2>1. EventApply(s, e) = WithTask(s, e.c, [inst |-> e.inst, status |-> e.status])
    BY <1>1 DEF EventApply
  <2>2. e.c \in Commands
    BY <1>1 DEF EventOK
  <2> QED BY <2>1, <2>2 DEF WithTask, StateOK
<1>2. CASE e.kind = "TaskStatusUpdated"
  <2>1. EventApply(s, e) = IF e.c \notin DOMAIN s.tasks THEN s
                           ELSE [s EXCEPT !.tasks[e.c].status = e.status]
    BY <1>2 DEF EventApply
  <2> QED BY <2>1 DEF StateOK
<1>3. CASE e.kind = "TaskDeleted"
  <2>1. EventApply(s, e) = [s EXCEPT !.tasks = [d \in DOMAIN @ \ {e.c} |-> @[d]]]
    BY <1>3 DEF EventApply
  <2> QED BY <2>1 DEF StateOK
<1>4. CASE e.kind = "InstanceDeleted"
  <2>1. EventApply(s, e) = [s EXCEPT !.insts = @ \ {e.inst}]
    BY <1>4 DEF EventApply
  <2> QED BY <2>1 DEF StateOK
<1>5. CASE e.kind = "ChunkGenerated"
  <2>1. EventApply(s, e) = s
    BY <1>5 DEF EventApply
  <2> QED BY <2>1
<1> QED BY <1>1, <1>2, <1>3, <1>4, <1>5 DEF EventOK, EventKinds

(* What the master answers to a command are events, and none is a chunk.   *)
LEMMA MasterEventsOK ==
  ASSUME Typed, RequestConstants, NEW m, CmdOK(m)
  PROVE  /\ EventsOK(MasterEvents(m))
         /\ \A c : \A k \in 1 .. Len(MasterEvents(m)) : ~IsChunk(MasterEvents(m)[k], c)
<1> DEFINE Good(q) == EventsOK(q) /\ \A c : \A k \in 1 .. Len(q) : ~IsChunk(q[k], c)
           s == st["master"]
<1>1. Good(<< >>)
  <2>1. IsSeq(<< >>) /\ Len(<< >>) = 0
    BY OneOrTwo
  <2> DEFINE z == << >>
  <2> HIDE DEF z
  <2>2. IsSeq(z) /\ Len(z) = 0
    BY <2>1 DEF z
  <2>3. Good(z)
    BY <2>2 DEF EventsOK
  <2> QED BY <2>3 DEF z
<1>2. ASSUME NEW e, EventOK(e), \A c : ~IsChunk(e, c)
      PROVE  Good(<< e >>)
  <2>1. IsSeq(<< e >>) /\ Len(<< e >>) = 1 /\ << e >>[1] = e
    BY OneOrTwo
  <2>2. EventsOK(<< e >>)
    BY <1>2, OneOrTwoEvents
  <2> QED BY <1>2, <2>1, <2>2
<1>3. CASE m.kind = "Generate"
  <2>1. m.c \in Commands
    BY <1>3 DEF CmdOK
  <2>2. \A i : EventOK(TaskCreated(m.c, i, "Pending"))
               /\ \A c : ~IsChunk(TaskCreated(m.c, i, "Pending"), c)
    BY <2>1 DEF EventOK, EventKinds, TaskCreated, IsChunk
  <2>3. MasterEvents(m) = << >> \/
        MasterEvents(m) = << TaskCreated(m.c, LeastLoaded(s), "Pending") >>
    BY <1>3 DEF MasterEvents
  <2>4. Good(<< TaskCreated(m.c, LeastLoaded(s), "Pending") >>)
    BY <2>2, <1>2
  <2> QED BY <2>3, <2>4, <1>1
<1>4. CASE m.kind = "TaskCancelled"
  <2>1. m.c \in Commands
    BY <1>4 DEF CmdOK
  <2>2. EventOK(TaskStatusUpdated(m.c, "Cancelled"))
        /\ \A c : ~IsChunk(TaskStatusUpdated(m.c, "Cancelled"), c)
    BY <2>1 DEF EventOK, EventKinds, TaskStatusUpdated, IsChunk
  <2>3. MasterEvents(m) = << >> \/
        MasterEvents(m) = << TaskStatusUpdated(m.c, "Cancelled") >>
    BY <1>4 DEF MasterEvents
  <2>4. Good(<< TaskStatusUpdated(m.c, "Cancelled") >>)
    BY <2>2, <1>2
  <2> QED BY <2>3, <2>4, <1>1
<1>5. CASE m.kind = "TaskFinished"
  <2>1. m.c \in Commands
    BY <1>5 DEF CmdOK
  <2>2. EventOK(TaskDeleted(m.c)) /\ \A c : ~IsChunk(TaskDeleted(m.c), c)
    BY <2>1 DEF EventOK, EventKinds, TaskDeleted, IsChunk
  <2>3. MasterEvents(m) = << >> \/ MasterEvents(m) = << TaskDeleted(m.c) >>
    BY <1>5 DEF MasterEvents
  <2>4. Good(<< TaskDeleted(m.c) >>)
    BY <2>2, <1>2
  <2> QED BY <2>3, <2>4, <1>1
<1>6. CASE m.kind = "DeleteInstance"
  <2> DEFINE hit == InFlightOn(s, m.inst)
             S == {TaskStatusUpdated(c, "Cancelled") : c \in hit}
             q == SetToSeq(S)
             f == [c \in hit |-> TaskStatusUpdated(c, "Cancelled")]
  <2>1. hit \subseteq Commands /\ IsFiniteSet(hit)
    <3>1. StateOK(s)
      BY DEF Typed, Views, Holders
    <3>2. hit \subseteq Commands
      BY <3>1 DEF InFlightOn, StateOK
    <3> QED BY <3>2, FS_Subset DEF RequestConstants
  <2>2. IsFiniteSet({f[c] : c \in hit})
    <3>1. DOMAIN f = hit
      OBVIOUS
    <3> HIDE DEF hit, f
    <3> QED BY <2>1, <3>1, ImageFinite
  <2>3. {f[c] : c \in hit} = S
    OBVIOUS
  <2>4. \A e \in S : EventOK(e) /\ \A c : ~IsChunk(e, c)
    BY <2>1 DEF EventOK, EventKinds, TaskStatusUpdated, IsChunk
  <2>5. IsSeq(q) /\ Len(q) \in Nat /\ \A k \in 1 .. Len(q) : q[k] \in S
    BY <2>2, <2>3, Listed
  <2>6. Good(q)
    BY <2>4, <2>5 DEF EventsOK
  <2>7. EventOK(InstanceDeleted(m.inst)) /\ \A c : ~IsChunk(InstanceDeleted(m.inst), c)
    BY DEF EventOK, EventKinds, InstanceDeleted, IsChunk
  <2>8. Good(<< InstanceDeleted(m.inst) >>)
    BY <2>7, <1>2
  <2> DEFINE l == << InstanceDeleted(m.inst) >>
  <2> HIDE DEF q, l
  <2>9. Good(q \o l)
    <3>1. IsSeq(q) /\ IsSeq(l)
      BY <2>6, <2>8 DEF l, EventsOK
    <3>2. EventsOK(q \o l)
      BY <2>6, <2>8, EventsConcat DEF l
    <3>3. ASSUME NEW c, NEW k \in 1 .. Len(q \o l) PROVE ~IsChunk((q \o l)[k], c)
      <4>1. \/ k \in 1 .. Len(q) /\ (q \o l)[k] = q[k]
            \/ k - Len(q) \in 1 .. Len(l) /\ (q \o l)[k] = l[k - Len(q)]
        BY <3>1, ConcatIs
      <4>2. /\ \A j \in 1 .. Len(q) : ~IsChunk(q[j], c)
            /\ \A j \in 1 .. Len(l) : ~IsChunk(l[j], c)
        BY <2>6, <2>8 DEF l
      <4> QED BY <4>1, <4>2
    <3> QED BY <3>2, <3>3
  <2>10. MasterEvents(m) = << >> \/ MasterEvents(m) = q \o l
    BY <1>6 DEF MasterEvents, DeletionEvents, q, l
  <2> QED BY <2>9, <2>10, <1>1
<1> QED BY <1>3, <1>4, <1>5, <1>6 DEF CmdOK, CmdKinds

(* An event sent by the worker.                                            *)
LEMMA EmitKeepsWires ==
  ASSUME Wires, NEW es, EventsOK(es), Emit(es), UNCHANGED <<cmds, box>>
  PROVE  Wires' /\ Flow' = box["api"] \o (up["worker"] \o es)
<1>1. up'["worker"] = up["worker"] \o es /\ up'["master"] = up["master"]
      /\ DOMAIN up' = DOMAIN up
  BY DEF Wires, Emit
<1>2. EventsOK(up'["worker"])
  BY <1>1, EventsConcat DEF Wires
<1> QED BY <1>1, <1>2 DEF Wires, Flow

(* Three sequences may be joined in either order.                          *)
LEMMA Assoc ==
  ASSUME NEW p, NEW q, NEW r, IsSeq(p), IsSeq(q), IsSeq(r)
  PROVE  p \o (q \o r) = (p \o q) \o r
<1>1. PICK S : p \in Seq(S)
  BY DEF IsSeq
<1>2. PICK T : q \in Seq(T)
  BY DEF IsSeq
<1>3. PICK R : r \in Seq(R)
  BY DEF IsSeq
<1> DEFINE U == S \cup T \cup R
<1>4. p \in Seq(U) /\ q \in Seq(U) /\ r \in Seq(U)
  <2>1. p \in Seq(S \cup (T \cup R)) /\ q \in Seq(T \cup (S \cup R))
        /\ r \in Seq(R \cup (S \cup T))
    BY <1>1, <1>2, <1>3, SeqGrows
  <2>2. S \cup (T \cup R) = U /\ T \cup (S \cup R) = U /\ R \cup (S \cup T) = U
    OBVIOUS
  <2> QED BY <2>1, <2>2
<1> HIDE DEF U
<1> QED BY <1>4

(* What has two parts begins with the first.                               *)
LEMMA TailConcat ==
  ASSUME NEW p, NEW q, IsSeq(p), IsSeq(q), p # << >>
  PROVE  /\ Tail(p) \o q = Tail(p \o q) /\ Head(p \o q) = Head(p)
         /\ p \o q # << >> /\ IsSeq(p \o q)
<1>1. PICK S : p \in Seq(S)
  BY DEF IsSeq
<1>2. PICK T : q \in Seq(T)
  BY DEF IsSeq
<1> DEFINE U == S \cup T
<1>3. p \in Seq(U) /\ q \in Seq(U)
  BY <1>1, <1>2, SeqGrows
<1> HIDE DEF U
<1>4. p \o q \in Seq(U)
  BY <1>3
<1>5. Tail(p) \o q = Tail(p \o q) /\ Head(p \o q) = Head(p) /\ p \o q # << >>
  BY <1>3
<1> QED BY <1>4, <1>5 DEF IsSeq

-----------------------------------------------------------------------------
(* Each action.                                                            *)

(* At first nothing is on its way and nothing has been read.               *)
LEMMA InitInv ==
  ASSUME RequestsInit, RequestConstants
  PROVE  Inv
<1>1. IsSeq(<< >>) /\ Len(<< >>) = 0
  BY OneOrTwo
<1> DEFINE z == << >>
<1>2. z \in Seq([n : Nat, fin : Fins])
  OBVIOUS
<1>3. z \o z = z
  OBVIOUS
<1> HIDE DEF z
<1>4. EventsOK(z) /\ CmdsOK(z) /\ \A c : \A k \in 1 .. Len(z) : ~IsChunk(z[k], c)
  BY <1>1 DEF EventsOK, CmdsOK, z
<1>5. Wires
  BY <1>4 DEF RequestsInit, Wires, z
<1>6. Views
  <2>1. StateOK(NewState)
    BY DEF StateOK, NewState
  <2> QED BY <2>1 DEF RequestsInit, Views
<1>7. Clients
  <2>1. QueueOK(NoQueue)
    BY <1>2 DEF QueueOK, NoQueue, z
  <2> QED BY <2>1 DEF RequestsInit, Clients
<1>8. Runners
  BY DEF RequestsInit, Runners, RunOK, NotStarted, RequestConstants
<1>9. ASSUME NEW c \in Commands PROVE InOrder(c) /\ OnTheWay(c)
  <2>1. Flow = z
    BY <1>3 DEF RequestsInit, Flow, z
  <2>2. Steady(z, c, run[c])
    BY <1>1 DEF Steady, z
  <2>3. queue[c] = NoQueue /\ got[c] = 0
    BY DEF RequestsInit
  <2>4. InOrder(c)
    BY <2>3, <1>1 DEF InOrder, NoQueue
  <2>5. Linked(queue[c], Flow, got[c], run[c], c)
    BY <2>3 DEF Linked, NoQueue
  <2> QED BY <2>1, <2>2, <2>4, <2>5 DEF OnTheWay
<1> QED BY <1>5, <1>6, <1>7, <1>8, <1>9 DEF Inv, Typed

(* The steps of a client: its queue, what it has read, and one command.    *)
LEMMA ClientKeepsInv ==
  ASSUME Inv, NEW c \in Commands,
         Request(c) \/ OpenStream(c) \/ ReadStream(c) \/ Disconnect(c) \/ CancelCommand(c)
  PROVE  Inv'
<1> USE DEF Inv, Typed
<1>1. /\ UNCHANGED <<up, box, st, mapping, run, told, apiUp, lost, faults>>
      /\ apiUp /\ Flow' = Flow
  BY DEF Request, OpenStream, ReadStream, Disconnect, CancelCommand, Flow
<1>2. CmdsOK(cmds')
  <2>1. \E m : CmdOK(m) /\ (cmds' = cmds \/ cmds' = Append(cmds, m))
    <3>1. CmdOK([kind |-> "Generate", c |-> c]) /\ CmdOK([kind |-> "TaskFinished", c |-> c])
          /\ CmdOK([kind |-> "TaskCancelled", c |-> c])
      BY DEF CmdOK, CmdKinds
    <3> QED BY <3>1 DEF Request, OpenStream, ReadStream, Disconnect, CancelCommand, Send
  <2> QED BY <2>1, CmdsAppend DEF Wires
<1>3. Wires' /\ Views' /\ Runners'
  <2>1. cancelled' \subseteq Commands
    BY DEF Views, Request, OpenStream, ReadStream, Disconnect, CancelCommand
  <2> QED BY <1>1, <1>2, <2>1 DEF Wires, Views, Runners
<1> DEFINE Items == [n : Nat, fin : Fins]
<1>4. /\ QueueOK(queue[c]) /\ queue[c].buf \in Seq(Items)
      /\ << >> \in Seq(Items)
  <2>1. QueueOK(queue[c])
    BY DEF Clients
  <2>2. queue[c].buf \in Seq(Items)
    BY <2>1 DEF QueueOK
  <2>3. << >> \in Seq(Items)
    OBVIOUS
  <2> QED BY <2>1, <2>2, <2>3
<1>5. ASSUME NEW d \in Commands, d # c
      PROVE  InOrder(d)' /\ OnTheWay(d)'
  <2>1. queue'[d] = queue[d] /\ got'[d] = got[d] /\ http'[d] = http[d]
    BY <1>5 DEF Clients, Request, OpenStream, ReadStream, Disconnect, CancelCommand
  <2> QED BY <2>1, <1>1 DEF InOrder, OnTheWay
<1>6. Steady(Flow, c, run[c])'
  BY <1>1 DEF OnTheWay
<1>7. CASE Request(c)
  <2>1. got[c] = 0
    BY <1>7 DEF Request, InOrder
  <2>2. Clients'
    BY <1>7 DEF Request, Clients
  <2>3. InOrder(c)' /\ OnTheWay(c)'
    BY <1>7, <2>1, <1>1, <1>6 DEF Request, InOrder, OnTheWay
  <2> QED BY <1>3, <1>5, <2>2, <2>3
<1>8. CASE OpenStream(c)
  <2>1. got[c] = 0 /\ got' = got
    BY <1>8 DEF OpenStream, InOrder
  <2>2. queue'[c] = [registered |-> TRUE, channel |-> "open", buf |-> << >>]
    BY <1>8 DEF OpenStream, Clients
  <2>3. QueueOK(queue'[c])
    BY <2>2, <1>4 DEF QueueOK
  <2>4. Clients'
    BY <1>8, <2>3 DEF OpenStream, Clients
  <2>5. InOrder(c)'
    <3>1. queue'[c].buf = << >>
      BY <2>2
    <3> QED BY <3>1, <2>1, OneOrTwo DEF InOrder
  <2>6. OnTheWay(c)'
    BY <1>6, <2>1, <2>2 DEF OnTheWay, Linked
  <2> QED BY <1>3, <1>5, <2>4, <2>5, <2>6
<1>9. CASE CancelCommand(c)
  <2>1. /\ queue'[c].buf = queue[c].buf /\ queue'[c].channel = "closed"
        /\ QueueOK(queue'[c]) /\ UNCHANGED <<got, http>>
    BY <1>9, <1>4 DEF CancelCommand, Clients, QueueOK
  <2>2. Clients'
    BY <1>9, <2>1 DEF CancelCommand, Clients
  <2>3. InOrder(c)' /\ OnTheWay(c)'
    BY <2>1, <1>6 DEF InOrder, OnTheWay, Linked
  <2> QED BY <1>3, <1>5, <2>2, <2>3
<1>10. ASSUME got' = [got EXCEPT ![c] = 0], http' = [http EXCEPT ![c] = "done"],
              \/ queue' = [queue EXCEPT ![c].channel = "broken", ![c].buf = << >>]
              \/ queue' = [queue EXCEPT ![c] = NoQueue]
       PROVE  Clients' /\ InOrder(c)' /\ OnTheWay(c)'
  <2>1. queue'[c].buf = << >> /\ queue'[c].channel # "open" /\ QueueOK(queue'[c])
    <3>1. CASE queue' = [queue EXCEPT ![c] = NoQueue]
      <4>1. queue'[c] = NoQueue
        BY <3>1 DEF Clients
      <4> QED BY <4>1, <1>4 DEF QueueOK, NoQueue
    <3>2. CASE queue' = [queue EXCEPT ![c].channel = "broken", ![c].buf = << >>]
      <4>1. queue'[c] = [queue[c] EXCEPT !.channel = "broken", !.buf = << >>]
        BY <3>2 DEF Clients
      <4> QED BY <4>1, <1>4 DEF QueueOK
    <3> QED BY <1>10, <3>1, <3>2
  <2>2. got'[c] = 0
    BY <1>10 DEF Clients
  <2>3. Clients'
    BY <1>10, <2>1 DEF Clients
  <2>4. InOrder(c)'
    BY <2>1, <2>2, OneOrTwo DEF InOrder
  <2>5. OnTheWay(c)'
    BY <2>1, <1>6 DEF OnTheWay, Linked
  <2> QED BY <2>3, <2>4, <2>5
<1>11. CASE Disconnect(c)
  BY <1>11, <1>3, <1>5, <1>10 DEF Disconnect
<1>12. CASE ReadStream(c)
  <2> DEFINE b == queue[c].buf
  <2>1. CASE b = << >> \/ Head(b).fin # "no"
    BY <2>1, <1>12, <1>3, <1>5, <1>10 DEF ReadStream
  <2>2. CASE b # << >> /\ Head(b).fin = "no"
    <3>1. /\ got' = [got EXCEPT ![c] = Head(b).n] /\ http' = http /\ http[c] = "open"
          /\ queue' = [queue EXCEPT ![c].buf = Tail(@)]
      BY <2>2, <1>12 DEF ReadStream
    <3>2. IsSeq(b) /\ Head(b) \in Items /\ Tail(b) \in Seq(Items)
      <4> HIDE DEF Items
      <4>1. b \in Seq(Items) /\ b # << >>
        BY <1>4, <2>2
      <4> HIDE DEF b
      <4> QED BY <4>1 DEF IsSeq
    <3>3. got'[c] = Head(b).n /\ Head(b).n \in Nat
      BY <3>1, <3>2 DEF Clients
    <3>4. queue'[c] = [queue[c] EXCEPT !.buf = Tail(b)]
      BY <3>1 DEF Clients
    <3>5. QueueOK(queue'[c]) /\ queue'[c].buf = Tail(b)
          /\ queue'[c].registered = queue[c].registered
          /\ queue'[c].channel = queue[c].channel
      BY <3>4, <3>2, <1>4 DEF QueueOK
    <3>6. Clients'
      BY <3>1, <3>3, <3>5 DEF Clients
    <3>7. /\ Len(b) \in Nat /\ Len(b) >= 1 /\ Len(Tail(b)) = Len(b) - 1 /\ Head(b) = b[1]
          /\ \A k \in 1 .. Len(Tail(b)) : k + 1 \in 1 .. Len(b) /\ Tail(b)[k] = b[k + 1]
          /\ IsSeq(Tail(b))
      BY <3>2, <2>2, TailIs
    <3>8. \A k \in 1 .. Len(b) : k + 1 \in 1 .. Len(b) /\ b[k].fin = "no"
                                   => b[k + 1].n = b[k].n + 1
      BY DEF InOrder
    <3> DEFINE t == Tail(b)
    <3>9. t = << >> <=> Len(b) = 1
      <4>1. t \in Seq(Items) /\ Len(t) = Len(b) - 1 /\ Len(b) \in Nat
        BY <3>2, <3>7
      <4> HIDE DEF t, b, Items
      <4>2. t = << >> <=> Len(t) = 0
        BY <4>1
      <4> QED BY <4>1, <4>2
    <3> HIDE DEF t, b
    <3>10. InOrder(c)'
      <4>1. ASSUME t # << >> PROVE t[1].n = b[1].n + 1
        <5>1. Len(b) # 1 /\ Len(b) >= 1 /\ Len(b) \in Nat
          BY <4>1, <3>9, <3>7
        <5>2. 1 \in 1 .. Len(t) /\ 1 \in 1 .. Len(b) /\ 1 + 1 \in 1 .. Len(b)
          <6>1. Len(t) = Len(b) - 1
            BY <3>7 DEF t
          <6> QED BY <5>1, <6>1
        <5>3. t[1] = b[1 + 1]
          BY <5>2, <3>7 DEF t
        <5>4. b[1 + 1].n = b[1].n + 1
          BY <5>2, <3>8, <2>2, <3>7
        <5> QED BY <5>3, <5>4
      <4>2. ASSUME NEW k \in 1 .. Len(t), k + 1 \in 1 .. Len(t), t[k].fin = "no"
            PROVE  t[k + 1].n = t[k].n + 1
        <5>1. /\ t[k] = b[k + 1] /\ t[k + 1] = b[(k + 1) + 1]
              /\ k + 1 \in 1 .. Len(b) /\ (k + 1) + 1 \in 1 .. Len(b)
          BY <4>2, <3>7 DEF t
        <5> QED BY <5>1, <4>2, <3>8
      <4>3. queue'[c].buf = t /\ got'[c] = b[1].n /\ http'[c] = "open"
        BY <3>1, <3>3, <3>5, <3>7 DEF t
      <4> QED BY <4>1, <4>2, <4>3 DEF InOrder
    <3>11. Linked(queue[c], Flow, got[c], run[c], c)'
      <4>1. Linked(queue[c], Flow, got[c], run[c], c)
        BY <1>1 DEF OnTheWay
      <4>2. queue[c].registered /\ queue[c].channel = "open" /\ b[Len(b)].fin = "no"
              => Continued(Flow, c, 0, b[Len(b)].n, run[c])
        BY <4>1, <2>2 DEF Linked, b
      <4>3. CASE t = << >>
        <5>1. Len(b) = 1 /\ b[Len(b)] = b[1]
          BY <4>3, <3>9
        <5> QED BY <5>1, <4>2, <4>3, <3>3, <3>5, <3>7, <1>1, <2>2 DEF Linked, t
      <4>4. CASE t # << >>
        <5>1. Len(t) \in 1 .. Len(t) /\ Len(t) + 1 = Len(b)
          BY <4>4, <3>7, <3>9 DEF t
        <5>2. t[Len(t)] = b[Len(b)]
          BY <5>1, <3>7 DEF t
        <5> QED BY <5>2, <4>2, <4>4, <3>5, <1>1 DEF Linked, t
      <4> QED BY <4>3, <4>4
    <3> QED BY <1>3, <1>5, <1>6, <3>6, <3>10, <3>11 DEF OnTheWay
  <2> QED BY <2>1, <2>2
<1> QED BY <1>7, <1>8, <1>9, <1>11, <1>12

(* What touches neither streams nor chunks.                                *)
LEMMA CommandsKeepInv ==
  ASSUME Inv, RequestConstants,
         \/ \E i \in Instances : DeleteInstance(i)
         \/ \E c \in Commands : WorkerCancel(c)
         \/ MasterCommand
  PROVE  Inv'
<1> USE DEF Inv, Typed
<1>1. /\ UNCHANGED <<box, st, http, queue, run, cancelled, got, apiUp>>
      /\ up'["worker"] = up["worker"] /\ Flow' = Flow
  BY DEF DeleteInstance, WorkerCancel, MasterCommand, Flow, Wires
<1>2. Clients' /\ Runners' /\ \A c \in Commands : InOrder(c)' /\ OnTheWay(c)'
  BY <1>1 DEF Clients, Runners, InOrder, OnTheWay
<1>3. CASE \E i \in Instances : DeleteInstance(i)
  <2>1. PICK i \in Instances : DeleteInstance(i)
    BY <1>3
  <2>2. CmdOK([kind |-> "DeleteInstance", inst |-> i])
    BY DEF CmdOK, CmdKinds
  <2>3. CmdsOK(cmds')
    BY <2>1, <2>2, CmdsAppend DEF Wires, DeleteInstance, Send
  <2>4. Wires' /\ Views'
    BY <2>1, <2>3 DEF Wires, Views, DeleteInstance
  <2> QED BY <1>2, <2>4
<1>4. CASE \E c \in Commands : WorkerCancel(c)
  <2>1. Wires' /\ Views'
    BY <1>4 DEF Wires, Views, WorkerCancel
  <2> QED BY <1>2, <2>1
<1>5. CASE MasterCommand
  <2> DEFINE m == Head(cmds)
             es == MasterEvents(m)
             u == up["master"]
  <2>1. CmdOK(m) /\ CmdsOK(Tail(cmds))
    BY <1>5, CmdsTail DEF MasterCommand, Wires
  <2>2. EventsOK(es) /\ \A c : \A k \in 1 .. Len(es) : ~IsChunk(es[k], c)
    BY <2>1, MasterEventsOK
  <2>3. EventsOK(u) /\ \A c : \A k \in 1 .. Len(u) : ~IsChunk(u[k], c)
    BY DEF Wires
  <2>4. /\ up' = [up EXCEPT !["master"] = u \o es] /\ cmds' = Tail(cmds)
        /\ faults' = faults /\ told' = told
        /\ mapping' \subseteq mapping \cup {m.c} /\ lost' \subseteq lost \cup {m.c}
        /\ m.kind # "Generate" => mapping' \subseteq mapping /\ lost' = lost
    BY <1>5 DEF MasterCommand
  <2>5. mapping' \subseteq Commands /\ lost' \subseteq Commands
    BY <2>1, <2>4 DEF CmdOK, Views
  <2> HIDE DEF es, u, m
  <2>6. EventsOK(u \o es)
    BY <2>2, <2>3, EventsConcat
  <2>7. ASSUME NEW c, NEW k \in 1 .. Len(u \o es) PROVE ~IsChunk((u \o es)[k], c)
    <3>1. IsSeq(u) /\ IsSeq(es)
      BY <2>2, <2>3 DEF EventsOK
    <3>2. \/ k \in 1 .. Len(u) /\ (u \o es)[k] = u[k]
          \/ k - Len(u) \in 1 .. Len(es) /\ (u \o es)[k] = es[k - Len(u)]
      BY <3>1, ConcatIs
    <3> QED BY <3>2, <2>2, <2>3
  <2>8. up'["master"] = u \o es /\ DOMAIN up' = DOMAIN up
    BY <2>4 DEF Wires
  <2>9. Wires'
    BY <1>1, <2>1, <2>4, <2>6, <2>7, <2>8 DEF Wires
  <2>10. Views'
    BY <1>1, <2>4, <2>5 DEF Views
  <2> QED BY <1>2, <2>9, <2>10
<1> QED BY <1>3, <1>4, <1>5

(* An event that reaches the API: what continued the last chunk delivered  *)
(* is delivered now, or is still to come.                                  *)
LEMMA DeliveryKeepsOrder ==
  ASSUME Typed, NEW c \in Commands, NEW f, NEW r, NEW e, InOrder(c),
         EventOK(e), e.kind = "ChunkGenerated", e.c = c,
         IsSeq(f), f # << >>, Head(f) = e, Steady(f, c, r),
         Linked(queue[c], f, got[c], r, c),
         queue'[c] = Deliver(queue[c], e), got' = got, http' = http
  PROVE  /\ QueueOK(queue'[c]) /\ InOrder(c)'
         /\ Linked(queue'[c], Tail(f), got[c], r, c)
<1> DEFINE Items == [n : Nat, fin : Fins]
           b == queue[c].buf
           item == [n |-> e.n, fin |-> e.fin]
<1>1. QueueOK(queue[c]) /\ b \in Seq(Items)
  <2>1. QueueOK(queue[c])
    BY DEF Typed, Clients
  <2> QED BY <2>1 DEF QueueOK
<1>2. IsChunk(e, c)
  BY DEF IsChunk
<1>3. CASE ~queue[c].registered
  BY <1>1, <1>3 DEF Deliver, InOrder, Linked
<1>4. CASE queue[c].registered /\ queue[c].channel # "open"
  <2>1. queue'[c] = [queue[c] EXCEPT !.registered = FALSE]
    BY <1>4 DEF Deliver
  <2>2. queue'[c].registered = FALSE /\ queue'[c].buf = b /\ QueueOK(queue'[c])
    BY <2>1, <1>1 DEF QueueOK
  <2> QED BY <2>2 DEF InOrder, Linked
<1>5. CASE queue[c].registered /\ queue[c].channel = "open"
  <2>1. queue'[c] = [queue[c] EXCEPT !.buf = Append(@, item)]
    BY <1>5 DEF Deliver
  <2>2. item \in Items /\ item.n = e.n /\ item.fin = e.fin
    BY DEF EventOK
  <2>3. Append(b, item) \in Seq(Items)
    <3> HIDE DEF b, Items, item
    <3> QED BY <1>1, <2>2 DEF b
  <2>4. QueueOK(queue'[c]) /\ queue'[c].buf = Append(b, item)
    BY <2>1, <2>3, <1>1 DEF QueueOK
  <2>5. /\ Len(b) \in Nat /\ Append(b, item) # << >>
        /\ Len(Append(b, item)) = Len(b) + 1
        /\ \A k \in 1 .. Len(b) : Append(b, item)[k] = b[k]
        /\ Append(b, item)[Len(b) + 1] = item
    <3> HIDE DEF b, Items, item
    <3>1. IsSeq(b)
      BY <1>1 DEF b, IsSeq
    <3> QED BY <3>1, AppendIs
  <2>6. e.fin = "no" => Continued(Tail(f), c, 0, e.n, r)
    BY <1>2, SteadyTail
  <2>7. /\ b = << >> /\ got[c] # 0 => e.n = got[c] + 1
        /\ b # << >> /\ b[Len(b)].fin = "no" => e.n = b[Len(b)].n + 1
    BY <1>2, <1>5, ContinuedHead DEF Linked
  <2>8. b = << >> <=> Len(b) = 0
    <3> HIDE DEF b, Items, item
    <3> QED BY <1>1 DEF b
  <2>9. /\ got[c] # 0 => http[c] = "open"
        /\ got[c] # 0 /\ b # << >> => b[1].n = got[c] + 1
        /\ \A k \in 1 .. Len(b) : k + 1 \in 1 .. Len(b) /\ b[k].fin = "no"
                                    => b[k + 1].n = b[k].n + 1
    BY DEF InOrder
  <2> DEFINE t == Append(b, item)
  <2> HIDE DEF b, t, item
  <2>10. got[c] # 0 => t[1].n = got[c] + 1
    <3>1. CASE Len(b) = 0
      BY <3>1, <2>2, <2>5, <2>7, <2>8 DEF t
    <3>2. CASE Len(b) # 0
      BY <3>2, <2>5, <2>8, <2>9 DEF t
    <3> QED BY <3>1, <3>2
  <2>11. ASSUME NEW k \in 1 .. Len(t), k + 1 \in 1 .. Len(t), t[k].fin = "no"
         PROVE  t[k + 1].n = t[k].n + 1
    <3>1. k \in 1 .. Len(b) /\ t[k] = b[k]
      BY <2>5, <2>11 DEF t
    <3>2. CASE k = Len(b)
      <4>1. t[k + 1] = item /\ b # << >>
        BY <3>1, <3>2, <2>5, <2>8 DEF t
      <4> QED BY <4>1, <3>1, <3>2, <2>2, <2>7, <2>11
    <3>3. CASE k # Len(b)
      <4>1. k + 1 \in 1 .. Len(b) /\ t[k + 1] = b[k + 1]
        BY <3>1, <3>3, <2>5 DEF t
      <4> QED BY <4>1, <3>1, <2>9, <2>11
    <3> QED BY <3>2, <3>3
  <2>12. InOrder(c)'
    BY <2>4, <2>5, <2>9, <2>10, <2>11 DEF InOrder, t
  <2>13. t[Len(t)] = item /\ t # << >>
    BY <2>5 DEF t
  <2>14. Linked(queue'[c], Tail(f), got[c], r, c)
    BY <2>2, <2>4, <2>6, <2>13 DEF Linked, t
  <2> QED BY <2>4, <2>12, <2>14
<1> QED BY <1>3, <1>4, <1>5

(* The API applies an event.                                               *)
LEMMA ApiKeepsInv ==
  ASSUME Inv, ApiApply
  PROVE  Inv'
<1> USE DEF Inv, Typed
<1> DEFINE e == Head(box["api"])
           s == EventApply(st["api"], e)
<1>1. EventOK(e) /\ EventsOK(Tail(box["api"])) /\ box["api"] # << >>
      /\ IsSeq(box["api"]) /\ IsSeq(up["worker"])
  BY EventsTail DEF ApiApply, Wires, EventsOK
<1>2. StateOK(s)
  BY <1>1, ApplyKeepsType DEF Views, Holders
<1>3. /\ box' = [box EXCEPT !["api"] = Tail(@)]
      /\ st' = [st EXCEPT !["api"] = s]
      /\ apiUp' = ~AssertionFails(e) /\ apiUp
      /\ UNCHANGED <<cmds, up, mapping, http, run, told, cancelled, got, faults>>
      /\ lost' \subseteq lost \cup Commands
  BY DEF ApiApply
<1>4. /\ e.kind = "ChunkGenerated" /\ ~AssertionFails(e)
           => queue' = [queue EXCEPT ![e.c] = Deliver(@, e)]
      /\ e.kind = "InstanceDeleted" => queue' = CloseStreams(s, e.inst)
      /\ e.kind # "InstanceDeleted" /\ (e.kind # "ChunkGenerated" \/ AssertionFails(e))
           => queue' = queue
  BY DEF ApiApply
<1> HIDE DEF e, s
<1>5. Wires'
  <2>1. box'["api"] = Tail(box["api"]) /\ box'["worker"] = box["worker"]
        /\ DOMAIN box' = DOMAIN box
    BY <1>3 DEF Wires
  <2> QED BY <2>1, <1>1, <1>3 DEF Wires
<1>6. Views' /\ Runners'
  <2>1. \A h \in Holders : StateOK(st'[h])
    BY <1>2, <1>3 DEF Views, Holders
  <2> QED BY <2>1, <1>3 DEF Views, Runners
<1>7. /\ Flow' = Tail(Flow) /\ Head(Flow) = e /\ IsSeq(Flow) /\ Flow # << >>
  <2>1. Flow' = Tail(box["api"]) \o up["worker"]
    BY <1>3 DEF Flow, Wires
  <2> QED BY <2>1, <1>1, TailConcat DEF Flow, e
<1>8. ASSUME NEW c \in Commands
      PROVE  QueueOK(queue'[c]) /\ InOrder(c)' /\ OnTheWay(c)'
  <2>1. QueueOK(queue[c]) /\ InOrder(c) /\ Steady(Flow, c, run[c])
        /\ Linked(queue[c], Flow, got[c], run[c], c)
    BY <1>3 DEF Clients, OnTheWay
  <2>2. Steady(Flow, c, run[c])'
    BY <2>1, <1>3, <1>7, SteadyTail
  <2>3. CASE e.kind = "ChunkGenerated" /\ e.c = c /\ ~AssertionFails(e)
    <3>1. queue'[c] = Deliver(queue[c], e)
      BY <2>3, <1>4 DEF Clients
    <3>2. QueueOK(queue'[c]) /\ InOrder(c)' /\ Linked(queue'[c], Tail(Flow), got[c], run[c], c)
      BY <3>1, <2>1, <2>3, <1>1, <1>3, <1>7, DeliveryKeepsOrder
    <3> QED BY <3>2, <2>2, <1>3, <1>7 DEF OnTheWay
  <2>4. CASE ~(e.kind = "ChunkGenerated" /\ e.c = c)
    <3>1. ~IsChunk(e, c)
      BY <2>4 DEF IsChunk
    <3>2. \A x : Continued(Flow, c, 0, x, run[c]) => Continued(Tail(Flow), c, 0, x, run[c])
      BY <3>1, <1>7, ContinuedHead
    <3>3. Linked(queue[c], Tail(Flow), got[c], run[c], c)
      BY <3>2, <2>1 DEF Linked
    <3>4. \/ queue'[c] = queue[c]
          \/ queue'[c] = [queue[c] EXCEPT !.registered = FALSE,
                             !.channel = IF @ = "open" THEN "closed" ELSE @]
      <4>1. CASE e.kind = "InstanceDeleted"
        BY <4>1, <1>4 DEF CloseStreams
      <4>2. CASE e.kind = "ChunkGenerated"
        BY <4>2, <2>4, <1>1, <1>4 DEF Clients
      <4>3. CASE e.kind # "InstanceDeleted" /\ e.kind # "ChunkGenerated"
        BY <4>3, <1>4
      <4> QED BY <4>1, <4>2, <4>3
    <3>5. CASE queue'[c] = queue[c]
      BY <3>3, <3>5, <2>1, <2>2, <1>3, <1>7 DEF InOrder, OnTheWay
    <3>6. CASE queue'[c] = [queue[c] EXCEPT !.registered = FALSE,
                              !.channel = IF @ = "open" THEN "closed" ELSE @]
      <4>1. QueueOK(queue'[c]) /\ queue'[c].buf = queue[c].buf /\ ~queue'[c].registered
        BY <3>6, <2>1 DEF QueueOK
      <4> QED BY <4>1, <2>1, <2>2, <1>3 DEF InOrder, OnTheWay, Linked
    <3> QED BY <3>4, <3>5, <3>6
  <2>5. CASE e.kind = "ChunkGenerated" /\ e.c = c /\ AssertionFails(e)
    <3>1. queue' = queue /\ ~apiUp'
      BY <2>5, <1>3, <1>4
    <3> QED BY <3>1, <2>1, <2>2, <1>3 DEF InOrder, OnTheWay
  <2> QED BY <2>3, <2>4, <2>5
<1>9. Clients'
  <2>1. DOMAIN queue' = Commands
    BY <1>1, <1>4 DEF CloseStreams, Clients, EventOK
  <2> QED BY <2>1, <1>3, <1>8 DEF Clients
<1> QED BY <1>5, <1>6, <1>8, <1>9

(* The master indexes an event: one of its own comes between what the API  *)
(* has yet to apply and what the worker has sent.                          *)
LEMMA IndexKeepsInv ==
  ASSUME Inv, NEW o \in DOMAIN up, IndexEvent(o)
  PROVE  Inv'
<1> USE DEF Inv, Typed
<1> DEFINE e == Head(up[o])
<1>1. o \in {"master", "worker"} /\ EventsOK(up[o]) /\ up[o] # << >>
  BY DEF Wires, IndexEvent
<1>2. EventOK(e) /\ EventsOK(Tail(up[o]))
  BY <1>1, EventsTail
<1>3. /\ up' = [up EXCEPT ![o] = Tail(@)]
      /\ box' = [h \in DOMAIN box |-> Append(box[h], e)]
      /\ st' = [st EXCEPT !["master"] = EventApply(@, e)]
      /\ lost' = lost \/ (e.kind = "TaskCreated" /\ lost' = lost \cup {e.c})
      /\ UNCHANGED <<cmds, mapping, http, queue, run, told, cancelled, got, apiUp, faults>>
  BY DEF IndexEvent
<1>4. /\ IsSeq(up[o]) /\ Len(up[o]) \in Nat /\ Len(up[o]) >= 1 /\ e = up[o][1]
      /\ 1 \in 1 .. Len(up[o]) /\ Len(Tail(up[o])) = Len(up[o]) - 1
      /\ \A k \in 1 .. Len(Tail(up[o])) :
           k + 1 \in 1 .. Len(up[o]) /\ Tail(up[o])[k] = up[o][k + 1]
  BY <1>1, TailIs DEF EventsOK
<1> HIDE DEF e
<1>5. Wires'
  <2>1. /\ EventsOK(Append(box["api"], e)) /\ EventsOK(Append(box["worker"], e))
    BY <1>2, EventsAppend DEF Wires
  <2>2. /\ DOMAIN up' = DOMAIN up /\ up'[o] = Tail(up[o])
        /\ \A p \in DOMAIN up : p # o => up'[p] = up[p]
    BY <1>3
  <2>3. /\ DOMAIN box' = DOMAIN box /\ box'["api"] = Append(box["api"], e)
        /\ box'["worker"] = Append(box["worker"], e)
    BY <1>3 DEF Wires
  <2>4. ASSUME NEW c, NEW k \in 1 .. Len(up'["master"])
        PROVE  ~IsChunk(up'["master"][k], c)
    <3>1. CASE o = "master"
      BY <3>1, <2>2, <2>4, <1>4 DEF Wires
    <3>2. CASE o # "master"
      BY <3>2, <2>2, <2>4 DEF Wires
    <3> QED BY <3>1, <3>2
  <2>5. EventsOK(up'["master"]) /\ EventsOK(up'["worker"])
    BY <2>2, <1>1, <1>2 DEF Wires
  <2> QED BY <2>1, <2>2, <2>3, <2>4, <2>5, <1>3 DEF Wires
<1>6. Views' /\ Clients' /\ Runners'
  <2>1. StateOK(EventApply(st["master"], e))
    BY <1>2, ApplyKeepsType DEF Views, Holders
  <2>2. \A h \in Holders : StateOK(st'[h])
    BY <2>1, <1>3 DEF Views, Holders
  <2>3. lost' \subseteq Commands
    BY <1>2, <1>3 DEF EventOK, Views
  <2> QED BY <2>2, <2>3, <1>3 DEF Views, Clients, Runners
<1>7. ASSUME NEW c \in Commands PROVE InOrder(c)' /\ OnTheWay(c)'
  <2>1. InOrder(c)'
    BY <1>3 DEF InOrder
  <2>2. IsSeq(box["api"]) /\ IsSeq(up["worker"])
    BY DEF Wires, EventsOK
  <2>3. CASE o = "worker"
    <3>1. Flow' = Append(box["api"], e) \o Tail(up["worker"])
      BY <2>3, <1>3 DEF Flow, Wires
    <3>2. Flow' = Flow
      BY <3>1, <2>2, <2>3, <1>1, Moved DEF Flow, e
    <3> QED BY <2>1, <3>2, <1>3 DEF OnTheWay
  <2>4. CASE o = "master"
    <3>1. Flow' = Append(box["api"], e) \o up["worker"]
      BY <2>4, <1>3 DEF Flow, Wires
    <3>2. ~IsChunk(e, c)
      BY <2>4, <1>4 DEF Wires
    <3>3. /\ \A x : Continued(Flow, c, 0, x, run[c]) => Continued(Flow', c, 0, x, run[c])
          /\ Steady(Flow, c, run[c]) => Steady(Flow', c, run[c])
      BY <3>1, <3>2, <2>2, Inserted DEF Flow
    <3> HIDE DEF Flow
    <3>4. /\ Steady(Flow, c, run[c])
          /\ apiUp => Linked(queue[c], Flow, got[c], run[c], c)
      BY DEF OnTheWay
    <3>5. apiUp' => Linked(queue[c], Flow', got[c], run[c], c)
      BY <3>3, <3>4, <1>3 DEF Linked
    <3> QED BY <2>1, <3>3, <3>4, <3>5, <1>3 DEF OnTheWay
  <2> QED BY <2>3, <2>4, <1>1
<1> QED BY <1>5, <1>6, <1>7

(* Events and a new view of the runner that keep chunks continued keep     *)
(* what is on the way to a client in order.                                *)
LEMMA RunnerKeepsWay ==
  ASSUME Inv, NEW c \in Commands, NEW f, Flow' = f,
         UNCHANGED <<queue, http, got, apiUp>>,
         \A x : Continued(Flow, c, 0, x, run[c]) => Continued(f, c, 0, x, run'[c]),
         Steady(Flow, c, run[c]) => Steady(f, c, run'[c])
  PROVE  InOrder(c)' /\ OnTheWay(c)'
<1>1. InOrder(c) /\ OnTheWay(c)
  BY DEF Inv
<1>2. InOrder(c)'
  BY <1>1 DEF InOrder
<1>3. apiUp' => Linked(queue[c], f, got[c], run'[c], c)
  BY <1>1 DEF OnTheWay, Linked
<1> QED BY <1>1, <1>2, <1>3 DEF OnTheWay

(* What the worker sends comes after all that is on its way.               *)
LEMMA FlowIsSeq ==
  ASSUME Wires
  PROVE  IsSeq(Flow) /\ Len(Flow) \in Nat
         /\ \A es : IsSeq(es) =>
              box["api"] \o (up["worker"] \o es) = Flow \o es
<1>1. IsSeq(box["api"]) /\ IsSeq(up["worker"])
  BY DEF Wires, EventsOK
<1>2. IsSeq(Flow)
  BY <1>1, ConcatIs DEF Flow
<1>3. Len(Flow) \in Nat
  <2>1. IsSeq(<< >>)
    BY OneOrTwo
  <2> QED BY <1>2, <2>1, ConcatIs
<1>4. ASSUME NEW es, IsSeq(es)
      PROVE  box["api"] \o (up["worker"] \o es) = Flow \o es
  <2> DEFINE p == box["api"]
             q == up["worker"]
  <2>1. IsSeq(p) /\ IsSeq(q)
    BY <1>1
  <2> HIDE DEF p, q
  <2>2. p \o (q \o es) = (p \o q) \o es
    BY <2>1, <1>4, Assoc
  <2> QED BY <2>2 DEF Flow, p, q
<1> QED BY <1>2, <1>3, <1>4

(* A task that ends on the runner without a word.                          *)
LEMMA EndsKeepInv ==
  ASSUME Inv, WorkerApply \/ \E c \in Commands : RunnerCancels(c)
  PROVE  Inv'
<1> USE DEF Inv, Typed
<1>1. /\ UNCHANGED <<cmds, up, mapping, http, queue, told, cancelled, got, apiUp,
                     lost, faults>>
      /\ box'["api"] = box["api"] /\ DOMAIN run' = Commands
      /\ \A c \in Commands : run'[c] = run[c] \/ run'[c] = Over
  BY DEF WorkerApply, RunnerCancels, Wires, Runners
<1>2. Flow' = Flow
  BY <1>1 DEF Flow
<1>3. RunOK(Over)
  BY RequestConstants DEF RunOK, Over
<1>4. Runners'
  BY <1>1, <1>3 DEF Runners
<1>5. Wires' /\ Views' /\ Clients'
  <2>1. CASE WorkerApply
    <3> DEFINE e == Head(box["worker"])
    <3>1. EventOK(e) /\ EventsOK(Tail(box["worker"]))
      BY <2>1, EventsTail DEF WorkerApply, Wires
    <3>2. /\ box' = [box EXCEPT !["worker"] = Tail(@)]
          /\ st' = [st EXCEPT !["worker"] = EventApply(@, e)]
      BY <2>1 DEF WorkerApply
    <3> HIDE DEF e
    <3>3. StateOK(EventApply(st["worker"], e))
      BY <3>1, ApplyKeepsType DEF Views, Holders
    <3>4. Wires'
      BY <1>1, <3>1, <3>2 DEF Wires
    <3>5. Views'
      BY <1>1, <3>2, <3>3 DEF Views, Holders
    <3> QED BY <1>1, <3>4, <3>5 DEF Clients
  <2>2. CASE \E c \in Commands : RunnerCancels(c)
    BY <1>1, <2>2 DEF RunnerCancels, Wires, Views, Clients
  <2> QED BY <2>1, <2>2
<1>6. ASSUME NEW c \in Commands PROVE InOrder(c)' /\ OnTheWay(c)'
  <2>1. CASE run'[c] = run[c]
    BY <2>1, <1>1, <1>2, RunnerKeepsWay
  <2>2. CASE run'[c] = Over
    <3>1. run'[c].state = "over"
      BY <2>2 DEF Over
    <3> QED BY <3>1, <1>1, <1>2, OtherRun, RunnerKeepsWay
  <2> QED BY <2>1, <2>2, <1>1
<1> QED BY <1>4, <1>5, <1>6

(* What the runner or the worker says of a task, and its new view of it.   *)
LEMMA SaidKeepsInv ==
  ASSUME Inv, NEW es, EventsOK(es), Emit(es), DOMAIN run' = Commands,
         \A c \in Commands : RunOK(run'[c]), faults' \in Nat,
         UNCHANGED <<cmds, box, st, mapping, http, queue, told, cancelled, got,
                     apiUp, lost>>,
         \A c \in Commands :
           \/ /\ \A k \in 1 .. Len(es) : ~IsChunk(es[k], c)
              /\ run'[c] = run[c] \/ ~(run[c].state \in {"running", "over"})
           \/ /\ run[c].state = "running"
              /\ \E p \in 1 .. Len(es) :
                   /\ IsChunk(es[p], c) /\ es[p].n = run[c].n + 1
                   /\ \A k \in 1 .. Len(es) : IsChunk(es[k], c) => k = p
                   /\ \/ es[p].fin # "no"
                      \/ run'[c].state = "running" /\ run'[c].n = run[c].n + 1
  PROVE  Inv'
<1>1. Wires /\ Views /\ Clients /\ IsSeq(es)
  BY DEF Inv, Typed, EventsOK
<1>2. Wires' /\ Flow' = box["api"] \o (up["worker"] \o es)
  BY <1>1, EmitKeepsWires
<1>3. IsSeq(Flow) /\ Len(Flow) \in Nat /\ Flow' = Flow \o es
  BY <1>1, <1>2, FlowIsSeq
<1>4. Views' /\ Clients' /\ Runners'
  BY <1>1 DEF Views, Clients, Runners
<1>5. ASSUME NEW c \in Commands PROVE InOrder(c)' /\ OnTheWay(c)'
  <2>1. CASE /\ \A k \in 1 .. Len(es) : ~IsChunk(es[k], c)
             /\ run'[c] = run[c] \/ ~(run[c].state \in {"running", "over"})
    <3>1. /\ \A x : Continued(Flow, c, 0, x, run[c]) => Continued(Flow \o es, c, 0, x, run[c])
          /\ Steady(Flow, c, run[c]) => Steady(Flow \o es, c, run[c])
      BY <1>1, <1>3, <2>1, ContinuedMore, SteadyMore
    <3>2. /\ \A x : Continued(Flow \o es, c, 0, x, run[c])
                      => Continued(Flow \o es, c, 0, x, run'[c])
          /\ Steady(Flow \o es, c, run[c]) => Steady(Flow \o es, c, run'[c])
      BY <2>1, OtherRun
    <3> QED BY <1>3, <3>1, <3>2, RunnerKeepsWay
  <2>2. CASE /\ run[c].state = "running"
             /\ \E p \in 1 .. Len(es) :
                  /\ IsChunk(es[p], c) /\ es[p].n = run[c].n + 1
                  /\ \A k \in 1 .. Len(es) : IsChunk(es[k], c) => k = p
                  /\ \/ es[p].fin # "no"
                     \/ run'[c].state = "running" /\ run'[c].n = run[c].n + 1
    <3>1. PICK p \in 1 .. Len(es) :
                  /\ IsChunk(es[p], c) /\ es[p].n = run[c].n + 1
                  /\ \A k \in 1 .. Len(es) : IsChunk(es[k], c) => k = p
                  /\ \/ es[p].fin # "no"
                     \/ run'[c].state = "running" /\ run'[c].n = run[c].n + 1
      BY <2>2
    <3>2. /\ \A i \in Nat : \A x : i <= Len(Flow) /\ Continued(Flow, c, i, x, run[c])
                                     => Continued(Flow \o es, c, i, x, run'[c])
          /\ Steady(Flow, c, run[c]) => Steady(Flow \o es, c, run'[c])
      BY <1>1, <1>3, <2>2, <3>1, NextChunk
    <3>3. \A x : Continued(Flow, c, 0, x, run[c]) => Continued(Flow \o es, c, 0, x, run'[c])
      BY <3>2, <1>3
    <3> QED BY <1>3, <3>2, <3>3, RunnerKeepsWay
  <2> QED BY <2>1, <2>2
<1> QED BY <1>2, <1>4, <1>5 DEF Inv, Typed

(* The worker starts a task: no chunk of it has been made by this runner.  *)
LEMMA StartKeepsInv ==
  ASSUME Inv, NEW c \in Commands, WorkerStart(c)
  PROVE  Inv'
<1> DEFINE t == st["worker"].tasks[c]
           a == TaskCreated(c, t.inst, t.status)
           b == TaskStatusUpdated(c, "Running")
           es == << a, b >>
<1>1. /\ run' = [run EXCEPT ![c] = [state |-> "running", n |-> 0, inst |-> t.inst]]
      /\ Emit(es) /\ run[c].state = "no"
      /\ UNCHANGED <<cmds, box, st, mapping, http, queue, told, cancelled, got,
                     apiUp, lost, faults>>
  BY DEF WorkerStart, StartsTask
<1>2. EventOK(a) /\ EventOK(b) /\ \A d : ~IsChunk(a, d) /\ ~IsChunk(b, d)
  BY DEF EventOK, EventKinds, IsChunk, TaskCreated, TaskStatusUpdated
<1> HIDE DEF a, b
<1>3. EventsOK(es)
  BY <1>2, OneOrTwoEvents
<1>4. Len(es) = 2 /\ es[1] = a /\ es[2] = b
  BY OneOrTwo
<1> HIDE DEF es
<1>5. \A d : \A k \in 1 .. Len(es) : ~IsChunk(es[k], d)
  BY <1>2, <1>4
<1>6. /\ DOMAIN run' = Commands /\ \A d \in Commands : RunOK(run'[d])
      /\ \A d \in Commands : run'[d] = run[d] \/ run[d].state = "no"
  <2> DEFINE r == [state |-> "running", n |-> 0, inst |-> t.inst]
  <2>1. RunOK(r)
    BY RequestConstants DEF RunOK
  <2> QED BY <1>1, <2>1 DEF Inv, Typed, Runners
<1>7. faults' \in Nat
  BY <1>1 DEF Inv, Typed, Views
<1> QED BY <1>1, <1>3, <1>5, <1>6, <1>7, SaidKeepsInv

(* The runner makes the next chunk, and with the last one is done.         *)
LEMMA ChunkKeepsInv ==
  ASSUME Inv, NEW c \in Commands, RunnerChunk(c)
  PROVE  Inv'
<1> DEFINE n == run[c].n + 1
           fin == IsLast(n)
           a == ChunkGenerated(c, n, IF fin THEN "stop" ELSE "no")
           b == TaskStatusUpdated(c, "Complete")
           l == IF fin THEN << b >> ELSE << >>
           es == << a >> \o l
<1>1. /\ run' = [run EXCEPT ![c] = IF fin THEN Over ELSE [@ EXCEPT !.n = n]]
      /\ Emit(es) /\ run[c].state = "running"
      /\ UNCHANGED <<cmds, box, st, mapping, http, queue, told, cancelled, got,
                     apiUp, lost, faults>>
  BY DEF RunnerChunk
<1>2. RunOK(run[c]) /\ DOMAIN run = Commands /\ n \in Nat
  BY DEF Inv, Typed, Runners, RunOK
<1>3. /\ EventOK(a) /\ EventOK(b) /\ \A d : ~IsChunk(b, d) /\ (IsChunk(a, d) <=> d = c)
      /\ a.n = n /\ (~fin => a.fin = "no") /\ (fin => a.fin # "no")
  BY <1>2 DEF EventOK, EventKinds, Fins, IsChunk, ChunkGenerated, TaskStatusUpdated
<1> HIDE DEF a, b
<1>4. EventsOK(<< a >>) /\ IsSeq(<< a >>) /\ Len(<< a >>) = 1 /\ << a >>[1] = a
  BY <1>3, OneOrTwo, OneOrTwoEvents
<1>5. EventsOK(l) /\ \A d : \A k \in 1 .. Len(l) : ~IsChunk(l[k], d)
  <2>1. CASE fin
    <3>1. EventsOK(<< b >>) /\ Len(<< b >>) = 1 /\ << b >>[1] = b
      BY <1>3, OneOrTwo, OneOrTwoEvents
    <3> QED BY <2>1, <3>1, <1>3
  <2>2. CASE ~fin
    <3> DEFINE z == << >>
    <3>1. EventsOK(z) /\ Len(z) = 0
      BY <1>3, OneOrTwo, OneOrTwoEvents
    <3> HIDE DEF z
    <3>2. \A d : \A k \in 1 .. Len(z) : ~IsChunk(z[k], d)
      BY <3>1
    <3>3. l = z
      BY <2>2 DEF z
    <3> QED BY <3>1, <3>2, <3>3
  <2> QED BY <2>1, <2>2
<1> DEFINE h == << a >>
<1> HIDE DEF l, h, n, fin
<1>6. EventsOK(h \o l) /\ IsSeq(l)
  BY <1>4, <1>5, EventsConcat DEF h, EventsOK
<1>7. /\ Len(l) \in Nat /\ Len(h \o l) = 1 + Len(l) /\ (h \o l)[1] = a
      /\ \A k \in 1 .. Len(h \o l) : k = 1 \/ (k - 1 \in 1 .. Len(l) /\ (h \o l)[k] = l[k - 1])
  BY <1>4, <1>6, ConcatIs DEF h
<1> DEFINE w == h \o l
<1> HIDE DEF w
<1>8. 1 \in 1 .. Len(w) /\ w[1] = a
  BY <1>7 DEF w
<1>9. \A d : \A k \in 1 .. Len(w) : IsChunk(w[k], d) => k = 1 /\ d = c
  BY <1>3, <1>5, <1>7, <1>8 DEF w
<1>10. run'[c] = IF fin THEN Over ELSE [run[c] EXCEPT !.n = n]
  BY <1>1, <1>2
<1>11. RunOK(run'[c])
  <2>1. CASE fin
    BY <2>1, <1>10, RequestConstants DEF RunOK, Over
  <2>2. CASE ~fin
    <3>1. /\ run[c].n \in 0 .. LastChunk /\ run[c].n < LastChunk /\ LastChunk \in Nat
          /\ run[c].n + 1 # LastChunk
      BY <2>2, <1>1, <1>2, RequestConstants DEF RunOK, fin, n, IsLast
    <3>2. n \in 0 .. LastChunk /\ n < LastChunk
      BY <3>1 DEF n
    <3>3. run'[c] = [run[c] EXCEPT !.n = n]
      BY <2>2, <1>10
    <3>4. run'[c].n = n /\ run'[c].state = "running" /\ {"state", "n"} \subseteq DOMAIN run'[c]
      BY <3>3, <1>1, <1>2 DEF RunOK
    <3> QED BY <3>2, <3>4 DEF RunOK
  <2> QED BY <2>1, <2>2
<1>12. ~fin => run'[c].state = "running" /\ run'[c].n = run[c].n + 1
  BY <1>1, <1>2, <1>10 DEF RunOK, n
<1>13. /\ DOMAIN run' = Commands /\ \A d \in Commands : RunOK(run'[d])
       /\ \A d \in Commands : d # c => run'[d] = run[d]
  BY <1>1, <1>2, <1>11 DEF Inv, Typed, Runners
<1>14. \A d \in Commands :
         \/ /\ \A k \in 1 .. Len(w) : ~IsChunk(w[k], d)
            /\ run'[d] = run[d] \/ ~(run[d].state \in {"running", "over"})
         \/ /\ run[d].state = "running"
            /\ \E p \in 1 .. Len(w) :
                 /\ IsChunk(w[p], d) /\ w[p].n = run[d].n + 1
                 /\ \A k \in 1 .. Len(w) : IsChunk(w[k], d) => k = p
                 /\ \/ w[p].fin # "no"
                    \/ run'[d].state = "running" /\ run'[d].n = run[d].n + 1
  <2>1. ASSUME NEW d \in Commands, d # c
        PROVE  (\A k \in 1 .. Len(w) : ~IsChunk(w[k], d)) /\ run'[d] = run[d]
    BY <2>1, <1>9, <1>13
  <2>2. /\ IsChunk(w[1], c) /\ w[1].n = run[c].n + 1
        /\ \A k \in 1 .. Len(w) : IsChunk(w[k], c) => k = 1
        /\ \/ w[1].fin # "no"
           \/ run'[c].state = "running" /\ run'[c].n = run[c].n + 1
    BY <1>3, <1>8, <1>9, <1>12 DEF n
  <2> QED BY <2>1, <2>2, <1>1, <1>8
<1>15. EventsOK(w) /\ Emit(w) /\ faults' \in Nat
  BY <1>1, <1>6 DEF w, h, Inv, Typed, Views
<1> QED BY <1>1, <1>13, <1>14, <1>15, SaidKeepsInv

(* The runner dies: every task in progress gets one error chunk.           *)
LEMMA FailureKeepsInv ==
  ASSUME Inv, RequestConstants, NEW i \in Instances, RunnerFails(i)
  PROVE  Inv'
<1> DEFINE hit == {c \in Commands : run[c].state = "running" /\ run[c].inst = i}
           f == [c \in hit |-> ChunkGenerated(c, run[c].n + 1, "error")]
           S == {ChunkGenerated(c, run[c].n + 1, "error") : c \in hit}
           es == ErrorChunks(hit)
<1>1. /\ run' = [c \in Commands |-> IF c \in hit THEN NotStarted ELSE run[c]]
      /\ Emit(es) /\ faults' = faults + 1
      /\ UNCHANGED <<cmds, box, st, mapping, http, queue, told, cancelled, got,
                     apiUp, lost>>
  BY DEF RunnerFails
<1>2. \A c \in Commands : RunOK(run[c])
  BY DEF Inv, Typed, Runners
<1>3. \A c \in hit : /\ EventOK(f[c]) /\ f[c].n = run[c].n + 1 /\ f[c].fin # "no"
                     /\ \A d : IsChunk(f[c], d) <=> d = c
  BY <1>2 DEF RunOK, EventOK, EventKinds, Fins, IsChunk, ChunkGenerated
<1>4. IsFiniteSet(hit)
  BY FS_Subset DEF RequestConstants
<1>5. S = {f[c] : c \in hit} /\ DOMAIN f = hit
  OBVIOUS
<1>6. IsFiniteSet(S)
  <2> HIDE DEF hit, f
  <2>1. DOMAIN f = hit
    BY <1>5
  <2>2. IsFiniteSet({f[c] : c \in hit})
    BY <1>4, <2>1, ImageFinite
  <2> QED BY <2>2, <1>5
<1>7. es = SetToSeq(S)
  BY DEF ErrorChunks
<1> HIDE DEF hit, f, S, es
<1>8. /\ IsSeq(es) /\ Len(es) \in Nat
      /\ \A k \in 1 .. Len(es) : es[k] \in S
      /\ \A x \in S : \E k \in 1 .. Len(es) : es[k] = x
      /\ \A j, k \in 1 .. Len(es) : es[j] = es[k] => j = k
  BY <1>6, <1>7, Listed
<1> USE DEF hit
<1>9. \A k \in 1 .. Len(es) : \E c \in hit : es[k] = f[c]
  BY <1>5, <1>8
<1>10. EventsOK(es)
  BY <1>3, <1>8, <1>9 DEF EventsOK
<1>11. \A c \in Commands : RunOK(run'[c])
  <2>1. RunOK(NotStarted)
    BY DEF RunOK, NotStarted, RequestConstants
  <2> QED BY <2>1, <1>1, <1>2
<1>12. ASSUME NEW c \in Commands, c \notin hit
       PROVE  (\A k \in 1 .. Len(es) : ~IsChunk(es[k], c)) /\ run'[c] = run[c]
  <2>1. run'[c] = run[c]
    BY <1>1, <1>12
  <2>2. ASSUME NEW k \in 1 .. Len(es) PROVE ~IsChunk(es[k], c)
    <3>1. PICK d \in hit : es[k] = f[d]
      BY <1>9
    <3>2. d # c
      BY <1>12
    <3> QED BY <3>1, <3>2, <1>3
  <2> QED BY <2>1, <2>2
<1>13. ASSUME NEW c \in hit
       PROVE  /\ run[c].state = "running"
              /\ \E p \in 1 .. Len(es) :
                   /\ IsChunk(es[p], c) /\ es[p].n = run[c].n + 1 /\ es[p].fin # "no"
                   /\ \A k \in 1 .. Len(es) : IsChunk(es[k], c) => k = p
  <2>1. f[c] \in S
    BY <1>5
  <2>2. PICK p \in 1 .. Len(es) : es[p] = f[c]
    BY <2>1, <1>8
  <2>3. ASSUME NEW k \in 1 .. Len(es), IsChunk(es[k], c) PROVE k = p
    <3>1. PICK d \in hit : es[k] = f[d]
      BY <1>9
    <3>2. d = c
      BY <3>1, <2>3, <1>3
    <3> QED BY <3>1, <3>2, <2>2, <1>8
  <2> QED BY <2>2, <2>3, <1>3
<1>14. /\ DOMAIN run' = Commands /\ faults' \in Nat
  BY <1>1 DEF Inv, Typed, Views
<1>15. \A c \in Commands :
         \/ /\ \A k \in 1 .. Len(es) : ~IsChunk(es[k], c)
            /\ run'[c] = run[c] \/ ~(run[c].state \in {"running", "over"})
         \/ /\ run[c].state = "running"
            /\ \E p \in 1 .. Len(es) :
                 /\ IsChunk(es[p], c) /\ es[p].n = run[c].n + 1
                 /\ \A k \in 1 .. Len(es) : IsChunk(es[k], c) => k = p
                 /\ \/ es[p].fin # "no"
                    \/ run'[c].state = "running" /\ run'[c].n = run[c].n + 1
  <2> HIDE DEF hit
  <2> QED BY <1>12, <1>13
<1> QED BY <1>1, <1>10, <1>11, <1>14, <1>15, SaidKeepsInv

(* Another master: nothing is on its way, and no queue takes chunks.       *)
LEMMA ResetKeepsInv ==
  ASSUME Inv, Reset
  PROVE  Inv'
<1> USE DEF Inv, Typed
<1> DEFINE z == << >>
<1>1. z \o z = z
  OBVIOUS
<1>2. IsSeq(z) /\ Len(z) = 0
  BY OneOrTwo
<1>3. /\ cmds' = z /\ up' = [o \in DOMAIN up |-> z] /\ box' = [h \in DOMAIN box |-> z]
  BY DEF Reset
<1> HIDE DEF z
<1>4. EventsOK(z) /\ CmdsOK(z) /\ \A c : \A k \in 1 .. Len(z) : ~IsChunk(z[k], c)
  BY <1>2 DEF EventsOK, CmdsOK
<1>5. Wires'
  BY <1>3, <1>4 DEF Wires
<1>6. Views'
  <2>1. StateOK([NewState EXCEPT !.insts = {}])
    BY DEF StateOK, NewState
  <2>2. \A h \in Holders : st'[h] = [NewState EXCEPT !.insts = {}]
    BY DEF Reset
  <2>3. DOMAIN st' = Holders /\ faults' \in Nat
        /\ mapping' \cup told' \cup cancelled' \cup lost' \subseteq Commands
    BY DEF Reset, Views
  <2> QED BY <2>1, <2>2, <2>3 DEF Views
<1>7. ASSUME NEW c \in Commands
      PROVE  QueueOK(queue'[c]) /\ queue'[c].buf = queue[c].buf /\ ~queue'[c].registered
  <2>1. queue'[c] = [queue[c] EXCEPT !.registered = FALSE] /\ QueueOK(queue[c])
    BY DEF Reset, Clients
  <2> QED BY <2>1 DEF QueueOK
<1>8. Clients'
  BY <1>7 DEF Clients, Reset
<1>9. Runners'
  <2>1. RunOK(Over)
    BY RequestConstants DEF RunOK, Over
  <2> QED BY <2>1 DEF Runners, Reset
<1>10. ASSUME NEW c \in Commands PROVE InOrder(c)' /\ OnTheWay(c)'
  <2>1. Flow' = z
    BY <1>1, <1>3 DEF Flow, Wires
  <2>2. Steady(z, c, run'[c])
    BY <1>2 DEF Steady
  <2>3. InOrder(c)'
    BY <1>7 DEF InOrder, Reset
  <2> QED BY <2>1, <2>2, <2>3, <1>7 DEF OnTheWay, Linked
<1> QED BY <1>5, <1>6, <1>8, <1>9, <1>10

(* Every step keeps the invariant.                                         *)
LEMMA NextKeepsInv ==
  ASSUME Inv, RequestConstants, [RequestsNext]_rqvars
  PROVE  Inv'
<1>1. CASE UNCHANGED rqvars
  BY <1>1 DEF rqvars, Inv, Typed, Wires, Views, Clients, Runners, InOrder, OnTheWay, Flow
<1>2. CASE RequestsNext
  BY <1>2, ClientKeepsInv, CommandsKeepInv, ApiKeepsInv, IndexKeepsInv, EndsKeepInv,
     StartKeepsInv, ChunkKeepsInv, FailureKeepsInv, ResetKeepsInv DEF RequestsNext
<1> QED BY <1>1, <1>2

(* What a client reads follows from what it has read and its queue holds.  *)
LEMMA InvIsEnough == Inv => OneGeneration
<1> SUFFICES ASSUME Inv PROVE OneGeneration
  OBVIOUS
<1>1. RequestsTypeOK
  <2>1. \A h \in Holders : st[h].insts \subseteq Instances /\ DOMAIN st[h].tasks \subseteq Commands
    BY DEF Inv, Typed, Views, StateOK
  <2>2. \A c \in Commands : queue[c].channel \in {"none", "open", "closed", "broken"}
    BY DEF Inv, Typed, Clients, QueueOK
  <2>3. \A c \in Commands : run[c].state \in {"no", "running", "over"} /\ run[c].n \in 0 .. LastChunk
    BY DEF Inv, Typed, Runners, RunOK
  <2> QED BY <2>1, <2>2, <2>3 DEF Inv, Typed, Views, Clients, RequestsTypeOK
<1>2. ASSUME NEW c \in Commands, NEW j \in DOMAIN queue[c].buf
      PROVE  LET read == << [n |-> got[c], fin |-> "no"] >> \o queue[c].buf
             IN  (\A k \in 1 .. j : read[k].fin = "no") =>
                   read[j].n = 0 \/ read[j + 1].n = read[j].n + 1
  <2> DEFINE b == queue[c].buf
             h == << [n |-> got[c], fin |-> "no"] >>
             read == h \o b
  <2>1. b \in Seq([n : Nat, fin : Fins])
    <3>1. QueueOK(queue[c])
      BY DEF Inv, Typed, Clients
    <3> QED BY <3>1 DEF QueueOK
  <2>2. IsSeq(h) /\ Len(h) = 1 /\ h[1] = [n |-> got[c], fin |-> "no"]
    BY OneOrTwo
  <2>3. /\ got[c] # 0 /\ b # << >> => b[1].n = got[c] + 1
        /\ \A k \in 1 .. Len(b) : k + 1 \in 1 .. Len(b) /\ b[k].fin = "no"
                                    => b[k + 1].n = b[k].n + 1
    BY DEF Inv, InOrder
  <2>4. j \in 1 .. Len(b) /\ Len(b) \in Nat /\ b # << >>
    BY <1>2, <2>1
  <2>5. IsSeq(b)
    BY <2>1 DEF IsSeq
  <2> HIDE DEF b, h
  <2>6. /\ \A k \in 1 .. Len(h) : read[k] = h[k]
        /\ \A k \in 1 .. Len(b) : read[Len(h) + k] = b[k]
    <3>1. IsSeq(h) /\ IsSeq(b)
      BY <2>2, <2>5
    <3> QED BY <3>1, ConcatIs
  <2> HIDE DEF read
  <2>7. (\A k \in 1 .. Len(b) : read[1 + k] = b[k]) /\ read[1].n = got[c]
    <3>1. 1 \in 1 .. Len(h) /\ h[1].n = got[c]
      BY <2>2
    <3> QED BY <3>1, <2>2, <2>6
  <2>8. ASSUME \A k \in 1 .. j : read[k].fin = "no"
        PROVE  read[j].n = 0 \/ read[j + 1].n = read[j].n + 1
    <3>1. read[j + 1] = b[j]
      BY <2>4, <2>7
    <3>2. CASE j = 1
      BY <3>1, <3>2, <2>3, <2>4, <2>7
    <3>3. CASE j # 1
      <4>1. j - 1 \in 1 .. Len(b) /\ (j - 1) + 1 = j /\ j \in 1 .. Len(b) /\ 1 + (j - 1) = j
        BY <3>3, <2>4
      <4>2. read[j] = b[j - 1] /\ read[j].fin = "no"
        BY <4>1, <2>7, <2>8, <2>4
      <4> QED BY <4>1, <4>2, <3>1, <2>3
    <3> QED BY <3>2, <3>3
  <2> QED BY <2>8 DEF read, h, b
<1>3. Contiguous
  BY <1>2 DEF Contiguous
<1> QED BY <1>1, <1>3 DEF OneGeneration

(* However chunks, cancellations, deletions, failures and changes of       *)
(* master interleave, what a client reads is one run of the generation it  *)
(* asked for: nothing is lost in the middle, repeated or taken from        *)
(* another request, and no generation goes past its end.                   *)
THEOREM OneGenerationHolds == RequestsSpec => []OneGeneration
<1>1. RequestsInit => Inv
  BY InitInv, RequestConstants
<1>2. Inv /\ [RequestsNext]_rqvars => Inv'
  BY NextKeepsInv, RequestConstants
<1> QED BY <1>1, <1>2, InvIsEnough, PTL DEF RequestsSpec

-----------------------------------------------------------------------------
(* The images of an edit on their way.                                     *)

(* The image of an edit, and its chunks as the worker buffers them.        *)
EditImage(u) == Wanted[u][1]
Pieces(u) ==
  {[c |-> [img |-> EditImage(u), part |-> i], idx |-> i - 1] : i \in 1 .. PartsOf[EditImage(u)]}

Enumerated(s) == s \in Seq({s[i] : i \in DOMAIN s})

(* A request that sends an edit has its last chunks left.                  *)
JobOK(u, j) ==
  /\ j = [pc |-> j.pc, left |-> j.left, total |-> j.total, session |-> j.session]
  /\ u \in EditsOf /\ j.pc = "sending" =>
       LET n == PartsOf[EditImage(u)]
       IN  /\ Enumerated(j.left) /\ Len(j.left) <= n /\ j.total = n
           /\ \A i \in 1 .. Len(j.left) :
                j.left[i] = [img |-> EditImage(u), part |-> n - Len(j.left) + i]

(* A message under way is of a request; a chunk of an edit is a piece of   *)
(* its image, at the index where it belongs.                               *)
MessageOK(e) ==
  /\ e.u \in Uploads
  /\ e.k # "task" /\ e.u \in EditsOf => [c |-> e.c, idx |-> e.idx] \in Pieces(e.u)

UploadInv ==
  /\ load \in Workloads
  /\ DOMAIN job = Uploads /\ \A u \in Uploads : JobOK(u, job[u])
  /\ Enumerated(wire) /\ \A i \in 1 .. Len(wire) : MessageOK(wire[i])
  /\ DOMAIN buffer = Uploads /\ \A u \in EditsOf : buffer[u] \subseteq Pieces(u)
  /\ DOMAIN started = Uploads /\ RightImages

LEMMA EnumeratedIs ==
  /\ Enumerated(<< >>)
  /\ \A S : \A s \in Seq(S) : Enumerated(s)
  /\ \A s, e : Enumerated(s) =>
       /\ Len(s) \in Nat /\ DOMAIN s = 1 .. Len(s) /\ Enumerated(Append(s, e))
       /\ Len(Append(s, e)) = Len(s) + 1 /\ Append(s, e)[Len(s) + 1] = e
       /\ \A i \in 1 .. Len(s) : Append(s, e)[i] = s[i]
       /\ s # << >> => /\ Len(s) > 0 /\ Head(s) = s[1] /\ Enumerated(Tail(s))
                       /\ Len(Tail(s)) = Len(s) - 1
                       /\ \A i \in 1 .. Len(s) - 1 : Tail(s)[i] = s[i + 1]
<1>1. ASSUME NEW S, NEW s \in Seq(S) PROVE Enumerated(s)
  <2>1. Len(s) \in Nat /\ DOMAIN s = 1 .. Len(s) /\ s \in [1 .. Len(s) -> S]
    OBVIOUS
  <2> DEFINE T == {s[i] : i \in DOMAIN s}
  <2>2. s \in [1 .. Len(s) -> T]
    BY <2>1
  <2> HIDE DEF T
  <2>3. s \in Seq(T)
    BY <2>1, <2>2
  <2> QED BY <2>3 DEF Enumerated, T
<1>2. Enumerated(<< >>)
  <2>1. << >> \in Seq({})
    OBVIOUS
  <2> QED BY <1>1, <2>1
<1>3. ASSUME NEW s, NEW e, Enumerated(s)
      PROVE  /\ Len(s) \in Nat /\ DOMAIN s = 1 .. Len(s) /\ Enumerated(Append(s, e))
             /\ Len(Append(s, e)) = Len(s) + 1 /\ Append(s, e)[Len(s) + 1] = e
             /\ \A i \in 1 .. Len(s) : Append(s, e)[i] = s[i]
             /\ s # << >> => /\ Len(s) > 0 /\ Head(s) = s[1] /\ Enumerated(Tail(s))
                             /\ Len(Tail(s)) = Len(s) - 1
                             /\ \A i \in 1 .. Len(s) - 1 : Tail(s)[i] = s[i + 1]
  <2> DEFINE S == {s[i] : i \in DOMAIN s} \cup {e}
  <2>1. s \in Seq(S) /\ e \in S
    <3>1. s \in Seq({s[i] : i \in DOMAIN s})
      BY <1>3 DEF Enumerated
    <3>2. {s[i] : i \in DOMAIN s} \subseteq S /\ e \in S
      OBVIOUS
    <3> DEFINE T == {s[i] : i \in DOMAIN s}
    <3> HIDE DEF S, T
    <3>3. s \in Seq(T) /\ T \subseteq S
      BY <3>1, <3>2 DEF T
    <3>4. Len(s) \in Nat /\ s \in [1 .. Len(s) -> T]
      BY <3>3
    <3>5. s \in [1 .. Len(s) -> S]
      BY <3>3, <3>4
    <3> QED BY <3>2, <3>4, <3>5
  <2> HIDE DEF S
  <2>2. Append(s, e) \in Seq(S)
    BY <2>1
  <2>3. s # << >> => Tail(s) \in Seq(S)
    BY <2>1
  <2>4. Enumerated(Append(s, e)) /\ (s # << >> => Enumerated(Tail(s)))
    BY <1>1, <2>2, <2>3
  <2>5. /\ Len(s) \in Nat /\ DOMAIN s = 1 .. Len(s)
        /\ Len(Append(s, e)) = Len(s) + 1 /\ Append(s, e)[Len(s) + 1] = e
        /\ \A i \in 1 .. Len(s) : Append(s, e)[i] = s[i]
    BY <2>1
  <2>6. s # << >> => /\ Len(s) > 0 /\ Head(s) = s[1] /\ Len(Tail(s)) = Len(s) - 1
                     /\ \A i \in 1 .. Len(s) - 1 : Tail(s)[i] = s[i + 1]
    BY <2>1
  <2> QED BY <2>4, <2>5, <2>6
<1> QED BY <1>1, <1>2, <1>3

LEMMA EditIs ==
  ASSUME load \in Workloads, NEW u \in Uploads
  PROVE  /\ Wanted[u] \in Seq(DOMAIN PartsOf)
         /\ u \in EditsOf => /\ Len(Wanted[u]) = 1 /\ DOMAIN Wanted[u] = {1}
                             /\ EditImage(u) \in DOMAIN PartsOf
                             /\ PartsOf[EditImage(u)] \in Nat \ {0}
<1>1. Wanted[u] \in Seq(DOMAIN PartsOf) /\ (u \in EditsOf => Len(Wanted[u]) = 1)
  BY UploadConstants DEF Wanted, EditsOf
<1>2. ASSUME u \in EditsOf
      PROVE  DOMAIN Wanted[u] = {1} /\ EditImage(u) \in DOMAIN PartsOf
  <2> DEFINE s == Wanted[u]
  <2> HIDE DEF s
  <2>1. s \in Seq(DOMAIN PartsOf) /\ Len(s) = 1
    BY <1>1, <1>2 DEF s
  <2>2. DOMAIN s = {1} /\ s[1] \in DOMAIN PartsOf
    BY <2>1
  <2> QED BY <2>2 DEF s, EditImage
<1> QED BY <1>1, <1>2, UploadConstants

(* What is sent of one image are its chunks.                               *)
LEMMA OneImage ==
  ASSUME load \in Workloads, NEW u \in EditsOf
  PROVE  ChunksOf(Wanted[u]) = Whole(EditImage(u))
<1> DEFINE s == [k \in DOMAIN Wanted[u] |-> Whole(Wanted[u][k])]
           w == Whole(EditImage(u))
           Flat(h) == h = [i \in 1 .. Len(s) |-> IF i = 1 THEN s[i] ELSE h[i - 1] \o s[i]]
<1>1. s = [k \in {1} |-> w]
  BY EditIs DEF EditsOf, EditImage
<1>2. s = <<w>>
  <2> HIDE DEF s, w
  <2>1. {1} = 1 .. 1
    OBVIOUS
  <2>2. <<w>> = [k \in 1 .. 1 |-> w]
    OBVIOUS
  <2> QED BY <1>1, <2>1, <2>2
<1>3. Len(s) = 1 /\ s[1] = w
  <2> HIDE DEF s, w
  <2> QED BY <1>2
<1> HIDE DEF s, w
<1>4. \E h : Flat(h)
  <2>1. Flat([i \in 1 .. 1 |-> w])
    <3>1. \A i \in 1 .. 1 : i = 1
      OBVIOUS
    <3> QED BY <1>3, <3>1
  <2> QED BY <2>1
<1>5. Flat(CHOOSE h : Flat(h))
  <2> HIDE DEF Flat
  <2> QED BY <1>4
<1>6. (CHOOSE h : Flat(h))[1] = w
  <2> DEFINE h == CHOOSE g : Flat(g)
  <2>1. Flat(h)
    BY <1>5
  <2> HIDE DEF h
  <2>2. h[1] = s[1]
    <3>1. 1 \in 1 .. Len(s)
      BY <1>3
    <3> QED BY <2>1, <3>1
  <2> QED BY <1>3, <2>2 DEF h
<1>7. FlattenSeq(s) = (CHOOSE h : Flat(h))[1]
  BY <1>3 DEF FlattenSeq
<1> QED BY <1>6, <1>7 DEF ChunksOf, s, w

(* As many pieces as the image has are all of them, and in order they are  *)
(* the image.                                                              *)
LEMMA AllPieces ==
  ASSUME load \in Workloads, NEW u \in EditsOf, NEW b \in SUBSET Pieces(u),
         Cardinality(b) >= PartsOf[EditImage(u)]
  PROVE  Sorted(b) = Whole(EditImage(u))
<1> DEFINE m == EditImage(u)
           n == PartsOf[m]
           piece == [i \in 1 .. n |-> [c |-> [img |-> m, part |-> i], idx |-> i - 1]]
<1>1. n \in Nat \ {0}
  BY EditIs DEF EditsOf
<1>2. Pieces(u) = {piece[i] : i \in 1 .. n}
  BY DEF Pieces
<1> HIDE DEF n
<1>3. IsFiniteSet(1 .. n) /\ Cardinality(1 .. n) = n
  <2>1. 1 \in Int /\ n \in Int /\ ~(1 > n) /\ n - 1 + 1 = n
    BY <1>1
  <2>2. IsFiniteSet(1 .. n) /\ Cardinality(1 .. n) = IF 1 > n THEN 0 ELSE n - 1 + 1
    BY <2>1, FS_Interval
  <2> QED BY <2>1, <2>2
<1>4. IsFiniteSet(Pieces(u)) /\ Cardinality(Pieces(u)) <= n
  <2>1. piece \in Surjection(1 .. n, Pieces(u))
    <3>1. piece \in [1 .. n -> Pieces(u)]
      BY <1>2
    <3> HIDE DEF piece
    <3>2. \A t \in Pieces(u) : \E i \in 1 .. n : piece[i] = t
      BY <1>2
    <3> QED BY <3>1, <3>2 DEF Surjection
  <2> QED BY <1>3, <2>1, FS_Surjection
<1>5. b = Pieces(u) /\ Cardinality(b) = n
  <2>1. /\ Cardinality(b) <= Cardinality(Pieces(u))
        /\ Cardinality(Pieces(u)) = Cardinality(b) => Pieces(u) = b
        /\ IsFiniteSet(b)
    BY <1>4, FS_Subset
  <2>2. Cardinality(b) \in Nat /\ Cardinality(Pieces(u)) \in Nat
    BY <1>4, <2>1, FS_CardinalityType
  <2>3. Cardinality(b) >= n
    BY DEF n
  <2> QED BY <1>1, <1>4, <2>1, <2>2, <2>3
<1> DEFINE at == {c.idx : c \in b}
<1>6. /\ \A i \in 1 .. n : piece[i] \in b /\ piece[i].idx = i - 1 /\ piece[i].c = [img |-> m, part |-> i]
      /\ \A c \in b : \E i \in 1 .. n : c = piece[i]
  <2>1. \A i \in 1 .. n : piece[i].idx = i - 1 /\ piece[i].c = [img |-> m, part |-> i]
    OBVIOUS
  <2> HIDE DEF piece
  <2> QED BY <1>2, <1>5, <2>1
<1> HIDE DEF piece
<1>7. at = 0 .. n - 1
  <2>1. \A j \in 0 .. n - 1 : j + 1 \in 1 .. n /\ j = (j + 1) - 1
    BY <1>1
  <2>2. ASSUME NEW j \in 0 .. n - 1 PROVE j \in at
    <3>1. j + 1 \in 1 .. n /\ j = (j + 1) - 1
      BY <2>1
    <3>2. piece[j + 1] \in b /\ piece[j + 1].idx = j
      BY <1>6, <3>1
    <3> QED BY <3>2
  <2>3. \A j \in at : j \in 0 .. n - 1
    <3> SUFFICES ASSUME NEW c \in b PROVE c.idx \in 0 .. n - 1
      OBVIOUS
    <3>1. PICK i \in 1 .. n : c = piece[i]
      BY <1>6
    <3>2. c.idx = i - 1
      BY <1>6, <3>1
    <3> QED BY <1>1, <3>2
  <2> QED BY <2>2, <2>3
<1> HIDE DEF at
<1>8. ASSUME NEW i \in 1 .. n
      PROVE  Cardinality({j \in at : j < piece[i].idx}) = i - 1
  <2>1. piece[i].idx = i - 1
    BY <1>6
  <2>2. {j \in at : j < i - 1} = 0 .. i - 2
    BY <1>1, <1>7
  <2>3. 0 \in Int /\ i - 2 \in Int
    BY <1>1
  <2>4. Cardinality(0 .. i - 2) = IF 0 > i - 2 THEN 0 ELSE i - 2 - 0 + 1
    BY <2>3, FS_Interval
  <2>5. (IF 0 > i - 2 THEN 0 ELSE i - 2 - 0 + 1) = i - 1
    BY <1>1
  <2> QED BY <2>1, <2>2, <2>4, <2>5
<1> DEFINE nth(i) == CHOOSE c \in b : Cardinality({j \in at : j < c.idx}) = i - 1
<1>9. ASSUME NEW i \in 1 .. n
      PROVE  nth(i).c = [img |-> m, part |-> i]
  <2>1. nth(i) \in b /\ Cardinality({j \in at : j < nth(i).idx}) = i - 1
    <3>1. \E c \in b : Cardinality({j \in at : j < c.idx}) = i - 1
      BY <1>6, <1>8
    <3> QED BY <3>1
  <2>2. PICK k \in 1 .. n : nth(i) = piece[k]
    BY <1>6, <2>1
  <2>3. k - 1 = i - 1
    BY <1>8, <2>1, <2>2
  <2>4. k = i
    BY <1>1, <2>3
  <2> QED BY <1>6, <2>2, <2>4
<1>10. Sorted(b) = [i \in 1 .. n |-> nth(i).c]
  BY <1>5 DEF Sorted, at
<1>11. Whole(m) = [i \in 1 .. n |-> [img |-> m, part |-> i]]
  BY DEF Whole, n
<1> HIDE DEF nth
<1> QED BY <1>9, <1>10, <1>11

-----------------------------------------------------------------------------
(* The steps.                                                              *)

LEMMA UploadInitInv == UploadInit => UploadInv
<1> SUFFICES ASSUME UploadInit PROVE UploadInv
  OBVIOUS
<1>1. /\ load \in Workloads /\ wire = << >> /\ job = [u \in Uploads |-> NewJob]
      /\ buffer = [u \in Uploads |-> {}] /\ started = [u \in Uploads |-> << >>]
  BY DEF UploadInit
<1>2. \A u \in Uploads : JobOK(u, job[u])
  BY <1>1 DEF JobOK, NewJob
<1>3. Enumerated(wire) /\ \A i \in 1 .. Len(wire) : MessageOK(wire[i])
  <2>1. 1 .. Len(wire) = {}
    BY <1>1
  <2> QED BY <1>1, <2>1, EnumeratedIs
<1>4. RightImages
  BY <1>1 DEF RightImages
<1>5. \A u \in EditsOf : buffer[u] \subseteq Pieces(u)
  BY <1>1 DEF EditsOf
<1> QED BY <1>1, <1>2, <1>3, <1>4, <1>5 DEF UploadInv

LEMMA AcceptInv ==
  ASSUME UploadInv, NEW u \in Uploads, Accept(u)
  PROVE  UploadInv'
<1> DEFINE imgs == IF u \in EditsOf THEN Wanted[u] ELSE NewImages(u)
           chunks == ChunksOf(imgs)
           new == [pc |-> "sending", left |-> chunks, total |-> Len(chunks), session |-> session]
<1>1. /\ job' = [job EXCEPT ![u] = new]
      /\ load' = load /\ wire' = wire /\ buffer' = buffer /\ started' = started
  BY DEF Accept
<1>2. /\ load \in Workloads /\ DOMAIN job = Uploads /\ \A v \in Uploads : JobOK(v, job[v])
      /\ Enumerated(wire) /\ \A i \in 1 .. Len(wire) : MessageOK(wire[i])
      /\ DOMAIN buffer = Uploads /\ \A v \in EditsOf : buffer[v] \subseteq Pieces(v)
      /\ DOMAIN started = Uploads /\ RightImages
  BY DEF UploadInv
<1>3. Wanted' = Wanted /\ EditsOf' = EditsOf
  BY <1>1 DEF Wanted, EditsOf
<1>4. JobOK(u, new)
  <2>1. ASSUME u \in EditsOf
        PROVE  LET n == PartsOf[EditImage(u)]
               IN  /\ Enumerated(chunks) /\ Len(chunks) = n
                   /\ \A i \in 1 .. Len(chunks) :
                        chunks[i] = [img |-> EditImage(u), part |-> n - Len(chunks) + i]
    <3> DEFINE n == PartsOf[EditImage(u)]
               m == EditImage(u)
    <3>1. chunks = Whole(m)
      BY <1>2, <2>1, OneImage
    <3>2. n \in Nat \ {0}
      BY <1>2, EditIs, <2>1
    <3>3. Whole(m) = [i \in 1 .. n |-> [img |-> m, part |-> i]]
      BY DEF Whole
    <3> HIDE DEF n, m, chunks
    <3>4. chunks \in Seq({[img |-> m, part |-> i] : i \in 1 .. n}) /\ Len(chunks) = n
      BY <3>1, <3>2, <3>3
    <3>5. \A i \in 1 .. n : chunks[i] = [img |-> m, part |-> i] /\ n - n + i = i
      BY <3>1, <3>2, <3>3
    <3>6. Enumerated(chunks)
      BY <3>4, EnumeratedIs
    <3> QED BY <3>4, <3>5, <3>6 DEF n, m
  <2> HIDE DEF chunks
  <2>2. u \in EditsOf => PartsOf[EditImage(u)] \in Nat \ {0}
    BY <1>2, EditIs
  <2> QED BY <2>1, <2>2 DEF JobOK
<1> HIDE DEF new
<1>5. DOMAIN job' = Uploads /\ \A v \in Uploads : JobOK(v, job'[v])
  BY <1>1, <1>2, <1>4
<1> QED BY <1>1, <1>2, <1>3, <1>5 DEF UploadInv, JobOK, EditImage, MessageOK, Pieces, RightImages

LEMMA SendOneInv ==
  ASSUME UploadInv, NEW u \in Uploads, SendOne(u)
  PROVE  UploadInv'
<1>1. /\ job[u].pc = "sending"
      /\ load' = load /\ buffer' = buffer /\ started' = started
  BY DEF SendOne
<1>2. /\ load \in Workloads /\ DOMAIN job = Uploads /\ \A v \in Uploads : JobOK(v, job[v])
      /\ Enumerated(wire) /\ \A i \in 1 .. Len(wire) : MessageOK(wire[i])
      /\ DOMAIN buffer = Uploads /\ \A v \in EditsOf : buffer[v] \subseteq Pieces(v)
      /\ DOMAIN started = Uploads /\ RightImages
  BY DEF UploadInv
<1>3. Wanted' = Wanted /\ EditsOf' = EditsOf
  BY <1>1 DEF Wanted, EditsOf
<1> DEFINE j == job[u]
<1>4. /\ j = [pc |-> j.pc, left |-> j.left, total |-> j.total, session |-> j.session]
      /\ JobOK(u, j)
  BY <1>2 DEF JobOK
<1>5. CASE j.left = << >>
  <2> DEFINE e == [k |-> "task", u |-> u]
             new == [j EXCEPT !.pc = "sent"]
  <2>1. wire' = Append(wire, e) /\ job' = [job EXCEPT ![u] = new]
    BY <1>5 DEF SendOne
  <2>2. MessageOK(e)
    BY DEF MessageOK
  <2>3. JobOK(u, new)
    <3>1. new = [pc |-> "sent", left |-> j.left, total |-> j.total, session |-> j.session]
      BY <1>4
    <3> HIDE DEF new, j
    <3> QED BY <3>1 DEF JobOK
  <2> HIDE DEF e, new
  <2>4. Enumerated(wire') /\ \A i \in 1 .. Len(wire') : MessageOK(wire'[i])
    <3>1. /\ Enumerated(wire') /\ Len(wire') = Len(wire) + 1 /\ wire'[Len(wire) + 1] = e
          /\ \A i \in 1 .. Len(wire) : wire'[i] = wire[i]
          /\ Len(wire) \in Nat
      BY <1>2, <2>1, EnumeratedIs
    <3>2. \A i \in 1 .. Len(wire') : i \in 1 .. Len(wire) \/ i = Len(wire) + 1
      BY <3>1
    <3> QED BY <1>2, <2>2, <3>1, <3>2
  <2>5. DOMAIN job' = Uploads /\ \A v \in Uploads : JobOK(v, job'[v])
    BY <1>2, <2>1, <2>3
  <2> QED BY <1>1, <1>2, <1>3, <2>4, <2>5 DEF UploadInv, JobOK, EditImage, MessageOK, Pieces, RightImages
<1>6. CASE j.left # << >>
  <2> DEFINE e == [k |-> "chunk", u |-> u, c |-> Head(j.left), idx |-> j.total - Len(j.left),
                   total |-> j.total]
             new == [j EXCEPT !.left = Tail(@)]
  <2>1. wire' = Append(wire, e) /\ job' = [job EXCEPT ![u] = new]
    BY <1>6 DEF SendOne
  <2>2. new = [pc |-> j.pc, left |-> Tail(j.left), total |-> j.total, session |-> j.session]
    <3> DEFINE t == Tail(j.left)
    <3>1. new = [j EXCEPT !.left = t]
      OBVIOUS
    <3> HIDE DEF new, t, j
    <3>2. new = [pc |-> j.pc, left |-> t, total |-> j.total, session |-> j.session]
      BY <1>4, <3>1
    <3> QED BY <3>2 DEF t
  <2>3. ASSUME u \in EditsOf
        PROVE  MessageOK(e) /\ JobOK(u, new)
    <3> DEFINE m == EditImage(u)
               n == PartsOf[m]
               l == j.left
    <3>1. n \in Nat \ {0}
      BY <1>2, EditIs, <2>3
    <3>2. /\ Enumerated(l) /\ Len(l) <= n /\ j.total = n
          /\ \A i \in 1 .. Len(l) : l[i] = [img |-> m, part |-> n - Len(l) + i]
      BY <1>1, <1>4, <2>3 DEF JobOK
    <3> HIDE DEF n, l
    <3>3. /\ Len(l) \in Nat /\ Len(l) > 0 /\ Head(l) = l[1] /\ Enumerated(Tail(l))
          /\ Len(Tail(l)) = Len(l) - 1 /\ \A i \in 1 .. Len(l) - 1 : Tail(l)[i] = l[i + 1]
      BY <1>6, <3>2, EnumeratedIs DEF l
    <3>4. Head(l) = [img |-> m, part |-> n - Len(l) + 1]
      <4>1. 1 \in 1 .. Len(l)
        BY <3>3
      <4> QED BY <3>2, <3>3, <4>1
    <3>5. MessageOK(e)
      <4>1. e.c = Head(l) /\ e.idx = n - Len(l) /\ e.u = u
        BY <3>2 DEF l
      <4> DEFINE p == n - Len(l) + 1
      <4>2. p \in 1 .. n /\ n - Len(l) = p - 1
        BY <3>1, <3>2, <3>3
      <4> HIDE DEF p
      <4>3. Head(l) = [img |-> m, part |-> p]
        BY <3>4 DEF p
      <4>4. [c |-> Head(l), idx |-> p - 1] \in Pieces(u)
        BY <4>2, <4>3 DEF Pieces, n
      <4> HIDE DEF e
      <4> QED BY <4>1, <4>2, <4>4 DEF MessageOK
    <3>6. \A i \in 1 .. Len(Tail(l)) :
            Tail(l)[i] = [img |-> m, part |-> n - Len(Tail(l)) + i]
      <4> SUFFICES ASSUME NEW i \in 1 .. Len(l) - 1
                   PROVE  l[i + 1] = [img |-> m, part |-> n - (Len(l) - 1) + i]
        BY <3>3
      <4>1. i + 1 \in 1 .. Len(l) /\ n - Len(l) + (i + 1) = n - (Len(l) - 1) + i
        BY <3>1, <3>3
      <4> QED BY <3>2, <4>1
    <3>7. Len(Tail(l)) <= n
      BY <3>1, <3>2, <3>3
    <3>8. JobOK(u, new)
      <4>1. new.left = Tail(l) /\ new.total = n /\ new.pc = j.pc /\ new.session = j.session
        BY <2>2, <3>2 DEF l
      <4>2. new = [pc |-> new.pc, left |-> new.left, total |-> new.total, session |-> new.session]
        BY <2>2
      <4> HIDE DEF new
      <4> QED BY <3>3, <3>6, <3>7, <4>1, <4>2 DEF JobOK, n
    <3> QED BY <3>5, <3>8
  <2>4. ASSUME u \notin EditsOf
        PROVE  MessageOK(e) /\ JobOK(u, new)
    <3>1. e.u = u
      OBVIOUS
    <3>2. new = [pc |-> new.pc, left |-> new.left, total |-> new.total, session |-> new.session]
      BY <2>2
    <3> HIDE DEF e, new
    <3> QED BY <2>4, <3>1, <3>2 DEF MessageOK, JobOK
  <2> HIDE DEF e, new
  <2>5. Enumerated(wire') /\ \A i \in 1 .. Len(wire') : MessageOK(wire'[i])
    <3>1. /\ Enumerated(wire') /\ Len(wire') = Len(wire) + 1 /\ wire'[Len(wire) + 1] = e
          /\ \A i \in 1 .. Len(wire) : wire'[i] = wire[i]
          /\ Len(wire) \in Nat
      BY <1>2, <2>1, EnumeratedIs
    <3>2. \A i \in 1 .. Len(wire') : i \in 1 .. Len(wire) \/ i = Len(wire) + 1
      BY <3>1
    <3> QED BY <1>2, <2>3, <2>4, <3>1, <3>2
  <2>6. DOMAIN job' = Uploads /\ \A v \in Uploads : JobOK(v, job'[v])
    BY <1>2, <2>1, <2>3, <2>4
  <2> QED BY <1>1, <1>2, <1>3, <2>5, <2>6 DEF UploadInv, JobOK, EditImage, MessageOK, Pieces, RightImages
<1> QED BY <1>5, <1>6

(* The worker, and the network, take the first message.                    *)
LEMMA FirstMessage ==
  ASSUME Enumerated(wire), \A i \in 1 .. Len(wire) : MessageOK(wire[i]), wire # << >>
  PROVE  /\ MessageOK(Head(wire)) /\ Enumerated(Tail(wire))
         /\ \A i \in 1 .. Len(Tail(wire)) : MessageOK(Tail(wire)[i])
<1>1. /\ Len(wire) \in Nat /\ Len(wire) > 0 /\ Head(wire) = wire[1] /\ Enumerated(Tail(wire))
      /\ Len(Tail(wire)) = Len(wire) - 1
      /\ \A i \in 1 .. Len(wire) - 1 : Tail(wire)[i] = wire[i + 1]
  BY EnumeratedIs
<1>2. 1 \in 1 .. Len(wire) /\ \A i \in 1 .. Len(wire) - 1 : i + 1 \in 1 .. Len(wire)
  BY <1>1
<1> QED BY <1>1, <1>2

LEMMA CommandLostInv == UploadInv /\ CommandLost => UploadInv'
<1> SUFFICES ASSUME UploadInv, CommandLost PROVE UploadInv'
  OBVIOUS
<1>1. /\ wire # << >> /\ wire' = Tail(wire)
      /\ load' = load /\ job' = job /\ buffer' = buffer /\ started' = started
  BY DEF CommandLost
<1>2. /\ load \in Workloads /\ DOMAIN job = Uploads /\ \A v \in Uploads : JobOK(v, job[v])
      /\ Enumerated(wire) /\ \A i \in 1 .. Len(wire) : MessageOK(wire[i])
      /\ DOMAIN buffer = Uploads /\ \A v \in EditsOf : buffer[v] \subseteq Pieces(v)
      /\ DOMAIN started = Uploads /\ RightImages
  BY DEF UploadInv
<1>3. Wanted' = Wanted /\ EditsOf' = EditsOf
  BY <1>1 DEF Wanted, EditsOf
<1>4. Enumerated(wire') /\ \A i \in 1 .. Len(wire') : MessageOK(wire'[i])
  BY <1>1, <1>2, FirstMessage
<1> QED BY <1>1, <1>2, <1>3, <1>4 DEF UploadInv, JobOK, EditImage, MessageOK, Pieces, RightImages

LEMMA ApplyEventInv == UploadInv /\ ApplyEvent => UploadInv'
<1> SUFFICES ASSUME UploadInv, ApplyEvent PROVE UploadInv'
  OBVIOUS
<1> DEFINE e == Head(wire)
           buf == buffer[e.u] \cup {[c |-> e.c, idx |-> e.idx]}
<1>1. /\ wire # << >> /\ wire' = Tail(wire)
      /\ load' = load /\ job' = job /\ started' = started
      /\ IF e.k = "task" THEN buffer' = buffer ELSE buffer' = [buffer EXCEPT ![e.u] = buf]
  BY DEF ApplyEvent
<1>2. /\ load \in Workloads /\ DOMAIN job = Uploads /\ \A v \in Uploads : JobOK(v, job[v])
      /\ Enumerated(wire) /\ \A i \in 1 .. Len(wire) : MessageOK(wire[i])
      /\ DOMAIN buffer = Uploads /\ \A v \in EditsOf : buffer[v] \subseteq Pieces(v)
      /\ DOMAIN started = Uploads /\ RightImages
  BY DEF UploadInv
<1>3. Wanted' = Wanted /\ EditsOf' = EditsOf
  BY <1>1 DEF Wanted, EditsOf
<1>4. Enumerated(wire') /\ (\A i \in 1 .. Len(wire') : MessageOK(wire'[i])) /\ MessageOK(e)
  BY <1>1, <1>2, FirstMessage
<1>5. DOMAIN buffer' = Uploads /\ \A v \in EditsOf : buffer'[v] \subseteq Pieces(v)
  <2>1. EditsOf \subseteq Uploads
    BY DEF EditsOf
  <2>2. e.u \in Uploads /\ (e.k # "task" /\ e.u \in EditsOf => buf \subseteq Pieces(e.u))
    <3>1. e.k # "task" /\ e.u \in EditsOf => [c |-> e.c, idx |-> e.idx] \in Pieces(e.u)
      BY <1>4 DEF MessageOK
    <3>2. e.u \in EditsOf => buffer[e.u] \subseteq Pieces(e.u)
      BY <1>2
    <3>3. e.u \in Uploads
      BY <1>4 DEF MessageOK
    <3> HIDE DEF e
    <3> QED BY <3>1, <3>2, <3>3
  <2> HIDE DEF buf, e
  <2> QED BY <1>1, <1>2, <2>1, <2>2
<1>6. (\A m : MessageOK(m)' <=> MessageOK(m)) /\ \A v : Pieces(v)' = Pieces(v)
  BY <1>3 DEF MessageOK, Pieces, EditImage
<1>7. (\A v, k : JobOK(v, k)' <=> JobOK(v, k)) /\ (RightImages' <=> RightImages)
  BY <1>1, <1>3 DEF JobOK, EditImage, RightImages
<1> HIDE DEF e, buf
<1>8. \A v \in Uploads : JobOK(v, job[v])'
  BY <1>1, <1>2, <1>7
<1>9. \A k \in 1 .. Len(wire') : MessageOK(wire[k])'
  BY <1>4, <1>6
<1>10. \A v \in EditsOf' : buffer'[v] \subseteq Pieces(v)'
  BY <1>3, <1>5, <1>6
<1> QED BY <1>1, <1>2, <1>3, <1>4, <1>5, <1>7, <1>8, <1>9, <1>10 DEF UploadInv

LEMMA StartWithImagesInv ==
  ASSUME UploadInv, NEW u \in Uploads, StartWithImages(u)
  PROVE  UploadInv'
<1>1. /\ ImagesThere(u) /\ load' = load /\ job' = job /\ wire' = wire
      /\ started' = [started EXCEPT ![u] =
           IF u \in EditsOf THEN <<Sorted(buffer[u])>>
           ELSE [i \in DOMAIN Wanted[u] |-> Whole(Wanted[u][i])]]
      /\ buffer' = [buffer EXCEPT ![u] = {}]
  BY DEF StartWithImages
<1>2. /\ load \in Workloads /\ DOMAIN job = Uploads /\ \A v \in Uploads : JobOK(v, job[v])
      /\ Enumerated(wire) /\ \A i \in 1 .. Len(wire) : MessageOK(wire[i])
      /\ DOMAIN buffer = Uploads /\ \A v \in EditsOf : buffer[v] \subseteq Pieces(v)
      /\ DOMAIN started = Uploads /\ RightImages
  BY DEF UploadInv
<1>3. Wanted' = Wanted /\ EditsOf' = EditsOf
  BY <1>1 DEF Wanted, EditsOf
<1> DEFINE all == [i \in DOMAIN Wanted[u] |-> Whole(Wanted[u][i])]
<1>4. u \in EditsOf => <<Sorted(buffer[u])>> = all
  <2> SUFFICES ASSUME u \in EditsOf PROVE <<Sorted(buffer[u])>> = all
    OBVIOUS
  <2>1. Cardinality(buffer[u]) >= PartsOf[EditImage(u)] /\ buffer[u] \in SUBSET Pieces(u)
    BY <1>1, <1>2 DEF ImagesThere, EditImage
  <2>2. Sorted(buffer[u]) = Whole(EditImage(u))
    BY <1>2, <2>1, AllPieces
  <2>3. all = [i \in {1} |-> Whole(EditImage(u))]
    BY <1>2, EditIs DEF EditImage
  <2> DEFINE w == Whole(EditImage(u))
  <2> HIDE DEF w, all
  <2>4. {1} = 1 .. 1 /\ <<w>> = [i \in 1 .. 1 |-> w]
    OBVIOUS
  <2>5. all = <<w>>
    BY <2>3, <2>4 DEF w
  <2> QED BY <2>2, <2>5 DEF w
<1>5. started' = [started EXCEPT ![u] = all]
  BY <1>1, <1>4
<1>6. DOMAIN started' = Uploads /\ started'[u] = all
      /\ \A v \in Uploads : v # u => started'[v] = started[v]
  <2> HIDE DEF all
  <2> QED BY <1>2, <1>5
<1>7. RightImages'
  <2>1. \A v \in Uploads : started[v] # << >> =>
          started[v] = [i \in DOMAIN Wanted[v] |-> Whole(Wanted[v][i])]
    BY <1>2 DEF RightImages
  <2>2. \A v \in Uploads : started'[v] # << >> =>
          started'[v] = [i \in DOMAIN Wanted[v] |-> Whole(Wanted[v][i])]
    BY <1>6, <2>1
  <2> QED BY <1>3, <2>2 DEF RightImages
<1>8. DOMAIN buffer' = Uploads /\ \A v \in EditsOf : buffer'[v] \subseteq Pieces(v)
  BY <1>1, <1>2 DEF EditsOf
<1> QED BY <1>1, <1>2, <1>3, <1>6, <1>7, <1>8 DEF UploadInv, JobOK, EditImage, MessageOK, Pieces

LEMMA NewSessionInv == UploadInv /\ (NewSession \/ UNCHANGED upvars) => UploadInv'
<1> SUFFICES ASSUME UploadInv, NewSession \/ UNCHANGED upvars PROVE UploadInv'
  OBVIOUS
<1>1. /\ load' = load /\ job' = job /\ wire' = wire /\ started' = started
      /\ buffer' = buffer \/ buffer' = [u \in Uploads |-> {}]
  BY DEF NewSession, upvars
<1>2. /\ load \in Workloads /\ DOMAIN job = Uploads /\ \A v \in Uploads : JobOK(v, job[v])
      /\ Enumerated(wire) /\ \A i \in 1 .. Len(wire) : MessageOK(wire[i])
      /\ DOMAIN buffer = Uploads /\ \A v \in EditsOf : buffer[v] \subseteq Pieces(v)
      /\ DOMAIN started = Uploads /\ RightImages
  BY DEF UploadInv
<1>3. Wanted' = Wanted /\ EditsOf' = EditsOf
  BY <1>1 DEF Wanted, EditsOf
<1>4. DOMAIN buffer' = Uploads /\ \A v \in EditsOf : buffer'[v] \subseteq Pieces(v)
  BY <1>1, <1>2 DEF EditsOf
<1> QED BY <1>1, <1>2, <1>3, <1>4 DEF UploadInv, JobOK, EditImage, MessageOK, Pieces, RightImages

(* A task is started with the images of its request, whole and in order,   *)
(* for any requests and any sizes of images: the chunks of an edit that    *)
(* are buffered when there are as many as the image has are its chunks,    *)
(* each once, though others come in between, some are lost and sessions    *)
(* end (_send_image_edits_command, _event_applier, _pending_tasks and      *)
(* plan_step).                                                             *)
THEOREM ImagesAreRight == UploadSpec => []RightImages
<1>1. UploadInit => UploadInv
  BY UploadInitInv
<1>2. UploadInv /\ [UploadNext]_upvars => UploadInv'
  BY AcceptInv, SendOneInv, StartWithImagesInv, CommandLostInv, ApplyEventInv, NewSessionInv
     DEF UploadNext
<1>3. UploadInv => RightImages
  BY DEF UploadInv
<1> QED BY <1>1, <1>2, <1>3, PTL DEF UploadSpec

-----------------------------------------------------------------------------
(* The chunks of a request.                                                *)

LEMMA DividedBy ==
  ASSUME NEW a \in Nat, NEW d \in Nat \ {0}
  PROVE  /\ a \div d \in Nat /\ a % d \in 0 .. d - 1
         /\ a = d * (a \div d) + (a % d)
<1> QED OBVIOUS

LEMMA QuotientIs ==
  ASSUME NEW a \in Nat, NEW d \in Nat \ {0}, NEW q \in Nat, NEW r \in 0 .. d - 1,
         a = d * q + r
  PROVE  q = a \div d /\ r = a % d
<1> DEFINE s == a \div d
           t == a % d
<1>1. s \in Nat /\ t \in 0 .. d - 1 /\ a = d * s + t
  BY DividedBy
<1> HIDE DEF s, t
<1>2. ~(q < s)
  <2> SUFFICES ASSUME q < s PROVE FALSE
    OBVIOUS
  <2>1. PICK k \in Nat : s = q + 1 + k
    <3>1. s - q - 1 \in Nat /\ s = q + 1 + (s - q - 1)
      BY <1>1
    <3> QED BY <3>1
  <2>2. d * s = d * q + d + d * k
    BY <2>1
  <2>3. d * k \in Nat /\ d * q \in Nat
    OBVIOUS
  <2> QED BY <1>1, <2>2, <2>3
<1>3. ~(s < q)
  <2> SUFFICES ASSUME s < q PROVE FALSE
    OBVIOUS
  <2>1. PICK k \in Nat : q = s + 1 + k
    <3>1. q - s - 1 \in Nat /\ q = s + 1 + (q - s - 1)
      BY <1>1
    <3> QED BY <3>1
  <2>2. d * q = d * s + d + d * k
    BY <1>1, <2>1
  <2>3. d * k \in Nat /\ d * s \in Nat
    BY <1>1
  <2> QED BY <1>1, <2>2, <2>3
<1>4. q = s
  BY <1>1, <1>2, <1>3
<1>5. r = t
  <2>1. d * q \in Nat
    OBVIOUS
  <2> QED BY <1>1, <1>4, <2>1
<1> QED BY <1>4, <1>5 DEF s, t

(* One more.                                                               *)
LEMMA OneMore ==
  ASSUME NEW a \in Nat, NEW d \in Nat \ {0}
  PROVE  (a + 1) % d = IF a % d = d - 1 THEN 0 ELSE (a % d) + 1
<1> DEFINE q == a \div d
           r == a % d
<1>1. q \in Nat /\ r \in 0 .. d - 1 /\ a = d * q + r
  BY DividedBy
<1> HIDE DEF q, r
<1>2. CASE r = d - 1
  <2>1. a + 1 = d * (q + 1) + 0
    <3>1. d * (q + 1) = d * q + d
      BY <1>1
    <3>2. d * q \in Nat
      BY <1>1
    <3> QED BY <1>1, <1>2, <3>1, <3>2
  <2>2. q + 1 \in Nat /\ 0 \in 0 .. d - 1 /\ a + 1 \in Nat
    BY <1>1
  <2>3. 0 = (a + 1) % d
    BY <2>1, <2>2, QuotientIs
  <2> QED BY <1>2, <2>3 DEF r
<1>3. CASE r # d - 1
  <2>1. a + 1 = d * q + (r + 1)
    <3>1. d * q \in Nat
      BY <1>1
    <3> QED BY <1>1, <3>1
  <2>2. r + 1 \in 0 .. d - 1 /\ a + 1 \in Nat
    BY <1>1, <1>3
  <2>3. r + 1 = (a + 1) % d
    BY <1>1, <2>1, <2>2, QuotientIs
  <2> QED BY <1>3, <2>3 DEF r
<1> QED BY <1>2, <1>3

ImageChunks == [img : 0 .. NumImages - 1, p : 0 .. NumPartials, c : 0 .. NumChunks - 1]
Total == NumImages * PerImage * NumChunks

LEMMA TotalIs ==
  /\ PerImage \in Nat \ {0} /\ NumImages * PerImage \in Nat \ {0} /\ Total \in Nat \ {0}
  /\ Len(AllChunks) = Total /\ DOMAIN AllChunks = 1 .. Total
<1>1. PerImage \in Nat \ {0}
  BY ReplyConstants DEF PerImage
<1>2. ASSUME NEW a \in Nat \ {0}, NEW b \in Nat \ {0}
      PROVE  a * b \in Nat \ {0}
  OBVIOUS
<1>3. NumImages * PerImage \in Nat \ {0}
  BY <1>1, <1>2, ReplyConstants
<1>4. Total \in Nat \ {0}
  BY <1>2, <1>3, ReplyConstants DEF Total
<1>5. DOMAIN AllChunks = 1 .. Total
  BY DEF AllChunks, Total
<1>6. Len(AllChunks) = Total
  <2>1. \E n \in Nat : AllChunks \in [1 .. n -> {AllChunks[i] : i \in 1 .. n}]
    <3>1. AllChunks \in [1 .. Total -> {AllChunks[i] : i \in 1 .. Total}]
      BY DEF AllChunks, Total
    <3> QED BY <1>4, <3>1
  <2>2. AllChunks \in Seq({AllChunks[i] : i \in 1 .. Total})
    <3>1. AllChunks \in [1 .. Total -> {AllChunks[i] : i \in 1 .. Total}]
      BY DEF AllChunks, Total
    <3> QED BY <1>4, <3>1
  <2> QED BY <1>4, <1>5, <2>2
<1> QED BY <1>1, <1>3, <1>4, <1>5, <1>6

Picture(n) == (n - 1) \div NumChunks

LEMMA ChunkIs ==
  ASSUME NEW n \in 1 .. Total
  PROVE  /\ AllChunks[n] \in ImageChunks
         /\ AllChunks[n] = [img |-> Picture(n) \div PerImage, p |-> (Picture(n) + 1) % PerImage,
                            c |-> (n - 1) % NumChunks]
         /\ Picture(n) \in Nat
         /\ AllChunks[n].img = Picture(n) \div PerImage
         /\ AllChunks[n].p = (Picture(n) + 1) % PerImage
         /\ AllChunks[n].c = (n - 1) % NumChunks
<1> DEFINE a == n - 1
           q == Picture(n)
<1>1. a \in Nat /\ NumChunks \in Nat \ {0} /\ NumImages \in Nat \ {0} /\ NumPartials \in Nat
  BY TotalIs, ReplyConstants
<1>2. q \in Nat /\ a % NumChunks \in 0 .. NumChunks - 1 /\ a = NumChunks * q + (a % NumChunks)
  BY <1>1, DividedBy DEF Picture
<1>3. AllChunks[n] = [img |-> q \div PerImage, p |-> (q + 1) % PerImage, c |-> a % NumChunks]
  BY DEF AllChunks, Picture, Total
<1> DEFINE m == NumImages * PerImage
           i == q \div PerImage
<1>4. m \in Nat \ {0} /\ PerImage \in Nat \ {0} /\ Total = m * NumChunks /\ a <= Total - 1
  BY TotalIs DEF Total
<1> HIDE DEF a, q, m
<1>5. q < m
  <2> SUFFICES ASSUME ~(q < m) PROVE FALSE
    OBVIOUS
  <2>1. PICK k \in Nat : q = m + k
    <3>1. q - m \in Nat /\ q = m + (q - m)
      BY <1>2, <1>4
    <3> QED BY <3>1
  <2>2. NumChunks * q = m * NumChunks + NumChunks * k /\ NumChunks * k \in Nat
    BY <1>1, <1>4, <2>1
  <2>3. m * NumChunks \in Nat /\ a % NumChunks \in Nat
    BY <1>1, <1>2, <1>4
  <2> QED BY <1>1, <1>2, <1>4, <2>2, <2>3
<1>6. i \in Nat /\ q % PerImage \in 0 .. PerImage - 1 /\ q = PerImage * i + (q % PerImage)
  BY <1>2, <1>4, DividedBy
<1> HIDE DEF i
<1>7. i < NumImages
  <2> SUFFICES ASSUME ~(i < NumImages) PROVE FALSE
    OBVIOUS
  <2>1. PICK k \in Nat : i = NumImages + k
    <3>1. i - NumImages \in Nat /\ i = NumImages + (i - NumImages)
      BY <1>1, <1>6
    <3> QED BY <3>1
  <2>2. PerImage * i = m + PerImage * k /\ PerImage * k \in Nat
    BY <1>1, <1>4, <2>1 DEF m
  <2> QED BY <1>2, <1>4, <1>5, <1>6, <2>2
<1>8. (q + 1) % PerImage \in 0 .. NumPartials
  <2>1. q + 1 \in Nat
    BY <1>2
  <2>2. (q + 1) % PerImage \in 0 .. PerImage - 1
    BY <1>4, <2>1, DividedBy
  <2> QED BY <1>1, <2>2 DEF PerImage
<1>9. AllChunks[n] \in ImageChunks
  <2>1. i \in 0 .. NumImages - 1
    BY <1>1, <1>6, <1>7
  <2> QED BY <1>2, <1>3, <1>8, <2>1 DEF ImageChunks, i
<1>10. /\ AllChunks[n].img = q \div PerImage /\ AllChunks[n].p = (q + 1) % PerImage
       /\ AllChunks[n].c = a % NumChunks
  <2> DEFINE x == q \div PerImage
             y == (q + 1) % PerImage
             z == a % NumChunks
  <2>1. AllChunks[n] = [img |-> x, p |-> y, c |-> z]
    BY <1>3
  <2> HIDE DEF x, y, z
  <2>2. AllChunks[n].img = x /\ AllChunks[n].p = y /\ AllChunks[n].c = z
    BY <2>1
  <2> QED BY <2>2 DEF x, y, z
<1> QED BY <1>2, <1>3, <1>9, <1>10 DEF a, q

(* The first chunk of an image follows the last one of another; the others *)
(* follow those of the same image and partial.                             *)
LEMMA ChunkAfter ==
  /\ 1 \in 1 .. Total /\ AllChunks[1].c = 0
  /\ \A n \in 1 .. Total :
       n + 1 \in 1 .. Total =>
         IF AllChunks[n].c = NumChunks - 1 THEN AllChunks[n + 1].c = 0
         ELSE AllChunks[n + 1] = [AllChunks[n] EXCEPT !.c = AllChunks[n].c + 1]
<1>1. 1 \in 1 .. Total
  BY TotalIs
<1>2. AllChunks[1].c = 0
  <2>1. AllChunks[1].c = (1 - 1) % NumChunks
    BY <1>1, ChunkIs
  <2>2. 0 = NumChunks * 0 + 0 /\ 0 \in 0 .. NumChunks - 1 /\ NumChunks \in Nat \ {0}
    BY ReplyConstants
  <2>3. 0 = 0 % NumChunks
    BY <2>2, QuotientIs
  <2> QED BY <2>1, <2>3
<1>3. ASSUME NEW n \in 1 .. Total, n + 1 \in 1 .. Total
      PROVE  IF AllChunks[n].c = NumChunks - 1 THEN AllChunks[n + 1].c = 0
             ELSE AllChunks[n + 1] = [AllChunks[n] EXCEPT !.c = AllChunks[n].c + 1]
  <2> DEFINE a == n - 1
  <2>1. a \in Nat /\ n + 1 - 1 = a + 1 /\ NumChunks \in Nat \ {0}
    BY <1>3, TotalIs, ReplyConstants
  <2>2. AllChunks[n].c = a % NumChunks /\ AllChunks[n + 1].c = (a + 1) % NumChunks
    <3> DEFINE m == n + 1
               b == m - 1
    <3>1. AllChunks[n].c = a % NumChunks
      BY ChunkIs
    <3>2. m \in 1 .. Total
      BY <1>3
    <3>3. b = a + 1
      BY <2>1
    <3> HIDE DEF m
    <3>4. AllChunks[m].c = b % NumChunks
      BY <3>2, ChunkIs
    <3> HIDE DEF a, b
    <3>5. AllChunks[m].c = (a + 1) % NumChunks
      BY <3>3, <3>4
    <3> QED BY <3>1, <3>5 DEF m
  <2>3. (a + 1) % NumChunks = IF a % NumChunks = NumChunks - 1 THEN 0 ELSE (a % NumChunks) + 1
    BY <2>1, OneMore
  <2>4. CASE a % NumChunks = NumChunks - 1
    BY <2>2, <2>3, <2>4
  <2>5. CASE a % NumChunks # NumChunks - 1
    <3>1. Picture(n + 1) = Picture(n)
      <4>1. Picture(n) = a \div NumChunks /\ Picture(n + 1) = (a + 1) \div NumChunks
        BY <2>1 DEF Picture
      <4> DEFINE q == a \div NumChunks
                 r == a % NumChunks
      <4>2. q \in Nat /\ r \in 0 .. NumChunks - 1 /\ a = NumChunks * q + r
        BY <2>1, DividedBy
      <4>3. r # NumChunks - 1
        BY <2>5
      <4> HIDE DEF q, r, a
      <4>4. a + 1 = NumChunks * q + (r + 1) /\ r + 1 \in 0 .. NumChunks - 1 /\ a + 1 \in Nat
        <5>1. NumChunks * q \in Nat
          BY <2>1, <4>2
        <5> QED BY <2>1, <4>2, <4>3, <5>1
      <4>5. q = (a + 1) \div NumChunks
        BY <2>1, <4>2, <4>4, QuotientIs
      <4> QED BY <4>1, <4>5 DEF q
    <3>2. /\ AllChunks[n] = [img |-> Picture(n) \div PerImage, p |-> (Picture(n) + 1) % PerImage,
                             c |-> a % NumChunks]
          /\ AllChunks[n + 1] = [img |-> Picture(n) \div PerImage,
                                 p |-> (Picture(n) + 1) % PerImage, c |-> (a + 1) % NumChunks]
      BY <1>3, <2>1, <3>1, ChunkIs
    <3> QED BY <2>3, <2>5, <3>2
  <2> QED BY <2>4, <2>5
<1> QED BY <1>1, <1>2, <1>3

(* A chunk comes once.                                                     *)
LEMMA OnceEach ==
  ASSUME NEW n \in 1 .. Total, NEW m \in 1 .. Total, AllChunks[n] = AllChunks[m]
  PROVE  n = m
<1> DEFINE q == Picture(n)
           s == Picture(m)
<1>1. /\ q \in Nat /\ s \in Nat /\ q \div PerImage = s \div PerImage
      /\ (q + 1) % PerImage = (s + 1) % PerImage
      /\ (n - 1) % NumChunks = (m - 1) % NumChunks
  <2>1. /\ AllChunks[n].img = q \div PerImage /\ AllChunks[n].p = (q + 1) % PerImage
        /\ AllChunks[n].c = (n - 1) % NumChunks
        /\ AllChunks[m].img = s \div PerImage /\ AllChunks[m].p = (s + 1) % PerImage
        /\ AllChunks[m].c = (m - 1) % NumChunks
        /\ q \in Nat /\ s \in Nat
    BY ChunkIs
  <2> QED BY <2>1
<1>2. PerImage \in Nat \ {0} /\ NumChunks \in Nat \ {0}
  BY TotalIs, ReplyConstants
<1>3. n - 1 \in Nat /\ m - 1 \in Nat
  BY TotalIs
<1>4. /\ n - 1 = NumChunks * q + ((n - 1) % NumChunks)
      /\ m - 1 = NumChunks * s + ((m - 1) % NumChunks)
  BY <1>2, <1>3, DividedBy DEF Picture
<1> HIDE DEF q, s
<1>5. q % PerImage = s % PerImage
  <2>1. /\ (q + 1) % PerImage = IF q % PerImage = PerImage - 1 THEN 0 ELSE (q % PerImage) + 1
        /\ (s + 1) % PerImage = IF s % PerImage = PerImage - 1 THEN 0 ELSE (s % PerImage) + 1
    BY <1>1, <1>2, OneMore
  <2>2. q % PerImage \in 0 .. PerImage - 1 /\ s % PerImage \in 0 .. PerImage - 1
    BY <1>1, <1>2, DividedBy
  <2> DEFINE x == q % PerImage
             y == s % PerImage
  <2> HIDE DEF x, y
  <2>3. /\ x \in 0 .. PerImage - 1 /\ y \in 0 .. PerImage - 1
        /\ (IF x = PerImage - 1 THEN 0 ELSE x + 1) = (IF y = PerImage - 1 THEN 0 ELSE y + 1)
    BY <1>1, <2>1, <2>2 DEF x, y
  <2>4. x = y
    BY <1>2, <2>3
  <2> QED BY <2>4 DEF x, y
<1>6. q = s
  <2>1. /\ q = PerImage * (q \div PerImage) + (q % PerImage)
        /\ s = PerImage * (s \div PerImage) + (s % PerImage)
    BY <1>1, <1>2, DividedBy
  <2> QED BY <1>1, <1>5, <2>1
<1>7. n - 1 = m - 1
  BY <1>1, <1>4, <1>6
<1> QED BY <1>3, <1>7

-----------------------------------------------------------------------------
(* The invariant.                                                          *)

Given == [p : 0 .. NumPartials, data : [1 .. NumChunks -> ImageChunks \cup {<< >>}]]

ReplyTyped ==
  /\ reader \in {"stream", "collect"} /\ applied \in 0 .. Total
  /\ imageQueue \in [open : BOOLEAN, q : Seq(ImageChunks)]
  /\ done \in Nat /\ yielded \in Seq(Given) /\ late \in BOOLEAN

(* What the reader holds under a key are chunks of that key, each at its   *)
(* index, and the number of an image, which is no partial, is 0.           *)
Holds(k, e) ==
  /\ e = [p |-> e.p, got |-> e.got]
  /\ e.p \in 0 .. NumPartials /\ (e.p = 0 <=> k[2] = 0)
  /\ DOMAIN e.got \subseteq 0 .. NumChunks - 1
  /\ \A c \in DOMAIN e.got :
       e.got[c] \in ImageChunks /\ e.got[c].c = c /\ KeyOf(e.got[c]) = k
PartsHold(f) == \A k \in DOMAIN f : Holds(k, f[k])

(* The number of chunks the reader has taken, and those to come.           *)
Taken == applied - Len(imageQueue.q)
ChunksOK ==
  /\ ~imageQueue.open =>
       imageQueue.q = << >> /\ DOMAIN parts = {} /\ yielded = << >> /\ done = 0
  /\ reply = "open" =>
       /\ Len(imageQueue.q) <= applied
       /\ \A i \in 1 .. Len(imageQueue.q) : imageQueue.q[i] = AllChunks[Taken + i]

(* A stream counts the images it has yielded.                              *)
Finals(s) == {n \in DOMAIN s : s[n].p = 0}
StreamOK ==
  reader = "stream" =>
    /\ done = Cardinality(Finals(yielded))
    /\ reply = "open" => done < NumImages
    /\ reply = "done" => done = NumImages

(* One that reads from the start holds the chunks of one image up to the   *)
(* one it took last.                                                       *)
UpTo(f, ch) ==
  LET k == KeyOf(ch)
  IN  /\ DOMAIN f = {k} /\ f[k].p = ch.p /\ DOMAIN f[k].got = 0 .. ch.c
      /\ \A c \in 0 .. ch.c : f[k].got[c] = [ch EXCEPT !.c = c]
AtBoundary == Taken = 0 \/ AllChunks[Taken].c = NumChunks - 1
ReadInOrder ==
  reader = "stream" /\ reply = "open" /\ imageQueue.open /\ ~late =>
    IF AtBoundary THEN DOMAIN parts = {} ELSE UpTo(parts, AllChunks[Taken])

(* A collector counts the images it has all chunks of; it holds only what  *)
(* it has taken, so that none is completed twice.                          *)
Completed(f) == {i \in 0 .. NumImages - 1 : <<i, 0>> \in DOMAIN f /\ Complete(f[<<i, 0>>])}
CollectOK ==
  reader = "collect" =>
    /\ reply = "done" => Cardinality(Finals(yielded)) = NumImages
    /\ reply = "open" =>
         /\ yielded = << >>
         /\ \A k \in DOMAIN parts :
              /\ k[2] = 0
              /\ \A c \in DOMAIN parts[k].got : \E n \in 1 .. Taken : AllChunks[n] = parts[k].got[c]
         /\ done = Cardinality(Completed(parts)) /\ done < NumImages

ReplyInv ==
  /\ ReplyTyped /\ PartsHold(parts) /\ ChunksOK /\ StreamOK /\ ReadInOrder /\ CollectOK
  /\ WholeImages

-----------------------------------------------------------------------------
(* What is held and given.                                                 *)

LEMMA CountFinals ==
  /\ IsFiniteSet(Finals(<< >>)) /\ Cardinality(Finals(<< >>)) = 0
  /\ \A s \in Seq(Given), y \in Given :
       /\ IsFiniteSet(Finals(s)) /\ Cardinality(Finals(s)) \in Nat
       /\ Cardinality(Finals(Append(s, y))) =
            Cardinality(Finals(s)) + (IF y.p = 0 THEN 1 ELSE 0)
<1>1. Finals(<< >>) = {}
  BY DEF Finals
<1>2. ASSUME NEW s \in Seq(Given), NEW y \in Given
      PROVE  /\ IsFiniteSet(Finals(s)) /\ Cardinality(Finals(s)) \in Nat
             /\ Cardinality(Finals(Append(s, y))) =
                  Cardinality(Finals(s)) + (IF y.p = 0 THEN 1 ELSE 0)
  <2> DEFINE t == Append(s, y)
             n == Len(s) + 1
  <2>1. Finals(s) \in SUBSET (1 .. Len(s)) /\ Len(s) \in Nat
    BY DEF Finals
  <2>2. IsFiniteSet(Finals(s))
    <3>1. IsFiniteSet(1 .. Len(s))
      BY <2>1, FS_Interval
    <3> QED BY <2>1, <3>1, FS_Subset
  <2>3. Cardinality(Finals(s)) \in Nat
    BY <2>2, FS_CardinalityType
  <2>4. DOMAIN t = 1 .. n /\ t[n] = y /\ \A i \in 1 .. Len(s) : t[i] = s[i]
    OBVIOUS
  <2>5. Finals(t) = IF y.p = 0 THEN Finals(s) \cup {n} ELSE Finals(s)
    <3>1. DOMAIN s = 1 .. Len(s) /\ 1 .. n = (1 .. Len(s)) \cup {n}
      BY <2>1
    <3> HIDE DEF t, n
    <3> QED BY <2>4, <3>1 DEF Finals
  <2>6. n \notin Finals(s)
    BY <2>1
  <2>7. Cardinality(Finals(s) \cup {n}) = Cardinality(Finals(s)) + 1
    BY <2>2, <2>6, FS_AddElement
  <2> HIDE DEF t, n
  <2> QED BY <2>2, <2>3, <2>5, <2>7 DEF t
<1> QED BY <1>1, <1>2, FS_EmptySet

(* An entry is complete when it holds every index.                         *)
LEMMA CompleteIs ==
  ASSUME NEW k, NEW e, Holds(k, e)
  PROVE  /\ IsFiniteSet(DOMAIN e.got)
         /\ Complete(e) <=> DOMAIN e.got = 0 .. NumChunks - 1
<1>1. NumChunks \in Nat \ {0}
  BY ReplyConstants
<1>2. IsFiniteSet(0 .. NumChunks - 1) /\ Cardinality(0 .. NumChunks - 1) = NumChunks
  <2>1. 0 \in Int /\ NumChunks - 1 \in Int /\ ~(0 > NumChunks - 1)
    BY <1>1
  <2>2. /\ IsFiniteSet(0 .. NumChunks - 1)
        /\ Cardinality(0 .. NumChunks - 1) =
             IF 0 > NumChunks - 1 THEN 0 ELSE NumChunks - 1 - 0 + 1
    BY <2>1, FS_Interval
  <2> QED BY <1>1, <2>1, <2>2
<1>3. DOMAIN e.got \in SUBSET (0 .. NumChunks - 1)
  BY DEF Holds
<1> QED BY <1>2, <1>3, FS_Subset DEF Complete

(* A complete entry becomes one picture, of its chunks in order.           *)
LEMMA JoinedIs ==
  ASSUME NEW k, NEW e, Holds(k, e), Complete(e)
  PROVE  /\ Joined(e) \in Given /\ Joined(e).p = e.p
         /\ \A c \in 1 .. NumChunks : Joined(e).data[c] = e.got[c - 1]
<1>1. NumChunks \in Nat \ {0} /\ DOMAIN e.got = 0 .. NumChunks - 1
  BY CompleteIs, ReplyConstants
<1>2. \A c \in 1 .. NumChunks : c - 1 \in DOMAIN e.got
  BY <1>1
<1>3. \A c \in 1 .. NumChunks : e.got[c - 1] \in ImageChunks
  BY <1>2 DEF Holds
<1>4. Joined(e) = [p |-> e.p, data |-> [i \in 1 .. NumChunks |-> e.got[i - 1]]]
  BY <1>2 DEF Joined
<1>5. e.p \in 0 .. NumPartials
  BY DEF Holds
<1> QED BY <1>3, <1>4, <1>5 DEF Given

(* A chunk more.                                                           *)
LEMMA WithIs ==
  ASSUME NEW ch \in ImageChunks, PartsHold(parts)
  PROVE  LET new == With(ch)  k == KeyOf(ch)
         IN  /\ DOMAIN new = DOMAIN parts \cup {k} /\ PartsHold(new)
             /\ \A x \in DOMAIN parts : x # k => new[x] = parts[x]
             /\ new[k].got[ch.c] = ch /\ ch.c \in DOMAIN new[k].got
             /\ k \in DOMAIN parts =>
                  /\ new[k].p = parts[k].p
                  /\ DOMAIN new[k].got = DOMAIN parts[k].got \cup {ch.c}
                  /\ \A i \in DOMAIN parts[k].got : i # ch.c => new[k].got[i] = parts[k].got[i]
             /\ k \notin DOMAIN parts => new[k].p = ch.p /\ DOMAIN new[k].got = {ch.c}
<1> DEFINE new == With(ch)
           k == KeyOf(ch)
           old == IF k \in DOMAIN parts THEN parts[k] ELSE [p |-> ch.p, got |-> << >>]
           held == [i \in DOMAIN old.got \cup {ch.c} |-> IF i = ch.c THEN ch ELSE old.got[i]]
<1>1. ch.p \in 0 .. NumPartials /\ ch.c \in 0 .. NumChunks - 1
  BY DEF ImageChunks
<1>2. Holds(k, old)
  <2>1. CASE k \in DOMAIN parts
    BY <2>1 DEF PartsHold
  <2>2. CASE k \notin DOMAIN parts
    <3>1. old.p = ch.p /\ DOMAIN old.got = {} /\ old = [p |-> old.p, got |-> old.got]
      BY <2>2
    <3>2. ch.p = 0 <=> k[2] = 0
      BY DEF KeyOf
    <3> HIDE DEF old, k
    <3> QED BY <1>1, <3>1, <3>2 DEF Holds
  <2> QED BY <2>1, <2>2
<1>3. new = [x \in DOMAIN parts \cup {k} |->
               IF x = k THEN [p |-> old.p, got |-> held] ELSE parts[x]]
  <2>1. old = [p |-> old.p, got |-> old.got]
    BY <1>2 DEF Holds
  <2>2. new = [x \in DOMAIN parts \cup {k} |-> IF x = k THEN [old EXCEPT !.got = held] ELSE parts[x]]
    BY DEF With
  <2> HIDE DEF old, held, k, new
  <2>3. [old EXCEPT !.got = held] = [p |-> old.p, got |-> held]
    BY <2>1
  <2> QED BY <2>2, <2>3
<1> HIDE DEF new
<1>4. /\ DOMAIN new = DOMAIN parts \cup {k} /\ new[k].p = old.p /\ new[k].got = held
      /\ new[k] = [p |-> old.p, got |-> held]
      /\ \A x \in DOMAIN parts : x # k => new[x] = parts[x]
  BY <1>3
<1>5. DOMAIN held = DOMAIN old.got \cup {ch.c} /\ held[ch.c] = ch
      /\ \A i \in DOMAIN old.got : i # ch.c => held[i] = old.got[i]
  OBVIOUS
<1>6. KeyOf(ch) = k
  OBVIOUS
<1>7. Holds(k, new[k])
  <2> HIDE DEF old, held, k
  <2>1. \A i \in DOMAIN held : i = ch.c \/ (i # ch.c /\ i \in DOMAIN old.got)
    BY <1>5
  <2> QED BY <1>1, <1>2, <1>4, <1>5, <1>6, <2>1 DEF Holds
<1>8. PartsHold(new)
  BY <1>4, <1>7 DEF PartsHold
<1>9. k \in DOMAIN parts => old = parts[k]
  OBVIOUS
<1>10. k \notin DOMAIN parts => old.p = ch.p /\ DOMAIN old.got = {}
  OBVIOUS
<1> HIDE DEF old, held, k
<1> QED BY <1>4, <1>5, <1>8, <1>9, <1>10 DEF new, k

-----------------------------------------------------------------------------
(* The steps.                                                              *)

LEMMA ReplyInitInv == ReplyInit => ReplyInv
<1> SUFFICES ASSUME ReplyInit PROVE ReplyInv
  OBVIOUS
<1>1. /\ reader \in {"stream", "collect"} /\ applied = 0
      /\ imageQueue = [open |-> FALSE, q |-> << >>] /\ parts = << >> /\ done = 0
      /\ yielded = << >> /\ reply = "open" /\ late = FALSE
  BY DEF ReplyInit
<1>2. Total \in Nat \ {0} /\ NumImages \in Nat \ {0}
  BY TotalIs, ReplyConstants
<1>3. DOMAIN parts = {} /\ DOMAIN yielded = {} /\ imageQueue.q = << >> /\ imageQueue.open = FALSE
  BY <1>1
<1>4. ReplyTyped
  <2>1. << >> \in Seq(ImageChunks) /\ << >> \in Seq(Given)
    OBVIOUS
  <2>2. imageQueue \in [open : BOOLEAN, q : Seq(ImageChunks)]
    BY <1>1, <2>1
  <2>3. yielded \in Seq(Given) /\ late \in BOOLEAN /\ done \in Nat /\ applied \in 0 .. Total
    <3>1. applied \in 0 .. Total /\ done \in Nat
      BY <1>1, <1>2
    <3>2. yielded \in Seq(Given)
      BY <1>1, <2>1
    <3>3. late \in BOOLEAN
      BY <1>1
    <3> QED BY <3>1, <3>2, <3>3
  <2> QED BY <1>1, <2>2, <2>3 DEF ReplyTyped
<1>5. PartsHold(parts) /\ ChunksOK /\ ReadInOrder /\ WholeImages
  BY <1>1, <1>2, <1>3 DEF PartsHold, ChunksOK, ReadInOrder, WholeImages
<1>6. StreamOK
  BY <1>1, <1>2, CountFinals DEF StreamOK
<1>7. CollectOK
  <2>1. Completed(parts) = {}
    BY <1>3 DEF Completed
  <2> QED BY <1>1, <1>2, <1>3, <2>1, FS_EmptySet DEF CollectOK
<1> QED BY <1>4, <1>5, <1>6, <1>7 DEF ReplyInv

LEMMA RegisterInv == ReplyInv /\ Register => ReplyInv'
<1> SUFFICES ASSUME ReplyInv, Register PROVE ReplyInv'
  OBVIOUS
<1>1. /\ reply = "open" /\ ~imageQueue.open /\ late' = (applied > 0)
      /\ imageQueue' = [open |-> TRUE, q |-> << >>]
      /\ reader' = reader /\ applied' = applied /\ parts' = parts /\ done' = done
      /\ yielded' = yielded /\ reply' = reply
  BY DEF Register
<1>2. /\ imageQueue.q = << >> /\ DOMAIN parts = {} /\ yielded = << >> /\ done = 0
      /\ ReplyTyped
  BY <1>1 DEF ReplyInv, ChunksOK
<1>3. imageQueue'.open = TRUE /\ imageQueue'.q = << >> /\ applied \in Nat
  BY <1>1, <1>2, TotalIs DEF ReplyTyped
<1>4. Taken = applied /\ Taken' = applied
  BY <1>1, <1>2, <1>3 DEF Taken
<1>5. ReplyTyped'
  BY <1>1, <1>2, <1>3 DEF ReplyTyped
<1>6. PartsHold(parts)' /\ WholeImages'
  BY <1>1, <1>2 DEF PartsHold, WholeImages
<1>7. ChunksOK'
  BY <1>1, <1>3 DEF ChunksOK
<1>8. ReadInOrder'
  <2>1. ~late' => Taken' = 0
    <3>1. ~late' => ~(applied > 0)
      BY <1>1
    <3> QED BY <1>3, <1>4, <3>1
  <2>2. DOMAIN parts' = {}
    BY <1>1, <1>2
  <2> QED BY <2>1, <2>2 DEF ReadInOrder, AtBoundary
<1>9. StreamOK' /\ CollectOK'
  <2>1. StreamOK /\ CollectOK
    BY DEF ReplyInv
  <2> QED BY <1>1, <1>4, <2>1 DEF StreamOK, CollectOK
<1> QED BY <1>5, <1>6, <1>7, <1>8, <1>9 DEF ReplyInv

LEMMA ApplyImageChunkInv == ReplyInv /\ ApplyImageChunk => ReplyInv'
<1> SUFFICES ASSUME ReplyInv, ApplyImageChunk PROVE ReplyInv'
  OBVIOUS
<1> DEFINE q == imageQueue.q
           ch == AllChunks[applied + 1]
<1>1. /\ applied < Total /\ applied' = applied + 1
      /\ imageQueue' = IF imageQueue.open THEN [imageQueue EXCEPT !.q = Append(@, ch)]
                       ELSE imageQueue
      /\ reader' = reader /\ parts' = parts /\ done' = done
      /\ yielded' = yielded /\ reply' = reply /\ late' = late
  BY TotalIs DEF ApplyImageChunk
<1>2. ReplyTyped /\ ChunksOK /\ applied \in Nat /\ Total \in Nat
      /\ imageQueue \in [open : BOOLEAN, q : Seq(ImageChunks)]
  BY TotalIs DEF ReplyInv, ReplyTyped
<1>3. applied + 1 \in 1 .. Total
  BY <1>1, <1>2
<1>4. ch \in ImageChunks
  BY <1>3, ChunkIs
<1>5. /\ imageQueue'.open = imageQueue.open /\ imageQueue' \in [open : BOOLEAN, q : Seq(ImageChunks)]
      /\ imageQueue.open => imageQueue'.q = Append(q, ch)
      /\ ~imageQueue.open => imageQueue'.q = q
  <2> HIDE DEF ch
  <2>1. imageQueue.open \in BOOLEAN /\ imageQueue.q \in Seq(ImageChunks)
        /\ imageQueue = [open |-> imageQueue.open, q |-> imageQueue.q]
    BY <1>2
  <2>2. Append(q, ch) \in Seq(ImageChunks)
    BY <1>4, <2>1
  <2>3. CASE imageQueue.open
    <3>1. imageQueue' = [open |-> imageQueue.open, q |-> Append(q, ch)]
      BY <1>1, <2>1, <2>3
    <3> QED BY <2>1, <2>2, <2>3, <3>1
  <2>4. CASE ~imageQueue.open
    BY <1>1, <1>2, <2>4
  <2> QED BY <2>3, <2>4
<1>6. q \in Seq(ImageChunks) /\ Len(q) \in Nat
  BY <1>2
<1>7. CASE imageQueue.open
  <2> DEFINE r == Append(q, ch)
  <2>1. /\ Len(r) = Len(q) + 1 /\ r[Len(q) + 1] = ch
        /\ \A i \in 1 .. Len(q) : r[i] = q[i]
    BY <1>4, <1>6
  <2> HIDE DEF r
  <2>2. imageQueue'.q = r
    BY <1>5, <1>7 DEF r
  <2>3. Taken' = Taken /\ Taken = applied - Len(q)
    BY <1>1, <1>2, <1>6, <2>1, <2>2 DEF Taken
  <2>4. ChunksOK'
    <3> SUFFICES ASSUME reply = "open"
                 PROVE  /\ Len(r) <= applied + 1
                        /\ \A i \in 1 .. Len(r) : r[i] = AllChunks[Taken + i]
      BY <1>1, <1>5, <1>7, <2>2, <2>3 DEF ChunksOK
    <3>1. Len(q) <= applied /\ \A i \in 1 .. Len(q) : q[i] = AllChunks[Taken + i]
      BY <1>2 DEF ChunksOK
    <3>2. Taken + (Len(q) + 1) = applied + 1
      BY <1>2, <1>6, <2>3
    <3>3. r[Len(q) + 1] = AllChunks[Taken + (Len(q) + 1)]
      BY <2>1, <3>2
    <3> HIDE DEF ch
    <3>4. \A i \in 1 .. Len(r) : i = Len(q) + 1 \/ i \in 1 .. Len(q)
      BY <1>6, <2>1
    <3>5. Len(r) <= applied + 1
      BY <1>2, <1>6, <2>1, <3>1
    <3> QED BY <2>1, <3>1, <3>3, <3>4, <3>5
  <2>5. ReadInOrder' /\ StreamOK' /\ CollectOK' /\ PartsHold(parts)' /\ WholeImages'
    <3>1. ReadInOrder /\ StreamOK /\ CollectOK /\ PartsHold(parts) /\ WholeImages
      BY DEF ReplyInv
    <3> QED BY <1>1, <1>5, <2>3, <3>1
            DEF ReadInOrder, StreamOK, CollectOK, PartsHold, WholeImages, AtBoundary
  <2>6. ReplyTyped'
    BY <1>1, <1>2, <1>3, <1>5 DEF ReplyTyped
  <2> QED BY <2>4, <2>5, <2>6 DEF ReplyInv
<1>8. CASE ~imageQueue.open
  <2>1. q = << >> /\ DOMAIN parts = {} /\ yielded = << >> /\ done = 0
    BY <1>2, <1>8 DEF ChunksOK
  <2>2. imageQueue'.q = << >> /\ imageQueue'.open = FALSE
    BY <1>5, <1>8, <2>1, <1>2
  <2>3. ChunksOK'
    BY <1>1, <1>2, <2>1, <2>2 DEF ChunksOK
  <2>4. ReadInOrder'
    BY <2>2 DEF ReadInOrder
  <2>5. StreamOK' /\ CollectOK' /\ PartsHold(parts)' /\ WholeImages'
    <3>1. StreamOK /\ CollectOK /\ PartsHold(parts) /\ WholeImages
      BY DEF ReplyInv
    <3> QED BY <1>1, <2>1, <3>1 DEF StreamOK, CollectOK, PartsHold, WholeImages
  <2>6. ReplyTyped'
    BY <1>1, <1>2, <1>3, <1>5 DEF ReplyTyped
  <2> QED BY <2>3, <2>4, <2>5, <2>6 DEF ReplyInv
<1> QED BY <1>7, <1>8

LEMMA ApplyErrorChunkInv == ReplyInv /\ ApplyErrorChunk => ReplyInv'
<1> SUFFICES ASSUME ReplyInv, ApplyErrorChunk PROVE ReplyInv'
  OBVIOUS
<1>1. /\ applied' = Total /\ Total \in Nat
      /\ reply' = IF imageQueue.open /\ reply = "open" THEN "dead" ELSE reply
      /\ reader' = reader /\ imageQueue' = imageQueue /\ parts' = parts /\ done' = done
      /\ yielded' = yielded /\ late' = late
  BY TotalIs DEF ApplyErrorChunk
<1>2. ReplyTyped /\ ChunksOK /\ StreamOK /\ CollectOK /\ PartsHold(parts) /\ WholeImages
  BY DEF ReplyInv
<1>3. reply' = "open" => reply = "open" /\ ~imageQueue.open
  BY <1>1
<1>4. reply' = "done" => reply = "done"
  BY <1>1
<1>5. ~imageQueue.open => imageQueue.q = << >> /\ DOMAIN parts = {} /\ Len(imageQueue.q) = 0
  BY <1>2 DEF ChunksOK
<1>6. ReplyTyped' /\ PartsHold(parts)' /\ WholeImages'
  BY <1>1, <1>2 DEF ReplyTyped, PartsHold, WholeImages
<1>7. ChunksOK'
  BY <1>1, <1>2, <1>3, <1>5 DEF ChunksOK
<1>8. ReadInOrder'
  BY <1>1, <1>3 DEF ReadInOrder
<1>9. StreamOK' /\ CollectOK'
  BY <1>1, <1>2, <1>3, <1>4, <1>5 DEF StreamOK, CollectOK
<1> QED BY <1>6, <1>7, <1>8, <1>9 DEF ReplyInv

LEMMA QueueClosedInv == ReplyInv /\ (QueueClosed \/ UNCHANGED rpvars) => ReplyInv'
<1> SUFFICES ASSUME ReplyInv, QueueClosed \/ UNCHANGED rpvars PROVE ReplyInv'
  OBVIOUS
<1>1. /\ reader' = reader /\ imageQueue' = imageQueue /\ parts' = parts /\ done' = done
      /\ yielded' = yielded /\ late' = late /\ applied' = applied
      /\ reply' = reply \/ reply' \notin {"open", "done"}
  BY DEF QueueClosed, rpvars
<1>2. /\ ReplyTyped /\ ChunksOK /\ StreamOK /\ CollectOK /\ PartsHold(parts) /\ WholeImages
      /\ ReadInOrder
  BY DEF ReplyInv
<1>3. Taken' = Taken
  BY <1>1 DEF Taken
<1>4. ReplyTyped' /\ PartsHold(parts)' /\ WholeImages' /\ ChunksOK' /\ ReadInOrder'
  BY <1>1, <1>2, <1>3 DEF ReplyTyped, PartsHold, WholeImages, ChunksOK, ReadInOrder, AtBoundary
<1>5. StreamOK' /\ CollectOK'
  BY <1>1, <1>2, <1>3 DEF StreamOK, CollectOK
<1> QED BY <1>4, <1>5 DEF ReplyInv

(* The chunk a reader takes.                                               *)
LEMMA Takes ==
  ASSUME ReplyInv, reply = "open", imageQueue.q # << >>, reader' = reader, applied' = applied,
         late' = late, imageQueue' = [imageQueue EXCEPT !.q = Tail(@)]
  PROVE  /\ imageQueue.open /\ imageQueue'.open /\ Taken \in Nat /\ Taken' = Taken + 1
         /\ Taken + 1 \in 1 .. Total /\ Head(imageQueue.q) = AllChunks[Taken + 1]
         /\ Head(imageQueue.q) \in ImageChunks
         /\ imageQueue' \in [open : BOOLEAN, q : Seq(ImageChunks)]
         /\ Len(imageQueue'.q) <= applied'
         /\ \A i \in 1 .. Len(imageQueue'.q) : imageQueue'.q[i] = AllChunks[Taken' + i]
<1> DEFINE q == imageQueue.q
           r == imageQueue'.q
<1>1. /\ imageQueue \in [open : BOOLEAN, q : Seq(ImageChunks)] /\ applied \in 0 .. Total
      /\ ChunksOK /\ Total \in Nat
  BY TotalIs DEF ReplyInv, ReplyTyped
<1>2. q \in Seq(ImageChunks) /\ q # << >> /\ r = Tail(q)
      /\ imageQueue'.open = imageQueue.open /\ imageQueue.open
      /\ imageQueue' = [open |-> imageQueue.open, q |-> Tail(q)] /\ imageQueue.open \in BOOLEAN
  BY <1>1 DEF ChunksOK
<1>3. Len(q) <= applied /\ \A i \in 1 .. Len(q) : q[i] = AllChunks[Taken + i]
  BY <1>1 DEF ChunksOK
<1>4. Taken = applied - Len(q) /\ Taken' = applied - Len(r)
  BY DEF Taken
<1> HIDE DEF q, r
<1>5. /\ Len(q) \in Nat \ {0} /\ Len(r) = Len(q) - 1 /\ r \in Seq(ImageChunks) /\ Head(q) = q[1]
      /\ \A i \in 1 .. Len(r) : r[i] = q[i + 1]
  BY <1>2
<1>6. Taken \in Nat /\ Taken' = Taken + 1 /\ Taken + 1 \in 1 .. Total
  BY <1>1, <1>3, <1>4, <1>5
<1>7. Head(q) = AllChunks[Taken + 1]
  BY <1>3, <1>5
<1>8. Head(q) \in ImageChunks
  BY <1>6, <1>7, ChunkIs
<1>9. \A i \in 1 .. Len(r) : r[i] = AllChunks[Taken' + i]
  <2> SUFFICES ASSUME NEW i \in 1 .. Len(r) PROVE r[i] = AllChunks[Taken' + i]
    OBVIOUS
  <2>1. i + 1 \in 1 .. Len(q) /\ Taken' + i = Taken + (i + 1)
    <3> DEFINE t == Taken
               u == Taken'
    <3>1. t \in Nat /\ u = t + 1
      BY <1>6
    <3> HIDE DEF t, u
    <3>2. i \in Nat /\ i >= 1 /\ i <= Len(q) - 1 /\ Len(q) \in Nat
      BY <1>5
    <3>3. i + 1 \in 1 .. Len(q) /\ u + i = t + (i + 1)
      BY <3>1, <3>2
    <3> QED BY <3>3 DEF t, u
  <2> QED BY <1>3, <1>5, <2>1
<1>10. Len(r) <= applied
  BY <1>1, <1>3, <1>5
<1>11. imageQueue' \in [open : BOOLEAN, q : Seq(ImageChunks)]
  <2>1. Tail(q) \in Seq(ImageChunks)
    BY <1>2, <1>5
  <2>2. \A o \in BOOLEAN, x \in Seq(ImageChunks) :
          [open |-> o, q |-> x] \in [open : BOOLEAN, q : Seq(ImageChunks)]
    OBVIOUS
  <2> QED BY <1>2, <2>1, <2>2
<1> QED BY <1>2, <1>6, <1>7, <1>8, <1>9, <1>10, <1>11 DEF q, r

(* The chunks of one image that were held go on with the next.             *)
LEMMA GoesOnInOrder ==
  ASSUME ReplyInv, reader = "stream", reply = "open", imageQueue.open, ~late,
         Taken \in Nat, Taken + 1 \in 1 .. Total
  PROVE  UpTo(With(AllChunks[Taken + 1]), AllChunks[Taken + 1])
<1> DEFINE ch == AllChunks[Taken + 1]
           new == With(ch)
           k == KeyOf(ch)
           t == Taken
<1>1. ch \in ImageChunks /\ PartsHold(parts) /\ ReadInOrder
  BY ChunkIs DEF ReplyInv
<1>2. /\ DOMAIN new = DOMAIN parts \cup {k}
      /\ new[k].got[ch.c] = ch /\ ch.c \in DOMAIN new[k].got
      /\ k \in DOMAIN parts =>
           /\ new[k].p = parts[k].p
           /\ DOMAIN new[k].got = DOMAIN parts[k].got \cup {ch.c}
           /\ \A j \in DOMAIN parts[k].got : j # ch.c => new[k].got[j] = parts[k].got[j]
      /\ k \notin DOMAIN parts => new[k].p = ch.p /\ DOMAIN new[k].got = {ch.c}
  BY <1>1, WithIs
<1>3. ch = [img |-> ch.img, p |-> ch.p, c |-> ch.c] /\ ch.c \in Nat
  BY <1>1, ReplyConstants DEF ImageChunks
<1>4. CASE AtBoundary
  <2>1. DOMAIN parts = {}
    BY <1>1, <1>4 DEF ReadInOrder
  <2>2. ch.c = 0
    <3>1. CASE Taken = 0
      BY <3>1, ChunkAfter
    <3>2. CASE Taken # 0
      <4>1. AllChunks[t].c = NumChunks - 1 /\ t \in 1 .. Total
        BY <1>4, <3>2, TotalIs DEF AtBoundary
      <4>2. t + 1 \in 1 .. Total
        OBVIOUS
      <4> HIDE DEF t
      <4>3. AllChunks[t + 1].c = 0
        BY <4>1, <4>2, ChunkAfter
      <4> QED BY <4>3 DEF t
    <3> QED BY <3>1, <3>2
  <2> HIDE DEF new, k, ch
  <2>3. /\ DOMAIN new = {k} /\ new[k].p = ch.p /\ DOMAIN new[k].got = {0} /\ new[k].got[0] = ch
    BY <1>2, <2>1, <2>2
  <2>4. 0 .. ch.c = {0} /\ [ch EXCEPT !.c = 0] = ch
    BY <1>3, <2>2
  <2> QED BY <2>3, <2>4 DEF UpTo, new, k, ch
<1>5. CASE ~AtBoundary
  <2> DEFINE last == AllChunks[t]
  <2>1. t \in 1 .. Total /\ last.c # NumChunks - 1
    BY <1>5, TotalIs DEF AtBoundary
  <2>2. last \in ImageChunks
    BY <2>1, ChunkIs
  <2>3. UpTo(parts, last)
    BY <1>1, <1>5 DEF ReadInOrder
  <2>4. ch = [last EXCEPT !.c = last.c + 1]
    <3>1. t + 1 \in 1 .. Total
      OBVIOUS
    <3> HIDE DEF t
    <3>2. AllChunks[t + 1] = [last EXCEPT !.c = last.c + 1]
      BY <2>1, <3>1, ChunkAfter
    <3> QED BY <3>2 DEF t
  <2> HIDE DEF last, ch, t
  <2>5. /\ last = [img |-> last.img, p |-> last.p, c |-> last.c] /\ last.c \in Nat
        /\ ch.img = last.img /\ ch.p = last.p /\ ch.c = last.c + 1
    <3>1. last = [img |-> last.img, p |-> last.p, c |-> last.c] /\ last.c \in Nat
      BY <2>2, ReplyConstants DEF ImageChunks
    <3>2. ch = [img |-> last.img, p |-> last.p, c |-> last.c + 1]
      BY <2>4, <3>1
    <3> QED BY <3>1, <3>2
  <2>6. KeyOf(last) = k
    BY <2>5 DEF KeyOf
  <2>7. /\ DOMAIN parts = {k} /\ parts[k].p = last.p /\ DOMAIN parts[k].got = 0 .. last.c
        /\ \A j \in 0 .. last.c : parts[k].got[j] = [last EXCEPT !.c = j]
    BY <2>3, <2>6 DEF UpTo
  <2> HIDE DEF new, k
  <2>8. (0 .. last.c) \cup {ch.c} = 0 .. ch.c
    BY <2>5
  <2>9. DOMAIN new = {k} /\ new[k].p = ch.p /\ DOMAIN new[k].got = 0 .. ch.c
    BY <1>2, <2>5, <2>7, <2>8
  <2>10. ASSUME NEW j \in 0 .. ch.c
         PROVE  new[k].got[j] = [ch EXCEPT !.c = j]
    <3>1. [ch EXCEPT !.c = j] = [img |-> ch.img, p |-> ch.p, c |-> j]
          /\ [last EXCEPT !.c = j] = [img |-> ch.img, p |-> ch.p, c |-> j]
      BY <1>3, <2>5
    <3>2. CASE j = ch.c
      BY <1>2, <1>3, <3>1, <3>2
    <3>3. CASE j # ch.c
      <4>1. j \in 0 .. last.c
        BY <2>5, <3>3
      <4> QED BY <1>2, <2>7, <3>1, <3>3, <4>1
    <3> QED BY <3>2, <3>3
  <2>11. KeyOf(ch) = k
    BY DEF k
  <2>12. UpTo(new, ch)
    BY <2>9, <2>10, <2>11 DEF UpTo
  <2> QED BY <2>12 DEF new, ch, t
<1> QED BY <1>4, <1>5 DEF ch

LEMMA ReadImagesInv == ReplyInv /\ ReadImages => ReplyInv'
<1> SUFFICES ASSUME ReplyInv, ReadImages PROVE ReplyInv'
  OBVIOUS
<1> DEFINE ch == Head(imageQueue.q)
           new == With(ch)
           k == KeyOf(ch)
           all == Complete(new[k])
<1>1. /\ reply = "open" /\ reader = "stream" /\ imageQueue.q # << >>
      /\ imageQueue' = [imageQueue EXCEPT !.q = Tail(@)]
      /\ yielded' = IF all THEN Append(yielded, Joined(new[k])) ELSE yielded
      /\ done' = IF all /\ ch.p = 0 THEN done + 1 ELSE done
      /\ reply' = IF done' >= NumImages THEN "done" ELSE "open"
      /\ parts' = IF all THEN Drop(new, k) ELSE new
      /\ reader' = reader /\ applied' = applied /\ late' = late
  BY DEF ReadImages
<1>2. /\ imageQueue.open /\ imageQueue'.open /\ Taken \in Nat /\ Taken' = Taken + 1
      /\ Taken + 1 \in 1 .. Total /\ ch = AllChunks[Taken + 1]
      /\ ch \in ImageChunks
      /\ imageQueue' \in [open : BOOLEAN, q : Seq(ImageChunks)]
      /\ Len(imageQueue'.q) <= applied'
      /\ \A i \in 1 .. Len(imageQueue'.q) : imageQueue'.q[i] = AllChunks[Taken' + i]
  BY <1>1, Takes
<1>3. /\ ReplyTyped /\ PartsHold(parts) /\ StreamOK /\ WholeImages
      /\ NumImages \in Nat \ {0} /\ NumChunks \in Nat \ {0}
  BY ReplyConstants DEF ReplyInv
<1>4. DOMAIN new = DOMAIN parts \cup {k} /\ PartsHold(new)
  BY <1>2, <1>3, WithIs
<1>5. Holds(k, new[k])
  BY <1>4 DEF PartsHold
<1>6. (new[k].p = 0 <=> ch.p = 0) /\ k[2] \in {0, 1}
  <2>1. k[2] = 0 <=> ch.p = 0
    BY DEF KeyOf
  <2> HIDE DEF k, new
  <2>2. new[k].p = 0 <=> k[2] = 0
    BY <1>5 DEF Holds
  <2> QED BY <2>1, <2>2 DEF KeyOf, k
<1>7. all => /\ Joined(new[k]) \in Given /\ Joined(new[k]).p = new[k].p
             /\ \A c \in 1 .. NumChunks : Joined(new[k]).data[c] = new[k].got[c - 1]
  BY <1>5, JoinedIs
<1>8. all <=> DOMAIN new[k].got = 0 .. NumChunks - 1
  BY <1>5, CompleteIs
<1>9. ~late => UpTo(new, ch)
  BY <1>1, <1>2, GoesOnInOrder
<1>10. /\ yielded \in Seq(Given) /\ done \in Nat /\ done = Cardinality(Finals(yielded))
       /\ done < NumImages
  BY <1>1, <1>3 DEF ReplyTyped, StreamOK
<1>11. DOMAIN Drop(new, k) = DOMAIN new \ {k} /\ \A x \in DOMAIN new \ {k} : Drop(new, k)[x] = new[x]
  BY DEF Drop
<1> DEFINE ys == Append(yielded, Joined(new[k]))
<1>12. ChunksOK' /\ CollectOK'
  BY <1>1, <1>2 DEF ChunksOK, CollectOK
<1>13. PartsHold(parts)'
  <2> HIDE DEF all, new, k
  <2>1. CASE all
    BY <1>1, <1>4, <1>11, <2>1 DEF PartsHold
  <2>2. CASE ~all
    BY <1>1, <1>4, <2>2
  <2> QED BY <2>1, <2>2
<1>14. ReplyTyped'
  <2> HIDE DEF all, ch, new, k
  <2>1. yielded' \in Seq(Given)
    BY <1>1, <1>7, <1>10
  <2>2. done' \in Nat
    BY <1>1, <1>10
  <2> QED BY <1>1, <1>2, <1>3, <2>1, <2>2 DEF ReplyTyped
<1>15. StreamOK'
  <2> HIDE DEF all, ch, new, k
  <2>1. done' = Cardinality(Finals(yielded'))
    <3>1. CASE all
      <4>1. Cardinality(Finals(ys)) = done + (IF ch.p = 0 THEN 1 ELSE 0)
        BY <1>6, <1>7, <1>10, <3>1, CountFinals
      <4> HIDE DEF ys
      <4>2. yielded' = ys
        BY <1>1, <3>1 DEF ys
      <4>3. CASE ch.p = 0
        BY <1>1, <1>10, <3>1, <4>1, <4>2, <4>3
      <4>4. CASE ch.p # 0
        <5>1. done' = done
          BY <1>1, <4>4
        <5> QED BY <1>10, <4>1, <4>2, <4>4, <5>1
      <4> QED BY <4>3, <4>4
    <3>2. CASE ~all
      BY <1>1, <1>10, <3>2
    <3> QED BY <3>1, <3>2
  <2>2. done' \in Nat /\ done' <= NumImages
    BY <1>1, <1>3, <1>10
  <2>3. /\ reply' = "open" => done' < NumImages
        /\ reply' = "done" => done' = NumImages
    BY <1>1, <1>3, <2>2
  <2> QED BY <2>1, <2>3 DEF StreamOK
<1>16. ReadInOrder'
  <2> SUFFICES ASSUME ~late
               PROVE  IF AtBoundary' THEN DOMAIN parts' = {}
                      ELSE UpTo(parts', AllChunks[Taken'])
    BY <1>1 DEF ReadInOrder
  <2>1. UpTo(new, ch) /\ AllChunks[Taken'] = ch /\ Taken' # 0
    <3>1. Taken' # 0
      BY <1>2
    <3> QED BY <1>2, <1>9, <3>1
  <2>2. DOMAIN new = {k} /\ DOMAIN new[k].got = 0 .. ch.c
    BY <2>1 DEF UpTo
  <2>3. ch.c \in 0 .. NumChunks - 1
    BY <1>2 DEF ImageChunks
  <2> HIDE DEF all, ch, new, k
  <2>4. AtBoundary' <=> ch.c = NumChunks - 1
    BY <2>1 DEF AtBoundary
  <2>5. all <=> ch.c = NumChunks - 1
    <3>1. 0 .. ch.c = 0 .. NumChunks - 1 <=> ch.c = NumChunks - 1
      BY <1>3, <2>3
    <3> QED BY <1>8, <2>2, <3>1
  <2>6. CASE all
    <3>1. DOMAIN parts' = {}
      BY <1>1, <1>11, <2>2, <2>6
    <3> QED BY <2>4, <2>5, <2>6, <3>1
  <2>7. CASE ~all
    BY <1>1, <2>1, <2>4, <2>5, <2>7
  <2> QED BY <2>6, <2>7
<1>17. WholeImages'
  <2> SUFFICES ASSUME ~late, NEW n \in DOMAIN yielded'
               PROVE  \E i \in 0 .. NumImages - 1 : \A c \in 1 .. NumChunks :
                        yielded'[n].data[c] = [img |-> i, p |-> yielded'[n].p, c |-> c - 1]
    BY <1>1 DEF WholeImages
  <2>1. \A m \in DOMAIN yielded : \E i \in 0 .. NumImages - 1 : \A c \in 1 .. NumChunks :
          yielded[m].data[c] = [img |-> i, p |-> yielded[m].p, c |-> c - 1]
    BY <1>3 DEF WholeImages
  <2>2. CASE ~all
    BY <1>1, <2>1, <2>2
  <2>3. CASE all
    <3>1. /\ DOMAIN ys = 1 .. Len(yielded) + 1 /\ ys[Len(yielded) + 1] = Joined(new[k])
          /\ \A m \in 1 .. Len(yielded) : ys[m] = yielded[m]
          /\ Len(yielded) \in Nat /\ DOMAIN yielded = 1 .. Len(yielded)
      BY <1>7, <1>10, <2>3
    <3>2. yielded' = ys
      BY <1>1, <2>3
    <3> DEFINE y == Joined(new[k])
    <3>3. ch.img \in 0 .. NumImages - 1 /\ ch = [img |-> ch.img, p |-> ch.p, c |-> ch.c]
      BY <1>2 DEF ImageChunks
    <3>4. y.p = ch.p
      BY <1>7, <1>9, <2>3 DEF UpTo
    <3>5. ASSUME NEW c \in 1 .. NumChunks
          PROVE  y.data[c] = [img |-> ch.img, p |-> ch.p, c |-> c - 1]
      <4>1. c - 1 \in DOMAIN new[k].got
        <5>1. c - 1 \in 0 .. NumChunks - 1
          BY <1>3
        <5> QED BY <1>8, <2>3, <5>1
      <4>2. new[k].got[c - 1] = [ch EXCEPT !.c = c - 1]
        BY <1>9, <4>1 DEF UpTo
      <4>3. y.data[c] = new[k].got[c - 1]
        BY <1>7, <2>3
      <4> HIDE DEF y, ch, new, k
      <4> QED BY <3>3, <4>2, <4>3
    <3> HIDE DEF ys, y, ch
    <3>6. \A c \in 1 .. NumChunks : y.data[c] = [img |-> ch.img, p |-> y.p, c |-> c - 1]
      BY <3>4, <3>5
    <3>7. CASE n = Len(yielded) + 1
      BY <3>1, <3>2, <3>3, <3>6, <3>7 DEF y
    <3>8. CASE n # Len(yielded) + 1
      <4>1. n \in DOMAIN yielded /\ ys[n] = yielded[n]
        BY <3>1, <3>2, <3>8
      <4> QED BY <2>1, <3>2, <4>1
    <3> QED BY <3>7, <3>8
  <2> QED BY <2>2, <2>3
<1> QED BY <1>12, <1>13, <1>14, <1>15, <1>16, <1>17 DEF ReplyInv

LEMMA ReadCollectInv == ReplyInv /\ ReadCollect => ReplyInv'
<1> SUFFICES ASSUME ReplyInv, ReadCollect PROVE ReplyInv'
  OBVIOUS
<1> DEFINE ch == Head(imageQueue.q)
           new == With(ch)
           k == KeyOf(ch)
           all == Complete(new[k])
<1>1. /\ reply = "open" /\ reader = "collect" /\ imageQueue.q # << >>
      /\ imageQueue' = [imageQueue EXCEPT !.q = Tail(@)]
      /\ reader' = reader /\ applied' = applied /\ late' = late
  BY DEF ReadCollect
<1>2. /\ imageQueue.open /\ imageQueue'.open /\ Taken \in Nat /\ Taken' = Taken + 1
      /\ Taken + 1 \in 1 .. Total /\ ch = AllChunks[Taken + 1]
      /\ ch \in ImageChunks
      /\ imageQueue' \in [open : BOOLEAN, q : Seq(ImageChunks)]
      /\ Len(imageQueue'.q) <= applied'
      /\ \A i \in 1 .. Len(imageQueue'.q) : imageQueue'.q[i] = AllChunks[Taken' + i]
  BY <1>1, Takes
<1>3. /\ ReplyTyped /\ PartsHold(parts) /\ CollectOK /\ WholeImages
      /\ NumImages \in Nat \ {0} /\ NumChunks \in Nat \ {0}
  BY ReplyConstants DEF ReplyInv
<1>4. /\ yielded = << >> /\ done = Cardinality(Completed(parts)) /\ done < NumImages
      /\ \A x \in DOMAIN parts :
           /\ x[2] = 0
           /\ \A c \in DOMAIN parts[x].got : \E n \in 1 .. Taken : AllChunks[n] = parts[x].got[c]
  BY <1>1, <1>3 DEF CollectOK
<1>5. ChunksOK' /\ ReadInOrder' /\ StreamOK'
  BY <1>1, <1>2 DEF ChunksOK, ReadInOrder, StreamOK
<1>6. \A n \in 1 .. Taken : n \in 1 .. Taken'
  BY <1>2
<1>7. CASE ch.p # 0
  <2>1. parts' = parts /\ done' = done /\ yielded' = yielded /\ reply' = reply
    BY <1>7 DEF ReadCollect
  <2>2. CollectOK'
    BY <1>1, <1>4, <1>6, <2>1 DEF CollectOK
  <2>3. ReplyTyped' /\ PartsHold(parts)' /\ WholeImages'
    BY <1>1, <1>2, <1>3, <2>1 DEF ReplyTyped, PartsHold, WholeImages
  <2> QED BY <1>5, <2>2, <2>3 DEF ReplyInv
<1>8. CASE ch.p = 0
  <2>1. /\ parts' = new
        /\ done' = IF all THEN done + 1 ELSE done
        /\ reply' = IF done' >= NumImages THEN "done" ELSE "open"
        /\ yielded' = IF done' >= NumImages
                      THEN [i \in 1 .. NumImages |-> Joined(new[<<i - 1, 0>>])] ELSE yielded
    BY <1>8 DEF ReadCollect
  <2>2. k = <<ch.img, 0>> /\ k[2] = 0
    BY <1>8 DEF KeyOf
  <2>3. /\ DOMAIN new = DOMAIN parts \cup {k} /\ PartsHold(new)
        /\ \A x \in DOMAIN parts : x # k => new[x] = parts[x]
        /\ new[k].got[ch.c] = ch /\ ch.c \in DOMAIN new[k].got
        /\ k \in DOMAIN parts =>
             /\ new[k].p = parts[k].p
             /\ DOMAIN new[k].got = DOMAIN parts[k].got \cup {ch.c}
             /\ \A i \in DOMAIN parts[k].got : i # ch.c => new[k].got[i] = parts[k].got[i]
        /\ k \notin DOMAIN parts => new[k].p = ch.p /\ DOMAIN new[k].got = {ch.c}
    BY <1>2, <1>3, WithIs
  <2>4. /\ ch.img \in 0 .. NumImages - 1 /\ ch.c \in 0 .. NumChunks - 1
        /\ ch = [img |-> ch.img, p |-> 0, c |-> ch.c]
    BY <1>2, <1>8 DEF ImageChunks
  <2>5. ASSUME NEW i, NEW e, Holds(<<i, 0>>, e), NEW c \in DOMAIN e.got
        PROVE  e.got[c] = [img |-> i, p |-> 0, c |-> c]
    <3> DEFINE g == e.got[c]
    <3>1. g \in ImageChunks /\ g.c = c /\ KeyOf(g) = <<i, 0>>
      BY <2>5 DEF Holds
    <3> HIDE DEF g
    <3>2. g = [img |-> g.img, p |-> g.p, c |-> g.c]
      BY <3>1 DEF ImageChunks
    <3>3. g.img = i /\ g.p = 0
      BY <3>1 DEF KeyOf
    <3> QED BY <3>1, <3>2, <3>3 DEF g
  <2>6. ch.img \notin Completed(parts)
    <3> SUFFICES ASSUME ch.img \in Completed(parts) PROVE FALSE
      OBVIOUS
    <3>1. k \in DOMAIN parts /\ Complete(parts[k])
      BY <2>2 DEF Completed
    <3>2. Holds(k, parts[k])
      BY <1>3, <3>1 DEF PartsHold
    <3>3. ch.c \in DOMAIN parts[k].got
      BY <2>4, <3>1, <3>2, CompleteIs
    <3>4. parts[k].got[ch.c] = ch
      BY <2>2, <2>4, <2>5, <3>2, <3>3
    <3>5. PICK n \in 1 .. Taken : AllChunks[n] = ch
      BY <1>4, <3>1, <3>3, <3>4
    <3> DEFINE t == Taken
    <3>6. n \in 1 .. Total /\ t + 1 \in 1 .. Total /\ AllChunks[n] = AllChunks[t + 1]
          /\ n # t + 1
      BY <1>2, <3>5, TotalIs
    <3> HIDE DEF t
    <3> QED BY <3>6, OnceEach
  <2> HIDE DEF ch, new, k, all
  <2>7. Completed(new) = IF all THEN Completed(parts) \cup {ch.img} ELSE Completed(parts)
    <3>1. ASSUME NEW i \in 0 .. NumImages - 1, i # ch.img
          PROVE  i \in Completed(new) <=> i \in Completed(parts)
      <4>1. <<i, 0>> # k
        BY <2>2, <3>1
      <4>2. <<i, 0>> \in DOMAIN new <=> <<i, 0>> \in DOMAIN parts
        BY <2>3, <4>1
      <4>3. <<i, 0>> \in DOMAIN parts => new[<<i, 0>>] = parts[<<i, 0>>]
        BY <2>3, <4>1
      <4> QED BY <4>2, <4>3 DEF Completed
    <3>2. ch.img \in Completed(new) <=> all
      BY <2>2, <2>3, <2>4 DEF Completed, all
    <3>3. Completed(new) \subseteq 0 .. NumImages - 1 /\ Completed(parts) \subseteq 0 .. NumImages - 1
      BY DEF Completed
    <3> QED BY <2>4, <2>6, <3>1, <3>2, <3>3
  <2>8. /\ IsFiniteSet(0 .. NumImages - 1) /\ Cardinality(0 .. NumImages - 1) = NumImages
        /\ IsFiniteSet(1 .. NumImages) /\ Cardinality(1 .. NumImages) = NumImages
    <3>1. /\ 0 \in Int /\ 1 \in Int /\ NumImages \in Int /\ NumImages - 1 \in Int
          /\ ~(0 > NumImages - 1) /\ ~(1 > NumImages)
          /\ NumImages - 1 - 0 + 1 = NumImages /\ NumImages - 1 + 1 = NumImages
      BY <1>3
    <3>2. /\ IsFiniteSet(0 .. NumImages - 1)
          /\ Cardinality(0 .. NumImages - 1) =
               IF 0 > NumImages - 1 THEN 0 ELSE NumImages - 1 - 0 + 1
      BY <3>1, FS_Interval
    <3>3. /\ IsFiniteSet(1 .. NumImages)
          /\ Cardinality(1 .. NumImages) = IF 1 > NumImages THEN 0 ELSE NumImages - 1 + 1
      BY <3>1, FS_Interval
    <3> QED BY <3>1, <3>2, <3>3
  <2>9. IsFiniteSet(Completed(parts)) /\ done \in Nat
    <3>1. Completed(parts) \in SUBSET (0 .. NumImages - 1)
      BY DEF Completed
    <3>2. IsFiniteSet(Completed(parts))
      BY <2>8, <3>1, FS_Subset
    <3> QED BY <1>3, <3>2 DEF ReplyTyped
  <2>10. done' = Cardinality(Completed(new)) /\ done' \in Nat /\ done' <= NumImages
    <3>1. Cardinality(Completed(parts) \cup {ch.img}) = Cardinality(Completed(parts)) + 1
      BY <2>6, <2>9, FS_AddElement
    <3>2. done' = Cardinality(Completed(new))
      BY <1>4, <2>1, <2>7, <3>1
    <3> QED BY <1>3, <1>4, <2>1, <2>9, <3>2
  <2>11. ASSUME NEW x \in DOMAIN new
         PROVE  /\ x[2] = 0
                /\ \A c \in DOMAIN new[x].got : \E n \in 1 .. Taken' : AllChunks[n] = new[x].got[c]
    <3>1. Taken' \in 1 .. Taken' /\ AllChunks[Taken'] = ch
      BY <1>2
    <3>2. \A y \in DOMAIN parts : \A c \in DOMAIN parts[y].got :
            \E n \in 1 .. Taken' : AllChunks[n] = parts[y].got[c]
      BY <1>4, <1>6
    <3>3. CASE x # k
      <4>1. x \in DOMAIN parts /\ new[x] = parts[x]
        BY <2>3, <3>3
      <4> QED BY <1>4, <3>2, <4>1
    <3>4. CASE x = k
      <4> SUFFICES ASSUME NEW c \in DOMAIN new[k].got
                   PROVE  \E n \in 1 .. Taken' : AllChunks[n] = new[k].got[c]
        BY <2>2, <3>4
      <4>1. CASE c = ch.c
        BY <2>3, <3>1, <4>1
      <4>2. CASE c # ch.c
        <5>1. k \in DOMAIN parts /\ c \in DOMAIN parts[k].got /\ new[k].got[c] = parts[k].got[c]
          BY <2>3, <4>2
        <5> QED BY <3>2, <5>1
      <4> QED BY <4>1, <4>2
    <3> QED BY <3>3, <3>4
  <2>12. CASE done' >= NumImages
    <3> DEFINE ys == [i \in 1 .. NumImages |-> Joined(new[<<i - 1, 0>>])]
    <3>1. yielded' = ys /\ reply' = "done" /\ done' = NumImages
      BY <1>3, <2>1, <2>10, <2>12
    <3>2. Completed(new) = 0 .. NumImages - 1
      <4>1. Completed(new) \in SUBSET (0 .. NumImages - 1)
        BY DEF Completed
      <4> QED BY <2>8, <2>10, <3>1, <4>1, FS_Subset
    <3>3. ASSUME NEW i \in 1 .. NumImages
          PROVE  /\ ys[i] \in Given /\ ys[i].p = 0 /\ i - 1 \in 0 .. NumImages - 1
                 /\ \A c \in 1 .. NumChunks : ys[i].data[c] = [img |-> i - 1, p |-> 0, c |-> c - 1]
      <4> DEFINE j == i - 1
                 e == new[<<j, 0>>]
      <4>1. j \in 0 .. NumImages - 1
        BY <1>3
      <4>2. ys[i] = Joined(e)
        OBVIOUS
      <4> HIDE DEF j, ys
      <4>3. <<j, 0>> \in DOMAIN new /\ Complete(e)
        BY <3>2, <4>1 DEF Completed
      <4>4. Holds(<<j, 0>>, e)
        BY <2>3, <4>3 DEF PartsHold
      <4> HIDE DEF e
      <4>5. e.p = 0
        BY <4>4 DEF Holds
      <4>6. /\ Joined(e) \in Given /\ Joined(e).p = e.p
            /\ \A c \in 1 .. NumChunks : Joined(e).data[c] = e.got[c - 1]
        BY <4>3, <4>4, JoinedIs
      <4>7. DOMAIN e.got = 0 .. NumChunks - 1
        BY <4>3, <4>4, CompleteIs
      <4>8. ASSUME NEW c \in 1 .. NumChunks
            PROVE  e.got[c - 1] = [img |-> j, p |-> 0, c |-> c - 1]
        <5>1. c - 1 \in DOMAIN e.got
          BY <1>3, <4>7
        <5> QED BY <2>5, <4>4, <5>1
      <4> QED BY <4>1, <4>2, <4>5, <4>6, <4>8 DEF j
    <3>4. DOMAIN ys = 1 .. NumImages /\ ys \in [1 .. NumImages -> Given]
      BY <3>3
    <3> HIDE DEF ys
    <3>5. ys \in Seq(Given)
      BY <1>3, <3>4
    <3>6. Finals(ys) = 1 .. NumImages
      BY <3>3, <3>4 DEF Finals
    <3>7. CollectOK'
      BY <2>8, <3>1, <3>6 DEF CollectOK
    <3>8. WholeImages'
      BY <3>1, <3>3, <3>4 DEF WholeImages
    <3>9. ReplyTyped'
      BY <1>1, <1>2, <1>3, <2>10, <3>1, <3>5 DEF ReplyTyped
    <3>10. PartsHold(parts)'
      BY <2>1, <2>3 DEF PartsHold
    <3> QED BY <1>5, <3>7, <3>8, <3>9, <3>10 DEF ReplyInv
  <2>13. CASE ~(done' >= NumImages)
    <3>1. yielded' = << >> /\ reply' = "open" /\ done' < NumImages
      BY <1>3, <1>4, <2>1, <2>10, <2>13
    <3>2. CollectOK'
      BY <2>1, <2>10, <2>11, <3>1 DEF CollectOK
    <3>3. WholeImages'
      BY <3>1 DEF WholeImages
    <3>4. ReplyTyped'
      BY <1>1, <1>2, <1>3, <1>4, <2>10, <3>1 DEF ReplyTyped
    <3>5. PartsHold(parts)'
      BY <2>1, <2>3 DEF PartsHold
    <3> QED BY <1>5, <3>2, <3>3, <3>4, <3>5 DEF ReplyInv
  <2> QED BY <2>12, <2>13
<1> QED BY <1>7, <1>8

LEMMA NoneIsMissing == ReplyInv => NoneMissing
<1> SUFFICES ASSUME ReplyInv, reply = "done"
             PROVE  Cardinality({n \in DOMAIN yielded : yielded[n].p = 0}) = NumImages
  BY DEF NoneMissing
<1>1. StreamOK /\ CollectOK /\ reader \in {"stream", "collect"}
  BY DEF ReplyInv, ReplyTyped
<1>2. Cardinality(Finals(yielded)) = NumImages
  BY <1>1 DEF StreamOK, CollectOK
<1> QED BY <1>2 DEF Finals

(* Every image a client is given is one image: the chunks of one image and *)
(* of the partial it is said to be, in their order, if the reader was      *)
(* there from the start; and a reply taken for done has every image, for   *)
(* any numbers of images, partials and chunks and wherever the reader      *)
(* comes in (_generate_image_stream and _collect_image_chunks of main.py). *)
THEOREM RepliesAreWhole == ReplySpec => []RepliesWhole
<1>1. ReplyInit => ReplyInv
  BY ReplyInitInv
<1>2. ReplyInv /\ [ReplyNext]_rpvars => ReplyInv'
  BY RegisterInv, ApplyImageChunkInv, ApplyErrorChunkInv, ReadImagesInv, ReadCollectInv,
     QueueClosedInv DEF ReplyNext
<1>3. ReplyInv => RepliesWhole
  BY NoneIsMissing DEF ReplyInv, RepliesWhole
<1> QED BY <1>1, <1>2, <1>3, PTL DEF ReplySpec
=============================================================================
